------------------------------ MODULE Document ------------------------------
(***************************************************************************)
(* What a cache entry promises its users (cache/cache.h): the bytes of a   *)
(* document as far as they are known.  A protocol writes them in any       *)
(* order, again and again.  How they are kept is Fragments' business.      *)
(***************************************************************************)
EXTENDS Naturals, Sequences, FiniteSetsExt

CONSTANTS
    MaxEnd,        \* bound: the end of the longest document
    Versions       \* what a byte can be: that of an edition of the document

VARIABLES
    bytes,         \* offset -> byte, defined for the bytes that are known
    length,        \* where the document ends, as far as is known
    id,            \* what a user compares to see whether it is the same
    call           \* the last operation, with its arguments and its result

docVars == <<bytes, length, id, call>>

DocInit == bytes = << >> /\ length = 0 /\ id = 0 /\ call = << >>

\* No byte outside lost is gone, and none outside fresh is new or different.
Keeps(lost, fresh) ==
    /\ DOMAIN bytes \ lost \subseteq DOMAIN bytes'
    /\ \A i \in DOMAIN bytes' \ fresh :
          i \in DOMAIN bytes /\ bytes'[i] = bytes[i]

\* Of the bytes that are replaced, those that have to be like the new ones for
\* what is behind to be of the same edition: the last one, and what comes
\* after a byte that was missing.
Compared(o, n) ==
    {i \in DOMAIN bytes \cap (o .. o + n - 1) :
        i = o + n - 1 \/ \E j \in o .. i : j \notin DOMAIN bytes}

\* New bytes replace old ones.  What was known before them stays.  What was
\* known behind them may be of another edition: unless the bytes compared say
\* that it is not, the document ends here.  For lack of memory what is next
\* to the new bytes may be lost, uncompared.
Write(o, n, v) ==
    /\ call' = <<"write", o, n, v>>
    /\ \/ length' = o + n
       \/ /\ length' = Max({length, o + n})
          /\ \/ \A i \in Compared(o, n) : bytes[i] = v
             \/ o + n \in DOMAIN bytes \ DOMAIN bytes'
    /\ \A i \in o .. o + n - 1 : i \in DOMAIN bytes' /\ bytes'[i] = v
    /\ \A i \in DOMAIN bytes' : i < length'
    /\ Keeps(o .. MaxEnd, o .. o + n - 1)

\* There is no memory for the new bytes; those they were to replace may go.
WriteFails(o, n, v) ==
    /\ call' = <<"write", o, n, v>>
    /\ length' = Max({length, o + n})
    /\ Keeps(o .. o + n - 1, {})

\* The document ends at o.
Cut(o) ==
    /\ call' = <<"cut", o>>
    /\ length' = Min({length, o})
    /\ \A i \in DOMAIN bytes' : i < o
    /\ Keeps(o .. MaxEnd, {})

\* What is before o is no longer needed.
Strip(o) ==
    /\ call' = <<"strip", o>>
    /\ length' = length
    /\ \A i \in DOMAIN bytes' : i >= o
    /\ Keeps(0 .. o - 1, {})

\* Every byte up to the first one that is missing.
Beginning ==
    LET n == Min({i \in 0 .. MaxEnd + 1 : i \notin DOMAIN bytes})
    IN  [i \in 1 .. n |-> bytes[i - 1]]

\* "the complete source of all currently downloaded fragments"; nothing
\* changes for the user.
Read ==
    /\ call' = <<"read", Beginning>>
    /\ UNCHANGED <<bytes, length>>

\* There is no memory to put it together: a part of it.
ReadPart ==
    /\ \E n \in 0 .. Len(Beginning) :
          call' = <<"part", SubSeq(Beginning, 1, n)>>
    /\ UNCHANGED <<bytes, length>>

\* "Change each time entry is modified": a document that was formatted from
\* the entry is taken for current as long as the id is the same
\* (viewer/text/draw.c).  Then no byte has appeared or changed, though some
\* may have been cut off.
Marked == id' # id \/ Keeps(0 .. MaxEnd, {})

DocNext ==
    /\ \/ Read
       \/ ReadPart
       \/ \E o \in 0 .. MaxEnd :
            \/ Cut(o)
            \/ Strip(o)
            \/ \E n \in 1 .. MaxEnd - o, v \in Versions :
                Write(o, n, v) \/ WriteFails(o, n, v)
    /\ Marked

DocSpec == DocInit /\ [][DocNext]_docVars
=============================================================================
