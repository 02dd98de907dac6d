----------------------------- MODULE Fragments ------------------------------
(***************************************************************************)
(* The contents of one cache entry of elinks, cache/cache.c: a list of     *)
(* fragments that add_fragment() fills and cuts, get_cache_fragment()      *)
(* joins for the renderer, and normalize_cache_entry(), free_entry_to()    *)
(* and delete_entry_content() shorten.                                     *)
(*                                                                         *)
(* Protocols write wherever conn->from stands: a retry goes back, a server *)
(* that ignores a range starts again from zero, a reload meets what an     *)
(* earlier edition of the document left.  Memory may run out at every      *)
(* allocation.                                                             *)
(***************************************************************************)
EXTENDS Naturals, Integers, Sequences, FiniteSetsExt, SequencesExt

CONSTANTS
    MaxEnd,        \* bound: the end of the longest document
    MaxSize,       \* bound: data_size, which can exceed the bytes kept
    PadUnit,       \* CACHE_PAD rounds up to a multiple of it, 2^14
    Versions       \* the editions of the document a byte can be from

ASSUME FragmentsAssumption ==
    /\ MaxEnd \in Nat /\ MaxSize \in Nat
    /\ PadUnit \in Nat \ {0}
    /\ Versions # {}

VARIABLES
    frag,          \* cached->frag, the list of fragments
    length,        \* cached->length
    data_size,     \* cached->data_size
    incomplete,    \* cached->incomplete
    id             \* cached->id, changed by each id_counter++ (modulo two)

vars == <<frag, length, data_size, incomplete, id>>

-----------------------------------------------------------------------------

\* struct fragment; its length is Len(data).
Fragment == [offset : 0 .. MaxEnd, real_length : Nat, data : Seq(Versions)]

CachePad(n) == (n \div PadUnit + 1) * PadUnit

End(f) == f.offset + Len(f.data)

Total(fs) ==
    LET sum[k \in 0 .. Len(fs)] ==
            IF k = 0 THEN 0 ELSE sum[k - 1] + Len(fs[k].data)
    IN  sum[Len(fs)]

\* enlarge_entry(), told of all that is added and removed as fs becomes gs.
Enlarged(fs, gs) == data_size + Total(gs) - Total(fs)

Shortened(f, n) == [f EXCEPT !.data = SubSeq(@, 1, n)]

\* The bytes f and g have in common are the same (memcmp).
Agree(f, g) ==
    \A i \in 1 .. Len(f.data), j \in 1 .. Len(g.data) :
        f.offset + i = g.offset + j => f.data[i] = g.data[j]

\* remove_overlaps(fs[k]): the fragments that begin before its end.
Overlapped(fs, k) == {j \in k + 1 .. Len(fs) : fs[j].offset < End(fs[k])}

\* They go; what the last one has beyond the end is appended first, if there
\* is memory.
RemoveOverlaps(fs, k, mem) ==
    LET f == fs[k]
        last == Max(Overlapped(fs, k) \cup {k})
        l == fs[last]
        tail == SubSeq(l.data, End(f) - l.offset + 1, Len(l.data))
        joined == IF End(l) <= End(f) \/ ~mem THEN f
                  ELSE [f EXCEPT !.data = @ \o tail,
                                 !.real_length = End(l) - f.offset]
    IN  SubSeq(fs, 1, k - 1) \o <<joined>>
          \o SubSeq(fs, last + 1, Len(fs))

\* Mutant of Trunc: the bytes are not compared.
TruncNever(fs, k, mem) == FALSE

\* *trunc: an overlapped fragment was different.  One that could not be
\* appended has not been compared.
Trunc(fs, k, mem) ==
    \E j \in Overlapped(fs, k) :
        (mem \/ End(fs[j]) <= End(fs[k])) /\ ~Agree(fs[k], fs[j])

\* truncate_entry(): the first fragment that goes beyond the end is cut, and
\* the rest deleted.
Truncate(fs, end, final) ==
    LET over == {i \in DOMAIN fs : end - fs[i].offset < Len(fs[i].data)}
        k == Min(over)
        n == end - fs[k].offset
        cut == Shortened(fs[k], n)
    IN  IF over = {} THEN fs
        ELSE SubSeq(fs, 1, k - 1)
               \o (IF n <= 0 THEN << >>
                   ELSE IF final THEN <<[cut EXCEPT !.real_length = n]>>
                   ELSE <<cut>>)

Init ==
    /\ frag = << >>
    /\ length = 0
    /\ data_size = 0
    /\ incomplete = TRUE
    /\ id = 0

-----------------------------------------------------------------------------
(***************************************************************************)
(* add_fragment(cached, o, data, n).  All of the new bytes are of the same *)
(* edition v of the document.                                              *)
(***************************************************************************)

\* Where the search stops: the first fragment that begins behind o or does
\* not end before it.
Place(o) ==
    Min({i \in 1 .. Len(frag) : frag[i].offset > o \/ End(frag[i]) >= o}
          \cup {Len(frag) + 1})

\* That fragment can take the beginning of the new data.
Touches(o) == Place(o) <= Len(frag) /\ frag[Place(o)].offset <= o

Fits(o, n) ==
    LET f == frag[Place(o)]
    IN  o + n <= End(f) \/ o + n - f.offset <= f.real_length

\* memcpy() of n bytes at offset o, which f may have to grow for.
Copied(f, o, n, v) ==
    LET m == o - f.offset
    IN  [f EXCEPT !.data = [i \in 1 .. Max({Len(@), m + n}) |->
                              IF i \in m + 1 .. m + n THEN v ELSE @[i]]]

NewId == id' = 1 - id

\* The data goes into an existing fragment, and nothing behind it is kept.
InsertInto(o, n, v, mem) ==
    /\ Touches(o) /\ Fits(o, n)
    /\ LET k == Place(o)
           written == [frag EXCEPT ![k] = Copied(@, o, n, v)]
           joined == RemoveOverlaps(written, k, mem)
       IN  /\ frag' = Truncate(joined, o + n, FALSE)
           /\ data_size' = Enlarged(frag, frag')
    /\ length' = o + n
    /\ incomplete' = (incomplete \/ length > o + n)
    /\ NewId

\* Mutant of MadeRoom: the fragment that is in the way is not cut.
MadeRoomUncut(o) == frag

\* The list before a new fragment is put at Place(o), or behind the fragment
\* there if it was cut to make room.
MadeRoom(o) ==
    IF Touches(o)
    THEN [frag EXCEPT ![Place(o)] = Shortened(@, o - @.offset)]
    ELSE frag

NewPlace(o) == IF Touches(o) THEN Place(o) + 1 ELSE Place(o)

\* A new fragment.  data_size is not told of the cut.
InsertNew(o, n, v, mem) ==
    /\ Touches(o) => ~Fits(o, n)
    /\ LET new == [offset |-> o, real_length |-> CachePad(n),
                   data |-> [i \in 1 .. n |-> v]]
           k == NewPlace(o)
           added == InsertAt(MadeRoom(o), k, new)
           joined == RemoveOverlaps(added, k, mem)
           end == Max({length, o + n})
       IN  /\ frag' = IF Trunc(added, k, mem)
                      THEN Truncate(joined, o + n, FALSE) ELSE joined
           /\ data_size' = Enlarged(MadeRoom(o), frag')
           /\ length' = IF Trunc(added, k, mem) THEN o + n ELSE end
           /\ incomplete' = (incomplete \/ length' < end)
    /\ NewId

\* frag_alloc() fails: the cut has already been made.
InsertFails(o, n) ==
    /\ Touches(o) => ~Fits(o, n)
    /\ frag' = MadeRoom(o)
    /\ length' = Max({length, o + n})
    /\ NewId
    /\ UNCHANGED <<data_size, incomplete>>

\* Data up to end can overlap with part of a fragment.
Reallocates(end) ==
    \E i \in 1 .. Len(frag) : frag[i].offset < end /\ end < End(frag[i])

AddFragment(o, n, v) ==
    /\ data_size + n <= MaxSize
    /\ \/ \E mem \in BOOLEAN :
            /\ mem \/ Reallocates(o + n)
            /\ InsertInto(o, n, v, mem) \/ InsertNew(o, n, v, mem)
       \/ InsertFails(o, n)

-----------------------------------------------------------------------------

\* The fragments get_cache_fragment() can join: up to the first gap.
Adjacent ==
    Max({k \in 1 .. Len(frag) :
            \A i \in 2 .. k : frag[i].offset = End(frag[i - 1])})

Begins == frag # << >> /\ frag[1].offset = 0

\* What get_cache_fragment() returns when there is memory.
CacheFragment ==
    LET joined[k \in 0 .. Len(frag)] ==
            IF k = 0 THEN << >> ELSE joined[k - 1] \o frag[k].data
    IN  IF Begins THEN joined[Adjacent] ELSE << >>

\* get_cache_fragment(): the fragments up to the first gap become one.
GetCacheFragment ==
    /\ frag' = IF Begins
               THEN <<[offset |-> 0, data |-> CacheFragment,
                       real_length |-> IF Adjacent = 1
                                       THEN frag[1].real_length
                                       ELSE Len(CacheFragment)]>>
                      \o SubSeq(frag, Adjacent + 1, Len(frag))
               ELSE frag
    /\ UNCHANGED <<length, data_size, incomplete, id>>

\* Without memory the list stays as it is and the first one is returned.
GetFirstFragment ==
    /\ Begins /\ Adjacent > 1
    /\ UNCHANGED vars

\* normalize_cache_entry(): the document is complete and ends at n.
NormalizeCacheEntry(n) ==
    /\ frag' = Truncate(frag, n, TRUE)
    /\ data_size' = Enlarged(frag, frag')
    /\ length' = Min({length, n})
    /\ incomplete' = FALSE
    /\ UNCHANGED id

\* free_entry_to(): a detached connection strips what has been read.
FreeEntryTo(o) ==
    LET first == Min({i \in 1 .. Len(frag) : End(frag[i]) > o}
                       \cup {Len(frag) + 1})
        strip(f) == IF f.offset >= o THEN f
                    ELSE [f EXCEPT !.offset = o,
                            !.data = SubSeq(@, o - f.offset + 1, Len(@))]
    IN  /\ frag' = [i \in 1 .. Len(frag) + 1 - first |->
                      strip(frag[first + i - 1])]
        /\ data_size' = Enlarged(frag, frag')
        /\ UNCHANGED <<length, incomplete, id>>

\* delete_entry_content(): the server has another edition.
DeleteEntryContent ==
    /\ frag' = << >>
    /\ data_size' = 0
    /\ length' = 0
    /\ incomplete' = TRUE
    /\ NewId

Next ==
    \/ \E o \in 0 .. MaxEnd, v \in Versions :
          \E n \in 1 .. MaxEnd - o : AddFragment(o, n, v)
    \/ GetCacheFragment \/ GetFirstFragment
    \/ \E n \in 0 .. MaxEnd : NormalizeCacheEntry(n)
    \/ \E o \in 1 .. MaxEnd : FreeEntryTo(o)
    \/ DeleteEntryContent

Spec == Init /\ [][Next]_vars

-----------------------------------------------------------------------------
(***************************************************************************)
(* Properties.                                                             *)
(***************************************************************************)

\* The entry and its fragments have their types: no fragment begins outside of
\* the document or has a negative amount of memory.
TypeOK ==
    /\ frag \in Seq(Fragment)
    /\ length \in 0 .. MaxEnd
    /\ data_size \in Nat
    /\ incomplete \in BOOLEAN
    /\ id \in 0 .. 1

\* get_cache_fragment() calls INTERNAL("fragments overlap") otherwise: the
\* list is sorted and no two fragments overlap, whatever was written where.
\* No fragment is larger than the memory it has, and none goes beyond the
\* length of the entry.  The account that garbage_collection() works with
\* never says less than what the fragments hold, so that subtracting a
\* fragment cannot make it negative ("cache entry data_size underflow").
WellFormed ==
    /\ TypeOK
    /\ \A i, j \in 1 .. Len(frag) : i < j => End(frag[i]) <= frag[j].offset
    /\ \A i \in 1 .. Len(frag) :
        /\ Len(frag[i].data) <= frag[i].real_length
        /\ End(frag[i]) <= length
    /\ data_size >= Total(frag)

\* The bytes of an entry with the fragments fs.
BytesOf(fs) ==
    LET at(i) == {k \in 1 .. Len(fs) : i \in fs[k].offset .. End(fs[k]) - 1}
        known == {i \in 0 .. MaxEnd : at(i) # {}}
    IN  [i \in known |-> LET f == fs[Min(at(i))]
                         IN  f.data[i - f.offset + 1]]
=============================================================================
