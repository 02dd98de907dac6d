---------------------------- MODULE MCFragments -----------------------------
(***************************************************************************)
(* An instance of Fragments for TLC, and the refinement of Document.  Two  *)
(* variables record what Document knows of: they change nothing.           *)
(***************************************************************************)
EXTENDS Fragments, TLC

VARIABLES
    bytes,         \* BytesOf(frag), which TLC then computes once per state
    call           \* the operation that led to this state

Call(op) == call' = op /\ bytes' = BytesOf(frag')

\* What get_cache_fragment() returns: the first fragment of the list.
Returned == IF Begins THEN frag[1].data ELSE << >>

MCInit == Init /\ bytes = BytesOf(frag) /\ call = << >>

MCNext ==
    \/ \E o \in 0 .. MaxEnd, v \in Versions : \E n \in 1 .. MaxEnd - o :
          AddFragment(o, n, v) /\ Call(<<"write", o, n, v>>)
    \/ GetCacheFragment /\ Call(<<"read", Returned'>>)
    \/ GetFirstFragment /\ Call(<<"part", Returned'>>)
    \/ \E n \in 0 .. MaxEnd : NormalizeCacheEntry(n) /\ Call(<<"cut", n>>)
    \/ \E o \in 1 .. MaxEnd : FreeEntryTo(o) /\ Call(<<"strip", o>>)
    \/ DeleteEntryContent /\ Call(<<"cut", 0>>)

MCSpec == MCInit /\ [][MCNext]_<<vars, bytes, call>>

\* The editions of the document are interchangeable.
Editions == Permutations(Versions)

\* Which call led to a state makes no difference to what follows.
State == vars

\* The refinement mapping: Document's variables as functions of this state.
Doc == INSTANCE Document
         WITH bytes <- bytes, length <- length, id <- id, call <- call

\* The fragments implement Document: each operation does what its arguments
\* say, the last write wins, no operation brings back, invents or alters a
\* byte, only what an operation is about is lost, a reader gets everything up
\* to the first gap, and the id of the entry tells that a byte is new.
ImplementsDocument == Doc!DocSpec
=============================================================================
