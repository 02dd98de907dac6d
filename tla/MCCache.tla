------------------------------ MODULE MCCache -------------------------------
(***************************************************************************)
(* An instance of Cache for TLC.                                           *)
(***************************************************************************)
EXTENDS Cache, TLC

\* URIs, connections and options are interchangeable.
Names ==
    Permutations(Uris) \cup Permutations(Conns) \cup Permutations(Options)

\* Addresses serve to tell entries apart: the place in the list does as well.
Place(a) == IF a \in Allocated(cache) THEN At(cache, a) ELSE Null

Places ==
    <<[i \in 1 .. Len(cache) |-> [cache[i] EXCEPT !.at = i]],
      [k \in 1 .. Len(docs) |-> [docs[k] EXCEPT !.at = Place(@)]],
      [s \in Conns |-> [conn[s] EXCEPT !.cached = Place(@)]],
      [dialog EXCEPT !.at = Place(@)], broken>>
=============================================================================
