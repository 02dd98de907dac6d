---------------------------- MODULE MCConnection ----------------------------
(***************************************************************************)
(* Instances of Connection for TLC.                                        *)
(***************************************************************************)
EXTENDS Connection, TLC

\* "f" is a local file, the other documents are on one host.
MCHostOf == [u \in Uris |-> IF u = "f" THEN NoHost ELSE "hostA"]

\* A kept socket of one of them also serves the other.
MCSiteOf == [u \in Uris |-> IF u = "f" THEN NoHost ELSE "siteA"]

OneLimit == {[conns |-> 2, tohost |-> 1]}

TwoLimits == {[conns |-> 2, tohost |-> 1], [conns |-> 1, tohost |-> 1]}

\* Connections and downloads are interchangeable.
Symmetric == Permutations(Conns) \cup Permutations(Downloads)
=============================================================================
