---------------------------- MODULE MCTraceroute ----------------------------
(***************************************************************************)
(* Small instances of Traceroute for TLC.                                  *)
(***************************************************************************)
EXTENDS Traceroute

\* A command line: flags, packetlen, -f, -m and -q.
Opt(flags, len, first, max, q) ==
    [flags |-> flags, packetlen |-> len, first |-> first, max |-> max,
     nprobes |-> q]

Table == <<9, 3, 0>>

\* -m 1; -m 2 -q 2; -f 2 -m 3 -F -q 2 with a packet larger than the smallest
\* MTU; -I; -P -m 2 -q 2; -z -I -q 1; -P with a packet length between two
\* entries of the table, which an MTU of 2 makes shorter than the entry that
\* comes next
HopOptions == {Opt({}, 0, 1, 1, 3), Opt({}, 0, 1, 2, 2),
               Opt({"F"}, 6, 2, 3, 2), Opt({"I"}, 0, 1, 3, 1),
               Opt({"P"}, 0, 1, 2, 2), Opt({"z", "I"}, 0, 1, 2, 1),
               Opt({"P"}, 6, 1, 2, 1)}
\* A packet longer than the interface's MTU
BigOptions == {Opt({}, 6, 1, 1, 1)}
=============================================================================
