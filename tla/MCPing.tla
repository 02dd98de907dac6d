------------------------------- MODULE MCPing -------------------------------
(***************************************************************************)
(* Small instances of Ping for TLC.                                        *)
(***************************************************************************)
EXTENDS Ping

\* A command line, from its -c, -l and -w and the flags -f, -o and "timed".
Opt(c, l, w, flags) ==
    [count |-> c, preload |-> l, maxwait |-> w, flood |-> "f" \in flags,
     once |-> "o" \in flags, timing |-> "t" \in flags]

\* -c 3, -c 2 -o, -c 1 -l 2, -c 3 -f, no round trips measured
CountOptions == {Opt(3, 0, 0, {}), Opt(2, 0, 0, {"o"}), Opt(1, 2, 0, {}),
                 Opt(3, 0, 0, {"f"})}
\* -c 2, -c 1 -l 1 and -w 3 with round trips measured; -c 3 -f without
TimedOptions == {Opt(2, 0, 0, {"t"}), Opt(1, 1, 0, {"t"}), Opt(0, 0, 3, {"t"}),
                 Opt(3, 0, 0, {"f"})}
=============================================================================
