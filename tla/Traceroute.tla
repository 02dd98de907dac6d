----------------------------- MODULE Traceroute -----------------------------
(***************************************************************************)
(* The probing loop of traceroute/traceroute.c: main's option processing   *)
(* and its loops over hops and probes, send_probe(), wait_for_reply(),     *)
(* packet_ok() and frag_err().                                             *)
(*                                                                         *)
(* The program interleaves with the clock and with the network, which      *)
(* loses, duplicates, delays and reorders the answers to every probe sent, *)
(* and hands traceroute all other ICMP traffic of the host as well.        *)
(***************************************************************************)
EXTENDS Integers, Sequences, FiniteSets

CONSTANTS
    Options,      \* the command lines considered, see OptionType
    Port,         \* base UDP port (-p)
    SeqSize,      \* ports and icmp_seq are 16 bits wide: 2^16 in the code
    WaitTime,     \* -w, in seconds
    TicksPerSec,  \* resolution of the clock: 10^6 in the code
    MsTicks,      \* a millisecond, the resolution of poll(): 10^3
    Mtus,         \* the table mtus[], with its final 0
    MinPacket,    \* minpacket, the length of a probe by default
    HeaderLen,    \* an IP header: the kernel sends nothing shorter (20)
    IfMtu,        \* the MTU of the outgoing interface
    NextMtus      \* next hop MTUs that routers report

\* What main() keeps of the command line: the flags among F, P, z and I, the
\* packetlen argument (0 if absent), -f, -m and -q.
OptionType == [flags: SUBSET {"F", "P", "z", "I"}, packetlen: Nat,
               first: Nat \ {0}, max: Nat \ {0}, nprobes: Nat \ {0}]

\* main() exits when first_ttl > max_ttl, str2val() when packetlen is small.
ASSUME TracerouteOptions ==
    /\ Options \subseteq OptionType
    /\ \A o \in Options :
          /\ o.first <= o.max
          /\ o.packetlen = 0 \/ o.packetlen >= MinPacket

ASSUME TracerouteNumbers ==
    /\ Port \in Nat /\ SeqSize \in Nat /\ SeqSize >= 2
    /\ WaitTime \in Nat \ {0} /\ TicksPerSec \in Nat \ {0}
    /\ MsTicks \in Nat \ {0}
    /\ MinPacket \in Nat \ {0} /\ HeaderLen \in Nat \ {0}
    /\ IfMtu \in Nat

\* mtus[] decreases and ends in 0.  Routers report any MTU; old ones 0.
ASSUME TracerouteTable ==
    /\ Mtus \in Seq(Nat) /\ Len(Mtus) >= 3
    /\ \A i, j \in 1 .. Len(Mtus) : i < j => Mtus[j] < Mtus[i]
    /\ Mtus[Len(Mtus)] = 0
    /\ NextMtus \subseteq Nat

VARIABLES
    opt,          \* the command line of this execution
    pc,           \* where the program is
    ttl, probe,   \* the loop variables of main
    seq, packlen,
    mtuptr,       \* index into Mtus
    got_there, unreachable, sentfirst,
    phase,        \* t1's position within its second
    elapsed,      \* ticks since t1, capped by ClockCap
    until,        \* when poll() times out, in ticks since t1; else 0
    pkt,          \* the datagram wait_for_reply returned, see Packets
    log           \* history: every probe of send_probe(), with its result

conf   == <<opt>>
loop   == <<ttl, probe>>
size   == <<packlen, mtuptr>>
counts == <<got_there, unreachable, sentfirst>>
timing == <<phase, elapsed, until>>
vars   == <<conf, pc, loop, seq, size, counts, timing, pkt, log>>

MaxOf(a, b) == IF a >= b THEN a ELSE b

-----------------------------------------------------------------------------
\* Option processing.  The case of -z has no break and runs into that of -P.
Mtudisc(o) == o.flags \cap {"P", "z"} # {}
Df(o)      == o.flags \cap {"F", "P", "z"} # {}
Useicmp(o) == "I" \in o.flags

StartLen(o) ==
    IF o.packetlen # 0 THEN o.packetlen
    ELSE IF Mtudisc(o) THEN Mtus[1] ELSE MinPacket

\* packlen = *mtuptr++ comes before the packetlen argument.
StartPtr(o) == IF Mtudisc(o) THEN 2 ELSE 1

\* The 16 bits by which an answer is told from the answers to other probes:
\* icmp_seq, or the destination port.
Key(n) == IF Useicmp(opt) THEN n % SeqSize ELSE (Port + n) % SeqSize

\* Mutant of NextSeq: tests the port of the previous probe.
NextSeqStale ==
    IF ~Useicmp(opt) /\ (Port + seq) % SeqSize = 0 THEN seq + 2 ELSE seq + 1

\* seq is incremented twice when the port would be 0.
NextSeq ==
    IF ~Useicmp(opt) /\ (Port + seq + 1) % SeqSize = 0 THEN seq + 2 ELSE seq + 1

\* Mutants of TooLate: a wait that is too short, a test that is forgotten.
TooLateEarly == (phase + elapsed) \div TicksPerSec >= WaitTime
TooLateNever == FALSE

\* t2.tv_sec - t1.tv_sec > waittime
TooLate == (phase + elapsed) \div TicksPerSec > WaitTime

\* got_there || (unreachable > 0 && unreachable >= (nprobes + 1) / 2)
Stop ==
    \/ got_there > 0
    \/ unreachable > 0 /\ unreachable >= (opt.nprobes + 1) \div 2

\* What is left of the wait, or 0; poll() takes it in whole milliseconds.
Remaining == MaxOf(0, WaitTime * TicksPerSec - elapsed)
PollUntil == elapsed + (Remaining - (Remaining % MsTicks))

\* A bound: once the wait is over for certain the clock need not go on.
ClockCap == (WaitTime + 1) * TicksPerSec

-----------------------------------------------------------------------------
\* Datagrams.  pkt.probe is the probe (an index of log) that a datagram
\* answers, 0 for everything else: foreign ICMP traffic, short datagrams, a
\* recvfrom() that failed.  packet_ok() never accepts the latter.
Results  == {"pending", "star", "timxceed", "arrived", "unreach", "needfrag"}
Answers  == {"timxceed", "arrived", "unreach"}
Foreign  == [probe |-> 0, kind |-> "unreach", nextmtu |-> 0]

\* What the network may send in answer to probe i.  It keeps no datagram for
\* so long that the program's 16-bit key comes around.
Replies(i) ==
    IF ~log[i].out \/ seq - log[i].seq >= SeqSize THEN {}
    ELSE [probe: {i}, kind: Answers, nextmtu: {0}]
         \cup IF log[i].df
              THEN [probe: {i}, kind: {"needfrag"}, nextmtu: NextMtus]
              ELSE {}

Packets == {Foreign} \cup UNION {Replies(i) : i \in 1 .. Len(log)}

\* Mutant of PacketOk: the sequence number is not compared.
PacketOkAnySeq == pkt.probe # 0

\* packet_ok(packet, cc, from, seq) != 0
PacketOk == pkt.probe # 0 /\ Key(log[pkt.probe].seq) = Key(seq)

-----------------------------------------------------------------------------
Init ==
    /\ opt \in Options
    /\ pc = "probe"
    /\ ttl = opt.first /\ probe = 0
    /\ seq = 0 /\ packlen = StartLen(opt) /\ mtuptr = StartPtr(opt)
    /\ got_there = 0 /\ unreachable = 0 /\ sentfirst = 0
    /\ phase = 0 /\ elapsed = 0 /\ until = 0
    /\ pkt = Foreign
    /\ log = <<>>

\* The head of the loop over probes: t1 is taken, the port 0 is skipped and
\* send_probe(++seq, ttl, &t1) is called.
NewProbe ==
    /\ pc = "probe"
    /\ seq' = NextSeq
    /\ sentfirst' = sentfirst + 1
    /\ phase' \in 0 .. TicksPerSec - 1
    /\ elapsed' = 0 /\ until' = 0
    /\ pc' = "sendto"
    /\ UNCHANGED <<conf, loop, size, got_there, unreachable, pkt, log>>

\* send_probe(): EMSGSIZE.  "We have to just decrease the packet size until
\* we find one that works."
TooBig ==
    /\ pc = "sendto" /\ packlen > IfMtu
    /\ packlen' = Mtus[mtuptr]
    /\ mtuptr' = mtuptr + 1
    /\ UNCHANGED <<conf, pc, loop, seq, counts, timing, pkt, log>>

\* wait_for_reply(): t1 and the clock say how long poll() may take.
Wait ==
    /\ pc' = "wait"
    /\ until' = PollUntil

\* send_probe(): sendto() succeeds, or fails for another reason (sent is
\* FALSE), which is only reported.
Sent(sent) ==
    /\ pc = "sendto" /\ packlen <= IfMtu
    /\ sent => packlen >= HeaderLen
    /\ log' = Append(log, [seq |-> seq, ttl |-> ttl, len |-> packlen,
                           df |-> Df(opt), out |-> sent,
                           result |-> "pending"])
    /\ Wait
    /\ UNCHANGED <<conf, loop, seq, size, counts, phase, elapsed, pkt>>

Outcome(result) == [log EXCEPT ![Len(log)].result = result]

\* The end of the body of the loop over probes.
EndProbe(result) ==
    /\ log' = Outcome(result)
    /\ probe' = probe + 1
    /\ pc' = IF probe + 1 < opt.nprobes THEN "probe" ELSE "hop"
    /\ phase' = 0 /\ elapsed' = 0 /\ until' = 0 /\ pkt' = Foreign
    /\ UNCHANGED <<conf, ttl, seq, size, sentfirst>>

\* wait_for_reply(): poll() times out.
TimeOut ==
    /\ pc = "wait" /\ elapsed >= until
    /\ EndProbe("star")
    /\ UNCHANGED <<got_there, unreachable>>

\* wait_for_reply(): poll() fails, err(1, "poll").
PollFails ==
    /\ pc = "wait"
    /\ pc' = "failed" /\ until' = 0
    /\ UNCHANGED <<conf, loop, seq, size, counts, phase, elapsed, pkt, log>>

\* wait_for_reply() returns a datagram.
Receive(p) ==
    /\ pc = "wait"
    /\ pkt' = p
    /\ pc' = "check" /\ until' = 0
    /\ UNCHANGED <<conf, loop, seq, size, counts, phase, elapsed, log>>

\* "We may never end up with cc=0, so we need an additional termination
\* check."
GiveUpWaiting ==
    /\ pc = "check" /\ TooLate
    /\ EndProbe("star")
    /\ UNCHANGED <<got_there, unreachable>>

Accepts == pc = "check" /\ ~TooLate /\ PacketOk

Ignore ==
    /\ pc = "check" /\ ~TooLate /\ ~PacketOk
    /\ pkt' = Foreign
    /\ Wait
    /\ UNCHANGED <<conf, loop, seq, size, counts, phase, elapsed, log>>

\* The answer is a time exceeded message.
InTransit ==
    /\ Accepts /\ pkt.kind = "timxceed"
    /\ EndProbe(pkt.kind)
    /\ UNCHANGED <<got_there, unreachable>>

\* An echo reply, or port or protocol unreachable.
Arrived ==
    /\ Accepts /\ pkt.kind = "arrived"
    /\ got_there' = got_there + 1
    /\ EndProbe(pkt.kind)
    /\ UNCHANGED unreachable

\* Any other unreachable; "fragmentation needed" unless we discover the MTU.
Unreachable ==
    /\ Accepts
    /\ pkt.kind = "unreach" \/ (pkt.kind = "needfrag" /\ ~Mtudisc(opt))
    /\ unreachable' = unreachable + 1
    /\ EndProbe(pkt.kind)
    /\ UNCHANGED got_there

\* frag_err() with an MTU to use: the table goes on below it.  mtuptr stays
\* where it is when no positive entry is below it.
Below(i) == Mtus[i] > 0 /\ Mtus[i] < pkt.nextmtu

FragPtr ==
    IF \E i \in 1 .. Len(Mtus) : Below(i)
    THEN CHOOSE i \in 1 .. Len(Mtus) :
            Below(i) /\ \A j \in 1 .. i - 1 : ~Below(j)
    ELSE mtuptr

\* Mutant of UseNextMtu: a bogus MTU is not refused.
UseNextMtuAny == pkt.nextmtu > 0

\* nextmtu > 0 && nextmtu < packlen
UseNextMtu == pkt.nextmtu > 0 /\ pkt.nextmtu < packlen

frag_err ==
    \/ /\ UseNextMtu
       /\ packlen' = pkt.nextmtu
       /\ mtuptr' = FragPtr
    \/ /\ ~UseNextMtu
       /\ packlen' = Mtus[mtuptr]
       /\ mtuptr' = mtuptr + 1

\* Mutant of AgainCounts: the hop starts afresh.
AgainCountsReset == got_there' = 0 /\ unreachable' = 0 /\ sentfirst' = 0

\* goto again leaves got_there, unreachable and sentfirst alone.
AgainCounts == UNCHANGED counts

\* Mutants of Again: only the failed probe is repeated, or none is.
AgainProbe == probe' = probe
AgainNext == probe' = probe + 1

\* The label again: the loop over the probes of this hop starts over.
Again == probe' = 0

\* "Fragmentation needed": frag_err(); goto again.
NeedFrag ==
    /\ Accepts /\ pkt.kind = "needfrag" /\ Mtudisc(opt)
    /\ frag_err
    /\ Again
    /\ AgainCounts
    /\ log' = Outcome("needfrag")
    /\ phase' = 0 /\ elapsed' = 0 /\ until' = 0 /\ pkt' = Foreign
    /\ pc' = "probe"
    /\ UNCHANGED <<conf, ttl, seq>>

\* Mutant of MoreHops: an off-by-one.
MoreHopsButLast == ttl + 1 < opt.max

MoreHops == ttl + 1 <= opt.max

\* The end of the body of the loop over hops, when it is not left.
NextHop ==
    /\ pc = "hop" /\ ~Stop /\ MoreHops
    /\ ttl' = ttl + 1 /\ probe' = 0
    /\ got_there' = 0 /\ unreachable' = 0 /\ sentfirst' = 0
    /\ pc' = "probe"
    /\ UNCHANGED <<conf, seq, size, timing, pkt, log>>

Done ==
    /\ pc = "hop" /\ (Stop \/ ~MoreHops)
    /\ pc' = "done"
    /\ UNCHANGED <<conf, loop, seq, size, counts, timing, pkt, log>>

\* Time passes while the program sends, waits or is delayed after recvfrom().
Tick ==
    /\ pc \in {"sendto", "wait", "check"} /\ elapsed < ClockCap
    /\ elapsed' = elapsed + 1
    /\ UNCHANGED <<conf, pc, loop, seq, size, counts, phase, until, pkt, log>>

\* After exit() or err().
Terminated == pc \in {"done", "failed"} /\ UNCHANGED vars

Program ==
    \/ NewProbe \/ TooBig \/ \E b \in BOOLEAN : Sent(b)
    \/ TimeOut \/ GiveUpWaiting \/ Ignore
    \/ InTransit \/ Arrived \/ Unreachable \/ NeedFrag
    \/ NextHop \/ Done

Next ==
    \/ Program
    \/ PollFails
    \/ \E p \in Packets : Receive(p)
    \/ Tick
    \/ Terminated

Spec == Init /\ [][Next]_vars

\* The program runs when it can, and time goes by.
FairSpec == Spec /\ WF_vars(Program) /\ WF_vars(Tick)

-----------------------------------------------------------------------------
(* Properties.                                                             *)

Probe == [seq: Nat, ttl: Nat, len: Nat, df: BOOLEAN, out: BOOLEAN,
          result: Results]

TypeControl ==
    /\ opt \in Options
    /\ pc \in {"probe", "sendto", "wait", "check", "hop", "done", "failed"}
    /\ ttl \in opt.first .. opt.max /\ probe \in 0 .. opt.nprobes

TypeNumbers ==
    /\ seq \in Nat /\ packlen \in Nat /\ mtuptr \in 1 .. Len(Mtus) + 1
    /\ got_there \in Nat /\ unreachable \in Nat /\ sentfirst \in Nat
    /\ phase \in 0 .. TicksPerSec - 1 /\ elapsed \in 0 .. ClockCap
    /\ until \in Nat

TypePkt ==
    pkt \in [probe: 0 .. Len(log), kind: Answers \cup {"needfrag"},
             nextmtu: NextMtus \cup {0}]

\* The type of every variable.  The packet length is read from the table only
\* while mtuptr points into it, although "*mtuptr++" looks at no bound.
TypeOK == TypeControl /\ TypeNumbers /\ TypePkt /\ log \in Seq(Probe)

\* "To keep track of which probe is being replied to (so times and/or hop
\* counts don't get confused by a reply that was delayed in transit), we
\* increment the destination port number before each probe": an answer that
\* packet_ok() accepts answers the probe sent last, with this hop's ttl and
\* the current length, however late the answers to other probes arrive,
\* as long as none is delayed by a whole cycle of 16-bit keys.
Attribution ==
    Accepts => /\ pkt.probe = Len(log)
               /\ log[pkt.probe].ttl = ttl /\ log[pkt.probe].len = packlen

\* No UDP probe is sent to port 0, whatever the base port and the number of
\* probes (the test before send_probe() in main).
PortNotZero ==
    ~Useicmp(opt) => \A i \in DOMAIN log : (Port + log[i].seq) % SeqSize # 0

\* Once a probe reached the destination no probe with a larger ttl is sent,
\* although an MTU change may restart the hop (got_there survives the goto).
StopsAtDestination ==
    \A i, j \in DOMAIN log :
        i < j /\ log[i].result = "arrived" => log[j].ttl = log[i].ttl

\* The probes that the line printed last is about.
Line == Len(log) - opt.nprobes + 1 .. Len(log)

\* A hop ends with a line for nprobes probes, all of this ttl and of the
\* length that is in use now, each answered or timed out: an MTU change in
\* the middle of a hop repeats the whole hop (goto again).
HopComplete ==
    pc = "hop" =>
        /\ Len(log) >= opt.nprobes
        /\ \A i \in Line :
              /\ log[i].ttl = ttl /\ log[i].len = packlen
              /\ log[i].result # "pending"

\* The probes of hop h, and those that were answered by an unreachable.
Hop(h) == {i \in DOMAIN log : log[i].ttl = h}
Refused(h) ==
    {i \in Hop(h) : \/ log[i].result = "unreach"
                    \/ log[i].result = "needfrag" /\ ~Mtudisc(opt)}

\* traceroute ends only at the destination, or after all hops up to -m were
\* probed, or gives up: then at least half as many probes as a line has were
\* answered by an unreachable at that hop, those that restart it not counted.
TraceComplete ==
    pc = "done" =>
        \/ \E i \in Hop(ttl) : log[i].result = "arrived"
        \/ 2 * Cardinality(Refused(ttl)) >= opt.nprobes
        \/ \A h \in opt.first .. opt.max : Cardinality(Hop(h)) >= opt.nprobes

\* A "*" is printed at most a millisecond before the -w seconds since the
\* probe are over: neither the truncation of poll()'s timeout, which is worked
\* out again after every datagram that is ignored, nor the test on whole
\* seconds, which ends a wait under traffic, takes a larger part of the wait.
StarAfterWait ==
    [][log' # log /\ Len(log') = Len(log) /\ log'[Len(log)].result = "star"
         => elapsed + MsTicks > WaitTime * TicksPerSec]_vars

\* -P and -z start at the largest entry of the table; a packetlen argument
\* above it is not considered.
Fits(o) == StartPtr(o) = 1 \/ StartLen(o) <= Mtus[1]

\* Smaller packets at the same place of the table, or further down in it.
Advances ==
    \/ mtuptr' > mtuptr
    \/ mtuptr' = mtuptr /\ packlen' < packlen

\* The search for the path MTU ends, whatever MTUs routers report: a bogus
\* one may make the packet grow (one below all entries leaves the table
\* pointer at an entry that is larger), but frag_err() and send_probe() never
\* go back in the table, and every change of the size and every restart of a
\* hop is paid for by an entry of it or by a smaller packet.
SearchAdvances ==
    [][Fits(opt) =>
          /\ size' # size => Advances
          /\ pc = "check" /\ pc' = "probe" /\ probe' = 0 => Advances
      ]_vars

\* traceroute ends, under any traffic: the test on t2 ends a wait that
\* foreign datagrams prolong, and the search for the path MTU comes to an end
\* even if routers report MTUs that no link has.
Termination == <>(pc \in {"done", "failed"})

-----------------------------------------------------------------------------
(* What a comment says and the code does not do.                           *)

\* "An errno of EMSGSIZE means we're writing too big a datagram for the
\* interface.  We have to just decrease the packet size until we find one
\* that works."
AlwaysShrinks == [][packlen' <= packlen]_vars
=============================================================================
