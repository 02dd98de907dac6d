-------------------------- MODULE TracerouteProofs --------------------------
(***************************************************************************)
(* What holds of Traceroute for every value of its constants.              *)
(***************************************************************************)
EXTENDS Traceroute, ListLemmas, TLAPS

-----------------------------------------------------------------------------
(* Arithmetic modulo m, for the 16-bit keys.                               *)

\* After a multiple of m >= 2 comes no other one.
LEMMA ModSuccessor ==
    ASSUME NEW a \in Nat, NEW m \in Nat, m >= 2, a % m = 0
    PROVE  (a + 1) % m # 0
<1> SUFFICES ASSUME (a + 1) % m = 0 PROVE FALSE
  OBVIOUS
<1>1. a + 1 = a
  BY ModInjective, (a + 1) - a < m, a + 1 \in Nat
<1> QED BY <1>1

-----------------------------------------------------------------------------
(* The history of probes.                                                  *)

\* What send_probe() adds to the history.
LEMMA LogAppend ==
    ASSUME NEW s \in Seq(Probe), NEW e \in Probe
    PROVE  /\ Append(s, e) \in Seq(Probe)
           /\ Len(Append(s, e)) = Len(s) + 1
           /\ Append(s, e)[Len(s) + 1] = e
           /\ \A i \in 1 .. Len(s) : Append(s, e)[i] = s[i]
OBVIOUS

\* The end of a probe changes the result of the last probe and nothing else.
LEMMA LogOutcome ==
    ASSUME log \in Seq(Probe), Len(log) >= 1, NEW r \in Results
    PROVE  /\ Outcome(r) \in Seq(Probe)
           /\ Len(Outcome(r)) = Len(log)
           /\ Outcome(r)[Len(log)] = [log[Len(log)] EXCEPT !.result = r]
           /\ Outcome(r)[Len(log)].result = r
           /\ \A i \in 1 .. Len(log) - 1 : Outcome(r)[i] = log[i]
           /\ \A i \in 1 .. Len(log) :
                 /\ Outcome(r)[i].seq = log[i].seq
                 /\ Outcome(r)[i].ttl = log[i].ttl
                 /\ Outcome(r)[i].len = log[i].len
                 /\ Outcome(r)[i].df = log[i].df
                 /\ Outcome(r)[i].out = log[i].out
<1> DEFINE n == Len(log)
           e == [log[n] EXCEPT !.result = r]
<1>1. n \in 1 .. Len(log) /\ log[n] \in Probe
  OBVIOUS
<1>2. e \in Probe /\ e.result = r
  BY <1>1 DEF Probe
<1>3. /\ e.seq = log[n].seq /\ e.ttl = log[n].ttl /\ e.len = log[n].len
      /\ e.df = log[n].df /\ e.out = log[n].out
  BY <1>1 DEF Probe
<1>4. Outcome(r) = [log EXCEPT ![n] = e]
  BY DEF Outcome
<1> HIDE DEF e
<1>5. Outcome(r) \in Seq(Probe) /\ Len(Outcome(r)) = Len(log)
  BY <1>1, <1>2, <1>4
<1>6. Outcome(r)[n] = e /\ \A i \in 1 .. Len(log) - 1 : Outcome(r)[i] = log[i]
  BY <1>1, <1>4
<1>7. \A i \in 1 .. Len(log) : i = n \/ i \in 1 .. Len(log) - 1
  OBVIOUS
<1> QED BY <1>2, <1>3, <1>5, <1>6, <1>7 DEF e

\* In particular it changes neither the lengths nor what left the host.
LEMMA LogOutcomeOut ==
    ASSUME log \in Seq(Probe), Len(log) >= 1, NEW r \in Results
    PROVE  \A i \in 1 .. Len(log) :
              /\ Outcome(r)[i].len = log[i].len
              /\ Outcome(r)[i].out = log[i].out
BY LogOutcome

-----------------------------------------------------------------------------
(* Type correctness, which rests on the attribution of answers: frag_err() *)
(* reads an entry of the table because the probe that was answered by      *)
(* "fragmentation needed" is the last one, and that one had a header.      *)

Position ==
    pc \in {"probe", "sendto", "wait", "check"} => probe < opt.nprobes

\* There is an entry to read unless the final 0 has been taken for a length.
InTable == packlen > 0 => mtuptr <= Len(Mtus)

LogOrder ==
    /\ \A i \in 1 .. Len(log) : log[i].seq <= seq
    /\ \A i, j \in 1 .. Len(log) : i < j => log[i].seq < log[j].seq

Current ==
    /\ pc = "sendto" => \A i \in 1 .. Len(log) : log[i].seq < seq
    /\ pc \in {"wait", "check"} =>
          /\ Len(log) >= 1 /\ log[Len(log)].seq = seq
          /\ log[Len(log)].ttl = ttl /\ log[Len(log)].len = packlen

PktInv ==
    /\ pc # "check" => pkt = Foreign
    /\ pkt.probe # 0 =>
          /\ seq - log[pkt.probe].seq < SeqSize
          /\ log[pkt.probe].out

\* Nothing without a header left the host.
OutInv == \A i \in 1 .. Len(log) : log[i].out => log[i].len > 0

TInv ==
    TypeOK /\ Position /\ InTable /\ LogOrder /\ Current /\ PktInv /\ OutInv

\* An accepted answer is the answer to the last probe.
LEMMA AttributionInv == TInv => Attribution
<1> SUFFICES ASSUME TInv, Accepts
             PROVE  /\ pkt.probe = Len(log)
                    /\ log[pkt.probe].ttl = ttl
                    /\ log[pkt.probe].len = packlen
  BY DEF Attribution
<1> USE DEF TInv, TypeOK
<1> DEFINE k == pkt.probe
<1>1. pc = "check" /\ k # 0 /\ Key(log[k].seq) = Key(seq)
  BY DEF Accepts, PacketOk
<1>2. k \in 1 .. Len(log) /\ log[k].seq \in Nat /\ seq \in Nat
  <2>1. k \in 0 .. Len(log) /\ Len(log) \in Nat
    BY DEF TypePkt
  <2>2. k \in 1 .. Len(log)
    BY <1>1, <2>1
  <2>3. log[k] \in Probe
    BY <2>2
  <2> QED BY <2>2, <2>3 DEF Probe, TypeNumbers
<1>3. log[k].seq <= seq /\ seq - log[k].seq < SeqSize
  BY <1>1, <1>2 DEF LogOrder, PktInv
<1>4. log[k].seq = seq
  <2>1. CASE Useicmp(opt)
    <3>1. seq % SeqSize = log[k].seq % SeqSize
      BY <1>1, <2>1 DEF Key
    <3> DEFINE b == log[k].seq
    <3>2. b \in Nat /\ b <= seq /\ seq - b < SeqSize /\ seq % SeqSize = b % SeqSize
      BY <1>2, <1>3, <3>1
    <3>3. SeqSize \in Nat \ {0}
      BY TracerouteNumbers
    <3> HIDE DEF b
    <3>4. seq = b
      BY <1>2, <3>2, <3>3, ModInjective
    <3> QED BY <3>4 DEF b
  <2>2. CASE ~Useicmp(opt)
    <3>1. (Port + seq) % SeqSize = (Port + log[k].seq) % SeqSize
      BY <1>1, <2>2 DEF Key
    <3> DEFINE a == Port + seq
               b == Port + log[k].seq
    <3>2. a \in Nat /\ b \in Nat /\ b <= a /\ a - b < SeqSize
      BY <1>2, <1>3, TracerouteNumbers
    <3>3. SeqSize \in Nat \ {0}
      BY TracerouteNumbers
    <3>4. a % SeqSize = b % SeqSize
      BY <3>1
    <3> HIDE DEF a, b
    <3>5. a = b
      BY <3>2, <3>3, <3>4, ModInjective
    <3> QED BY <1>2, <3>5, TracerouteNumbers DEF a, b
  <2> QED BY <2>1, <2>2
<1>5. log[Len(log)].seq = seq /\ Len(log) \in 1 .. Len(log)
  BY <1>1 DEF Current
<1>6. k = Len(log)
  BY <1>2, <1>4, <1>5 DEF LogOrder
<1> QED BY <1>1, <1>6 DEF Current

\* A probe ends, in one of several actions.
Ended ==
    /\ pc \in {"wait", "check"}
    /\ \E r \in Results \ {"pending"} :
          EndProbe(r) /\ (r = "arrived" => got_there' > 0)
    /\ got_there' \in Nat /\ got_there' >= got_there /\ unreachable' \in Nat

\* The five actions that end a probe.
LEMMA EndedCases ==
    ASSUME TInv, TimeOut \/ GiveUpWaiting \/ InTransit \/ Arrived \/ Unreachable
    PROVE  Ended
BY DEF TInv, TypeOK, TypeNumbers, Ended, TimeOut, GiveUpWaiting, InTransit,
       Arrived, Unreachable, Accepts, Results

\* The table of MTUs; only the last entry is 0.
LEMMA TableFacts ==
    /\ Len(Mtus) \in Nat /\ Len(Mtus) >= 3
    /\ \A i \in 1 .. Len(Mtus) : Mtus[i] \in Nat
    /\ \A i, j \in 1 .. Len(Mtus) : i < j => Mtus[j] < Mtus[i]
    /\ \A i \in 1 .. Len(Mtus) : Mtus[i] > 0 => i < Len(Mtus)
<1>1. /\ Len(Mtus) \in Nat /\ Len(Mtus) >= 3
      /\ \A i \in 1 .. Len(Mtus) : Mtus[i] \in Nat
      /\ \A i, j \in 1 .. Len(Mtus) : i < j => Mtus[j] < Mtus[i]
  BY TracerouteTable
<1>2. Mtus[Len(Mtus)] = 0
  BY TracerouteTable
<1>3. ASSUME NEW i \in 1 .. Len(Mtus), Mtus[i] > 0 PROVE i < Len(Mtus)
  BY <1>1, <1>2, <1>3
<1> QED BY <1>1, <1>3

\* What packet_ok() may have stored in nextmtu.
LEMMA NextMtuNat == \A m \in NextMtus \cup {0} : m \in Nat
<1>1. NextMtus \subseteq Nat
  BY TracerouteTable
<1> QED BY <1>1

\* A set of naturals has a least element.
LEMMA Least ==
    ASSUME NEW T \in SUBSET Nat, T # {}
    PROVE  \E x \in T : \A y \in T : x <= y
<1> DEFINE R == OpToRel(<, Nat)
<1>1. IsWellFoundedOn(R, Nat)
  BY NatLessThanWellFounded
<1>2. \A x, y \in Nat : x < y => <<x, y>> \in R
  BY DEF OpToRel
<1> HIDE DEF R
<1>3. PICK x \in T : \A y \in T : ~ (<<y, x>> \in R)
  BY <1>1, WFMin
<1>4. ASSUME NEW y \in T PROVE x <= y
  <2>1. ~ (<<y, x>> \in R)
    BY <1>3
  <2>2. x \in Nat /\ y \in Nat
    OBVIOUS
  <2>3. ~ (y < x)
    BY <1>2, <2>1, <2>2
  <2> QED BY <2>2, <2>3
<1> QED BY <1>4

\* Where frag_err() points when it uses the reported MTU.
LEMMA FragPtrFacts ==
    ASSUME mtuptr \in 1 .. Len(Mtus) + 1, pkt.nextmtu \in Nat
    PROVE  \/ /\ FragPtr \in 1 .. Len(Mtus)
              /\ Mtus[FragPtr] > 0 /\ Mtus[FragPtr] < pkt.nextmtu
              /\ \A j \in 1 .. FragPtr - 1 : Mtus[j] >= pkt.nextmtu
           \/ /\ FragPtr = mtuptr
              /\ \A i \in 1 .. Len(Mtus) : Mtus[i] > 0 => Mtus[i] >= pkt.nextmtu
<1>1. CASE ~\E i \in 1 .. Len(Mtus) : Below(i)
  BY <1>1, TableFacts DEF FragPtr, Below
<1>2. CASE \E i \in 1 .. Len(Mtus) : Below(i)
  <2> DEFINE First(i) == Below(i) /\ \A j \in 1 .. i - 1 : ~Below(j)
  <2>1. \E i \in 1 .. Len(Mtus) : First(i)
    <3> DEFINE T == {i \in 1 .. Len(Mtus) : Below(i)}
    <3>1. T \in SUBSET Nat /\ T # {}
      BY <1>2, TableFacts
    <3>2. PICK i \in T : \A j \in T : i <= j
      BY <3>1, Least
    <3>3. \A j \in 1 .. i - 1 : j \notin T
      BY <3>1, <3>2
    <3>4. \A j \in 1 .. i - 1 : j \in 1 .. Len(Mtus)
      BY TableFacts
    <3> QED BY <3>3, <3>4
  <2>2. FragPtr \in 1 .. Len(Mtus) /\ First(FragPtr)
    BY <1>2, <2>1 DEF FragPtr
  <2>3. Mtus[FragPtr] > 0 /\ Mtus[FragPtr] < pkt.nextmtu
    BY <2>2 DEF Below
  <2>4. ASSUME NEW j \in 1 .. FragPtr - 1 PROVE Mtus[j] >= pkt.nextmtu
    <3>1. j \in 1 .. Len(Mtus) /\ j < FragPtr
      BY <2>2, TableFacts
    <3>2. Mtus[j] \in Nat /\ Mtus[FragPtr] \in Nat /\ Mtus[FragPtr] < Mtus[j]
      BY <2>2, <3>1, TableFacts
    <3>3. ~Below(j)
      BY <2>2
    <3> QED BY <2>3, <3>1, <3>2, <3>3 DEF Below
  <2> QED BY <2>2, <2>3, <2>4
<1> QED BY <1>1, <1>2

\* The initial state satisfies the invariant.
LEMMA InitTInv == Init => TInv
<1> SUFFICES ASSUME Init PROVE TInv
  OBVIOUS
<1> USE DEF Init
<1>1. opt \in OptionType /\ opt.first <= opt.max
  BY TracerouteOptions
<1>2. TypeControl /\ Position
  BY <1>1 DEF TypeControl, Position, OptionType
<1>3. packlen \in Nat
  BY <1>1, TableFacts, TracerouteNumbers DEF StartLen, OptionType
<1>4. mtuptr \in 1 .. Len(Mtus)
  BY TableFacts DEF StartPtr
<1>5. TypeNumbers
  BY <1>3, <1>4, TracerouteNumbers DEF TypeNumbers, ClockCap
<1>6. TypePkt /\ PktInv
  BY DEF TypePkt, PktInv, Foreign, Answers
<1>7. log \in Seq(Probe) /\ LogOrder /\ Current /\ OutInv
  BY DEF LogOrder, Current, OutInv
<1> QED BY <1>2, <1>4, <1>5, <1>6, <1>7 DEF TInv, TypeOK, InTable

\* send_probe() and frag_err() read the table for a packet that had a length.
LEMMA ReadsTable ==
    ASSUME TInv, TooBig \/ NeedFrag
    PROVE  packlen > 0
<1> USE DEF TInv, TypeOK, TypeNumbers
<1>1. CASE TooBig
  BY <1>1, TracerouteNumbers DEF TooBig
<1>2. CASE NeedFrag
  <2> DEFINE k == pkt.probe
  <2>1. Attribution /\ Accepts
    BY <1>2, AttributionInv DEF NeedFrag
  <2>2. k = Len(log) /\ log[k].len = packlen /\ k # 0
    BY <2>1 DEF Attribution, Accepts, PacketOk
  <2>3. log[k].out
    BY <2>2 DEF PktInv
  <2> QED BY <2>2, <2>3 DEF OutInv
<1> QED BY <1>1, <1>2

\* What send_probe() and frag_err() do to the length of the packet.
LEMMA SizeStep ==
    ASSUME TInv, TooBig \/ NeedFrag
    PROVE  /\ packlen' \in Nat /\ mtuptr' \in 1 .. Len(Mtus) + 1
           /\ InTable'
<1> USE DEF TInv, TypeOK, TypeNumbers
<1>1. packlen > 0 /\ mtuptr \in 1 .. Len(Mtus)
  <2>1. packlen > 0
    BY ReadsTable
  <2> QED BY <2>1 DEF InTable
<1>2. CASE packlen' = Mtus[mtuptr] /\ mtuptr' = mtuptr + 1
  BY <1>1, <1>2, TableFacts DEF InTable
<1>3. CASE NeedFrag /\ UseNextMtu /\ packlen' = pkt.nextmtu /\ mtuptr' = FragPtr
  <2>1. pkt.nextmtu \in Nat
    <3>1. pkt.nextmtu \in NextMtus \cup {0}
      BY DEF TypePkt
    <3> QED BY <3>1, NextMtuNat
  <2>2. FragPtr \in 1 .. Len(Mtus)
    BY <1>1, <2>1, FragPtrFacts
  <2> QED BY <1>3, <2>1, <2>2, TableFacts DEF InTable
<1> QED BY <1>2, <1>3 DEF TooBig, NeedFrag, frag_err

\* What poll() is given: less than a millisecond is lost.
LEMMA PollUntilFacts ==
    ASSUME TypeNumbers
    PROVE  PollUntil \in Nat /\ PollUntil + MsTicks > WaitTime * TicksPerSec
<1> DEFINE W == WaitTime * TicksPerSec
           R == Remaining
           m == R % MsTicks
           q == R \div MsTicks
<1>1. W \in Nat /\ elapsed \in Nat /\ MsTicks \in Nat \ {0}
  BY TracerouteNumbers DEF TypeNumbers, ClockCap
<1>2. R \in Nat /\ elapsed + R >= W
  <2> HIDE DEF W
  <2>1. R = MaxOf(0, W - elapsed)
    BY DEF Remaining, W
  <2> QED BY <1>1, <2>1 DEF MaxOf
<1> HIDE DEF R, W
<1>3. q \in Nat /\ m \in 0 .. MsTicks - 1 /\ R = MsTicks * q + m
  BY <1>1, <1>2, ModParts
<1> HIDE DEF m, q
<1>4. MsTicks * q \in Nat
  BY <1>1, <1>3
<1>5. PollUntil = elapsed + (R - m)
  BY DEF PollUntil, R, m
<1>6. R >= m
  BY <1>1, <1>2, <1>3, <1>4
<1> QED BY <1>1, <1>2, <1>3, <1>5, <1>6 DEF W

\* Every step preserves it.
LEMMA NextTInv == TInv /\ [Next]_vars => TInv'
<1> SUFFICES ASSUME TInv, [Next]_vars PROVE TInv'
  OBVIOUS
<1> USE DEF vars, conf, loop, size, counts, timing, TInv, TypeOK
<1>o. opt \in OptionType /\ opt' = opt
  BY TracerouteOptions
  DEF TypeControl, Next, Program, NewProbe, TooBig, Sent, EndProbe, TimeOut,
      PollFails, Receive, GiveUpWaiting, Ignore, Wait, InTransit, Arrived,
      Unreachable, NeedFrag, NextHop, Done, Tick, Terminated
<1>n. /\ opt.nprobes \in Nat /\ opt.nprobes >= 1
      /\ opt.first \in Nat /\ opt.max \in Nat
  BY <1>o DEF OptionType
<1>1. CASE NewProbe
  <2> USE <1>1 DEF NewProbe
  <2>1. TypeControl' /\ Position'
    BY DEF TypeControl, Position
  <2>2. TypeNumbers' /\ InTable' /\ seq' > seq
    BY TracerouteNumbers DEF TypeNumbers, InTable, NextSeq, ClockCap
  <2>3. TypePkt' /\ PktInv'
    BY DEF TypePkt, PktInv, Foreign
  <2>4. ASSUME NEW i \in 1 .. Len(log) PROVE log[i].seq \in Nat
    <3>1. log[i] \in Probe
      OBVIOUS
    <3> QED BY <3>1 DEF Probe
  <2>5. LogOrder' /\ Current'
    BY <2>2, <2>4 DEF LogOrder, Current, TypeNumbers
  <2>6. OutInv'
    BY DEF OutInv
  <2> QED BY <2>1, <2>2, <2>3, <2>5, <2>6
<1>2. CASE TooBig
  <2> USE <1>2 DEF TooBig
  <2>1. TypeControl' /\ Position'
    BY DEF TypeControl, Position
  <2>2. TypeNumbers' /\ InTable'
    BY SizeStep DEF TypeNumbers, ClockCap
  <2>3. TypePkt' /\ PktInv' /\ LogOrder' /\ Current' /\ OutInv'
    BY DEF TypePkt, PktInv, LogOrder, Current, OutInv
  <2> QED BY <2>1, <2>2, <2>3
<1>3. ASSUME NEW b \in BOOLEAN, Sent(b) PROVE TInv'
  <2> USE <1>3 DEF Sent, Wait
  <2>1. TypeControl' /\ Position' /\ TypeNumbers' /\ InTable'
    BY PollUntilFacts DEF TypeControl, Position, TypeNumbers, InTable, ClockCap
  <2> DEFINE e == [seq |-> seq, ttl |-> ttl, len |-> packlen,
                   df |-> Df(opt), out |-> b, result |-> "pending"]
  <2>2. e \in Probe
    BY <1>n DEF Probe, Results, TypeNumbers, TypeControl, Df
  <2>3. e.seq = seq /\ e.ttl = ttl /\ e.len = packlen /\ e.out = b
    OBVIOUS
  <2>4. log' = Append(log, e)
    OBVIOUS
  <2> HIDE DEF e
  <2>5. /\ log' \in Seq(Probe) /\ Len(log') = Len(log) + 1
        /\ log'[Len(log) + 1] = e
        /\ \A i \in 1 .. Len(log) : log'[i] = log[i]
    BY <2>2, <2>4, LogAppend
  <2>6. \A i \in 1 .. Len(log') : i \in 1 .. Len(log) \/ i = Len(log) + 1
    BY <2>5
  <2>7. \A i \in 1 .. Len(log) : log[i].seq < seq
    BY DEF Current
  <2>8. LogOrder'
    BY <2>3, <2>5, <2>6, <2>7 DEF LogOrder, TypeNumbers
  <2>9. Current'
    BY <2>3, <2>5 DEF Current
  <2>10. TypePkt' /\ PktInv'
    BY <2>5 DEF TypePkt, PktInv, Foreign, Answers
  <2>11. b => packlen > 0
    BY TracerouteNumbers DEF TypeNumbers
  <2>12. OutInv'
    BY <2>3, <2>5, <2>6, <2>11 DEF OutInv
  <2> QED BY <2>1, <2>5, <2>8, <2>9, <2>10, <2>12
<1>4. CASE Ended
  <2> USE DEF Ended
  <2>1. PICK r \in Results \ {"pending"} : EndProbe(r)
    BY <1>4
  <2> USE <1>4, <2>1 DEF EndProbe
  <2>2. Len(log) >= 1
    BY DEF Current
  <2>3. /\ log' \in Seq(Probe) /\ Len(log') = Len(log)
        /\ \A i \in 1 .. Len(log) : log'[i].seq = log[i].seq
    BY <2>2, LogOutcome
  <2>8. \A i \in 1 .. Len(log) :
           log'[i].len = log[i].len /\ log'[i].out = log[i].out
    BY <2>2, LogOutcomeOut
  <2>9. OutInv'
    <3> SUFFICES ASSUME NEW i \in 1 .. Len(log), log'[i].out
                 PROVE  log'[i].len > 0
      BY <2>3 DEF OutInv
    <3>1. log[i].out /\ log'[i].len = log[i].len
      BY <2>8
    <3> QED BY <3>1 DEF OutInv
  <2>4. TypeControl' /\ Position'
    BY <1>n DEF TypeControl, Position
  <2>5. TypeNumbers' /\ InTable'
    BY TracerouteNumbers DEF TypeNumbers, InTable, ClockCap
  <2>6. TypePkt' /\ PktInv'
    BY <2>3 DEF TypePkt, PktInv, Foreign, Answers
  <2>7. LogOrder' /\ Current'
    BY <2>3 DEF LogOrder, Current
  <2> QED BY <2>3, <2>4, <2>5, <2>6, <2>7, <2>9
<1>5. CASE NeedFrag
  <2> USE <1>5 DEF NeedFrag, Accepts, Again, AgainCounts
  <2>1. Len(log) >= 1 /\ "needfrag" \in Results
    BY DEF Current, Results
  <2>2. /\ log' \in Seq(Probe) /\ Len(log') = Len(log)
        /\ \A i \in 1 .. Len(log) : log'[i].seq = log[i].seq
    BY <2>1, LogOutcome
  <2>7. \A i \in 1 .. Len(log) :
           log'[i].len = log[i].len /\ log'[i].out = log[i].out
    BY <2>1, LogOutcomeOut
  <2>8. OutInv'
    <3> SUFFICES ASSUME NEW i \in 1 .. Len(log), log'[i].out
                 PROVE  log'[i].len > 0
      BY <2>2 DEF OutInv
    <3>1. log[i].out /\ log'[i].len = log[i].len
      BY <2>7
    <3> QED BY <3>1 DEF OutInv
  <2>3. TypeControl' /\ Position'
    BY <1>n DEF TypeControl, Position
  <2>4. TypeNumbers' /\ InTable'
    BY SizeStep, TracerouteNumbers DEF TypeNumbers, ClockCap
  <2>5. TypePkt' /\ PktInv'
    BY <2>2 DEF TypePkt, PktInv, Foreign, Answers
  <2>6. LogOrder' /\ Current'
    BY <2>2 DEF LogOrder, Current
  <2> QED BY <2>2, <2>3, <2>4, <2>5, <2>6, <2>8
<1>6. ASSUME NEW p \in Packets, Receive(p) PROVE TInv'
  <2> USE <1>6 DEF Receive
  <2>1. TypeControl' /\ Position' /\ TypeNumbers' /\ InTable'
    BY DEF TypeControl, Position, TypeNumbers, InTable, ClockCap
  <2>2. LogOrder' /\ Current' /\ OutInv'
    BY DEF LogOrder, Current, OutInv
  <2>3. CASE p = Foreign
    <3>1. TypePkt' /\ PktInv'
      BY <2>3 DEF TypePkt, PktInv, Foreign, Answers
    <3> QED BY <2>1, <2>2, <3>1
  <2>4. CASE p # Foreign
    <3>1. PICK i \in 1 .. Len(log) : p \in Replies(i)
      BY <2>4 DEF Packets
    <3>2. /\ p \in [probe: 1 .. Len(log), kind: Answers \cup {"needfrag"},
                    nextmtu: NextMtus \cup {0}]
          /\ p.probe = i /\ seq - log[i].seq < SeqSize
          /\ log[i].out
      <4>1. seq - log[i].seq < SeqSize
        <5>1. log[i] \in Probe
          OBVIOUS
        <5>2. log[i].seq \in Nat /\ seq \in Nat
          BY <5>1 DEF Probe, TypeNumbers
        <5>3. ~(seq - log[i].seq >= SeqSize)
          BY <3>1 DEF Replies
        <5> QED BY <5>2, <5>3, TracerouteNumbers
      <4> QED BY <3>1, <4>1 DEF Replies, Answers
    <3>3. TypePkt' /\ PktInv'
      BY <3>2 DEF TypePkt, PktInv
    <3> QED BY <2>1, <2>2, <3>3
  <2> QED BY <2>1, <2>2, <2>3, <2>4
<1>7. CASE Tick
  <2> USE <1>7 DEF Tick
  <2>1. /\ TypeControl' /\ Position' /\ InTable' /\ LogOrder' /\ Current'
        /\ OutInv'
    BY DEF TypeControl, Position, InTable, LogOrder, Current, OutInv
  <2>2. TypeNumbers'
    BY TracerouteNumbers DEF TypeNumbers, ClockCap
  <2>3. TypePkt' /\ PktInv'
    BY DEF TypePkt, PktInv
  <2> QED BY <2>1, <2>2, <2>3
<1>8. CASE NextHop
  <2> USE <1>8 DEF NextHop
  <2>1. TypeControl' /\ Position'
    BY <1>n DEF TypeControl, Position, MoreHops
  <2>2. TypeNumbers' /\ InTable'
    BY DEF TypeNumbers, InTable, ClockCap
  <2>3. TypePkt' /\ PktInv' /\ LogOrder' /\ Current' /\ OutInv'
    BY DEF TypePkt, PktInv, LogOrder, Current, OutInv
  <2> QED BY <2>1, <2>2, <2>3
<1>9. CASE PollFails \/ Ignore \/ Done \/ UNCHANGED vars
  <2> USE <1>9 DEF PollFails, Ignore, Done, Wait
  <2>1. TypeControl' /\ Position'
    BY DEF TypeControl, Position
  <2>2. TypeNumbers' /\ InTable'
    <3>1. until' \in Nat
      BY PollUntilFacts DEF TypeNumbers
    <3>2. UNCHANGED <<seq, size, counts, phase, elapsed>>
      OBVIOUS
    <3> QED BY <3>1, <3>2 DEF TypeNumbers, InTable, ClockCap
  <2>3. TypePkt' /\ PktInv'
    BY DEF TypePkt, PktInv, Foreign, Answers
  <2>4. LogOrder' /\ Current' /\ OutInv'
    BY DEF LogOrder, Current, OutInv
  <2> QED BY <2>1, <2>2, <2>3, <2>4
<1> QED
  BY <1>1, <1>2, <1>3, <1>4, <1>5, <1>6, <1>7, <1>8, <1>9, EndedCases
  DEF Next, Program, Terminated

\* Every variable keeps its type; in particular the table is not read past its
\* end, whatever MTUs are reported.
THEOREM TypeCorrect == Spec => []TypeOK
<1>1. TInv => TypeOK
  BY DEF TInv
<1> QED BY <1>1, InitTInv, NextTInv, PTL DEF Spec

\* The inductive invariant behind the theorems of this module.
THEOREM TInvHolds == Spec => []TInv
BY InitTInv, NextTInv, PTL DEF Spec

\* An accepted answer belongs to the probe sent last.
THEOREM AttributionHolds == Spec => []Attribution
BY InitTInv, NextTInv, AttributionInv, PTL DEF Spec

-----------------------------------------------------------------------------
(* Ports.                                                                  *)

PortInv ==
    ~Useicmp(opt) =>
        /\ pc = "sendto" => (Port + seq) % SeqSize # 0
        /\ \A i \in 1 .. Len(log) : (Port + log[i].seq) % SeqSize # 0

\* The port of the next probe is not 0.
LEMMA NextSeqPort ==
    ASSUME seq \in Nat, ~Useicmp(opt)
    PROVE  (Port + NextSeq) % SeqSize # 0
<1> DEFINE a == Port + seq + 1
<1>1. a \in Nat /\ SeqSize \in Nat /\ SeqSize >= 2
  BY TracerouteNumbers
<1>2. CASE a % SeqSize = 0
  <2>1. (a + 1) % SeqSize # 0
    BY <1>1, <1>2, ModSuccessor
  <2>2. Port + NextSeq = a + 1
    BY <1>2, TracerouteNumbers DEF NextSeq
  <2> QED BY <2>1, <2>2
<1>3. CASE a % SeqSize # 0
  <2>1. Port + NextSeq = a
    BY <1>3, TracerouteNumbers DEF NextSeq
  <2> QED BY <1>3, <2>1
<1> QED BY <1>2, <1>3

\* Every step preserves PortInv.
LEMMA NextPortInv == TInv /\ PortInv /\ [Next]_vars => PortInv'
<1> SUFFICES ASSUME TInv, PortInv, [Next]_vars, (~Useicmp(opt))'
             PROVE  PortInv'
  BY DEF PortInv
<1> USE DEF vars, conf, loop, size, counts, timing, PortInv
<1>o. opt' = opt /\ ~Useicmp(opt)
  BY DEF Useicmp, Next, Program, NewProbe, TooBig, Sent, EndProbe, TimeOut,
      PollFails, Receive, GiveUpWaiting, Ignore, InTransit, Arrived,
      Unreachable, NeedFrag, NextHop, Done, Tick, Terminated
<1>1. CASE NewProbe
  BY <1>1, <1>o, NextSeqPort DEF NewProbe, TInv, TypeOK, TypeNumbers
<1>2. ASSUME NEW b \in BOOLEAN, Sent(b) PROVE PortInv'
  <2> DEFINE e == [seq |-> seq, ttl |-> ttl, len |-> packlen,
                   df |-> Df(opt), out |-> b, result |-> "pending"]
  <2>1. e \in Probe /\ e.seq = seq
    BY <1>2, TracerouteOptions
    DEF Probe, Results, TypeNumbers, TypeControl, Df, TInv, TypeOK, OptionType
  <2>2. log' = Append(log, e) /\ pc = "sendto" /\ pc' = "wait" /\ seq' = seq
    BY <1>2 DEF Sent, Wait
  <2> HIDE DEF e
  <2>3. /\ Len(log') = Len(log) + 1 /\ log'[Len(log) + 1] = e
        /\ \A i \in 1 .. Len(log) : log'[i] = log[i]
    BY <2>1, <2>2, LogAppend DEF TInv, TypeOK
  <2>4. \A i \in 1 .. Len(log') : i \in 1 .. Len(log) \/ i = Len(log) + 1
    BY <2>3 DEF TInv, TypeOK
  <2> QED BY <1>o, <2>1, <2>2, <2>3, <2>4
<1>3. CASE Ended \/ NeedFrag
  <2>1. PICK r \in Results : log' = Outcome(r)
    BY <1>3 DEF Ended, EndProbe, NeedFrag, Results
  <2>2. Len(log) >= 1 /\ log \in Seq(Probe)
    BY <1>3 DEF Ended, NeedFrag, Accepts, TInv, TypeOK, Current
  <2>3. Len(log') = Len(log) /\ \A i \in 1 .. Len(log) : log'[i].seq = log[i].seq
    BY <2>1, <2>2, LogOutcome
  <2>4. pc' # "sendto"
    BY <1>3 DEF Ended, EndProbe, NeedFrag
  <2> QED BY <1>o, <2>3, <2>4
<1>4. CASE log' = log /\ (pc' # "sendto" \/ (pc = "sendto" /\ seq' = seq))
  BY <1>o, <1>4
<1> QED
  BY <1>1, <1>2, <1>3, <1>4, EndedCases
  DEF Next, Program, TooBig, PollFails, Receive, Ignore, Wait, NextHop, Done,
      Tick, Terminated

\* No UDP probe goes to port 0.
THEOREM PortNotZeroHolds == Spec => []PortNotZero
<1>1. Init => PortInv
  BY DEF Init, PortInv
<1>2. TInv /\ PortInv => PortNotZero
  BY DEF PortInv, PortNotZero, TInv, TypeOK
<1> QED BY <1>1, <1>2, TInvHolds, NextPortInv, PTL DEF Spec

-----------------------------------------------------------------------------
(* The search for the path MTU.                                            *)

\* The packet is not larger than the entry before mtuptr.
TableInv ==
    Fits(opt) => mtuptr = 1 \/ packlen <= Mtus[mtuptr - 1]

\* send_probe() and frag_err() go forward in the table or make the packet
\* smaller.
LEMMA AdvanceStep ==
    ASSUME TInv, TableInv, Fits(opt), TooBig \/ NeedFrag
    PROVE  Advances /\ (mtuptr' = 1 \/ packlen' <= Mtus[mtuptr' - 1])
<1> USE DEF TInv, TypeOK, TypeNumbers
<1>1. packlen \in Nat /\ packlen > 0 /\ mtuptr \in 1 .. Len(Mtus)
  BY ReadsTable DEF InTable
<1>2. CASE packlen' = Mtus[mtuptr] /\ mtuptr' = mtuptr + 1
  <2>1. Mtus[mtuptr] \in Nat /\ mtuptr' - 1 = mtuptr /\ mtuptr' > mtuptr
    BY <1>1, <1>2, TableFacts
  <2> QED BY <1>2, <2>1 DEF Advances
<1>3. CASE NeedFrag /\ UseNextMtu /\ packlen' = pkt.nextmtu /\ mtuptr' = FragPtr
  <2> DEFINE n == pkt.nextmtu
             f == FragPtr
  <2>1. n \in Nat
    <3>1. n \in NextMtus \cup {0}
      BY DEF TypePkt
    <3> QED BY <3>1, NextMtuNat
  <2>2. packlen' = n /\ mtuptr' = f /\ n < packlen
    BY <1>3 DEF UseNextMtu
  <2>3. mtuptr = 1 \/ packlen <= Mtus[mtuptr - 1]
    BY DEF TableInv
  <2>4. CASE /\ f \in 1 .. Len(Mtus)
             /\ Mtus[f] > 0 /\ Mtus[f] < n
             /\ \A j \in 1 .. f - 1 : Mtus[j] >= n
    <3>1. f >= mtuptr
      <4> SUFFICES ASSUME f < mtuptr PROVE FALSE
        BY <1>1, <2>4
      <4>1. mtuptr - 1 \in 1 .. Len(Mtus) /\ f <= mtuptr - 1
        BY <1>1, <2>4, TableFacts
      <4>2. Mtus[mtuptr - 1] <= Mtus[f]
        <5>1. CASE f = mtuptr - 1
          BY <4>1, <5>1, TableFacts
        <5>2. CASE f < mtuptr - 1
          BY <2>4, <4>1, <5>2, TableFacts
        <5> QED BY <1>1, <2>4, <4>1, <5>1, <5>2
      <4>3. Mtus[f] \in Nat /\ Mtus[mtuptr - 1] \in Nat
        BY <2>4, <4>1, TableFacts
      <4> QED BY <1>1, <2>1, <2>2, <2>3, <2>4, <4>1, <4>2, <4>3
    <3>2. f = 1 \/ n <= Mtus[f - 1]
      <4>1. CASE f # 1
        <5>1. f - 1 \in 1 .. f - 1 /\ f - 1 \in 1 .. Len(Mtus)
          BY <2>4, <4>1, TableFacts
        <5>2. Mtus[f - 1] >= n /\ Mtus[f - 1] \in Nat
          BY <2>4, <5>1, TableFacts
        <5> QED BY <2>1, <5>2
      <4> QED BY <4>1
    <3>3. mtuptr' > mtuptr \/ mtuptr' = mtuptr
      BY <1>1, <2>2, <2>4, <3>1
    <3> QED BY <2>2, <3>2, <3>3 DEF Advances
  <2>5. CASE f = mtuptr
    <3>1. mtuptr' = mtuptr /\ packlen' < packlen
      BY <2>2, <2>5
    <3>2. mtuptr' = 1 \/ packlen' <= Mtus[mtuptr' - 1]
      <4>1. CASE mtuptr # 1
        <5>1. mtuptr - 1 \in 1 .. Len(Mtus)
          BY <1>1, <4>1, TableFacts
        <5>2. Mtus[mtuptr - 1] \in Nat
          BY <5>1, TableFacts
        <5> QED BY <1>1, <2>1, <2>2, <2>3, <3>1, <4>1, <5>2
      <4> QED BY <3>1, <4>1
    <3> QED BY <3>1, <3>2 DEF Advances
  <2>6. mtuptr \in 1 .. Len(Mtus) + 1
    OBVIOUS
  <2> QED BY <2>1, <2>4, <2>5, <2>6, FragPtrFacts
<1> QED BY <1>2, <1>3 DEF TooBig, NeedFrag, frag_err

\* What SearchAdvances says of a step.
SearchStep ==
    Fits(opt) =>
        /\ size' # size => Advances
        /\ pc = "check" /\ pc' = "probe" /\ probe' = 0 => Advances

\* Every step preserves TableInv and advances the search.
LEMMA NextTableInv == TInv /\ TableInv /\ [Next]_vars => TableInv' /\ SearchStep
<1> SUFFICES ASSUME TInv, TableInv, [Next]_vars PROVE TableInv' /\ SearchStep
  OBVIOUS
<1> USE DEF vars, conf, loop, size, counts, timing
<1>1. opt' = opt
  BY DEF Next, Program, NewProbe, TooBig, Sent,
      EndProbe, TimeOut, PollFails, Receive, GiveUpWaiting, Ignore, InTransit,
      Arrived, Unreachable, NeedFrag, NextHop, Done, Tick, Terminated
<1>2. CASE TooBig \/ NeedFrag
  <2>1. CASE Fits(opt)
    <3>1. Advances /\ (mtuptr' = 1 \/ packlen' <= Mtus[mtuptr' - 1])
      BY <1>2, <2>1, AdvanceStep
    <3> QED BY <3>1 DEF TableInv, SearchStep
  <2>2. CASE ~Fits(opt)
    <3>1. ~Fits(opt)'
      BY <1>1, <2>2
    <3> QED BY <2>2, <3>1 DEF TableInv, SearchStep
  <2> QED BY <2>1, <2>2
<1>4. CASE /\ packlen' = packlen /\ mtuptr' = mtuptr
           /\ ~(pc = "check" /\ pc' = "probe" /\ probe' = 0)
  BY <1>1, <1>4 DEF TableInv, SearchStep
<1>5. CASE Ended
  <2>1. packlen' = packlen /\ mtuptr' = mtuptr /\ probe' = probe + 1 /\ probe \in Nat
    BY <1>5, TracerouteOptions
    DEF Ended, EndProbe, TInv, TypeOK, TypeControl, OptionType
  <2> QED BY <1>4, <2>1
<1> QED
  BY <1>2, <1>4, <1>5, EndedCases
  DEF Next, Program, NewProbe, Sent, Wait, PollFails, Receive, Ignore, NextHop,
      Done, Tick, Terminated

\* The search never goes back in the table, and every restart of a hop is paid
\* for, whatever MTUs the routers report.
THEOREM SearchAdvancesHolds == Spec => SearchAdvances
<1>1. Init => TableInv
  BY DEF Init, TableInv, Fits, StartPtr
<1>2. TInv /\ TableInv /\ [Next]_vars => [SearchStep]_vars
  BY NextTableInv
<1>3. TInv /\ TableInv /\ [Next]_vars => TableInv'
  BY NextTableInv
<1> QED BY <1>1, <1>2, <1>3, TInvHolds, PTL DEF Spec, SearchAdvances, SearchStep

-----------------------------------------------------------------------------
(* Hops: the line that is printed, and the end at the destination.         *)

Pending == IF pc \in {"wait", "check"} THEN 1 ELSE 0

\* The last probes of the log are those of the current round of the current
\* hop; all have the ttl and the length in use.
RoundInv ==
    /\ pc \in {"probe", "sendto", "wait", "check", "hop"} =>
          /\ Len(log) >= probe + Pending
          /\ \A i \in 1 .. Len(log) :
                i > Len(log) - (probe + Pending) =>
                    log[i].ttl = ttl /\ log[i].len = packlen
    /\ pc = "hop" => probe = opt.nprobes

ResultInv ==
    /\ \A i \in 1 .. Len(log) : log[i].len <= IfMtu
    /\ \A i \in 1 .. Len(log) :
          log[i].result = "pending" =>
              i = Len(log) /\ pc \in {"wait", "check", "failed"}

\* ttl never decreases, and once a probe arrived got_there keeps it.
ArrivalInv ==
    /\ \A i \in 1 .. Len(log) : log[i].ttl <= ttl
    /\ \A i, j \in 1 .. Len(log) : i < j => log[i].ttl <= log[j].ttl
    /\ \A i \in 1 .. Len(log) :
          log[i].result = "arrived" => log[i].ttl = ttl /\ got_there > 0

HopInv == RoundInv /\ ResultInv /\ ArrivalInv

\* The fields of a probe.
LEMMA ProbeFields ==
    ASSUME log \in Seq(Probe), NEW i \in 1 .. Len(log)
    PROVE  log[i].ttl \in Nat /\ log[i].len \in Nat /\ log[i].seq \in Nat
<1>1. log[i] \in Probe
  OBVIOUS
<1> QED BY <1>1 DEF Probe

\* Every step preserves HopInv.
LEMMA NextHopInv == TInv /\ HopInv /\ [Next]_vars => HopInv'
<1> SUFFICES ASSUME TInv, HopInv, [Next]_vars PROVE HopInv'
  OBVIOUS
<1> USE DEF vars, conf, loop, size, counts, timing, HopInv
<1>o. opt' = opt /\ opt \in OptionType
  BY TracerouteOptions
  DEF TInv, TypeOK, TypeControl, Next, Program, NewProbe, TooBig, Sent,
      EndProbe, TimeOut, PollFails, Receive, GiveUpWaiting, Ignore, InTransit,
      Arrived, Unreachable, NeedFrag, NextHop, Done, Tick, Terminated
<1>n. /\ opt.nprobes \in Nat /\ ttl \in Nat /\ probe \in Nat /\ packlen \in Nat
      /\ Len(log) \in Nat /\ log \in Seq(Probe) /\ got_there \in Nat
  BY <1>o DEF TInv, TypeOK, TypeControl, TypeNumbers, OptionType
<1>1. CASE NewProbe
  BY <1>1, <1>n DEF NewProbe, RoundInv, ResultInv, ArrivalInv, Pending
<1>2. CASE TooBig
  <2> USE <1>2 DEF TooBig
  <2>1. probe = 0
    <3> SUFFICES ASSUME probe # 0 PROVE FALSE
      OBVIOUS
    <3>1. Len(log) >= 1 /\ log[Len(log)].len = packlen
      BY <1>n DEF RoundInv, Pending
    <3>2. log[Len(log)].len <= IfMtu
      BY <1>n, <3>1 DEF ResultInv
    <3> QED BY <1>n, <3>1, <3>2, TracerouteNumbers
  <2>2. RoundInv'
    BY <1>n, <2>1 DEF RoundInv, Pending
  <2>3. ResultInv' /\ ArrivalInv'
    BY <1>n DEF ResultInv, ArrivalInv
  <2> QED BY <2>2, <2>3
<1>3. ASSUME NEW b \in BOOLEAN, Sent(b) PROVE HopInv'
  <2> USE <1>3 DEF Sent, Wait
  <2> DEFINE e == [seq |-> seq, ttl |-> ttl, len |-> packlen,
                   df |-> Df(opt), out |-> b, result |-> "pending"]
  <2>1. e \in Probe
    BY <1>n DEF Probe, Results, TypeNumbers, Df, TInv, TypeOK
  <2>2. e.ttl = ttl /\ e.len = packlen /\ e.result = "pending"
    OBVIOUS
  <2>3. log' = Append(log, e)
    OBVIOUS
  <2> HIDE DEF e
  <2>4. /\ Len(log') = Len(log) + 1 /\ log'[Len(log) + 1] = e
        /\ \A i \in 1 .. Len(log) : log'[i] = log[i]
    BY <1>n, <2>1, <2>3, LogAppend
  <2>5. \A i \in 1 .. Len(log') : i \in 1 .. Len(log) \/ i = Len(log) + 1
    BY <1>n, <2>4
  <2>6. RoundInv'
    BY <1>n, <2>2, <2>4, <2>5 DEF RoundInv, Pending
  <2>7. ResultInv'
    BY <1>n, <2>2, <2>4, <2>5, TracerouteNumbers DEF ResultInv
  <2>8. ArrivalInv'
    BY <1>n, <2>2, <2>4, <2>5 DEF ArrivalInv
  <2> QED BY <2>6, <2>7, <2>8
<1>4. ASSUME Ended \/ NeedFrag PROVE HopInv'
  <2>1. PICK r \in Results \ {"pending"} :
            log' = Outcome(r) /\ (r = "arrived" => got_there' > 0)
    BY <1>4 DEF Ended, EndProbe, NeedFrag, Results
  <2>2. Len(log) >= 1 /\ pc \in {"wait", "check"} /\ pc' \in {"probe", "hop"}
    BY <1>4 DEF Ended, EndProbe, NeedFrag, Accepts, TInv, Current
  <2>3. ttl' = ttl /\ got_there' \in Nat /\ got_there' >= got_there
    BY <1>4, <1>n DEF Ended, EndProbe, NeedFrag, AgainCounts
  <2>4. /\ Len(log') = Len(log) /\ log'[Len(log)].result = r
        /\ \A i \in 1 .. Len(log) - 1 : log'[i] = log[i]
        /\ \A i \in 1 .. Len(log) :
              log'[i].ttl = log[i].ttl /\ log'[i].len = log[i].len
    <3>1. log \in Seq(Probe) /\ r \in Results
      BY <1>n, <2>1
    <3>2. Len(Outcome(r)) = Len(log) /\ Outcome(r)[Len(log)].result = r
      BY ONLY <2>2, <3>1, LogOutcome, Zenon
    <3>3. \A i \in 1 .. Len(log) - 1 : Outcome(r)[i] = log[i]
      BY ONLY <2>2, <3>1, LogOutcome, Zenon
    <3>4. \A i \in 1 .. Len(log) :
             Outcome(r)[i].ttl = log[i].ttl /\ Outcome(r)[i].len = log[i].len
      BY ONLY <2>2, <3>1, LogOutcome, Zenon
    <3> QED BY <2>1, <3>2, <3>3, <3>4
  <2>5. \A i \in 1 .. Len(log) : i = Len(log) \/ i \in 1 .. Len(log) - 1
    BY <1>n
  <2>6. RoundInv'
    <3>1. CASE Ended
      <4>1. /\ probe' = probe + 1 /\ packlen' = packlen
            /\ pc' = "hop" => probe + 1 >= opt.nprobes
        BY <3>1, <1>n DEF Ended, EndProbe
      <4>2. probe < opt.nprobes
        BY <2>2 DEF TInv, Position
      <4> QED BY <1>n, <1>o, <2>2, <2>3, <2>4, <4>1, <4>2 DEF RoundInv, Pending
    <3>2. CASE NeedFrag
      BY <3>2, <1>n, <2>2, <2>4 DEF NeedFrag, Again, RoundInv, Pending
    <3> QED BY <1>4, <3>1, <3>2
  <2>7. ResultInv'
    BY <1>n, <2>1, <2>2, <2>4, <2>5 DEF ResultInv
  <2>8. ArrivalInv'
    <3>1. \A i \in 1 .. Len(log) : log'[i].ttl <= ttl'
      BY <2>3, <2>4 DEF ArrivalInv
    <3>2. \A i, j \in 1 .. Len(log) : i < j => log'[i].ttl <= log'[j].ttl
      BY <2>4 DEF ArrivalInv
    <3>3. ASSUME NEW i \in 1 .. Len(log), log'[i].result = "arrived"
          PROVE  log'[i].ttl = ttl' /\ got_there' > 0
      <4>1. CASE i = Len(log)
        <5>1. log[Len(log)].ttl = ttl
          BY <2>2 DEF TInv, Current
        <5> QED BY <2>1, <2>3, <2>4, <3>3, <4>1, <5>1
      <4>2. CASE i \in 1 .. Len(log) - 1
        BY <1>n, <2>3, <2>4, <3>3, <4>2 DEF ArrivalInv
      <4> QED BY <2>5, <4>1, <4>2
    <3> QED BY <2>4, <3>1, <3>2, <3>3 DEF ArrivalInv
  <2> QED BY <2>6, <2>7, <2>8
<1>5. CASE NextHop
  <2> USE <1>5 DEF NextHop
  <2>1. \A i \in 1 .. Len(log) : log[i].result # "arrived"
    BY <1>n DEF ArrivalInv, Stop
  <2>2. RoundInv' /\ ResultInv'
    BY <1>n DEF RoundInv, ResultInv, Pending
  <2>3. ArrivalInv'
    BY <1>n, <2>1, ProbeFields DEF ArrivalInv
  <2> QED BY <2>2, <2>3
<1>6. ASSUME NEW p \in Packets, Receive(p) PROVE HopInv'
  BY <1>6, <1>n DEF Receive, RoundInv, ResultInv, ArrivalInv, Pending
<1>7. CASE Tick
  BY <1>7, <1>n DEF Tick, RoundInv, ResultInv, ArrivalInv, Pending
<1>8. CASE PollFails
  BY <1>8, <1>n DEF PollFails, RoundInv, ResultInv, ArrivalInv, Pending
<1>9. CASE Ignore
  BY <1>9, <1>n DEF Ignore, Wait, RoundInv, ResultInv, ArrivalInv, Pending
<1>10. CASE Done
  BY <1>10, <1>n DEF Done, RoundInv, ResultInv, ArrivalInv, Pending
<1>11. CASE UNCHANGED vars
  BY <1>11 DEF RoundInv, ResultInv, ArrivalInv, Pending
<1> QED
  BY <1>1, <1>2, <1>3, <1>4, <1>5, <1>6, <1>7, <1>8, <1>9, <1>10, <1>11,
     EndedCases
  DEF Next, Program, Terminated

\* The initial state satisfies HopInv.
LEMMA InitHopInv == Init => HopInv
<1> SUFFICES ASSUME Init PROVE HopInv
  OBVIOUS
<1>1. probe = 0 /\ Len(log) = 0 /\ pc = "probe"
  BY DEF Init
<1> QED BY <1>1 DEF HopInv, RoundInv, ResultInv, ArrivalInv, Pending

\* A hop ends with a full line about probes of one ttl and one length.
THEOREM HopCompleteHolds == Spec => []HopComplete
<1>1. TInv /\ HopInv => HopComplete
  <2> SUFFICES ASSUME TInv, HopInv, pc = "hop"
               PROVE  /\ Len(log) >= opt.nprobes
                      /\ \A i \in Line : /\ log[i].ttl = ttl
                                         /\ log[i].len = packlen
                                         /\ log[i].result # "pending"
    BY DEF HopComplete
  <2>1. Len(log) \in Nat /\ opt.nprobes \in Nat
    BY TracerouteOptions DEF TInv, TypeOK, TypeControl, OptionType
  <2>2. probe = opt.nprobes /\ Len(log) >= opt.nprobes
    BY <2>1 DEF HopInv, RoundInv, Pending
  <2>3. ASSUME NEW i \in Line
        PROVE  i \in 1 .. Len(log) /\ i > Len(log) - opt.nprobes
    BY <2>1, <2>2 DEF Line
  <2> QED BY <2>1, <2>2, <2>3 DEF HopInv, RoundInv, ResultInv, Pending
<1> QED BY <1>1, InitHopInv, NextHopInv, TInvHolds, PTL DEF Spec

\* No probe goes beyond the hop at which a probe arrived.
THEOREM StopsAtDestinationHolds == Spec => []StopsAtDestination
<1>1. TInv /\ HopInv => StopsAtDestination
  <2> SUFFICES ASSUME TInv, HopInv, NEW i \in DOMAIN log, NEW j \in DOMAIN log,
                      i < j, log[i].result = "arrived"
               PROVE  log[j].ttl = log[i].ttl
    BY DEF StopsAtDestination
  <2>1. i \in 1 .. Len(log) /\ j \in 1 .. Len(log) /\ log \in Seq(Probe)
    BY DEF TInv, TypeOK
  <2>2. log[i].ttl = ttl /\ log[i].ttl <= log[j].ttl /\ log[j].ttl <= ttl
    BY <2>1 DEF HopInv, ArrivalInv
  <2>3. log[j].ttl \in Nat /\ log[i].ttl \in Nat
    BY <2>1, ProbeFields
  <2> QED BY <2>2, <2>3
<1> QED BY <1>1, InitHopInv, NextHopInv, TInvHolds, PTL DEF Spec

-----------------------------------------------------------------------------
(* The wait for an answer.                                                 *)

\* The test on whole seconds never ends a wait before its time.
LEMMA TooLateIsLate ==
    ASSUME TypeNumbers, TooLate
    PROVE  elapsed >= WaitTime * TicksPerSec
<1> DEFINE a == phase + elapsed
           q == a \div TicksPerSec
           T == TicksPerSec
<1>1. /\ phase \in Nat /\ phase < T /\ elapsed \in Nat /\ T \in Nat \ {0}
      /\ WaitTime \in Nat
  BY TracerouteNumbers DEF TypeNumbers, ClockCap
<1>2. a \in Nat
  BY <1>1
<1>3. q \in Nat /\ a % T \in 0 .. T - 1 /\ a = T * q + (a % T)
  BY <1>1, <1>2, ModParts
<1>4. q >= WaitTime + 1
  BY <1>1, <1>3 DEF TooLate
<1> HIDE DEF a, q, T
<1>5. T * q >= T * (WaitTime + 1)
  BY <1>1, <1>3, <1>4
<1>6. T * (WaitTime + 1) = WaitTime * T + T /\ WaitTime * T \in Nat
  BY <1>1
<1>7. a >= WaitTime * T + T
  BY <1>1, <1>2, <1>3, <1>5, <1>6
<1> QED BY <1>1, <1>6, <1>7 DEF a, T

\* poll() waits to less than a millisecond before the end of the wait.
WaitInv == pc = "wait" => until + MsTicks > WaitTime * TicksPerSec

\* Every step preserves it.
LEMMA NextWaitInv == TInv /\ WaitInv /\ [Next]_vars => WaitInv'
<1> SUFFICES ASSUME TInv, WaitInv, [Next]_vars PROVE WaitInv'
  OBVIOUS
<1>1. CASE Wait
  BY <1>1, PollUntilFacts DEF Wait, WaitInv, TInv, TypeOK
<1>2. CASE pc' # "wait"
  BY <1>2 DEF WaitInv
<1>3. CASE pc' = pc /\ until' = until
  BY <1>3 DEF WaitInv
<1>4. CASE Ended
  BY <1>2, <1>4 DEF Ended, EndProbe
<1> QED
  BY <1>1, <1>2, <1>3, <1>4, EndedCases
  DEF Next, Program, NewProbe, TooBig, Sent, PollFails, Receive, Ignore,
      NeedFrag, NextHop, Done, Tick, Terminated, vars, timing

\* What StarAfterWait says of a step.
StarStep ==
    log' # log /\ Len(log') = Len(log) /\ log'[Len(log)].result = "star"
        => elapsed + MsTicks > WaitTime * TicksPerSec

\* A "*" is printed less than a millisecond before the wait is over, or after.
THEOREM StarAfterWaitHolds == Spec => StarAfterWait
<1>1. ASSUME TInv, WaitInv, [Next]_vars PROVE StarStep
  <2> SUFFICES ASSUME log' # log, Len(log') = Len(log),
                      log'[Len(log)].result = "star"
               PROVE  elapsed + MsTicks > WaitTime * TicksPerSec
    BY DEF StarStep
  <2> USE DEF vars, conf, loop, size, counts, timing
  <2>1. log \in Seq(Probe) /\ Len(log) \in Nat
    BY <1>1 DEF TInv, TypeOK
  <2>t. /\ elapsed \in Nat /\ until \in Nat /\ MsTicks \in Nat \ {0}
        /\ WaitTime * TicksPerSec \in Nat
    BY <1>1, TracerouteNumbers DEF TInv, TypeOK, TypeNumbers, ClockCap
  <2>2. CASE TimeOut
    <3>1. elapsed >= until /\ until + MsTicks > WaitTime * TicksPerSec
      BY <1>1, <2>2 DEF TimeOut, WaitInv
    <3> DEFINE W == WaitTime * TicksPerSec
    <3> HIDE DEF W
    <3> QED BY <2>t, <3>1 DEF W
  <2>3. CASE GiveUpWaiting
    <3>1. elapsed >= WaitTime * TicksPerSec
      BY <1>1, <2>3, TooLateIsLate DEF GiveUpWaiting, TInv, TypeOK
    <3> DEFINE W == WaitTime * TicksPerSec
    <3> HIDE DEF W
    <3> QED BY <2>t, <3>1 DEF W
  <2>4. CASE InTransit \/ Arrived \/ Unreachable \/ NeedFrag
    <3>1. PICK r \in Results \ {"star"} : log' = Outcome(r)
      BY <2>4 DEF InTransit, Arrived, Unreachable, NeedFrag, EndProbe, Results
    <3>2. Len(log) >= 1
      BY <1>1, <2>4
      DEF InTransit, Arrived, Unreachable, NeedFrag, Accepts, TInv, Current
    <3>3. log'[Len(log)].result = r
      BY <2>1, <3>1, <3>2, LogOutcome
    <3> QED BY <3>1, <3>3
  <2>5. ASSUME NEW b \in BOOLEAN, Sent(b) PROVE FALSE
    <3>1. Len(log') = Len(log) + 1
      BY <2>1, <2>5 DEF Sent
    <3> QED BY <2>1, <3>1
  <2> QED
    BY <1>1, <2>2, <2>3, <2>4, <2>5
    DEF Next, Program, NewProbe, TooBig, PollFails, Receive, Ignore, NextHop,
        Done, Tick, Terminated
<1>2. Init => WaitInv
  BY DEF Init, WaitInv
<1>3. TInv /\ WaitInv /\ [Next]_vars => [StarStep]_vars
  BY <1>1
<1> QED BY <1>2, <1>3, TInvHolds, NextWaitInv, PTL DEF Spec, StarAfterWait, StarStep

-----------------------------------------------------------------------------
(* The end of the trace.                                                   *)

\* The probes of a hop in a history, and those refused.
HopOf(l, h) == {i \in 1 .. Len(l) : l[i].ttl = h}
RefusedOf(l, h, disc) ==
    {i \in HopOf(l, h) : \/ l[i].result = "unreach"
                         \/ l[i].result = "needfrag" /\ ~disc}

\* A later history: no probe is taken back, and no result changes.
Later(l, k) ==
    /\ Len(l) <= Len(k)
    /\ \A i \in 1 .. Len(l) :
          /\ k[i].ttl = l[i].ttl
          /\ l[i].result # "pending" => k[i].result = l[i].result

\* got_there and unreachable are about probes of the current hop, and every hop
\* that was left has a line.
EndInv ==
    /\ pc \in {"wait", "check"} => log[Len(log)].result = "pending"
    /\ got_there > 0 =>
          \E i \in HopOf(log, ttl) : log[i].result = "arrived"
    /\ unreachable <= Cardinality(RefusedOf(log, ttl, Mtudisc(opt)))
    /\ \A h \in opt.first .. ttl - 1 : Cardinality(HopOf(log, h)) >= opt.nprobes
    /\ TraceComplete

\* The sets of probes can be counted.
LEMMA HopsFinite ==
    ASSUME NEW l \in Seq(Probe), NEW h, NEW disc
    PROVE  /\ IsFiniteSet(HopOf(l, h)) /\ Cardinality(HopOf(l, h)) \in Nat
           /\ IsFiniteSet(RefusedOf(l, h, disc))
           /\ Cardinality(RefusedOf(l, h, disc)) \in Nat
<1>1. IsFiniteSet(1 .. Len(l))
  <2>1. 1 \in Int /\ Len(l) \in Int
    OBVIOUS
  <2> QED BY <2>1, FS_Interval
<1>2. IsFiniteSet(HopOf(l, h))
  <2>1. HopOf(l, h) \in SUBSET (1 .. Len(l))
    BY DEF HopOf
  <2> QED BY <1>1, <2>1, FS_Subset
<1>3. IsFiniteSet(RefusedOf(l, h, disc))
  <2>1. RefusedOf(l, h, disc) \in SUBSET HopOf(l, h)
    BY DEF RefusedOf
  <2> QED BY <1>2, <2>1, FS_Subset
<1> QED BY <1>2, <1>3, FS_CardinalityType

\* They only grow.
LEMMA HopsGrow ==
    ASSUME NEW l \in Seq(Probe), NEW k \in Seq(Probe), Later(l, k), NEW h, NEW disc
    PROVE  /\ HopOf(l, h) \subseteq HopOf(k, h)
           /\ Cardinality(HopOf(l, h)) <= Cardinality(HopOf(k, h))
           /\ RefusedOf(l, h, disc) \subseteq RefusedOf(k, h, disc)
           /\ Cardinality(RefusedOf(l, h, disc)) <= Cardinality(RefusedOf(k, h, disc))
<1>1. \A i \in 1 .. Len(l) : i \in 1 .. Len(k)
  BY DEF Later
<1>2. HopOf(l, h) \subseteq HopOf(k, h)
  BY <1>1 DEF HopOf, Later
<1>3. RefusedOf(l, h, disc) \subseteq RefusedOf(k, h, disc)
  <2> SUFFICES ASSUME NEW i \in RefusedOf(l, h, disc)
               PROVE  i \in RefusedOf(k, h, disc)
    OBVIOUS
  <2>1. i \in HopOf(l, h) /\ i \in 1 .. Len(l) /\ l[i].result # "pending"
    BY DEF RefusedOf, HopOf
  <2>2. k[i].result = l[i].result
    BY <2>1 DEF Later
  <2> QED BY <1>2, <2>1, <2>2 DEF RefusedOf
<1>4. IsFiniteSet(HopOf(k, h)) /\ IsFiniteSet(RefusedOf(k, h, disc))
  BY HopsFinite
<1> QED BY <1>2, <1>3, <1>4, FS_Subset

\* What HopComplete says of the number of probes.
LEMMA FullHop ==
    ASSUME TInv, HopInv, pc = "hop"
    PROVE  Cardinality(HopOf(log, ttl)) >= opt.nprobes
<1>1. Len(log) \in Nat /\ opt.nprobes \in Nat /\ log \in Seq(Probe)
  BY TracerouteOptions DEF TInv, TypeOK, TypeControl, OptionType
<1>2. probe = opt.nprobes /\ Len(log) >= opt.nprobes
  BY <1>1 DEF HopInv, RoundInv, Pending
<1> DEFINE a == Len(log) - opt.nprobes + 1
           b == Len(log)
<1>3. a .. b \in SUBSET HopOf(log, ttl)
  <2> SUFFICES ASSUME NEW i \in a .. b PROVE i \in HopOf(log, ttl)
    OBVIOUS
  <2>1. i \in 1 .. Len(log) /\ i > Len(log) - (probe + 0)
    BY <1>1, <1>2
  <2>2. log[i].ttl = ttl
    BY <2>1 DEF HopInv, RoundInv, Pending
  <2> QED BY <2>1, <2>2 DEF HopOf
<1>4. a \in Int /\ b \in Int /\ b - a + 1 = opt.nprobes /\ (a > b => opt.nprobes = 0)
  BY <1>1
<1>5. Cardinality(a .. b) = IF a > b THEN 0 ELSE b - a + 1
  <2> HIDE DEF a, b
  <2> QED BY <1>4, FS_Interval
<1>6. Cardinality(a .. b) = opt.nprobes
  <2> HIDE DEF a, b
  <2> QED BY <1>1, <1>4, <1>5
<1>7. IsFiniteSet(HopOf(log, ttl)) /\ Cardinality(HopOf(log, ttl)) \in Nat
  BY <1>1, HopsFinite
<1>8. Cardinality(a .. b) <= Cardinality(HopOf(log, ttl))
  <2> HIDE DEF a, b
  <2> QED BY <1>3, <1>7, FS_Subset
<1> QED BY <1>1, <1>6, <1>7, <1>8

\* The sets of the properties are those used here.
LEMMA HopsAre ==
    ASSUME log \in Seq(Probe), NEW h
    PROVE  Hop(h) = HopOf(log, h) /\ Refused(h) = RefusedOf(log, h, Mtudisc(opt))
<1>1. DOMAIN log = 1 .. Len(log)
  OBVIOUS
<1> QED BY <1>1 DEF Hop, Refused, HopOf, RefusedOf

\* Init establishes it.
LEMMA InitEndInv == Init => EndInv
<1> SUFFICES ASSUME Init PROVE EndInv
  OBVIOUS
<1>1. /\ log = << >> /\ got_there = 0 /\ unreachable = 0 /\ ttl = opt.first
      /\ pc = "probe" /\ opt.first \in Nat
  BY TracerouteOptions DEF Init, OptionType
<1>2. log \in Seq(Probe)
  BY <1>1
<1>3. Cardinality(RefusedOf(log, ttl, Mtudisc(opt))) \in Nat
  BY <1>2, HopsFinite
<1>4. opt.first .. ttl - 1 = {}
  BY <1>1
<1> QED BY <1>1, <1>3, <1>4 DEF EndInv, TraceComplete

\* A step that keeps the hop and only adds to the history.
LEMMA EndInvStep ==
    ASSUME TInv, EndInv, log' \in Seq(Probe), Later(log, log'),
           UNCHANGED <<opt, ttl>>,
           \/ got_there' = got_there
           \/ \E i \in HopOf(log', ttl) : log'[i].result = "arrived",
           \/ unreachable' = unreachable
           \/ /\ unreachable' = unreachable + 1
              /\ \E i \in RefusedOf(log', ttl, Mtudisc(opt)) :
                    i \notin RefusedOf(log, ttl, Mtudisc(opt)),
           pc' \in {"wait", "check"} => log'[Len(log')].result = "pending",
           pc' # "done"
    PROVE  EndInv'
<1>1. log \in Seq(Probe) /\ unreachable \in Nat /\ opt.nprobes \in Nat
      /\ opt' = opt /\ ttl' = ttl
  BY TracerouteOptions DEF TInv, TypeOK, TypeNumbers, TypeControl, OptionType
<1> DEFINE k == log'
           disc == Mtudisc(opt)
<1>2. /\ \A h : HopOf(log, h) \subseteq HopOf(k, h)
      /\ \A h : Cardinality(HopOf(log, h)) <= Cardinality(HopOf(k, h))
      /\ \A h : Cardinality(RefusedOf(log, h, disc)) <= Cardinality(RefusedOf(k, h, disc))
  <2> HIDE DEF k, disc
  <2>1. k \in Seq(Probe) /\ Later(log, k)
    BY DEF k
  <2> QED BY <1>1, <2>1, HopsGrow
<1>3. /\ \A h : Cardinality(HopOf(log, h)) \in Nat /\ Cardinality(HopOf(k, h)) \in Nat
      /\ \A h : /\ Cardinality(RefusedOf(log, h, disc)) \in Nat
                /\ Cardinality(RefusedOf(k, h, disc)) \in Nat
  <2> HIDE DEF k, disc
  <2>1. k \in Seq(Probe)
    BY DEF k
  <2> QED BY <1>1, <2>1, HopsFinite
<1>4. unreachable' <= Cardinality(RefusedOf(k, ttl, disc))
  <2>1. unreachable <= Cardinality(RefusedOf(log, ttl, disc))
    BY DEF EndInv
  <2>2. CASE unreachable' = unreachable
    <3> HIDE DEF k, disc
    <3> QED BY <1>1, <1>2, <1>3, <2>1, <2>2
  <2>3. CASE /\ unreachable' = unreachable + 1
             /\ RefusedOf(k, ttl, disc) # RefusedOf(log, ttl, disc)
    <3> HIDE DEF k, disc
    <3>1. k \in Seq(Probe) /\ Later(log, k)
      BY DEF k
    <3>2. RefusedOf(log, ttl, disc) \in SUBSET RefusedOf(k, ttl, disc)
      BY <1>1, <3>1, HopsGrow
    <3>3. IsFiniteSet(RefusedOf(k, ttl, disc))
      BY <3>1, HopsFinite
    <3>4. Cardinality(RefusedOf(log, ttl, disc)) # Cardinality(RefusedOf(k, ttl, disc))
      BY <2>3, <3>2, <3>3, FS_Subset
    <3> QED BY <1>1, <1>2, <1>3, <2>1, <2>3, <3>4
  <2> QED BY <2>2, <2>3
<1>5. \A h \in opt.first .. ttl - 1 : Cardinality(HopOf(k, h)) >= opt.nprobes
  <2> SUFFICES ASSUME NEW h \in opt.first .. ttl - 1
               PROVE  Cardinality(HopOf(k, h)) >= opt.nprobes
    OBVIOUS
  <2>1. Cardinality(HopOf(log, h)) >= opt.nprobes
    BY DEF EndInv
  <2> HIDE DEF k
  <2> QED BY <1>1, <1>2, <1>3, <2>1
<1>6. got_there' > 0 => \E i \in HopOf(k, ttl) : k[i].result = "arrived"
  <2> SUFFICES ASSUME got_there' = got_there, got_there > 0
               PROVE  \E i \in HopOf(k, ttl) : k[i].result = "arrived"
    OBVIOUS
  <2>1. PICK i \in HopOf(log, ttl) : log[i].result = "arrived"
    BY DEF EndInv
  <2>2. i \in HopOf(k, ttl) /\ i \in 1 .. Len(log)
    BY <1>2 DEF HopOf
  <2>3. k[i].result = "arrived"
    BY <2>1, <2>2 DEF Later
  <2> QED BY <2>2, <2>3
<1> QED BY <1>1, <1>4, <1>5, <1>6 DEF EndInv, TraceComplete

\* Every step preserves it.
LEMMA NextEndInv == TInv /\ HopInv /\ EndInv /\ [Next]_vars => EndInv'
<1> SUFFICES ASSUME TInv, HopInv, EndInv, [Next]_vars PROVE EndInv'
  OBVIOUS
<1> USE DEF vars, conf, loop, size, counts, timing
<1>n. /\ opt.nprobes \in Nat /\ ttl \in Nat /\ opt.first \in Nat /\ opt.max \in Nat
      /\ ttl <= opt.max /\ opt.first <= ttl
      /\ Len(log) \in Nat /\ log \in Seq(Probe)
      /\ got_there \in Nat /\ unreachable \in Nat
  BY TracerouteOptions DEF TInv, TypeOK, TypeControl, TypeNumbers, OptionType
<1>l. log' \in Seq(Probe)
  BY NextTInv DEF TInv, TypeOK
<1>s. Later(log, log)
  BY <1>n DEF Later
<1> DEFINE disc == Mtudisc(opt)
<1>1. CASE \/ NewProbe \/ TooBig \/ Tick \/ PollFails \/ Ignore
           \/ \E p \in Packets : Receive(p)
  <2>1. /\ log' = log /\ UNCHANGED <<opt, ttl, got_there, unreachable>>
        /\ pc' # "done"
        /\ pc' \in {"wait", "check"} => pc \in {"wait", "check"}
    BY <1>1 DEF NewProbe, TooBig, Tick, PollFails, Ignore, Wait, Receive
  <2>2. pc' \in {"wait", "check"} => log'[Len(log')].result = "pending"
    BY <2>1 DEF EndInv
  <2> QED BY <1>l, <1>s, <2>1, <2>2, EndInvStep
<1>2. ASSUME NEW b \in BOOLEAN, Sent(b) PROVE EndInv'
  <2> DEFINE e == [seq |-> seq, ttl |-> ttl, len |-> packlen,
                   df |-> Df(opt), out |-> b, result |-> "pending"]
  <2>1. e \in Probe
    BY <1>n DEF Probe, Results, TypeNumbers, Df, TInv, TypeOK
  <2>2. e.result = "pending"
    OBVIOUS
  <2>3. /\ log' = Append(log, e) /\ UNCHANGED <<opt, ttl, got_there, unreachable>>
        /\ pc' # "done"
    BY <1>2 DEF Sent, Wait
  <2> HIDE DEF e
  <2>4. /\ Len(log') = Len(log) + 1 /\ log'[Len(log) + 1] = e
        /\ \A i \in 1 .. Len(log) : log'[i] = log[i]
    BY <1>n, <2>1, <2>3, LogAppend
  <2>5. Later(log, log')
    BY <1>n, <2>4 DEF Later
  <2>6. log'[Len(log')].result = "pending"
    BY <2>2, <2>4
  <2> QED BY <1>l, <2>3, <2>5, <2>6, EndInvStep
<1>3. CASE TimeOut \/ GiveUpWaiting \/ InTransit \/ Arrived \/ Unreachable \/ NeedFrag
  <2>1. PICK r \in Results :
          /\ log' = Outcome(r)
          /\ got_there' = got_there \/ r = "arrived"
          /\ \/ unreachable' = unreachable
             \/ /\ unreachable' = unreachable + 1
                /\ r = "unreach" \/ (r = "needfrag" /\ ~disc)
    BY <1>3 DEF TimeOut, GiveUpWaiting, InTransit, Arrived, Unreachable, NeedFrag,
       AgainCounts, EndProbe, Results
  <2>2. /\ pc \in {"wait", "check"} /\ ~(pc' \in {"wait", "check"}) /\ pc' # "done"
        /\ opt' = opt /\ ttl' = ttl
    BY <1>3 DEF TimeOut, GiveUpWaiting, InTransit, Arrived, Unreachable, NeedFrag,
       EndProbe, Accepts
  <2>3. Len(log) >= 1 /\ log[Len(log)].ttl = ttl /\ log[Len(log)].result = "pending"
    BY <2>2 DEF TInv, Current, EndInv
  <2>4. Len(log') = Len(log) /\ log'[Len(log)].result = r
    BY <1>n, <2>1, <2>3, LogOutcome
  <2>5. \A i \in 1 .. Len(log) - 1 : log'[i] = log[i]
    BY <1>n, <2>1, <2>3, LogOutcome
  <2>6. \A i \in 1 .. Len(log) : log'[i].ttl = log[i].ttl
    BY <1>n, <2>1, <2>3, LogOutcome
  <2>7. Later(log, log')
    <3>1. \A i \in 1 .. Len(log) : i = Len(log) \/ i \in 1 .. Len(log) - 1
      BY <1>n
    <3> QED BY <1>n, <2>3, <2>4, <2>5, <2>6, <3>1 DEF Later
  <2>8. Len(log) \in HopOf(log', ttl)
    BY <1>n, <2>3, <2>4, <2>6 DEF HopOf
  <2>9. \/ got_there' = got_there
        \/ \E i \in HopOf(log', ttl) : log'[i].result = "arrived"
    BY <2>1, <2>4, <2>8
  <2>10. Len(log) \notin RefusedOf(log, ttl, disc)
    BY <2>3 DEF RefusedOf
  <2>11. \/ unreachable' = unreachable
         \/ /\ unreachable' = unreachable + 1
            /\ \E i \in RefusedOf(log', ttl, disc) : i \notin RefusedOf(log, ttl, disc)
    <3>1. r = "unreach" \/ (r = "needfrag" /\ ~disc) => Len(log) \in RefusedOf(log', ttl, disc)
      BY <2>4, <2>8 DEF RefusedOf
    <3>2. CASE unreachable' = unreachable
      BY <3>2
    <3>3. CASE /\ unreachable' = unreachable + 1
               /\ r = "unreach" \/ (r = "needfrag" /\ ~disc)
      BY <2>10, <3>1, <3>3
    <3> QED BY <2>1, <3>2, <3>3
  <2> QED BY <1>l, <2>2, <2>7, <2>9, <2>11, EndInvStep
<1>4. CASE NextHop
  <2>1. /\ pc = "hop" /\ pc' = "probe" /\ ttl' = ttl + 1 /\ opt' = opt /\ log' = log
        /\ got_there' = 0 /\ unreachable' = 0
    BY <1>4 DEF NextHop
  <2>2. Cardinality(HopOf(log, ttl)) >= opt.nprobes
    BY <2>1, FullHop
  <2>3. \A h \in opt.first .. ttl : Cardinality(HopOf(log, h)) >= opt.nprobes
    <3>1. \A h \in opt.first .. ttl : h \in opt.first .. ttl - 1 \/ h = ttl
      BY <1>n
    <3> QED BY <2>2, <3>1 DEF EndInv
  <2>4. Cardinality(RefusedOf(log, ttl + 1, disc)) \in Nat
    BY <1>n, HopsFinite
  <2>5. ttl' - 1 = ttl
    BY <1>n, <2>1
  <2> QED BY <2>1, <2>3, <2>4, <2>5 DEF EndInv, TraceComplete
<1>5. CASE Done
  <2>1. /\ pc = "hop" /\ pc' = "done" /\ UNCHANGED <<opt, ttl, log, got_there, unreachable>>
        /\ Stop \/ ~MoreHops
    BY <1>5 DEF Done
  <2>2. \A h : Hop(h) = HopOf(log, h) /\ Refused(h) = RefusedOf(log, h, disc)
    BY <1>n, HopsAre
  <2>3. CASE got_there > 0
    <3>1. \E i \in Hop(ttl) : log[i].result = "arrived"
      BY <2>2, <2>3 DEF EndInv
    <3>2. \E i \in Hop(ttl)' : log'[i].result = "arrived"
      BY <2>1, <3>1 DEF Hop
    <3>3. TraceComplete'
      BY <3>2 DEF TraceComplete
    <3> QED BY <2>1, <3>3 DEF EndInv
  <2>4. CASE unreachable > 0 /\ unreachable >= (opt.nprobes + 1) \div 2
    <3> DEFINE c == Cardinality(RefusedOf(log, ttl, disc))
    <3>1. c \in Nat /\ unreachable <= c
      BY <1>n, HopsFinite DEF EndInv
    <3> HIDE DEF c
    <3>2. 2 * ((opt.nprobes + 1) \div 2) >= opt.nprobes /\ (opt.nprobes + 1) \div 2 \in Nat
      BY <1>n
    <3>3. 2 * c >= opt.nprobes
      BY <1>n, <2>4, <3>1, <3>2
    <3>4. 2 * Cardinality(Refused(ttl)) >= opt.nprobes
      BY <2>2, <3>3 DEF c
    <3>5. Refused(ttl)' = Refused(ttl)
      BY <2>1 DEF Refused, Hop
    <3>6. TraceComplete'
      BY <2>1, <3>4, <3>5 DEF TraceComplete
    <3> QED BY <2>1, <3>6 DEF EndInv
  <2>5. CASE ~MoreHops
    <3>1. ttl = opt.max
      BY <1>n, <2>5 DEF MoreHops
    <3>2. Cardinality(HopOf(log, ttl)) >= opt.nprobes
      BY <2>1, FullHop
    <3>3. \A h \in opt.first .. opt.max : h \in opt.first .. ttl - 1 \/ h = ttl
      BY <1>n, <3>1
    <3>4. \A h \in opt.first .. opt.max : Cardinality(Hop(h)) >= opt.nprobes
      BY <2>2, <3>2, <3>3 DEF EndInv
    <3>5. \A h : Hop(h)' = Hop(h)
      BY <2>1 DEF Hop
    <3>6. (\A h \in opt.first .. opt.max : Cardinality(Hop(h)) >= opt.nprobes)'
      BY <2>1, <3>4, <3>5
    <3>7. TraceComplete'
      BY <3>6 DEF TraceComplete
    <3> QED BY <2>1, <3>7 DEF EndInv
  <2> QED BY <2>1, <2>3, <2>4, <2>5 DEF Stop
<1>6. CASE UNCHANGED vars
  BY <1>6 DEF EndInv, TraceComplete, Hop, Refused
<1> QED BY <1>1, <1>2, <1>3, <1>4, <1>5, <1>6 DEF Next, Program, Terminated

\* For every number of probes and hops, whatever the network answers, loses and
\* repeats: traceroute stops short of -m hops only when a probe of the last
\* hop arrived or half of them were refused.
THEOREM TraceCompleteHolds == Spec => []TraceComplete
<1>1. EndInv => TraceComplete
  BY DEF EndInv
<1> QED BY <1>1, InitHopInv, NextHopInv, InitEndInv, NextEndInv, TInvHolds, PTL
        DEF Spec

=============================================================================
