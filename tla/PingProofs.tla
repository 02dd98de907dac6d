----------------------------- MODULE PingProofs -----------------------------
(***************************************************************************)
(* What holds of Ping for every value of its constants.                    *)
(***************************************************************************)
EXTENDS Ping, ListLemmas, TLAPS

\* Facts about where the loop is that the type invariant needs to be inductive:
\* pr_pack only takes back what it counted.
PcFacts ==
    /\ pc = "counted" => nreceived > 0 /\ packet.kind = "reply"
    /\ cut => pc = "exited"

TInv == TypeOK /\ PcFacts

\* The schedule consists of points in time.
LEMMA NextTxType ==
    ASSUME NEW next \in Nat, NEW t \in Nat
    PROVE  NextTx(next, t) \subseteq Nat
<1>1. Interval \in Nat
  BY NumbersAssumption
<1>2. ASSUME NEW k \in Skips(next, t) PROVE next + k * Interval \in Nat
  <2>1. k \in Nat
    BY <1>2 DEF Skips, MaxOf
  <2>2. k * Interval \in Nat
    BY <1>1, <2>1
  <2> QED BY <2>2
<1> QED BY <1>2 DEF NextTx

\* A poll() ends at a point in time, or never.
LEMMA PollUntilType ==
    ASSUME clock \in Nat, last \in Nat, NEW sec \in Int, NEW t \in Nat
    PROVE  PollUntil(Capped(sec, t)) \in Int
<1>1. Capped(sec, t) \in Int
  BY DEF Capped, MinOf
<1> QED BY <1>1 DEF PollUntil, Never

\* The waits are numbers, the capped one not negative.
LEMMA WaitTypes ==
    ASSUME TypeNumbers, NEW sec \in Int, NEW t \in Nat
    PROVE  UntilNext(t) \in Int /\ LastWait(t) \in Int /\ NotNegative(sec) \in Nat
<1>1. LastFactor * Interval \in Int
  BY NumbersAssumption
<1> QED BY <1>1, NumbersAssumption
        DEF TypeNumbers, UntilNext, LastWait, NotNegative, MaxOf

\* Init establishes the type invariant.
LEMMA InitTInv == Init => TInv
<1> SUFFICES ASSUME Init PROVE TInv
  OBVIOUS
<1>1. TypeControl
  BY OptionsAssumption DEF Init, TypeControl, PCs
<1>2. TypeNumbers
  BY OptionsAssumption, NumbersAssumption
  DEF Init, TypeNumbers, Limit, OptionType
<1>3. TypeData
  BY NumbersAssumption DEF Init, TypeData, Noise, Datagram, NoiseKinds
<1>4. TypeFlags
  BY DEF Init, TypeFlags
<1>5. PcFacts
  BY DEF Init, PcFacts
<1> QED BY <1>1, <1>2, <1>3, <1>4, <1>5 DEF TypeOK, TInv

\* Every step preserves it.
LEMMA NextTInv == TInv /\ [Next]_vars => TInv'
<1> SUFFICES ASSUME TInv, [Next]_vars PROVE TInv'
  OBVIOUS
<1> USE DEF vars, sched, times, counters, history, outcome, network
<1>1. TypeControl'
  <2> USE DEF TInv, TypeOK, TypeControl, PCs
  <2>1. CASE Main
    BY <2>1 DEF Main, Preload, Doit, TopSend, TopWait, TopLast, PingerSend,
       PingerMark, PingerCount, PollReady, PollTimeout, PackReply,
       PackDuplicateTest, PackOther, ForgetRoute, Cond, Finish, ExitStatus
  <2>2. CASE ~Main
    BY <2>2 DEF Next, PingerFails, PollFails, SigFinish, SigPrefinish, SigInfo,
       PollTick, StallTick, Arrive, Exited, ExitStatus, Interrupt, Running
  <2> QED BY <2>1, <2>2
<1>2. TypeFlags'
  <2> USE DEF TInv, TypeOK, TypeFlags
  <2>1. CASE Main
    BY <2>1 DEF Main, Preload, Doit, TopSend, TopWait, TopLast, PingerSend,
       PingerMark, PingerCount, PollReady, PollTimeout, PackReply,
       PackDuplicateTest, PackOther, ForgetRoute, Cond, Finish
  <2>2. CASE ~Main
    BY <2>2 DEF Next, PingerFails, PollFails, SigFinish, SigPrefinish, SigInfo,
       PollTick, StallTick, Arrive, Exited
  <2> QED BY <2>1, <2>2
<1>3. TypeNumbers'
  <2> USE DEF TInv, TypeOK, TypeNumbers
  <2>1. opt \in OptionType
    BY OptionsAssumption DEF TypeControl
  <2>2. CASE PingerCount
    <3>1. next_tx' \in Nat
      BY <2>2, NextTxType DEF PingerCount
    <3>2. NotNegative(next_tx' - now) \in Int
      BY <3>1, WaitTypes
    <3>3. PollUntil(Capped(NotNegative(next_tx' - now), now)) \in Int
      BY <3>2, PollUntilType
    <3> QED BY <2>2, <3>1, <3>3 DEF PingerCount
  <2>3. CASE TopWait
    <3>1. NotNegative(UntilNext(clock)) \in Int
      BY WaitTypes
    <3>2. PollUntil(Capped(NotNegative(UntilNext(clock)), clock)) \in Int
      BY <3>1, PollUntilType
    <3> QED BY <2>3, <3>2 DEF TopWait
  <2>4. CASE TopLast
    <3>1. PollUntil(Capped(LastWait(clock), clock)) \in Int
      BY WaitTypes, PollUntilType
    <3> QED BY <2>4, <3>1 DEF TopLast
  <2>5. CASE PackReply
    BY <2>5 DEF PackReply, TypeData, Datagram, MinOf, MaxOf, Largest
  <2>6. CASE PackDuplicateTest
    BY <2>6 DEF PackDuplicateTest, PcFacts
  <2>7. CASE Doit
    <3>1. opt.maxwait \in Nat
      BY <2>1 DEF OptionType
    <3> QED BY <2>7, <3>1 DEF Doit
  <2>8. CASE SigPrefinish
    BY <2>8 DEF SigPrefinish, Interrupt, MinOf
  <2>9. CASE Preload
    BY <2>9 DEF Preload
  <2>10. CASE TopSend
    BY <2>10 DEF TopSend
  <2>11. CASE PingerSend
    BY <2>11 DEF PingerSend
  <2>12. CASE PingerMark
    BY <2>12 DEF PingerMark
  <2>13. CASE PollReady
    BY <2>13 DEF PollReady
  <2>14. CASE PollTimeout
    BY <2>14 DEF PollTimeout
  <2>15. CASE PackOther
    BY <2>15 DEF PackOther, ForgetRoute
  <2>16. CASE Cond
    BY <2>16 DEF Cond
  <2>17. CASE Finish
    BY <2>17 DEF Finish
  <2>18. CASE PingerFails
    BY <2>18 DEF PingerFails
  <2>19. CASE PollFails
    BY <2>19 DEF PollFails
  <2>20. CASE SigFinish
    BY <2>20 DEF SigFinish
  <2>21. CASE SigInfo
    BY <2>21 DEF SigInfo, Interrupt
  <2>22. CASE PollTick
    BY <2>22 DEF PollTick
  <2>23. CASE StallTick
    BY <2>23 DEF StallTick
  <2>24. CASE Arrive
    BY <2>24 DEF Arrive
  <2>25. CASE Exited
    BY <2>25 DEF Exited
  <2>26. CASE UNCHANGED vars
    BY <2>26
  <2> QED
    BY <2>2, <2>3, <2>4, <2>5, <2>6, <2>7, <2>8, <2>9, <2>10, <2>11, <2>12,
       <2>13, <2>14, <2>15, <2>16, <2>17, <2>18, <2>19, <2>20, <2>21, <2>22,
       <2>23, <2>24, <2>25, <2>26 DEF Next, Main
<1>4. TypeData'
  <2> USE DEF TInv, TypeOK, TypeData
  <2>1. \A k \in NoiseKinds : Noise(k) \in Datagram
    BY DEF Noise, NoiseKinds, Datagram
  <2>2. CASE PingerSend
    BY <2>2 DEF PingerSend, Reply, Datagram, TypeNumbers
  <2>3. CASE PingerCount
    BY <2>3 DEF PingerCount, Clear
  <2>4. CASE PackDuplicateTest
    BY <2>1, <2>4 DEF PackDuplicateTest, Mark, Datagram, NoiseKinds
  <2>5. CASE PollReady
    BY <2>5 DEF PollReady
  <2>6. CASE Arrive
    <3>1. PICK d \in Datagram : rcvq' = Append(rcvq, d)
      BY <2>1, <2>6 DEF Arrive
    <3>2. rcvq' \in Seq(Datagram)
      BY <3>1
    <3> QED BY <2>6, <3>2 DEF Arrive
  <2>7. CASE PackOther
    BY <2>1, <2>7 DEF PackOther, ForgetRoute, NoiseKinds
  <2>8. CASE Preload \/ Doit \/ TopSend \/ TopWait \/ TopLast \/ PingerMark
             \/ PollTimeout \/ PackReply \/ Cond \/ Finish
    BY <2>8 DEF Preload, Doit, TopSend, TopWait, TopLast, PingerMark,
       PollTimeout, PackReply, Cond, Finish
  <2>9. CASE ~Main /\ ~Arrive
    BY <2>9 DEF Next, PingerFails, PollFails, SigFinish, SigPrefinish, SigInfo,
       PollTick, StallTick, Exited
  <2> QED BY <2>2, <2>3, <2>4, <2>5, <2>6, <2>7, <2>8, <2>9 DEF Main
<1>5. PcFacts'
  <2> USE DEF TInv, TypeOK, PcFacts
  <2>1. CASE Main
    <3>1. CASE Preload \/ Doit \/ TopSend \/ TopWait \/ TopLast
      BY <3>1 DEF Preload, Doit, TopSend, TopWait, TopLast, TypeNumbers
    <3>2. CASE PingerSend \/ PingerMark \/ PingerCount
      BY <3>2 DEF PingerSend, PingerMark, PingerCount, TypeNumbers
    <3>3. CASE PackReply
      BY <3>3 DEF PackReply, TypeNumbers
    <3>4. CASE PackDuplicateTest
      BY <3>4 DEF PackDuplicateTest, TypeNumbers
    <3>5. CASE PackOther
      BY <3>5 DEF PackOther, TypeNumbers
    <3>6. CASE PollReady
      BY <3>6 DEF PollReady
    <3>7. CASE PollTimeout
      BY <3>7 DEF PollTimeout
    <3>8. CASE Cond
      BY <3>8 DEF Cond
    <3>9. CASE Finish
      BY <3>9 DEF Finish
    <3> QED BY <2>1, <3>1, <3>2, <3>3, <3>4, <3>5, <3>6, <3>7, <3>8, <3>9
            DEF Main
  <2>2. CASE ~Main
    BY <2>2 DEF Next, PingerFails, PollFails, SigFinish, SigPrefinish, SigInfo,
       PollTick, StallTick, Arrive, Exited, Interrupt, Running
  <2> QED BY <2>1, <2>2
<1> QED BY <1>1, <1>2, <1>3, <1>4, <1>5 DEF TInv, TypeOK

\* Every variable of ping keeps its type, for every command line, every size of
\* rcvd_tbl and icmp_seq and every clock: in particular nreceived, which
\* pr_pack increments and takes back, never goes below zero.
THEOREM TypeCorrect == Spec => []TypeOK
<1>1. TInv => TypeOK
  BY DEF TInv
<1> QED BY InitTInv, NextTInv, <1>1, PTL DEF Spec
-----------------------------------------------------------------------------
(***************************************************************************)
(* The number of requests.                                                 *)
(***************************************************************************)
Pinging == {"pinger", "sent", "marked"}

\* No signal handler can have lowered npackets during the preload, and a
\* request that is on its way was within npackets when doit looked.
SendInv ==
    /\ npackets <= Limit(opt)
    /\ int_handler = "prefinish" => npackets = Limit(opt)
    /\ pc = "preload" => ret = "preload"
    /\ ret = "preload" => /\ pc \in {"preload", "exited"} \cup Pinging
                          /\ nreceived = 0 /\ int_handler = "prefinish"
    /\ pc \in Pinging => ntransmitted < Limit(opt) /\ ntransmitted <= npackets
    /\ pc \in Pinging /\ int_handler = "prefinish" => ntransmitted < npackets

\* main() takes no larger preload than the limit.
LEMMA LimitType == TypeOK => Limit(opt) \in Nat /\ opt.preload \in Nat
                              /\ opt.preload <= Limit(opt)
BY OptionsAssumption, NumbersAssumption
   DEF TypeOK, TypeControl, Limit, OptionType

\* Init establishes the bounds on the number of requests.
LEMMA InitSendInv == Init => SendInv /\ SendBudget
BY OptionsAssumption, NumbersAssumption
   DEF Init, SendInv, SendBudget, Pinging, Limit, OptionType

\* Every step preserves them.
LEMMA NextSendInv ==
    TInv /\ SendInv /\ SendBudget /\ [Next]_vars => (SendInv /\ SendBudget)'
<1> SUFFICES ASSUME TInv, SendInv, SendBudget, [Next]_vars
             PROVE  (SendInv /\ SendBudget)'
  OBVIOUS
<1> USE LimitType
    DEF TInv, TypeOK, TypeControl, TypeNumbers, PcFacts, PCs, SendInv, SendBudget, Pinging,
        vars, sched, times, counters, history, outcome, network
<1>0. opt' = opt /\ Limit(opt)' = Limit(opt)
  BY DEF Next, Main, Preload, Doit, TopSend, TopWait, TopLast, PingerSend, PingerMark, PingerCount, PollReady, PollTimeout, PackReply, PackDuplicateTest, PackOther, ForgetRoute, Cond, Finish, PingerFails, PollFails, SigFinish, SigPrefinish, SigInfo, PollTick, StallTick, Arrive, Exited, Interrupt, Limit
<1>1. CASE Preload
  BY <1>0, <1>1 DEF Preload
<1>2. CASE Doit
  BY <1>0, <1>2 DEF Doit
<1>3. CASE TopSend
  BY <1>0, <1>3 DEF TopSend, MaySend
<1>4. CASE TopWait
  BY <1>0, <1>4 DEF TopWait
<1>5. CASE TopLast
  BY <1>0, <1>5 DEF TopLast
<1>6. CASE PingerSend
  BY <1>0, <1>6 DEF PingerSend
<1>7. CASE PingerMark
  BY <1>0, <1>7 DEF PingerMark
<1>8. CASE PingerCount
  BY <1>0, <1>8 DEF PingerCount
<1>9. CASE PollReady
  BY <1>0, <1>9 DEF PollReady
<1>10. CASE PollTimeout
  BY <1>0, <1>10 DEF PollTimeout
<1>11. CASE PackReply
  BY <1>0, <1>11 DEF PackReply
<1>12. CASE PackDuplicateTest
  BY <1>0, <1>12 DEF PackDuplicateTest
<1>13. CASE PackOther
  BY <1>0, <1>13 DEF PackOther, ForgetRoute
<1>14. CASE Cond
  BY <1>0, <1>14 DEF Cond, MoreExpected
<1>15. CASE Finish
  BY <1>0, <1>15 DEF Finish
<1>16. CASE PingerFails
  BY <1>0, <1>16 DEF PingerFails
<1>17. CASE PollFails
  BY <1>0, <1>17 DEF PollFails
<1>18. CASE SigFinish
  BY <1>0, <1>18 DEF SigFinish, Running
<1>19. CASE SigPrefinish
  BY <1>0, <1>19 DEF SigPrefinish, Interrupt, MinOf, Running
<1>20. CASE SigInfo
  BY <1>0, <1>20 DEF SigInfo, Interrupt, Running
<1>21. CASE PollTick
  BY <1>0, <1>21 DEF PollTick
<1>22. CASE StallTick
  BY <1>0, <1>22 DEF StallTick
<1>23. CASE Arrive
  BY <1>0, <1>23 DEF Arrive
<1>24. CASE Exited
  BY <1>0, <1>24 DEF Exited
<1>25. CASE UNCHANGED vars
  BY <1>0, <1>25
<1> QED
  BY <1>0, <1>1, <1>2, <1>3, <1>4, <1>5, <1>6, <1>7, <1>8, <1>9, <1>10, <1>11,
     <1>12, <1>13, <1>14, <1>15, <1>16, <1>17, <1>18, <1>19, <1>20, <1>21,
     <1>22, <1>23, <1>24, <1>25 DEF Next, Main

\* For every count, preload, signal and schedule, ping sends no more requests
\* than -c and -l allow, and after the first SIGINT at most the one that was
\* already on its way.
THEOREM SendBudgetHolds == Spec => []SendBudget
<1> QED BY InitTInv, NextTInv, InitSendInv, NextSendInv, PTL DEF Spec

-----------------------------------------------------------------------------
(***************************************************************************)
(* The schedule.                                                           *)
(***************************************************************************)
\* The clock is past the second that stands for "not set"; next_tx is set by
\* the first transmission; transmissions happen in the order of the clock.
SchedInv ==
    /\ clock >= TicksPerSec /\ last_tx <= clock
    /\ pc \in Pinging => TicksPerSec <= now /\ now <= clock /\ last_tx <= now
    /\ ntransmitted = 0 <=> Unset(next_tx)
    /\ ScheduleWindow

\* One transmission at time t leaves the schedule within its window.
LEMMA NextTxWindow ==
    ASSUME NEW next \in Nat, NEW t \in Nat, next - t <= 2 * Interval,
           NEW new \in NextTx(next, t), next - t >= -CatchUp \/ next <= t
    PROVE  new >= next /\ new - t >= -CatchUp /\ new - t <= 2 * Interval
<1> USE NumbersAssumption
<1>1. CASE next - t <= Interval
  <2>1. PICK k \in Skips(next, t) : new = next + k * Interval
    BY <1>1 DEF NextTx
  <2>2. k \in Nat /\ k >= 1
    BY DEF Skips, MaxOf
  <2>3. k * Interval = (k - 1) * Interval + Interval /\ (k - 1) * Interval \in Nat
    BY <2>2
  <2>4. /\ next + k * Interval - t >= -CatchUp
        /\ k = 1 \/ next + (k - 1) * Interval - t < -CatchUp
    BY DEF Skips
  <2>5. k = 1 => k * Interval = Interval
    OBVIOUS
  <2> QED BY <1>1, <2>1, <2>2, <2>3, <2>4, <2>5
<1>2. CASE next - t > Interval
  BY <1>2 DEF NextTx
<1> QED BY <1>1, <1>2

\* Init establishes the schedule's invariant.
LEMMA InitSchedInv == Init => SchedInv
BY NumbersAssumption DEF Init, SchedInv, Pinging, Unset, ScheduleWindow

\* Every step preserves it.
LEMMA NextSchedInv == TInv /\ SchedInv /\ [Next]_vars => SchedInv'
<1> SUFFICES ASSUME TInv, SchedInv, [Next]_vars PROVE SchedInv'
  OBVIOUS
<1> USE NumbersAssumption
    DEF TInv, TypeOK, TypeNumbers, SchedInv, ScheduleWindow, Pinging, Unset,
        vars, sched, times, counters, history, outcome, network
<1>1. CASE Preload
  BY <1>1 DEF Preload
<1>2. CASE Doit
  BY <1>2 DEF Doit
<1>3. CASE TopSend
  BY <1>3 DEF TopSend
<1>4. CASE TopWait
  BY <1>4 DEF TopWait
<1>5. CASE TopLast
  BY <1>5 DEF TopLast
<1>6. CASE PingerSend
  BY <1>6 DEF PingerSend
<1>7. CASE PingerMark
  BY <1>7 DEF PingerMark
<1>8. CASE PingerCount
  <2> DEFINE next == IF Unset(next_tx) THEN now ELSE next_tx
  <2>1. next \in Nat /\ next_tx' \in NextTx(next, now) /\ next >= TicksPerSec
    BY <1>8 DEF PingerCount
  <2>2. next - now <= 2 * Interval /\ (next - now >= -CatchUp \/ next <= now)
    BY <1>8 DEF PingerCount
  <2> HIDE DEF next
  <2>3. /\ next_tx' \in Nat /\ next_tx' >= next
        /\ next_tx' - now >= -CatchUp /\ next_tx' - now <= 2 * Interval
    BY <2>1, <2>2, NextTxWindow, NextTxType
  <2>4. ntransmitted' = ntransmitted + 1 /\ last_tx' = now /\ clock' = clock
        /\ pc = "marked" /\ pc' \in {"preload", "poll"}
    BY <1>8 DEF PingerCount
  <2>5. TicksPerSec <= now /\ now <= clock
    BY <2>4
  <2>6. (clock >= TicksPerSec /\ last_tx <= clock)' /\ ~(pc \in Pinging)'
    BY <2>4, <2>5
  <2>7. (ntransmitted = 0 <=> Unset(next_tx))'
    BY <2>1, <2>3, <2>4
  <2>8. ScheduleWindow'
    BY <2>3, <2>4
  <2> QED BY <2>6, <2>7, <2>8
<1>9. CASE PollReady
  BY <1>9 DEF PollReady
<1>10. CASE PollTimeout
  BY <1>10 DEF PollTimeout
<1>11. CASE PackReply
  BY <1>11 DEF PackReply
<1>12. CASE PackDuplicateTest
  BY <1>12 DEF PackDuplicateTest
<1>13. CASE PackOther
  BY <1>13 DEF PackOther, ForgetRoute
<1>14. CASE Cond
  BY <1>14 DEF Cond
<1>15. CASE Finish
  BY <1>15 DEF Finish
<1>16. CASE PingerFails
  BY <1>16 DEF PingerFails
<1>17. CASE PollFails
  BY <1>17 DEF PollFails
<1>18. CASE SigFinish
  BY <1>18 DEF SigFinish
<1>19. CASE SigPrefinish
  BY <1>19 DEF SigPrefinish, Interrupt
<1>20. CASE SigInfo
  BY <1>20 DEF SigInfo, Interrupt
<1>21. CASE PollTick
  BY <1>21 DEF PollTick
<1>22. CASE StallTick
  BY <1>22 DEF StallTick
<1>23. CASE Arrive
  BY <1>23 DEF Arrive
<1>24. CASE Exited
  BY <1>24 DEF Exited
<1>25. CASE UNCHANGED vars
  BY <1>25
<1> QED
  BY <1>1, <1>2, <1>3, <1>4, <1>5, <1>6, <1>7, <1>8, <1>9, <1>10, <1>11,
     <1>12, <1>13, <1>14, <1>15, <1>16, <1>17, <1>18, <1>19, <1>20, <1>21,
     <1>22, <1>23, <1>24, <1>25 DEF Next, Main

\* For every interval, catch-up allowance and clock, ping's schedule neither
\* runs away from the clock nor falls behind it.
THEOREM ScheduleWindowHolds == Spec => []ScheduleWindow
<1>1. SchedInv => ScheduleWindow
  BY DEF SchedInv
<1> QED BY <1>1, InitTInv, NextTInv, InitSchedInv, NextSchedInv, PTL DEF Spec

-----------------------------------------------------------------------------
(***************************************************************************)
(* The number of answers.                                                  *)
(***************************************************************************)
\* Every echo reply on its way answers a request that was sent.
NetInv ==
    /\ \A d \in net : \/ d.tx < ntransmitted
                      \/ d.tx = ntransmitted /\ pc \in {"sent", "marked", "exited"}
    /\ \A i \in DOMAIN rcvq : rcvq[i].kind = "reply" => rcvq[i].tx < ntransmitted
    /\ packet.kind = "reply" => packet.tx < ntransmitted

\* The slots of rcvd_tbl in use whose request is not known to be answered.
OpenSlots == {i \in 0 .. MaxDupChk - 1 : i < ntransmitted /\ ~rcvd_tbl[i]}

\* An answer is counted once per open slot.
CountInv == nreceived + Cardinality(OpenSlots)
                <= ntransmitted + (IF MidCount THEN 1 ELSE 0)

\* An element of a longer queue is the new one or an old one.
LEMMA AppendElements ==
    ASSUME NEW S, NEW q \in Seq(S), NEW d \in S, NEW i \in DOMAIN Append(q, d)
    PROVE  \/ Append(q, d)[i] = d
           \/ i \in DOMAIN q /\ Append(q, d)[i] = q[i]
<1>1. Len(q) \in Nat /\ DOMAIN q = 1 .. Len(q)
  OBVIOUS
<1>2. i \in 1 .. Len(q) + 1
  OBVIOUS
<1>3. CASE i = Len(q) + 1
  BY <1>1, <1>3
<1>4. CASE i \in 1 .. Len(q)
  BY <1>1, <1>4
<1> QED BY <1>1, <1>2, <1>3, <1>4

\* The answers in a queue are to requests numbered below n.
AnswersBelow(q, n) == \A i \in DOMAIN q : q[i].kind = "reply" => q[i].tx < n

\* A queue stays bounded when a bounded datagram arrives.
LEMMA AppendBelow ==
    ASSUME NEW q \in Seq(Datagram), NEW d \in Datagram, NEW n \in Nat,
           AnswersBelow(q, n), d.kind = "reply" => d.tx < n
    PROVE  AnswersBelow(Append(q, d), n)
BY AppendElements DEF AnswersBelow

\* Init establishes the facts about answers.
LEMMA InitCountInv == Init => NetInv /\ CountInv
<1> SUFFICES ASSUME Init PROVE NetInv /\ CountInv
  OBVIOUS
<1>1. NetInv
  BY DEF Init, NetInv, Noise
<1>2. OpenSlots = {}
  BY NumbersAssumption DEF Init, OpenSlots
<1>3. CountInv
  BY <1>2, FS_EmptySet DEF Init, CountInv, MidCount
<1> QED BY <1>1, <1>3

\* Every step keeps the answers to requests that were sent.
LEMMA NextNetInv == TInv /\ NetInv /\ [Next]_vars => NetInv'
<1> SUFFICES ASSUME TInv, NetInv, [Next]_vars PROVE NetInv'
  OBVIOUS
<1> USE DEF TInv, TypeOK, TypeNumbers, TypeData, NetInv,
        vars, sched, times, counters, history, outcome, network
<1>1. CASE Preload
  BY <1>1 DEF Preload
<1>2. CASE Doit
  BY <1>2 DEF Doit
<1>3. CASE TopSend
  BY <1>3 DEF TopSend
<1>4. CASE TopWait
  BY <1>4 DEF TopWait
<1>5. CASE TopLast
  BY <1>5 DEF TopLast
<1>6. CASE PingerSend
  BY <1>6 DEF PingerSend, Reply
<1>7. CASE PingerMark
  BY <1>7 DEF PingerMark
<1>8. CASE PingerCount
  <2>1. ntransmitted' = ntransmitted + 1 /\ net' = net /\ rcvq' = rcvq
        /\ packet' = packet /\ ntransmitted \in Nat
    BY <1>8 DEF PingerCount
  <2>2. \A d \in Datagram : d.tx \in Nat
    BY DEF Datagram
  <2>3. \A i \in DOMAIN rcvq : rcvq[i] \in Datagram
    OBVIOUS
  <2>4. \A d \in net : d.tx < ntransmitted + 1
    BY <2>1, <2>2
  <2>5. \A i \in DOMAIN rcvq :
            rcvq[i].kind = "reply" => rcvq[i].tx < ntransmitted + 1
    BY <2>1, <2>2, <2>3
  <2>6. packet.kind = "reply" => packet.tx < ntransmitted + 1
    BY <2>1, <2>2
  <2> QED BY <2>1, <2>4, <2>5, <2>6
<1>9. CASE PollReady
  BY <1>9 DEF PollReady
<1>10. CASE PollTimeout
  BY <1>10 DEF PollTimeout
<1>11. CASE PackReply
  BY <1>11 DEF PackReply
<1>12. CASE PackDuplicateTest
  BY <1>12 DEF PackDuplicateTest, Noise
<1>13. CASE PackOther
  BY <1>13 DEF PackOther, ForgetRoute, Noise
<1>14. CASE Cond
  BY <1>14 DEF Cond
<1>15. CASE Finish
  BY <1>15 DEF Finish
<1>16. CASE PingerFails
  BY <1>16 DEF PingerFails
<1>17. CASE PollFails
  BY <1>17 DEF PollFails
<1>18. CASE SigFinish
  BY <1>18 DEF SigFinish, Running
<1>19. CASE SigPrefinish
  BY <1>19 DEF SigPrefinish, Interrupt
<1>20. CASE SigInfo
  BY <1>20 DEF SigInfo, Interrupt
<1>21. CASE PollTick
  BY <1>21 DEF PollTick
<1>22. CASE StallTick
  BY <1>22 DEF StallTick
<1>23. CASE Arrive
  <2>1. PICK d \in Datagram : /\ rcvq' = Append(rcvq, d)
                              /\ d.kind = "reply" => d.tx < ntransmitted
    BY <1>23 DEF Arrive, Noise, NoiseKinds, Datagram
  <2>2. rcvq \in Seq(Datagram) /\ AnswersBelow(rcvq, ntransmitted)
    BY DEF AnswersBelow
  <2>3. AnswersBelow(Append(rcvq, d), ntransmitted)
    BY <2>1, <2>2, AppendBelow
  <2> QED BY <1>23, <2>1, <2>3 DEF Arrive, AnswersBelow
<1>24. CASE Exited
  BY <1>24 DEF Exited
<1>25. CASE UNCHANGED vars
  BY <1>25
<1> QED
  BY <1>1, <1>2, <1>3, <1>4, <1>5, <1>6, <1>7, <1>8, <1>9, <1>10, <1>11,
     <1>12, <1>13, <1>14, <1>15, <1>16, <1>17, <1>18, <1>19, <1>20, <1>21,
     <1>22, <1>23, <1>24, <1>25 DEF Next, Main

\* A request never opens two slots: below MaxDupChk requests, the slot is the
\* request's own number.
LEMMA SlotRange ==
    ASSUME NEW n \in Nat
    PROVE  /\ Slot(SeqNo(n)) \in 0 .. MaxDupChk - 1
           /\ Slot(SeqNo(n)) <= n
           /\ n < MaxDupChk => Slot(SeqNo(n)) = n
<1> USE NumbersAssumption
<1>1. MaxDupChk <= SeqSize
  BY DEF Slot
<1>2. SeqNo(n) \in Nat /\ SeqNo(n) <= n
  BY DEF SeqNo
<1>3. n < SeqSize => SeqNo(n) = n
  BY DEF SeqNo
<1>4. Slot(SeqNo(n)) \in 0 .. MaxDupChk - 1 /\ Slot(SeqNo(n)) <= SeqNo(n)
  BY <1>2 DEF Slot
<1>5. SeqNo(n) < MaxDupChk => Slot(SeqNo(n)) = SeqNo(n)
  BY <1>2 DEF Slot
<1> QED BY <1>1, <1>2, <1>3, <1>4, <1>5

\* The open slots can be counted.
LEMMA OpenSlotsFinite == IsFiniteSet(OpenSlots) /\ Cardinality(OpenSlots) \in Nat
<1>1. IsFiniteSet(0 .. MaxDupChk - 1)
  BY NumbersAssumption, FS_Interval
<1>2. IsFiniteSet(OpenSlots)
  BY <1>1, FS_Subset DEF OpenSlots
<1> QED BY <1>2, FS_CardinalityType

\* Steps that touch neither the table nor the counters keep CountInv.
LEMMA CountInvStutter ==
    ASSUME TInv, CountInv, UNCHANGED <<rcvd_tbl, ntransmitted, nreceived>>,
           MidCount' <=> MidCount
    PROVE  CountInv'
BY DEF CountInv, OpenSlots

\* Only pr_pack and its interruption enter or leave the middle of a count.
LEMMA MidCountStutter ==
    ASSUME TInv, [Next]_vars, ~(PingerCount \/ PackReply \/ PackDuplicateTest)
    PROVE  MidCount' <=> MidCount
<1> USE DEF TInv, PcFacts, MidCount, sched, times, counters, history, outcome, network
<1>1. CASE SigFinish
  BY <1>1 DEF SigFinish, Running
<1>2. CASE ~SigFinish
  <2>1. cut' = cut
    BY <1>2 DEF Next, Main, vars, Preload, Doit, TopSend, TopWait,
       TopLast, PingerSend, PingerMark, PollReady, PollTimeout, PackOther,
       Cond, Finish, PingerFails, PollFails, SigPrefinish, SigInfo,
       PollTick, StallTick, Arrive, Exited
  <2>2. pc' = "counted" <=> pc = "counted"
    BY <1>2 DEF Next, Main, vars, Preload, Doit, TopSend, TopWait,
       TopLast, PingerSend, PingerMark, PollReady, PollTimeout, PackOther,
       Cond, Finish, PingerFails, PollFails, SigPrefinish, SigInfo,
       PollTick, StallTick, Arrive, Exited, Interrupt
  <2> QED BY <2>1, <2>2
<1> QED BY <1>1, <1>2

\* Every step keeps the number of answers in bounds.
LEMMA NextCountInv == TInv /\ NetInv /\ CountInv /\ [Next]_vars => CountInv'
<1> SUFFICES ASSUME TInv, NetInv, CountInv, [Next]_vars PROVE CountInv'
  OBVIOUS
<1> USE DEF sched, times, counters, history, outcome, network
<1>1. CASE PingerCount
  <2> DEFINE slot == Slot(SeqNo(ntransmitted))
  <2>1. /\ ntransmitted \in Nat /\ nreceived \in Nat
        /\ rcvd_tbl \in [0 .. MaxDupChk - 1 -> BOOLEAN]
    BY DEF TInv, TypeOK, TypeNumbers, TypeData
  <2>2. /\ slot \in 0 .. MaxDupChk - 1
        /\ ntransmitted < MaxDupChk => slot = ntransmitted
    BY <2>1, SlotRange
  <2>3. /\ ntransmitted' = ntransmitted + 1 /\ nreceived' = nreceived
        /\ rcvd_tbl' = [rcvd_tbl EXCEPT ![slot] = FALSE]
        /\ ~MidCount /\ ~MidCount'
    BY <1>1 DEF PingerCount, Clear, MidCount, TInv, PcFacts
  <2> HIDE DEF slot
  <2>4. OpenSlots' \subseteq OpenSlots \cup {slot}
    BY <2>1, <2>2, <2>3, NumbersAssumption DEF OpenSlots
  <2>5. /\ IsFiniteSet(OpenSlots \cup {slot})
        /\ Cardinality(OpenSlots \cup {slot}) <= Cardinality(OpenSlots) + 1
    BY OpenSlotsFinite, FS_AddElement
  <2>6. Cardinality(OpenSlots') <= Cardinality(OpenSlots) + 1
        /\ Cardinality(OpenSlots') \in Nat
    BY <2>4, <2>5, OpenSlotsFinite, FS_Subset, FS_CardinalityType
  <2> QED BY <2>1, <2>3, <2>6, OpenSlotsFinite DEF CountInv
<1>2. CASE PackReply
  <2>1. /\ UNCHANGED <<rcvd_tbl, ntransmitted>> /\ nreceived' = nreceived + 1
        /\ ~MidCount /\ MidCount'
    BY <1>2 DEF PackReply, MidCount, TInv, PcFacts
  <2>2. OpenSlots' = OpenSlots
    BY <2>1 DEF OpenSlots
  <2> QED BY <2>1, <2>2, OpenSlotsFinite DEF CountInv, TInv, TypeOK, TypeNumbers
<1>3. CASE PackDuplicateTest
  <2> DEFINE slot == Slot(SeqNo(packet.tx))
  <2>1. /\ ntransmitted \in Nat /\ nreceived \in Nat
        /\ rcvd_tbl \in [0 .. MaxDupChk - 1 -> BOOLEAN]
        /\ packet.tx \in Nat /\ packet.tx < ntransmitted
    BY <1>3 DEF PackDuplicateTest, TInv, PcFacts, NetInv, TypeOK, TypeNumbers,
       TypeData, Datagram
  <2>2. slot \in 0 .. MaxDupChk - 1 /\ slot < ntransmitted
    BY <2>1, SlotRange
  <2>3. MidCount /\ ~MidCount' /\ ntransmitted' = ntransmitted
    BY <1>3 DEF PackDuplicateTest, MidCount, TInv, PcFacts
  <2>4. nreceived + Cardinality(OpenSlots) <= ntransmitted + 1
    BY <2>3 DEF CountInv
  <2>5. CASE rcvd_tbl[slot]
    <3>1. nreceived' = nreceived - 1 /\ rcvd_tbl' = rcvd_tbl
      BY <1>3, <2>5 DEF PackDuplicateTest, Seen
    <3>2. OpenSlots' = OpenSlots
      BY <2>3, <3>1 DEF OpenSlots
    <3> QED BY <2>1, <2>3, <2>4, <3>1, <3>2, OpenSlotsFinite DEF CountInv
  <2>6. CASE ~rcvd_tbl[slot]
    <3>1. nreceived' = nreceived /\ rcvd_tbl' = [rcvd_tbl EXCEPT ![slot] = TRUE]
      BY <1>3, <2>6 DEF PackDuplicateTest, Seen, Mark
    <3> HIDE DEF slot
    <3>2. OpenSlots' = OpenSlots \ {slot} /\ slot \in OpenSlots
      BY <2>1, <2>2, <2>3, <2>6, <3>1 DEF OpenSlots
    <3>3. Cardinality(OpenSlots') = Cardinality(OpenSlots) - 1
      BY <3>2, OpenSlotsFinite, FS_RemoveElement
    <3> QED BY <2>1, <2>3, <2>4, <3>1, <3>3, OpenSlotsFinite DEF CountInv
  <2> QED BY <2>5, <2>6
<1>4. CASE ~(PingerCount \/ PackReply \/ PackDuplicateTest)
  <2>1. UNCHANGED <<rcvd_tbl, ntransmitted, nreceived>>
    BY <1>4 DEF Next, Main, vars, Preload, Doit, TopSend, TopWait, TopLast,
       PingerSend, PingerMark, PollReady, PollTimeout, PackOther, Cond, Finish,
       PingerFails, PollFails, SigFinish, SigPrefinish, SigInfo, PollTick,
       StallTick, Arrive, Exited
  <2>2. MidCount' <=> MidCount
    BY <1>4, MidCountStutter
  <2> QED BY <2>1, <2>2, CountInvStutter
<1> QED BY <1>1, <1>2, <1>3, <1>4

\* However the network loses, repeats, delays and reorders the answers, for
\* every size of rcvd_tbl and of icmp_seq and whatever signals arrive, ping
\* never counts more answers than it sent requests.
THEOREM NoOvercountHolds == Spec => []NoOvercount
<1>1. TInv /\ CountInv => NoOvercount
  BY OpenSlotsFinite
  DEF TInv, TypeOK, TypeNumbers, CountInv, NoOvercount
<1> QED BY <1>1, InitTInv, NextTInv, InitCountInv, NextNetInv, NextCountInv, PTL
        DEF Spec

-----------------------------------------------------------------------------
(***************************************************************************)
(* The round trips.                                                        *)
(***************************************************************************)
\* No timestamp is of the future: a request carries the loop's copy of the
\* clock, and recvfrom() is followed by a new look at the clock.
StampInv ==
    /\ now <= clock
    /\ \A d \in net : d.ts <= clock
    /\ \A i \in DOMAIN rcvq : rcvq[i].ts <= clock
    /\ pc = "pack" => packet.ts <= now

\* Before the first answer the sums are as main() left them.
TripInv ==
    /\ opt.timing /\ nreceived + nrepeats = 0 => tmin = TMinInit /\ tmax = 0 /\ tsum = 0
    /\ StatsBounds

\* The sums stay between the bounds when one more round trip r is added.
LEMMA OneMoreTrip ==
    ASSUME NEW n \in Nat, NEW r \in Nat, NEW low \in Nat, NEW high \in Nat,
           NEW sum \in Int, low <= high, n * low <= sum, sum <= n * high
    PROVE  /\ MinOf(r, low) \in Nat /\ MaxOf(r, high) \in Nat
           /\ MinOf(r, low) <= MaxOf(r, high)
           /\ (n + 1) * MinOf(r, low) <= sum + r
           /\ sum + r <= (n + 1) * MaxOf(r, high)
<1> DEFINE a == MinOf(r, low)
           b == MaxOf(r, high)
<1>1. /\ a \in Nat /\ b \in Nat /\ a <= b
      /\ a <= low /\ a <= r /\ high <= b /\ r <= b
  BY DEF MinOf, MaxOf
<1> HIDE DEF a, b
<1>2. n * a <= n * low /\ n * a \in Int /\ n * low \in Int
  BY <1>1, TimesMonotone
<1>3. n * high <= n * b /\ n * b \in Int /\ n * high \in Int
  BY <1>1, TimesMonotone
<1>4. (n + 1) * a = n * a + a /\ (n + 1) * b = n * b + b
  BY <1>1
<1>5. (n + 1) * a <= sum + r /\ sum + r <= (n + 1) * b
  BY <1>1, <1>2, <1>3, <1>4
<1> QED BY <1>1, <1>5 DEF a, b

\* Init establishes both.
LEMMA InitTripInv == Init => StampInv /\ TripInv
BY NumbersAssumption
   DEF Init, StampInv, TripInv, StatsBounds, Noise

\* Every step keeps the timestamps in the past.
LEMMA NextStampInv == TInv /\ StampInv /\ [Next]_vars => StampInv'
<1> SUFFICES ASSUME TInv, StampInv, [Next]_vars PROVE StampInv'
  OBVIOUS
<1>t. /\ clock \in Nat /\ now \in Nat /\ rcvq \in Seq(Datagram)
      /\ net \subseteq Datagram /\ packet \in Datagram
  BY DEF TInv, TypeOK, TypeNumbers, TypeData
<1>d. \A d \in Datagram : d.ts \in Nat
  BY DEF Datagram
<1>q. \A i \in DOMAIN rcvq : rcvq[i] \in Datagram
  BY <1>t
<1> USE DEF vars, sched, times, counters, history, outcome, network
<1>1. CASE PingerSend
  <2>1. now <= clock
    BY DEF StampInv
  <2>2. \A d \in net' : d.ts <= clock
    BY <1>1, <2>1 DEF PingerSend, Reply, StampInv
  <2> QED BY <1>1, <2>2 DEF PingerSend, StampInv
<1>2. CASE PollReady
  <2>1. rcvq # << >> /\ 1 \in DOMAIN rcvq /\ Head(rcvq) = rcvq[1]
    BY <1>2, <1>t DEF PollReady
  <2>2. Head(rcvq).ts <= clock
    BY <2>1 DEF StampInv
  <2>3. rcvq' = Tail(rcvq) /\ clock' = clock /\ net' = net
    BY <1>2 DEF PollReady
  <2>4. \A i \in DOMAIN Tail(rcvq) : i + 1 \in DOMAIN rcvq /\ Tail(rcvq)[i] = rcvq[i + 1]
    BY <1>t, <2>1
  <2>5. \A i \in DOMAIN rcvq' : rcvq'[i].ts <= clock
    BY <2>3, <2>4 DEF StampInv
  <2>6. now' <= clock /\ (pc' = "pack" => packet'.ts <= now')
    <3>1. CASE Head(rcvq).kind = "soerror"
      BY <1>2, <3>1 DEF PollReady, StampInv
    <3>2. CASE Head(rcvq).kind # "soerror"
      BY <1>2, <1>t, <2>2, <3>2 DEF PollReady
    <3> QED BY <3>1, <3>2
  <2> QED BY <2>3, <2>5, <2>6 DEF StampInv
<1>3. CASE Arrive
  <2>1. PICK d \in Datagram : rcvq' = Append(rcvq, d) /\ d.ts <= clock
    BY <1>3, <1>t DEF Arrive, Noise, NoiseKinds, Datagram, StampInv
  <2>2. \A i \in DOMAIN Append(rcvq, d) : Append(rcvq, d)[i].ts <= clock
    BY <1>t, <2>1, AppendElements DEF StampInv
  <2> QED BY <1>3, <2>1, <2>2 DEF Arrive, StampInv
<1>4. CASE PollTick
  BY <1>4, <1>t, <1>d, <1>q DEF PollTick, StampInv
<1>5. CASE StallTick
  BY <1>5, <1>t, <1>d, <1>q DEF StallTick, StampInv
<1>6. CASE Preload \/ TopSend \/ TopWait \/ TopLast
  BY <1>6, <1>t DEF Preload, TopSend, TopWait, TopLast, StampInv
<1>7. CASE Doit \/ PingerMark \/ PingerCount \/ PollTimeout
  BY <1>7 DEF Doit, PingerMark, PingerCount, PollTimeout, StampInv
<1>8. CASE PackReply \/ PackDuplicateTest \/ PackOther
  BY <1>8 DEF PackReply, PackDuplicateTest, PackOther, StampInv
<1>9. CASE Cond \/ Finish \/ PingerFails \/ PollFails
  BY <1>9 DEF Cond, Finish, PingerFails, PollFails, StampInv
<1>10. CASE SigFinish \/ SigPrefinish \/ SigInfo
  BY <1>10 DEF SigFinish, SigPrefinish, SigInfo, Interrupt, StampInv
<1>11. CASE Exited \/ UNCHANGED vars
  BY <1>11 DEF Exited, StampInv
<1> QED
  BY <1>1, <1>2, <1>3, <1>4, <1>5, <1>6, <1>7, <1>8, <1>9, <1>10, <1>11
  DEF Next, Main

\* Only pr_pack touches the sums, and it counts what it adds.
LEMMA NextTripInv == TInv /\ StampInv /\ TripInv /\ [Next]_vars => TripInv'
<1> SUFFICES ASSUME TInv, StampInv, TripInv, [Next]_vars PROVE TripInv'
  OBVIOUS
<1>t. /\ nreceived \in Nat /\ nrepeats \in Nat /\ now \in Nat /\ TMinInit \in Nat
      /\ tmin \in Int /\ tmax \in Int /\ tsum \in Int
  BY NumbersAssumption DEF TInv, TypeOK, TypeNumbers
<1> USE DEF sched, times, counters, history, outcome, network
<1>1. CASE PackReply
  <2>1. packet.ts \in Nat /\ packet.ts <= now
    BY <1>1 DEF PackReply, StampInv, TInv, TypeOK, TypeData, Datagram
  <2>2. opt' = opt /\ nreceived' = nreceived + 1 /\ nrepeats' = nrepeats
    BY <1>1 DEF PackReply
  <2>3. CASE ~opt.timing
    BY <2>2, <2>3 DEF TripInv, StatsBounds
  <2>4. CASE opt.timing
    <3> DEFINE r == now - packet.ts
               n == nreceived + nrepeats
    <3>1. r \in Nat /\ n \in Nat
      BY <1>t, <2>1
    <3>2. tsum' = tsum + r /\ tmin' = MinOf(r, tmin) /\ tmax' = MaxOf(r, tmax)
      BY <1>1, <2>4 DEF PackReply, Largest
    <3>3. nreceived' + nrepeats' = n + 1
      BY <1>t, <2>2
    <3> HIDE DEF r
    <3>4. CASE n = 0
      <4>1. tmin = TMinInit /\ tmax = 0 /\ tsum = 0
        BY <2>4, <3>4 DEF TripInv
      <4>2. 0 <= tmin' /\ tmin' <= tmax' /\ tmin' <= tsum' /\ tsum' <= tmax'
            /\ tmin' \in Int /\ tmax' \in Int
        BY <1>t, <3>1, <3>2, <4>1 DEF MinOf, MaxOf
      <4>3. nreceived' + nrepeats' = 1
        BY <3>3, <3>4
      <4>4. StatsBounds'
        <5>0. \A x \in Int : 1 * x = x
          OBVIOUS
        <5>1. 1 * tmin' = tmin' /\ 1 * tmax' = tmax'
          BY <4>2, <5>0, Zenon
        <5> QED BY <4>2, <4>3, <5>1 DEF StatsBounds
      <4>5. nreceived' + nrepeats' # 0
        BY <4>3
      <4> QED BY <4>4, <4>5 DEF TripInv
    <3>5. CASE n > 0
      <4>1. /\ 0 <= tmin /\ tmin <= tmax
            /\ n * tmin <= tsum /\ tsum <= n * tmax
        BY <2>4, <3>5 DEF TripInv, StatsBounds
      <4>2. tmin \in Nat /\ tmax \in Nat
        BY <1>t, <4>1
      <4> HIDE DEF n
      <4>3. /\ MinOf(r, tmin) \in Nat /\ MaxOf(r, tmax) \in Nat
            /\ MinOf(r, tmin) <= MaxOf(r, tmax)
            /\ (n + 1) * MinOf(r, tmin) <= tsum + r
            /\ tsum + r <= (n + 1) * MaxOf(r, tmax)
        BY ONLY <1>t, <3>1, <4>1, <4>2, OneMoreTrip
      <4>4. 0 <= tmin' /\ tmin' <= tmax'
        BY <3>2, <4>3
      <4>5. (n + 1) * tmin' <= tsum' /\ tsum' <= (n + 1) * tmax'
        BY <3>2, <4>3, Zenon
      <4>6. nreceived' + nrepeats' # 0
        BY <3>1, <3>3
      <4> QED BY <3>3, <4>4, <4>5, <4>6 DEF TripInv, StatsBounds
    <3> QED BY <3>1, <3>4, <3>5
  <2> QED BY <2>3, <2>4
<1>2. CASE PackDuplicateTest
  <2>1. opt' = opt /\ UNCHANGED times /\ nreceived > 0
    BY <1>2 DEF PackDuplicateTest, TInv, PcFacts
  <2>2. nreceived' + nrepeats' = nreceived + nrepeats
    BY <1>2, <1>t, <2>1 DEF PackDuplicateTest
  <2> QED BY <2>1, <2>2 DEF TripInv, StatsBounds
<1>3. CASE ~(PackReply \/ PackDuplicateTest)
  <2>1. UNCHANGED <<opt, nreceived, nrepeats, tmin, tmax, tsum>>
    BY <1>3 DEF Next, Main, vars, Preload, Doit, TopSend, TopWait, TopLast,
       PingerSend, PingerMark, PingerCount, PollReady, PollTimeout, PackOther,
       Cond, Finish, PingerFails, PollFails, SigFinish, SigPrefinish, SigInfo,
       PollTick, StallTick, Arrive, Exited
  <2> QED BY <2>1 DEF TripInv, StatsBounds
<1> QED BY <1>1, <1>2, <1>3

\* Whatever is lost, repeated or late, the printed minimum, average and maximum
\* are of one set of round trips, none of which is negative.
THEOREM StatsBoundsHolds == Spec => []StatsBounds
<1>1. TripInv => StatsBounds
  BY DEF TripInv
<1> QED BY <1>1, InitTInv, NextTInv, InitTripInv, NextStampInv, NextTripInv, PTL
        DEF Spec

-----------------------------------------------------------------------------
(***************************************************************************)
(* The rate of transmission.                                               *)
(***************************************************************************)
\* The preloaded requests, of which one belongs to the schedule.
Quick == MaxOf(opt.preload, 1)

\* main() sends the preloaded requests and doit the rest.  Without -f doit sends
\* when the next transmission is due; each one moves the schedule on by at
\* least an interval, so that next_tx is as many intervals after first_tx as
\* requests were sent, the preloaded ones apart.
RateInv ==
    /\ ret = "preload" => ntransmitted <= opt.preload
    /\ ret = "preload" /\ pc \in Pinging => ntransmitted < opt.preload
    /\ ret = "doit" => ntransmitted >= opt.preload
    /\ ntransmitted > 0 => next_tx - first_tx >= Interval
    /\ ~opt.flood /\ ret = "doit" /\ ntransmitted > 0 =>
          next_tx - first_tx >= (ntransmitted - Quick + 1) * Interval
    /\ ~opt.flood /\ ret = "doit" /\ pc \in Pinging /\ ntransmitted > 0 =>
          next_tx - now <= SendSlack
    /\ RateLimit

\* Unless the schedule is more than an interval ahead, a transmission moves it
\* on by at least an interval.
LEMMA NextTxAhead ==
    ASSUME NEW next \in Nat, NEW t \in Nat, NEW new \in NextTx(next, t)
    PROVE  new \in Nat /\ new >= next
           /\ (next - t <= Interval => new >= next + Interval)
<1> USE NumbersAssumption
<1>1. CASE next - t <= Interval
  <2>1. PICK k \in Skips(next, t) : new = next + k * Interval
    BY <1>1 DEF NextTx
  <2>2. k \in Nat /\ k >= 1
    BY DEF Skips, MaxOf
  <2>3. k * Interval = (k - 1) * Interval + Interval /\ (k - 1) * Interval \in Nat
    BY <2>2
  <2> QED BY <2>1, <2>2, <2>3
<1>2. CASE next - t > Interval
  BY <1>2 DEF NextTx
<1> QED BY <1>1, <1>2

\* One more request, sent not more than SendSlack before it is due.
LEMMA OneMoreInterval ==
    ASSUME NEW m \in Nat, NEW ahead \in Int, NEW since \in Int,
           m >= 1, ahead >= m * Interval, since >= ahead - SendSlack
    PROVE  /\ ahead + Interval >= (m + 1) * Interval
           /\ since >= m * (Interval - SendSlack)
<1> USE NumbersAssumption
<1>1. m * Interval \in Int /\ m * SendSlack \in Int
  OBVIOUS
<1>2. (m + 1) * Interval = m * Interval + Interval
  OBVIOUS
<1>3. m * (Interval - SendSlack) = m * Interval - m * SendSlack
  OBVIOUS
<1>4. m * SendSlack >= SendSlack
  <2>1. m * SendSlack = (m - 1) * SendSlack + SendSlack
    OBVIOUS
  <2>2. (m - 1) * SendSlack \in Nat
    OBVIOUS
  <2> QED BY <2>1, <2>2
<1> QED BY <1>1, <1>2, <1>3, <1>4

\* Init establishes it.
LEMMA InitRateInv == Init => RateInv
<1> SUFFICES ASSUME Init PROVE RateInv
  OBVIOUS
<1>1. opt.preload \in Nat
  BY OptionsAssumption DEF Init, OptionType
<1> QED BY <1>1 DEF Init, RateInv, RateLimit, Pinging

\* What a step that sends nothing has to leave alone.
LEMMA RateInvStutter ==
    ASSUME RateInv, UNCHANGED <<opt, ret, ntransmitted, first_tx, last_tx, next_tx>>,
           pc' \in Pinging => pc \in Pinging /\ now' = now
    PROVE  RateInv'
BY DEF RateInv, RateLimit, Quick

\* Every step preserves it.
LEMMA NextRateInv == TInv /\ SendInv /\ SchedInv /\ RateInv /\ [Next]_vars => RateInv'
<1> SUFFICES ASSUME TInv, SendInv, SchedInv, RateInv, [Next]_vars PROVE RateInv'
  OBVIOUS
<1>t. /\ ntransmitted \in Nat /\ now \in Nat /\ clock \in Nat
      /\ first_tx \in Nat /\ last_tx \in Nat /\ next_tx \in Nat
      /\ ret \in {"preload", "doit"}
  BY DEF TInv, TypeOK, TypeNumbers, TypeControl
<1>p. opt.preload \in Nat /\ Quick \in Nat /\ Quick >= 1 /\ Quick >= opt.preload
  BY LimitType DEF TInv, Quick, MaxOf
<1>i. Interval \in Nat /\ SendSlack \in Nat /\ SendSlack <= Interval
  BY NumbersAssumption
<1>u. ntransmitted = 0 <=> Unset(next_tx)
  BY DEF SchedInv
<1> USE DEF vars, sched, times, counters, history, outcome, network
<1>1. CASE PingerCount
  <2> DEFINE next == IF Unset(next_tx) THEN now ELSE next_tx
  <2>1. /\ pc = "marked" /\ pc' \in {"preload", "poll"}
        /\ UNCHANGED <<opt, ret, now>> /\ ntransmitted' = ntransmitted + 1
        /\ last_tx' = now /\ next_tx' \in NextTx(next, now)
        /\ first_tx' = IF Unset(next_tx) THEN now ELSE first_tx
    BY <1>1 DEF PingerCount
  <2>2. next \in Nat
    BY <1>t
  <2> HIDE DEF next
  <2>3. /\ next_tx' \in Nat /\ next_tx' >= next
        /\ next - now <= Interval => next_tx' >= next + Interval
    BY <1>t, <2>1, <2>2, NextTxAhead
  <2>4. Quick' = Quick
    BY <2>1 DEF Quick
  <2>5. ~(pc' \in Pinging)
    BY <2>1 DEF Pinging
  <2>6. CASE ntransmitted = 0
    <3>1. next = now /\ first_tx' = now /\ ntransmitted' = 1
      BY <1>u, <2>1, <2>6 DEF next
    <3>2. next_tx' - first_tx' >= Interval
      <4>1. now - now <= Interval
        BY <1>t, <1>i
      <4>2. next_tx' \in Nat /\ next_tx' >= now + Interval
        BY <2>3, <3>1, <4>1, Zenon
      <4>3. \A x, y \in Nat : x >= y + Interval => x - y >= Interval
        BY <1>i
      <4> QED BY <1>t, <3>1, <4>2, <4>3, Zenon
    <3>3. ret = "preload" => opt.preload >= 1
      BY <2>1, <2>6, <1>p DEF RateInv, Pinging
    <3>4. ret = "doit" => opt.preload = 0 /\ Quick = 1
      BY <1>p, <2>6 DEF RateInv, Quick, MaxOf
    <3>5. ret = "doit" => (ntransmitted' - Quick + 1) * Interval = Interval
      BY <3>1, <3>4, <1>i
    <3>6. RateLimit'
      <4>1. CASE ret = "preload"
        BY <1>p, <2>1, <3>1, <3>3, <4>1 DEF RateLimit
      <4>2. CASE ret = "doit"
        <5>1. (ntransmitted' - Quick) * (Interval - SendSlack) = 0
          BY <3>1, <3>4, <4>2, <1>i
        <5>2. last_tx' - first_tx' = 0
          BY <1>t, <2>1, <3>1
        <5> QED BY <2>1, <2>4, <5>1, <5>2 DEF RateLimit, Quick
      <4> QED BY <1>t, <4>1, <4>2
    <3> QED BY <1>t, <1>p, <2>1, <2>4, <2>5, <3>1, <3>2, <3>3, <3>4, <3>5, <3>6 DEF RateInv
  <2>7. CASE ntransmitted > 0
    <3>1. next = next_tx /\ first_tx' = first_tx
      BY <1>t, <1>u, <2>1, <2>7 DEF next
    <3>2. next_tx' - first_tx' >= Interval
      <4>1. next_tx - first_tx >= Interval
        BY <2>7 DEF RateInv
      <4>2. next_tx' \in Nat /\ next_tx' >= next_tx
        BY <2>3, <3>1
      <4>3. \A x, y, z \in Nat : x >= y /\ y - z >= Interval => x - z >= Interval
        BY <1>i
      <4> QED BY <1>t, <3>1, <4>1, <4>2, <4>3, Zenon
    <3>3. CASE ret = "preload"
      <4>1. ntransmitted < opt.preload
        BY <2>1, <3>3 DEF RateInv, Pinging
      <4>2. RateLimit'
        BY <1>t, <1>p, <2>1, <4>1 DEF RateLimit
      <4> QED BY <1>t, <1>p, <2>1, <2>5, <3>2, <3>3, <4>1, <4>2 DEF RateInv
    <3>4. CASE ret = "doit" /\ ~opt.flood
      <4> DEFINE m == ntransmitted - Quick + 1
      <4>1. ntransmitted >= opt.preload
        BY <3>4 DEF RateInv
      <4>2. m \in Nat /\ m >= 1
        BY <1>t, <1>p, <2>7, <4>1 DEF Quick, MaxOf
      <4>3. next_tx - first_tx >= m * Interval /\ next_tx - now <= SendSlack
        BY <2>1, <2>7, <3>4 DEF RateInv, Pinging
      <4>4. ntransmitted' - Quick + 1 = m + 1 /\ ntransmitted' - Quick = m
        BY <1>t, <1>p, <2>1
      <4> HIDE DEF m
      <4> DEFINE ahead == next_tx - first_tx
                 since == now - first_tx
      <4>5. ahead \in Int /\ since \in Int /\ since >= ahead - SendSlack
        BY <1>t, <4>3, <1>i
      <4>6. next_tx' - first_tx' >= ahead + Interval /\ last_tx' - first_tx' = since
        <5>1. next_tx - now <= Interval
          BY <1>t, <1>i, <4>3
        <5>2. next_tx' \in Nat /\ next_tx' >= next_tx + Interval
          BY <2>3, <3>1, <5>1, Zenon
        <5>3. \A x, y, z \in Nat : x >= y + Interval => x - z >= y - z + Interval
          BY <1>i
        <5>4. next_tx' - first_tx >= next_tx - first_tx + Interval
          BY <1>t, <5>2, <5>3, Zenon
        <5> QED BY <2>1, <3>1, <5>4, Zenon
      <4>7. ahead >= m * Interval
        BY <4>3
      <4> HIDE DEF ahead, since
      <4>8. ahead + Interval >= (m + 1) * Interval /\ since >= m * (Interval - SendSlack)
        BY <4>2, <4>5, <4>7, OneMoreInterval
      <4>9. next_tx' - first_tx' >= (m + 1) * Interval
        <5>1. (m + 1) * Interval \in Int /\ Interval \in Int
          BY <4>2, <1>i
        <5>2. next_tx' - first_tx' \in Int
          BY <1>t, <2>3, <3>1
        <5> QED BY <4>5, <4>6, <4>8, <5>1, <5>2
      <4>10. last_tx' - first_tx' >= m * (Interval - SendSlack)
        BY <4>6, <4>8, Zenon
      <4>11. RateLimit'
        BY <2>1, <2>4, <4>4, <4>10 DEF RateLimit, Quick
      <4>12. (next_tx - first_tx >= (ntransmitted - Quick + 1) * Interval)'
        BY <2>4, <4>4, <4>9
      <4>13. ntransmitted' >= opt'.preload
        BY <1>t, <1>p, <2>1, <4>1
      <4> QED BY <2>1, <2>5, <3>2, <3>4, <4>11, <4>12, <4>13 DEF RateInv
    <3>5. CASE ret = "doit" /\ opt.flood
      <4>1. ntransmitted' >= opt'.preload
        BY <1>t, <1>p, <2>1, <3>5 DEF RateInv
      <4> QED BY <2>1, <2>5, <3>2, <3>5, <4>1 DEF RateInv, RateLimit
    <3> QED BY <1>t, <3>3, <3>4, <3>5
  <2> QED BY <1>t, <2>6, <2>7
<1>2. CASE Preload
  <2>1. ntransmitted < opt.preload /\ ret' = "preload"
        /\ UNCHANGED <<opt, ntransmitted, first_tx, last_tx, next_tx>>
    BY <1>2 DEF Preload
  <2> QED BY <1>t, <1>p, <2>1 DEF RateInv, RateLimit
<1>3. CASE Doit
  <2>1. /\ ntransmitted >= opt.preload /\ ret = "preload" /\ ret' = "doit"
        /\ pc' = "top"
        /\ UNCHANGED <<opt, ntransmitted, first_tx, last_tx, next_tx>>
    BY <1>3 DEF Doit, SendInv
  <2>2. ntransmitted = opt.preload /\ Quick' = Quick
    BY <1>t, <1>p, <2>1 DEF RateInv, Quick
  <2>3. ntransmitted > 0 => (ntransmitted - Quick + 1) * Interval = Interval
    <3>1. ntransmitted > 0 => ntransmitted - Quick + 1 = 1
      BY <1>t, <1>p, <2>2 DEF Quick, MaxOf
    <3>2. 1 * Interval = Interval
      BY <1>i
    <3> QED BY <3>1, <3>2
  <2>4. RateLimit'
    BY <2>1 DEF RateLimit, RateInv
  <2> QED BY <1>t, <2>1, <2>2, <2>3, <2>4 DEF RateInv, Pinging
<1>4. CASE TopSend
  <2>1. /\ pc = "top" /\ now' = clock /\ SendDue(clock)
        /\ UNCHANGED <<opt, ret, ntransmitted, first_tx, last_tx, next_tx>>
    BY <1>4 DEF TopSend
  <2>2. ret = "doit"
    BY <1>t, <2>1 DEF SendInv, Pinging
  <2>3. ~opt.flood /\ ntransmitted > 0 => next_tx - clock <= SendSlack
    BY <1>t, <1>u, <2>1 DEF SendDue, UntilNext
  <2>4. Quick' = Quick /\ RateLimit'
    BY <2>1 DEF Quick, RateLimit, RateInv
  <2> QED BY <2>1, <2>2, <2>3, <2>4 DEF RateInv
<1>5. CASE ~(PingerCount \/ Preload \/ Doit \/ TopSend)
  <2>1. UNCHANGED <<opt, ret, ntransmitted, first_tx, last_tx, next_tx>>
    BY <1>5 DEF Next, Main, TopWait, TopLast, PingerSend, PingerMark, PollReady,
       PollTimeout, PackReply, PackDuplicateTest, PackOther, Cond, Finish,
       PingerFails, PollFails, SigFinish, SigPrefinish, SigInfo, PollTick,
       StallTick, Arrive, Exited
  <2>2. pc' \in Pinging => pc \in Pinging /\ now' = now
    BY <1>5 DEF Next, Main, TopWait, TopLast, PingerSend, PingerMark, PollReady,
       PollTimeout, PackReply, PackDuplicateTest, PackOther, Cond, Finish,
       PingerFails, PollFails, SigFinish, SigPrefinish, SigInfo, PollTick,
       StallTick, Arrive, Exited, Interrupt, Pinging
  <2> QED BY <2>1, <2>2, RateInvStutter
<1> QED BY <1>1, <1>2, <1>3, <1>4, <1>5

\* For every interval and slack, however late the process runs and however it
\* catches up, ping without -f sends no faster than one request an interval.
THEOREM RateLimitHolds == Spec => []RateLimit
<1>1. RateInv => RateLimit
  BY DEF RateInv
<1> QED BY <1>1, InitTInv, NextTInv, InitSendInv, NextSendInv, InitSchedInv,
           NextSchedInv, InitRateInv, NextRateInv, PTL DEF Spec

-----------------------------------------------------------------------------
(***************************************************************************)
(* The packets that are lost.                                              *)
(***************************************************************************)
\* The requests that rcvd_tbl can tell about.
Window == MaxOf(0, ntransmitted - MaxDupChk) .. ntransmitted - 1

\* The table is right for every request in the window.
TableExact == \A t \in Window : rcvd_tbl[Slot(t)] <=> t \in answered

\* As long as no answer was late by a whole table, the count is right but for
\* the answer that is being processed.
LossInv ==
    /\ answered \subseteq 0 .. ntransmitted - 1
    /\ ~late => /\ nreceived = Cardinality(answered) + (IF MidCount THEN 1 ELSE 0)
                /\ TableExact

\* icmp_seq has enough bits for rcvd_tbl: that it wraps makes no difference.
LEMMA SlotOfSeqNo ==
    ASSUME NEW t \in Nat
    PROVE  Slot(SeqNo(t)) = Slot(t) /\ Slot(t) \in 0 .. MaxDupChk - 1
<1>1. SeqSize \in Nat \ {0} /\ MaxDupChk \in Nat \ {0} /\ SeqSize % MaxDupChk = 0
  BY NumbersAssumption
<1>2. (t % SeqSize) % MaxDupChk = t % MaxDupChk
  BY <1>1, ModOfMod
<1>3. t % MaxDupChk \in 0 .. MaxDupChk - 1
  BY <1>1, ModParts
<1> QED BY <1>2, <1>3 DEF Slot, SeqNo

\* Two requests in the window have different slots.
LEMMA SlotsDiffer ==
    ASSUME NEW a \in Nat, NEW b \in Nat, a < b, b - a < MaxDupChk
    PROVE  Slot(a) # Slot(b)
<1> SUFFICES ASSUME Slot(a) = Slot(b) PROVE FALSE
  OBVIOUS
<1>1. MaxDupChk \in Nat \ {0} /\ b % MaxDupChk = a % MaxDupChk /\ a <= b
  BY NumbersAssumption DEF Slot
<1>2. b = a
  BY <1>1, ModInjective
<1> QED BY <1>2

\* Init establishes it.
LEMMA InitLossInv == Init => LossInv
<1> SUFFICES ASSUME Init PROVE LossInv
  OBVIOUS
<1>1. Cardinality(answered) = 0 /\ nreceived = 0 /\ ~MidCount
  BY FS_EmptySet DEF Init, MidCount
<1>2. Window = {}
  BY NumbersAssumption DEF Init, Window, MaxOf
<1> QED BY <1>1, <1>2 DEF Init, LossInv, TableExact

\* Every step preserves it.
LEMMA NextLossInv == TInv /\ NetInv /\ LossInv /\ [Next]_vars => LossInv'
<1> SUFFICES ASSUME TInv, NetInv, LossInv, [Next]_vars PROVE LossInv'
  OBVIOUS
<1>t. /\ ntransmitted \in Nat /\ nreceived \in Nat
      /\ rcvd_tbl \in [0 .. MaxDupChk - 1 -> BOOLEAN]
      /\ answered \subseteq 0 .. ntransmitted - 1
  BY DEF TInv, TypeOK, TypeNumbers, TypeData, LossInv
<1>m. MaxDupChk \in Nat /\ MaxDupChk > 0
  BY NumbersAssumption
<1>w. \A t : t \in Window <=> t \in Nat /\ t < ntransmitted /\ t + MaxDupChk >= ntransmitted
  BY <1>t, <1>m DEF Window, MaxOf
<1>f. IsFiniteSet(answered) /\ Cardinality(answered) \in Nat
  <2>1. IsFiniteSet(0 .. ntransmitted - 1)
    BY <1>t, FS_Interval
  <2>2. IsFiniteSet(answered)
    BY <1>t, <2>1, FS_Subset
  <2> QED BY <2>2, FS_CardinalityType
<1> USE DEF sched, times, counters, history, outcome, network
<1>1. CASE PingerCount
  <2> DEFINE slot == Slot(SeqNo(ntransmitted))
  <2>1. slot = Slot(ntransmitted) /\ slot \in 0 .. MaxDupChk - 1
    BY <1>t, SlotOfSeqNo
  <2>2. /\ ntransmitted' = ntransmitted + 1 /\ nreceived' = nreceived
        /\ UNCHANGED <<answered, late>>
        /\ rcvd_tbl' = [rcvd_tbl EXCEPT ![slot] = FALSE]
        /\ ~MidCount /\ ~MidCount'
    BY <1>1 DEF PingerCount, Clear, MidCount, TInv, PcFacts
  <2> HIDE DEF slot
  <2>3. answered' \subseteq 0 .. ntransmitted' - 1
    BY <1>t, <2>2
  <2>4. ASSUME TableExact PROVE TableExact'
    <3> SUFFICES ASSUME NEW t \in Window' PROVE rcvd_tbl'[Slot(t)] <=> t \in answered
      BY <2>2 DEF TableExact
    <3>1. t \in Nat /\ t < ntransmitted + 1 /\ t + MaxDupChk >= ntransmitted + 1
      BY <1>t, <1>m, <2>2 DEF Window, MaxOf
    <3>2. CASE t = ntransmitted
      <4>1. rcvd_tbl'[Slot(t)] = FALSE
        BY <1>t, <2>1, <2>2, <3>2
      <4>2. t \notin answered
        BY <1>t, <3>2
      <4> QED BY <4>1, <4>2
    <3>3. CASE t # ntransmitted
      <4>1. t < ntransmitted /\ ntransmitted - t < MaxDupChk /\ t \in Window
        BY <1>t, <1>m, <1>w, <3>1, <3>3
      <4>2. Slot(t) # slot /\ Slot(t) \in 0 .. MaxDupChk - 1
        BY <1>t, <2>1, <3>1, <4>1, SlotsDiffer, SlotOfSeqNo
      <4>3. rcvd_tbl'[Slot(t)] = rcvd_tbl[Slot(t)]
        BY <1>t, <2>2, <4>2
      <4> QED BY <2>4, <4>1, <4>3 DEF TableExact
    <3> QED BY <3>2, <3>3
  <2> QED BY <2>2, <2>3, <2>4 DEF LossInv
<1>2. CASE PackReply
  <2>1. /\ UNCHANGED <<rcvd_tbl, ntransmitted, answered, late>>
        /\ nreceived' = nreceived + 1 /\ ~MidCount /\ MidCount'
    BY <1>2 DEF PackReply, MidCount, TInv, PcFacts
  <2>2. TableExact' <=> TableExact
    BY <2>1 DEF TableExact, Window
  <2> QED BY <1>t, <1>f, <2>1, <2>2 DEF LossInv
<1>3. CASE PackDuplicateTest
  <2> DEFINE tx == packet.tx
             slot == Slot(SeqNo(tx))
  <2>1. tx \in Nat /\ tx < ntransmitted
    BY <1>3 DEF PackDuplicateTest, TInv, PcFacts, NetInv, TypeOK, TypeData, Datagram
  <2>2. slot = Slot(tx) /\ slot \in 0 .. MaxDupChk - 1
    BY <2>1, SlotOfSeqNo
  <2>3. /\ MidCount /\ ~MidCount' /\ ntransmitted' = ntransmitted
        /\ answered' = answered \cup {tx}
    BY <1>3 DEF PackDuplicateTest, MidCount, TInv, PcFacts
  <2>l. ~late' => ~late /\ ~(tx + MaxDupChk < ntransmitted)
    BY <1>3 DEF PackDuplicateTest
  <2>4. answered' \subseteq 0 .. ntransmitted' - 1
    <3>1. tx \in 0 .. ntransmitted - 1
      BY <1>t, <2>1
    <3> QED BY <1>t, <2>3, <3>1, Zenon
  <2>5. ASSUME ~late' PROVE nreceived' = Cardinality(answered') /\ TableExact'
    <3>0. ~late /\ ~(tx + MaxDupChk < ntransmitted)
      BY <2>5, <2>l, Zenon
    <3>1. ~late /\ tx + MaxDupChk >= ntransmitted
      BY <1>t, <1>m, <2>1, <3>0
    <3>2. tx \in Window
      BY <1>w, <2>1, <3>1
    <3>3. nreceived = Cardinality(answered) + 1 /\ TableExact
      BY <2>3, <3>1 DEF LossInv
    <3>4. rcvd_tbl[slot] <=> tx \in answered
      BY <2>2, <3>2, <3>3 DEF TableExact
    <3>5. Window' = Window
      BY <2>3 DEF Window
    <3>6. CASE rcvd_tbl[slot]
      <4>1. nreceived' = nreceived - 1 /\ rcvd_tbl' = rcvd_tbl
        BY <1>3, <3>6 DEF PackDuplicateTest, Seen
      <4>2. answered' = answered
        BY <2>3, <3>4, <3>6
      <4>3. nreceived' = Cardinality(answered')
        BY <1>f, <3>3, <4>1, <4>2
      <4> QED BY <3>3, <3>5, <4>1, <4>2, <4>3 DEF TableExact
    <3>7. CASE ~rcvd_tbl[slot]
      <4>1. nreceived' = nreceived /\ rcvd_tbl' = [rcvd_tbl EXCEPT ![slot] = TRUE]
        BY <1>3, <3>7 DEF PackDuplicateTest, Seen, Mark
      <4>2. Cardinality(answered') = Cardinality(answered) + 1
        BY <1>f, <2>3, <3>4, <3>7, FS_AddElement
      <4> HIDE DEF slot, tx
      <4>3. TableExact'
        <5> SUFFICES ASSUME NEW t \in Window
                     PROVE  rcvd_tbl'[Slot(t)] <=> t \in answered'
          BY <3>5 DEF TableExact
        <5>1. t \in Nat /\ t < ntransmitted /\ t + MaxDupChk >= ntransmitted
          BY <1>w
        <5>2. CASE t = tx
          BY <1>t, <2>2, <2>3, <4>1, <5>2
        <5>3. CASE t # tx
          <6>1. Slot(t) # Slot(tx)
            <7>1. CASE t < tx
              <8>1. tx - t < MaxDupChk
                BY <1>t, <1>m, <2>1, <5>1
              <8> QED BY <2>1, <5>1, <7>1, <8>1, SlotsDiffer
            <7>2. CASE tx < t
              <8>1. t - tx < MaxDupChk
                BY <1>t, <1>m, <2>1, <3>1, <5>1
              <8> QED BY <2>1, <5>1, <7>2, <8>1, SlotsDiffer
            <7> QED BY <2>1, <5>1, <5>3, <7>1, <7>2
          <6>2. Slot(t) \in 0 .. MaxDupChk - 1
            BY <5>1, SlotOfSeqNo
          <6>3. rcvd_tbl'[Slot(t)] = rcvd_tbl[Slot(t)]
            BY <1>t, <2>2, <4>1, <6>1, <6>2
          <6> QED BY <2>3, <3>3, <5>3, <6>3 DEF TableExact
        <5> QED BY <5>2, <5>3
      <4> QED BY <3>3, <4>1, <4>2, <4>3
    <3> QED BY <3>6, <3>7
  <2>6. Cardinality(answered') + 0 = Cardinality(answered')
    <3>1. IsFiniteSet(answered \cup {tx})
      BY <1>f, FS_AddElement
    <3>2. Cardinality(answered') \in Nat
      BY <2>3, <3>1, FS_CardinalityType
    <3> QED BY <3>2
  <2> QED BY <2>3, <2>4, <2>5, <2>6 DEF LossInv
<1>4. CASE ~(PingerCount \/ PackReply \/ PackDuplicateTest)
  <2>1. UNCHANGED <<rcvd_tbl, ntransmitted, nreceived, answered, late>>
    BY <1>4 DEF Next, Main, vars, Preload, Doit, TopSend, TopWait, TopLast,
       PingerSend, PingerMark, PollReady, PollTimeout, PackOther, Cond, Finish,
       PingerFails, PollFails, SigFinish, SigPrefinish, SigInfo, PollTick,
       StallTick, Arrive, Exited
  <2>2. MidCount' <=> MidCount
    BY <1>4, MidCountStutter
  <2> QED BY <2>1, <2>2 DEF LossInv, TableExact, Window
<1> QED BY <1>1, <1>2, <1>3, <1>4

\* For every size of rcvd_tbl and of icmp_seq, whatever is lost, repeated and
\* reordered, the loss that ping prints is exact unless an answer came a
\* whole table late.
THEOREM LossExactHolds == Spec => []LossExact
<1>1. TInv /\ LossInv => LossExact
  <2> SUFFICES ASSUME TInv, LossInv, ~late, ~MidCount
               PROVE  nreceived = Cardinality(answered) /\ TableExact
    BY DEF LossExact, TableExact, Window
  <2>1. nreceived = Cardinality(answered) + 0 /\ TableExact
    BY DEF LossInv
  <2>2. Cardinality(answered) \in Nat
    <3>1. ntransmitted \in Nat /\ answered \subseteq 0 .. ntransmitted - 1
      BY DEF TInv, TypeOK, TypeNumbers, LossInv
    <3>2. IsFiniteSet(0 .. ntransmitted - 1)
      BY <3>1, FS_Interval
    <3>3. IsFiniteSet(answered)
      BY <3>1, <3>2, FS_Subset
    <3> QED BY <3>3, FS_CardinalityType
  <2> QED BY <2>1, <2>2
<1> QED BY <1>1, InitTInv, NextTInv, InitCountInv, NextNetInv, InitLossInv,
           NextLossInv, PTL DEF Spec

-----------------------------------------------------------------------------
(***************************************************************************)
(* The last request.                                                       *)
(***************************************************************************)
LastAnswered == ntransmitted - 1 \in answered

\* lastrcvd is about the last request, but while the next one is being sent, and
\* is one step ahead of "answered" while a reply is being counted.
LastPlaces ==
    /\ pc \notin {"counted", "marked", "exited"} => (lastrcvd <=> LastAnswered)
    /\ pc = "counted" => (lastrcvd <=> (LastAnswered \/ IsLast(packet.tx)))
    /\ pc = "exited" /\ ~cut => (lastrcvd => LastAnswered)

LastInv ==
    /\ pc = "marked" => ~lastrcvd
    /\ ~late /\ ntransmitted > 0 => LastPlaces

\* An answer that is not a whole table late has the icmp_seq of the last request
\* only if it answers it.
LEMMA IsLastExact ==
    ASSUME ntransmitted \in Nat, NEW tx \in Nat, tx < ntransmitted,
           tx + MaxDupChk >= ntransmitted
    PROVE  IsLast(tx) <=> tx = ntransmitted - 1
<1> DEFINE top == ntransmitted - 1
<1>1. top \in Nat /\ tx <= top
  OBVIOUS
<1>2. SeqSize \in Nat \ {0} /\ MaxDupChk \in Nat \ {0} /\ SeqSize % MaxDupChk = 0
  BY NumbersAssumption
<1>3. SeqSize >= MaxDupChk
  <2>1. SUFFICES ASSUME SeqSize < MaxDupChk PROVE FALSE
    BY <1>2
  <2>2. SeqSize % MaxDupChk = SeqSize
    BY <1>2, <2>1
  <2> QED BY <1>2, <2>2
<1>4. top - tx < SeqSize
  BY <1>1, <1>2, <1>3
<1>5. IsLast(tx) <=> top % SeqSize = tx % SeqSize
  BY DEF IsLast, SeqNo
<1> HIDE DEF top
<1>6. top % SeqSize = tx % SeqSize => top = tx
  BY <1>1, <1>2, <1>4, ModInjective
<1>7. IsLast(tx) <=> tx = top
  BY <1>5, <1>6
<1> QED BY <1>7 DEF top

\* Init establishes it.
LEMMA InitLastInv == Init => LastInv
BY DEF Init, LastInv

\* A step that changes neither lastrcvd nor the requests stays where it is, goes
\* on between two other steps, or ends the program.
LEMMA LastStutter ==
    ASSUME TInv, [Next]_vars,
           ~(PingerMark \/ PingerCount \/ PackReply \/ PackDuplicateTest)
    PROVE  /\ UNCHANGED <<lastrcvd, late, ntransmitted, answered>>
           /\ \/ UNCHANGED <<pc, packet, cut>>
              \/ {pc, pc'} \cap {"counted", "marked", "exited"} = {}
              \/ pc' = "exited" /\ pc # "exited" /\ cut' = (pc = "counted")
<1> USE DEF TInv, PcFacts, sched, times, counters, history, outcome, network
<1>1. CASE SigFinish
  BY <1>1 DEF SigFinish, Running
<1>2. CASE PingerFails \/ PollFails \/ Finish
  BY <1>2 DEF PingerFails, PollFails, Finish
<1>3. CASE Preload \/ Doit \/ TopSend \/ TopWait \/ TopLast \/ PingerSend
  BY <1>3 DEF Preload, Doit, TopSend, TopWait, TopLast, PingerSend
<1>4. CASE PollReady \/ PollTimeout \/ PackOther \/ Cond
  BY <1>4 DEF PollReady, PollTimeout, PackOther, Cond
<1>5. CASE SigPrefinish \/ SigInfo
  BY <1>5 DEF SigPrefinish, SigInfo, Interrupt, Running
<1>6. CASE PollTick \/ StallTick \/ Arrive
  BY <1>6 DEF PollTick, StallTick, Arrive
<1>7. CASE Exited \/ UNCHANGED vars
  BY <1>7 DEF Exited, vars
<1> QED BY <1>1, <1>2, <1>3, <1>4, <1>5, <1>6, <1>7 DEF Next, Main

\* Every step preserves it.
LEMMA NextLastInv ==
    TInv /\ NetInv /\ LossInv /\ LastInv /\ [Next]_vars => LastInv'
<1> SUFFICES ASSUME TInv, NetInv, LossInv, LastInv, [Next]_vars PROVE LastInv'
  OBVIOUS
<1>t. ntransmitted \in Nat /\ lastrcvd \in BOOLEAN /\ late \in BOOLEAN
      /\ answered \subseteq 0 .. ntransmitted - 1
  BY DEF TInv, TypeOK, TypeNumbers, TypeFlags, LossInv
<1> USE DEF counters, history
<1>1. CASE PingerMark
  BY <1>1 DEF PingerMark, LastInv, LastPlaces
<1>2. CASE PingerCount
  <2>1. /\ pc = "marked" /\ pc' \notin {"counted", "marked", "exited"}
        /\ ntransmitted' = ntransmitted + 1
        /\ UNCHANGED <<lastrcvd, answered>>
    BY <1>2 DEF PingerCount
  <2>2. ~lastrcvd /\ ~LastAnswered'
    BY <1>t, <2>1 DEF LastInv, LastAnswered
  <2> QED BY <2>1, <2>2 DEF LastInv, LastPlaces
<1>3. CASE PackReply
  <2>1. /\ pc = "pack" /\ pc' = "counted"
        /\ lastrcvd' = (lastrcvd \/ IsLast(packet.tx))
        /\ UNCHANGED <<ntransmitted, packet, answered, late>>
    BY <1>3 DEF PackReply
  <2>2. LastAnswered' = LastAnswered /\ IsLast(packet.tx)' = IsLast(packet.tx)
    BY <2>1 DEF LastAnswered, IsLast, SeqNo
  <2> QED BY <1>t, <2>1, <2>2 DEF LastInv, LastPlaces
<1>4. CASE PackDuplicateTest
  <2> DEFINE tx == packet.tx
  <2>1. /\ pc = "counted" /\ pc' = "cond"
        /\ answered' = answered \cup {tx}
        /\ late' = (late \/ tx + MaxDupChk < ntransmitted)
        /\ UNCHANGED <<ntransmitted, lastrcvd>>
    BY <1>4 DEF PackDuplicateTest
  <2>2. tx \in Nat /\ tx < ntransmitted
    BY <2>1 DEF TInv, PcFacts, NetInv, TypeOK, TypeData, Datagram
  <2>3. MaxDupChk \in Nat
    BY NumbersAssumption
  <2> HIDE DEF tx
  <2>4. SUFFICES ASSUME ~late' PROVE lastrcvd' <=> LastAnswered'
    BY <2>1 DEF LastInv, LastPlaces
  <2>5. ~late /\ tx + MaxDupChk >= ntransmitted
    <3>1. ~late /\ ~(tx + MaxDupChk < ntransmitted)
      BY <2>1, <2>4, Zenon
    <3> QED BY <1>t, <2>2, <2>3, <3>1
  <2>6. IsLast(tx) <=> tx = ntransmitted - 1
    BY <1>t, <2>2, <2>5, IsLastExact
  <2>7. lastrcvd <=> (LastAnswered \/ IsLast(tx))
    BY <1>t, <2>1, <2>2, <2>5 DEF LastInv, LastPlaces, tx
  <2>8. LastAnswered' <=> (LastAnswered \/ tx = ntransmitted - 1)
    BY <2>1 DEF LastAnswered
  <2> QED BY <2>1, <2>6, <2>7, <2>8
<1>5. CASE ~(PingerMark \/ PingerCount \/ PackReply \/ PackDuplicateTest)
  <2>1. UNCHANGED <<lastrcvd, late, ntransmitted, answered>>
    BY <1>5, LastStutter
  <2>2. \/ UNCHANGED <<pc, packet, cut>>
        \/ {pc, pc'} \cap {"counted", "marked", "exited"} = {}
        \/ pc' = "exited" /\ pc # "exited" /\ cut' = (pc = "counted")
    BY <1>5, LastStutter
  <2>3. LastAnswered' = LastAnswered
    BY <2>1 DEF LastAnswered
  <2>4. CASE UNCHANGED <<pc, packet, cut>>
    <3>1. IsLast(packet.tx)' = IsLast(packet.tx)
      BY <2>1, <2>4 DEF IsLast, SeqNo
    <3> QED BY <2>1, <2>3, <2>4, <3>1 DEF LastInv, LastPlaces
  <2>5. CASE {pc, pc'} \cap {"counted", "marked", "exited"} = {}
    BY <2>1, <2>3, <2>5 DEF LastInv, LastPlaces
  <2>6. CASE pc' = "exited" /\ pc # "exited" /\ cut' = (pc = "counted")
    BY <2>1, <2>3, <2>6 DEF LastInv, LastPlaces
  <2> QED BY <2>2, <2>4, <2>5, <2>6
<1> QED BY <1>1, <1>2, <1>3, <1>4, <1>5

\* For every size of rcvd_tbl and of icmp_seq, whatever the network and the
\* signals do: unless an answer came a whole table late, lastrcvd is set exactly
\* if the last request sent was answered.
THEOREM LastRcvdExactHolds == Spec => []LastRcvdExact
<1>1. TInv /\ LastInv => LastRcvdExact
  BY DEF TInv, TypeOK, TypeControl, TypeFlags, PcFacts, LastInv, LastPlaces,
         LastAnswered, LastRcvdExact, MidCount
<1> QED BY <1>1, InitTInv, NextTInv, InitCountInv, NextNetInv, InitLossInv,
           NextLossInv, InitLastInv, NextLastInv, PTL DEF Spec

=============================================================================
