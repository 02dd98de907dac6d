-------------------------------- MODULE Ping --------------------------------
(***************************************************************************)
(* The sending and receiving loop of ping/ping.c: main's preload loop,     *)
(* doit(), pinger(), pr_pack(), the SIGINT handlers prefinish() and        *)
(* finish(), and the SIGINFO/SIGCONT handler prtsig().                     *)
(*                                                                         *)
(* Three actors interleave: the main loop (its program counter is pc), the *)
(* signals, which run between any two of its steps, and the network, which *)
(* loses, duplicates, delays and reorders echo replies and delivers other  *)
(* ICMP traffic to the raw socket.  Time is counted in ticks.              *)
(***************************************************************************)
EXTENDS Integers, Sequences, FiniteSets

CONSTANTS
    Options,      \* the command lines considered, see OptionType
    IntMax,       \* npackets when -c is absent (INT_MAX in the code)
    SeqSize,      \* icmp_seq is a u_int16_t: 2^16 in the code
    MaxDupChk,    \* bits in rcvd_tbl: 8 * 2048 in the code
    TicksPerSec,  \* resolution of the clock
    Interval,     \* -i, in ticks
    SendSlack,    \* "send if within 100 usec"
    CatchUp,      \* "if we are at most 100 ms behind"
    LastFactor,   \* 10 in the code: the last wait is 10 * interval
    TMinInit,     \* 999999999.0, the initial tmin
    MaxStall,     \* bound: ticks that pass while the loop is not in poll()
    MaxArrivals,  \* bound: datagrams the network hands to the socket
    QueueLimit    \* bound: datagrams the socket buffer holds

\* What main() keeps of the command line; count = 0 means no -c and
\* maxwait = 0 no -w.
OptionType == [count: Nat, preload: Nat, maxwait: Nat,
               flood: BOOLEAN, once: BOOLEAN, timing: BOOLEAN]

\* npackets after option processing (-c counts on top of -l).
Limit(o) == IF o.count # 0 THEN o.count + o.preload ELSE IntMax

ASSUME OptionsAssumption ==
    /\ Options \subseteq OptionType
    /\ \A o \in Options : o.preload <= Limit(o) /\ Limit(o) <= IntMax

ASSUME NumbersAssumption ==
    /\ IntMax \in Nat \ {0} /\ TicksPerSec \in Nat \ {0}
    /\ SeqSize \in Nat \ {0} /\ MaxDupChk \in Nat \ {0}
    /\ SeqSize % MaxDupChk = 0
    /\ Interval \in Nat \ {0} /\ LastFactor \in Nat \ {0}
    /\ SendSlack \in Nat /\ CatchUp \in Nat /\ SendSlack <= Interval
    /\ TMinInit \in Nat
    /\ MaxStall \in Nat /\ MaxArrivals \in Nat /\ QueueLimit \in Nat

VARIABLES
    opt,          \* the command line of this execution
    pc,           \* where the main loop is
    ret,          \* where pinger() returns to: "preload" or "doit"
    clock,        \* CLOCK_MONOTONIC
    stall,        \* ticks that passed outside poll()
    now,          \* the loop's copy of the clock
    last,         \* doit's deadline (-w); 0 when there is none
    wake,         \* when the pending poll() times out (0 outside poll)
    npackets, ntransmitted, nreceived, nrepeats,
    rcvd_tbl,     \* one bit per sequence number modulo MaxDupChk
    lastrcvd,     \* the last ping sent has been received
    first_tx, last_tx, next_tx,
    tmin, tmax, tsum,
    clear_cache,  \* when the kernel's cached route was last cleared
    int_handler,  \* the handler installed for SIGINT
    packet,       \* the datagram being processed, if there is one
    rcvq,         \* the socket's receive buffer
    net,          \* echo requests sent, with the timestamp they carry
    arrivals,     \* datagrams delivered so far
    status,       \* exit status, -1 while running
    \* history variables, read by the properties only
    why,          \* why the program ended
    cut,          \* finish() ran inside pr_pack, before the duplicate test
    answered,     \* transmissions some processed reply was an answer to
    late          \* a reply was processed after its rcvd_tbl slot was reused

sched    == <<first_tx, last_tx, next_tx>>
times    == <<tmin, tmax, tsum>>
counters == <<npackets, ntransmitted, nreceived, nrepeats>>
history  == <<cut, answered, late>>
outcome  == <<status, why>>
network  == <<rcvq, net, arrivals>>
vars == <<opt, pc, ret, clock, stall, now, last, wake, counters, rcvd_tbl,
          lastrcvd, sched, times, clear_cache, int_handler, packet, network,
          outcome, history>>

-----------------------------------------------------------------------------
\* Datagrams.  tx and ts mean something for echo replies to our requests only.
Reply(tx, ts) == [kind |-> "reply", tx |-> tx, ts |-> ts]
Noise(kind)   == [kind |-> kind, tx |-> 0, ts |-> 0]
\* icmperr: an ICMP error quoting one of our requests; foreign: anything
\* pr_pack ignores; soerror: a pending socket error, which recvfrom() returns.
NoiseKinds == {"icmperr", "foreign", "soerror"}
Datagram == [kind: {"reply"} \cup NoiseKinds, tx: Nat, ts: Nat]

Seconds(t) == t \div TicksPerSec
\* tv_sec == 0, which the code takes for "not set yet".
Unset(t)   == t < TicksPerSec
SeqNo(tx)  == tx % SeqSize
\* A(seq) and B(seq): the bit of rcvd_tbl that stands for a sequence number.
Slot(seq)  == seq % MaxDupChk
MaxOf(a, b) == IF a >= b THEN a ELSE b
MinOf(a, b) == IF a <= b THEN a ELSE b

Never == -1  \* the wake-up time of a poll() without timeout

Running == pc # "exited"

-----------------------------------------------------------------------------
Init ==
    /\ opt \in Options
    /\ pc = "preload" /\ ret = "preload"
    /\ clock = TicksPerSec /\ stall = 0
    /\ now = 0 /\ last = 0 /\ wake = 0
    /\ npackets = Limit(opt)
    /\ ntransmitted = 0 /\ nreceived = 0 /\ nrepeats = 0
    /\ rcvd_tbl = [i \in 0 .. MaxDupChk - 1 |-> FALSE]
    /\ lastrcvd = TRUE
    /\ first_tx = 0 /\ last_tx = 0 /\ next_tx = 0
    /\ tmin = TMinInit /\ tmax = 0 /\ tsum = 0
    /\ clear_cache = 0
    /\ int_handler = "prefinish"
    /\ packet = Noise("foreign")
    /\ rcvq = << >> /\ net = {} /\ arrivals = 0
    /\ status = -1 /\ why = "running"
    /\ cut = FALSE /\ answered = {} /\ late = FALSE

-----------------------------------------------------------------------------
\* main: "fire off them quickies".
Preload ==
    /\ pc = "preload" /\ ntransmitted < opt.preload
    /\ now' = clock
    /\ pc' = "pinger" /\ ret' = "preload"
    /\ UNCHANGED <<opt, clock, stall, last, wake, counters, rcvd_tbl, lastrcvd,
                   sched, times, clear_cache, int_handler, packet, network,
                   outcome, history>>

\* doit, up to its loop.
Doit ==
    /\ pc = "preload" /\ ntransmitted >= opt.preload
    /\ clear_cache' = clock
    /\ last' = IF opt.maxwait # 0 THEN clock + opt.maxwait ELSE 0
    /\ pc' = "top" /\ ret' = "doit"
    /\ UNCHANGED <<opt, clock, stall, now, wake, counters, rcvd_tbl, lastrcvd,
                   sched, times, int_handler, packet, network, outcome,
                   history>>

\* "if (d_last < sec) sec = d_last".
Capped(sec, t) == IF last # 0 THEN MinOf(sec, last - t) ELSE sec

\* "if (sec < 0.0) sec = 0.0".
KeepNegative(sec) == sec
NotNegative(sec) == MaxOf(sec, 0)

\* When poll() with this timeout gives up: never, if it is negative.
PollUntil(sec) == IF sec < 0 THEN Never ELSE clock + sec

\* There is something left to send and time to do it.
MaySendOneMore(t) == ntransmitted <= npackets /\ (last = 0 \/ last - t > 0)
MaySend(t) == ntransmitted < npackets /\ (last = 0 \/ last - t > 0)

\* diffsec(&next_tx, &now), which is -1 second before the first transmission.
UntilNext(t) == IF Unset(next_tx) THEN -TicksPerSec ELSE next_tx - t
\* diffsec(&now, &last_tx)
LastWait(t) == MaxOf(2 * tmax, LastFactor * Interval) - (t - last_tx)

\* "send if within 100 usec or late for next packet", or when a flood is caught
\* up.
SendWhenCaughtUp(t) == UntilNext(t) <= SendSlack \/ lastrcvd
SendDue(t) == UntilNext(t) <= SendSlack \/ (lastrcvd /\ opt.flood)

\* The head of doit's loop: send, wait for the next transmission, or wait for
\* the last answers.
TopSend ==
    /\ pc = "top"
    /\ MaySend(clock) /\ SendDue(clock)
    /\ now' = clock
    /\ pc' = "pinger"
    /\ UNCHANGED <<opt, ret, clock, stall, last, wake, counters, rcvd_tbl,
                   lastrcvd, sched, times, clear_cache, int_handler, packet,
                   network, outcome, history>>

TopWait ==
    /\ pc = "top"
    /\ MaySend(clock) /\ ~SendDue(clock)
    /\ now' = clock
    /\ wake' = PollUntil(Capped(NotNegative(UntilNext(clock)), clock))
    /\ pc' = "poll"
    /\ UNCHANGED <<opt, ret, clock, stall, last, counters, rcvd_tbl, lastrcvd,
                   sched, times, clear_cache, int_handler, packet, network,
                   outcome, history>>

TopLast ==
    /\ pc = "top"
    /\ ~MaySend(clock)
    /\ now' = clock
    /\ LET sec == Capped(LastWait(clock), clock)
       IN  IF sec <= 0
           THEN /\ pc' = "finish" /\ why' = "timeout" /\ wake' = wake
           ELSE /\ pc' = "poll" /\ wake' = PollUntil(sec) /\ why' = why
    /\ UNCHANGED <<opt, ret, clock, stall, last, counters, rcvd_tbl, lastrcvd,
                   sched, times, clear_cache, int_handler, packet, network,
                   status, history>>

-----------------------------------------------------------------------------
\* "clear the cached route in the kernel after an ICMP response [...] Also clear
\* the cached route periodically".
RouteStale(t) == Seconds(clear_cache) # Seconds(t)

\* pinger, up to sendto().  The route is cleared when the second changed or an
\* ICMP error zeroed clear_cache.  A failed sendto() is only warned about.
PingerSend ==
    /\ pc = "pinger"
    /\ clear_cache' = IF RouteStale(now) THEN clock ELSE clear_cache
    /\ \/ net' = net \cup {Reply(ntransmitted, now)}
       \/ net' = net
    /\ pc' = "sent"
    /\ UNCHANGED <<opt, ret, clock, stall, now, last, wake, counters, rcvd_tbl,
                   lastrcvd, sched, times, int_handler, packet, rcvq, arrivals,
                   outcome, history>>

\* pinger: err(1, ...) when setsockopt() fails while the route is cleared.
PingerFails ==
    /\ pc = "pinger" /\ RouteStale(now)
    /\ pc' = "exited" /\ status' = 1 /\ why' = "error"
    /\ UNCHANGED <<opt, ret, clock, stall, now, last, wake, counters, rcvd_tbl,
                   lastrcvd, sched, times, clear_cache, int_handler, packet,
                   network, history>>

\* pinger: "lastrcvd = 0".  A signal may come before it and after it.
PingerMark ==
    /\ pc = "sent"
    /\ lastrcvd' = FALSE
    /\ pc' = "marked"
    /\ UNCHANGED <<opt, ret, clock, stall, now, last, wake, counters, rcvd_tbl,
                   sched, times, clear_cache, int_handler, packet, network,
                   outcome, history>>

\* How many intervals to skip: one, and then as many more as it takes to be at
\* most CatchUp behind.
Skips(next, t) ==
    {k \in 1 .. MaxOf(1, t - next) :
        /\ next + k * Interval - t >= -CatchUp
        /\ k = 1 \/ next + (k - 1) * Interval - t < -CatchUp}

\* The next transmission time (a singleton).  It stays when it is already more
\* than an interval ahead, as after the extra transmissions of a flood.
NextTxAlways(next, t) == {next + k * Interval : k \in Skips(next, t)}
NextTx(next, t) ==
    IF next - t <= Interval THEN {next + k * Interval : k \in Skips(next, t)}
                            ELSE {next}

\* CLR, TST and SET on rcvd_tbl.
ClearNothing(tbl, tx) == tbl
Clear(tbl, tx) == [tbl EXCEPT ![Slot(SeqNo(tx))] = FALSE]
NeverSeen(tbl, tx) == FALSE
Seen(tbl, tx) == tbl[Slot(SeqNo(tx))]
Mark(tbl, tx) == [tbl EXCEPT ![Slot(SeqNo(tx))] = TRUE]

\* pinger, from CLR(ntransmitted) to its end, and its caller's next statement.
PingerCount ==
    /\ pc = "marked"
    /\ rcvd_tbl' = Clear(rcvd_tbl, ntransmitted)
    /\ ntransmitted' = ntransmitted + 1
    /\ last_tx' = now
    /\ first_tx' = IF Unset(next_tx) THEN now ELSE first_tx
    /\ next_tx' \in NextTx(IF Unset(next_tx) THEN now ELSE next_tx, now)
    /\ IF ret = "preload"
       THEN pc' = "preload" /\ wake' = wake
       ELSE /\ pc' = "poll"
            /\ wake' = PollUntil(Capped(NotNegative(next_tx' - now), now))
    /\ UNCHANGED <<opt, ret, clock, stall, now, last, npackets, nreceived,
                   nrepeats, lastrcvd, times, clear_cache, int_handler, packet,
                   network, outcome, history>>

-----------------------------------------------------------------------------
\* poll() and recvfrom().
PollReady ==
    /\ pc = "poll" /\ rcvq # << >>
    /\ rcvq' = Tail(rcvq) /\ wake' = 0
    /\ IF Head(rcvq).kind = "soerror"
       THEN pc' = "cond" /\ UNCHANGED <<packet, now>>
       ELSE pc' = "pack" /\ packet' = Head(rcvq) /\ now' = clock
    /\ UNCHANGED <<opt, ret, clock, stall, last, counters, rcvd_tbl, lastrcvd,
                   sched, times, clear_cache, int_handler, net, arrivals,
                   outcome, history>>

PollTimeout ==
    /\ pc = "poll" /\ rcvq = << >> /\ wake # Never /\ clock >= wake
    /\ pc' = "cond" /\ wake' = 0
    /\ UNCHANGED <<opt, ret, clock, stall, now, last, counters, rcvd_tbl,
                   lastrcvd, sched, times, clear_cache, int_handler, packet,
                   network, outcome, history>>

\* poll() fails with something else than EINTR: err(1, "poll").
PollFails ==
    /\ pc = "poll"
    /\ pc' = "exited" /\ status' = 1 /\ why' = "error"
    /\ UNCHANGED <<opt, ret, clock, stall, now, last, wake, counters, rcvd_tbl,
                   lastrcvd, sched, times, clear_cache, int_handler, packet,
                   network, history>>

-----------------------------------------------------------------------------
\* tmax after a round trip.
LargestUnlessSmallest(triptime) ==
    IF triptime < tmin THEN tmax ELSE MaxOf(triptime, tmax)
Largest(triptime) == MaxOf(triptime, tmax)

\* "if (ntohs(icp->icmp_seq) == ntransmitted - 1)", on sixteen bits.
IsLastCounted(tx) == SeqNo(tx) = SeqNo(ntransmitted)
IsLast(tx) == SeqNo(tx) = SeqNo(ntransmitted - 1)

\* pr_pack on an echo reply of ours, up to the duplicate test.  The reply is
\* counted before it is known to be a duplicate.
PackReply ==
    /\ pc = "pack" /\ packet.kind = "reply"
    /\ lastrcvd' = (lastrcvd \/ IsLast(packet.tx))
    /\ nreceived' = nreceived + 1
    /\ IF opt.timing
       THEN LET triptime == now - packet.ts
            IN  /\ tsum' = tsum + triptime
                /\ tmin' = MinOf(triptime, tmin)
                /\ tmax' = Largest(triptime)
       ELSE UNCHANGED times
    /\ pc' = "counted"
    /\ UNCHANGED <<opt, ret, clock, stall, now, last, wake, npackets,
                   ntransmitted, nrepeats, rcvd_tbl, sched, clear_cache,
                   int_handler, packet, network, outcome, history>>

\* pr_pack: "if (TST(...)) nrepeats++, nreceived--; else SET(...)".
PackDuplicateTest ==
    /\ pc = "counted"
    /\ IF Seen(rcvd_tbl, packet.tx)
       THEN /\ nrepeats' = nrepeats + 1 /\ nreceived' = nreceived - 1
            /\ UNCHANGED rcvd_tbl
       ELSE /\ rcvd_tbl' = Mark(rcvd_tbl, packet.tx)
            /\ UNCHANGED <<nrepeats, nreceived>>
    /\ answered' = answered \cup {packet.tx}
    /\ late' = (late \/ packet.tx + MaxDupChk < ntransmitted)
    /\ pc' = "cond" /\ packet' = Noise("foreign")
    /\ UNCHANGED <<opt, ret, clock, stall, now, last, wake, npackets,
                   ntransmitted, lastrcvd, sched, times, clear_cache,
                   int_handler, network, outcome, cut>>

\* ck_pr_icmph(): "remember to clear route cached in kernel if this
\* non-Echo-Reply ICMP message was for one of our packets".
ForgetRoute == clear_cache' = 0

\* pr_pack on anything else: pr_icmph() prints it or not.
PackOther ==
    /\ pc = "pack" /\ packet.kind # "reply"
    /\ IF packet.kind = "icmperr"
       THEN ForgetRoute
       ELSE UNCHANGED clear_cache
    /\ pc' = "cond" /\ packet' = Noise("foreign")
    /\ UNCHANGED <<opt, ret, clock, stall, now, last, wake, counters, rcvd_tbl,
                   lastrcvd, sched, times, int_handler, network, outcome,
                   history>>

\* The condition of doit's loop.
MoreExpected == nreceived < npackets /\ (nreceived = 0 \/ ~opt.once)

\* "continue" leads here too.
Cond ==
    /\ pc = "cond"
    /\ IF MoreExpected
       THEN pc' = "top" /\ UNCHANGED why
       ELSE /\ pc' = "finish"
            /\ why' = IF opt.once /\ nreceived < npackets THEN "once" ELSE "limit"
    /\ UNCHANGED <<opt, ret, clock, stall, now, last, wake, counters, rcvd_tbl,
                   lastrcvd, sched, times, clear_cache, int_handler, packet,
                   network, status, history>>

\* finish's exit status.
ExitCount == nreceived
ExitStatus == IF nreceived > 0 THEN 0 ELSE 2

\* finish(), called from doit.
Finish ==
    /\ pc = "finish"
    /\ pc' = "exited" /\ status' = ExitStatus
    /\ UNCHANGED <<opt, ret, clock, stall, now, last, wake, counters, rcvd_tbl,
                   lastrcvd, sched, times, clear_cache, int_handler, packet,
                   network, why, history>>

-----------------------------------------------------------------------------
\* A handled signal that finds the loop in poll() ends it with EINTR, unless it
\* came just before the system call began.
Interrupt == \/ pc = "poll" /\ pc' = "cond" /\ wake' = 0
             \/ pc' = pc /\ wake' = wake

\* finish() as (or from) the SIGINT handler.
SigFinish ==
    /\ Running
    /\ \/ int_handler = "finish"
       \/ lastrcvd \/ nreceived = 0
    /\ pc' = "exited" /\ status' = ExitStatus /\ why' = "sigint"
    /\ cut' = (pc = "counted")
    /\ UNCHANGED <<opt, ret, clock, stall, now, last, wake, counters, rcvd_tbl,
                   lastrcvd, sched, times, clear_cache, int_handler, packet,
                   network, answered, late>>

\* prefinish() with answers outstanding.
SigPrefinish ==
    /\ Running /\ int_handler = "prefinish"
    /\ ~lastrcvd /\ nreceived # 0
    /\ int_handler' = "finish"
    /\ npackets' = MinOf(npackets, ntransmitted)
    /\ Interrupt
    /\ UNCHANGED <<opt, ret, clock, stall, now, last, ntransmitted,
                   nreceived, nrepeats, rcvd_tbl, lastrcvd, sched, times,
                   clear_cache, packet, network, outcome, history>>

\* prtsig(): prints the summary; all that it changes is that poll() ends.
SigInfo ==
    /\ Running /\ Interrupt
    /\ UNCHANGED <<opt, ret, clock, stall, now, last, counters, rcvd_tbl,
                   lastrcvd, sched, times, clear_cache, int_handler, packet,
                   network, outcome, history>>

-----------------------------------------------------------------------------
\* The clock.  The loop may be descheduled anywhere, MaxStall ticks in all.
PollTick ==
    /\ pc = "poll" /\ clock < wake
    /\ clock' = clock + 1
    /\ UNCHANGED <<opt, pc, ret, stall, now, last, wake, counters, rcvd_tbl,
                   lastrcvd, sched, times, clear_cache, int_handler, packet,
                   network, outcome, history>>

StallTick ==
    /\ Running /\ stall < MaxStall
    /\ clock' = clock + 1 /\ stall' = stall + 1
    /\ UNCHANGED <<opt, pc, ret, now, last, wake, counters, rcvd_tbl, lastrcvd,
                   sched, times, clear_cache, int_handler, packet, network,
                   outcome, history>>

\* The network delivers a reply to any request, again or not, or something else.
\* What arrives while the loop is elsewhere waits in the buffer, which only
\* poll() and recvfrom() look at: delivering it in poll() loses no behaviour.
Arrive ==
    /\ pc = "poll" /\ arrivals < MaxArrivals /\ Len(rcvq) < QueueLimit
    /\ \E d \in net \cup {Noise(k) : k \in NoiseKinds} : rcvq' = Append(rcvq, d)
    /\ arrivals' = arrivals + 1
    /\ UNCHANGED <<opt, pc, ret, clock, stall, now, last, wake, counters,
                   rcvd_tbl, lastrcvd, sched, times, clear_cache, int_handler,
                   packet, net, outcome, history>>

Exited == pc = "exited" /\ UNCHANGED vars

-----------------------------------------------------------------------------
Main == \/ Preload \/ Doit \/ TopSend \/ TopWait \/ TopLast
        \/ PingerSend \/ PingerMark \/ PingerCount
        \/ PollReady \/ PollTimeout
        \/ PackReply \/ PackDuplicateTest \/ PackOther
        \/ Cond \/ Finish

Next == \/ Main \/ PingerFails \/ PollFails
        \/ SigFinish \/ SigPrefinish \/ SigInfo
        \/ PollTick \/ StallTick \/ Arrive \/ Exited

Spec == Init /\ [][Next]_vars

\* The process is scheduled, and time passes in poll() however often a signal
\* interrupts it.
Fairness == WF_vars(Main) /\ SF_vars(PollTick)
FairSpec == Spec /\ Fairness

-----------------------------------------------------------------------------
(***************************************************************************)
(* Properties.                                                             *)
(***************************************************************************)
PCs == {"preload", "top", "pinger", "sent", "marked", "poll", "pack",
        "counted", "cond", "finish", "exited"}

TypeControl ==
    /\ opt \in Options
    /\ pc \in PCs /\ ret \in {"preload", "doit"}
    /\ int_handler \in {"prefinish", "finish"}
    /\ status \in {-1, 0, 1, 2}
    /\ why \in {"running", "limit", "once", "timeout", "sigint", "error"}

TypeNumbers ==
    /\ clock \in Nat /\ stall \in Nat /\ now \in Nat /\ last \in Nat /\ wake \in Int
    /\ npackets \in Nat /\ ntransmitted \in Nat
    /\ nreceived \in Nat /\ nrepeats \in Nat
    /\ first_tx \in Nat /\ last_tx \in Nat /\ next_tx \in Nat
    /\ tmin \in Int /\ tmax \in Int /\ tsum \in Int
    /\ clear_cache \in Nat /\ arrivals \in Nat

TypeData ==
    /\ packet \in Datagram
    /\ rcvq \in Seq(Datagram)
    /\ net \subseteq Datagram
    /\ rcvd_tbl \in [0 .. MaxDupChk - 1 -> BOOLEAN]
    /\ answered \subseteq Nat

TypeFlags == {lastrcvd, cut, late} \subseteq BOOLEAN

\* Every variable keeps its type; in particular the decrement of nreceived in
\* pr_pack never takes it below zero.
TypeOK == TypeControl /\ TypeNumbers /\ TypeData /\ TypeFlags

\* A reply is counted and not yet compared with rcvd_tbl.
MidCount == pc = "counted" \/ cut

\* pr_pack never counts more answers than pinger sent requests, however the
\* network duplicates and delays them and whatever slot of rcvd_tbl they share;
\* only between nreceived++ and the duplicate test is one too many possible.
NoOvercount == nreceived <= ntransmitted + (IF MidCount THEN 1 ELSE 0)

\* "Packet loss" is exact as long as no answer is MAX_DUP_CHK transmissions
\* late: nreceived counts the requests that were answered, once each, and
\* rcvd_tbl tells for each of the last MAX_DUP_CHK requests whether it was.
LossExact ==
    (~late /\ ~MidCount) =>
        /\ nreceived = Cardinality(answered)
        /\ \A t \in MaxOf(0, ntransmitted - MaxDupChk) .. ntransmitted - 1 :
              rcvd_tbl[Slot(t)] <=> t \in answered

\* The printed min/avg/max are those of one and the same set of round trips,
\* duplicates included: min <= avg <= max with n = nreceived + nrepeats, and
\* no round trip is negative.
StatsBounds ==
    LET n == nreceived + nrepeats
    IN  (opt.timing /\ n > 0) =>
            /\ 0 <= tmin /\ tmin <= tmax
            /\ n * tmin <= tsum /\ tsum <= n * tmax

\* Never more requests than -c and -l allow; and after the first SIGINT at
\* most the one request that was already being sent.
SendBudget ==
    /\ ntransmitted <= Limit(opt)
    /\ ntransmitted <= npackets + 1
    /\ int_handler = "prefinish" => ntransmitted <= npackets

\* pinger keeps the schedule close to the clock: the next transmission is never
\* more than CatchUp behind the last one and never more than two intervals
\* ahead of it, however fast a flood or a preload sends.
ScheduleWindow ==
    ntransmitted > 0 =>
        /\ next_tx - last_tx >= -CatchUp
        /\ next_tx - last_tx <= 2 * Interval

\* Without -f the catching up never makes ping send faster than one request an
\* interval since the first, the preloaded ones apart.
RateLimit ==
    (~opt.flood /\ ntransmitted > opt.preload) =>
        last_tx - first_tx >=
            (ntransmitted - MaxOf(opt.preload, 1)) * (Interval - SendSlack)

\* lastrcvd, by which prefinish() tells whether to wait for an answer and a
\* flood when to send the next request, says whether the last request was
\* answered: it is not left over from an earlier request, not taken from an
\* earlier one whose icmp_seq or slot is the same, and not lost to a duplicate.
\* Only while pinger is between "lastrcvd = 0" and "ntransmitted++" is it about
\* the request that is being sent.
LastRcvdExact ==
    (~late /\ ~MidCount /\ ntransmitted > 0) =>
        /\ lastrcvd => ntransmitted - 1 \in answered
        /\ (pc \notin {"marked", "exited"} /\ ntransmitted - 1 \in answered)
              => lastrcvd

\* ping ends, with or without answers, losses, duplicates and signals.
Termination == <>(pc = "exited")

=============================================================================
