----------------------------- MODULE EventLoop ------------------------------
(***************************************************************************)
(* The main loop of elinks: select_loop() and bottom halves                *)
(* (main/select.c), timers (main/timer.c) and signals (osdep/signals.c).   *)
(*                                                                         *)
(* There is one thread, but a signal may arrive between any two steps; it  *)
(* only sets a mark, and the loop looks for marks before it sleeps.  One   *)
(* that arrives after the look and before select() would be slept over:    *)
(* got_signal() then starts an alarm that wakes the loop.                  *)
(*                                                                         *)
(* What a handler is for is left to the modules of its owners.  Here it    *)
(* does to the loop what a handler can do: register a bottom half, set or  *)
(* clear the handlers of a descriptor, install or kill a timer, end the    *)
(* program, or take time.                                                  *)
(***************************************************************************)
EXTENDS Naturals, Sequences, FiniteSetsExt, SequencesExt

CONSTANTS
    MaxFd,         \* descriptors are 0 .. MaxFd
    Kinds,         \* of handlers: 1 read, 2 write, 3 error
    Halves,        \* bottom halves
    Timers,
    MaxDelay,      \* bound: the delay of a timer
    MaxSig,        \* signals are 1 .. MaxSig
    MaxOps         \* bound: what handlers do in one turn of the loop

ASSUME LoopAssumption ==
    /\ MaxFd \in Nat /\ MaxDelay \in Nat \ {0} /\ MaxSig \in Nat
    /\ MaxOps \in Nat
    /\ Kinds \subseteq 1 .. 3

VARIABLES
    pc,            \* where the loop is, and where check_bottom_halves returns
    phase,         \* before select(), about to sleep, or after it
    watched,       \* w_read, w_write, w_error
    ready,         \* x_read, x_write, x_error
    w_max,
    n,             \* what select() returned, counted down
    i,             \* the descriptor, or the signal last handled
    kind, k,       \* the handler of i to look at next; one was looked at
    halves,        \* bottom_halves, the oldest first
    timers,        \* the timers with what is left of their intervals
    elapsed,       \* the time since last_time
    mask,          \* the signals that have arrived
    critical,      \* critical_section
    alarm,         \* an alarm has been started
    terminate,     \* program.terminate
    ops,           \* what handlers have done in this turn
    renewed        \* history: what was cleared since select() returned

posVars == <<n, i, kind, k>>
fdVars == <<watched, ready, w_max, renewed>>
timeVars == <<timers, elapsed>>
sigVars == <<mask, critical, alarm>>
opVars == <<fdVars, halves, timeVars, terminate, ops>>
vars == <<pc, phase, posVars, sigVars, opVars>>

-----------------------------------------------------------------------------

Fds == 0 .. MaxFd
Sigs == 1 .. MaxSig

\* init() has set the first handlers.
Init ==
    /\ pc = [at |-> "top", back |-> "top"] /\ phase = "top"
    /\ \E f \in Fds, q \in Kinds : watched = {<<f, q>>} /\ w_max = f + 1
    /\ ready = {}
    /\ n = 0 /\ i = 0 /\ kind = 1 /\ k = 0
    /\ halves = << >>
    /\ timers = << >> /\ elapsed = 0
    /\ mask = {} /\ critical = FALSE /\ alarm = FALSE
    /\ terminate = FALSE
    /\ ops = 0
    /\ renewed = {}

At(l) == pc.at = l

Goto(l) == pc' = [pc EXCEPT !.at = l]

\* After a handler come the bottom halves, and then l.
CallThen(l) == pc' = [at |-> "halves", back |-> l]

-----------------------------------------------------------------------------
(***************************************************************************)
(* What a handler can do to the loop.                                      *)
(***************************************************************************)

\* register_bottom_half(): once is enough.
Registered(hs, b) == IF b \in ToSet(hs) THEN hs ELSE Append(hs, b)

\* w_max after f got the handlers ks, w being what is watched then.
Highest(w) == IF w = {} THEN 0 ELSE Max({p[1] : p \in w}) + 1

\* Mutant of WMaxAfter: never lowered.
WMaxKept(f, ks, w) == IF ks # {} THEN Max({w_max, f + 1}) ELSE w_max

WMaxAfter(f, ks, w) ==
    IF ks # {} THEN Max({w_max, f + 1})
    ELSE IF f + 1 = w_max THEN Highest(w) ELSE w_max

\* Mutant of Unset: the bits are left.
StillSet(gone) == ready

\* The bits of handlers that are gone are cleared in the result of select().
Unset(gone) == ready \ gone

\* set_handlers(f, ...), for the kinds ks; clear_handlers() if there is none.
SetHandlers(f, ks) ==
    LET gone == {f} \X (Kinds \ ks)
    IN  /\ watched' = (watched \ gone) \cup ({f} \X ks)
        /\ ready' = Unset(gone)
        /\ w_max' = WMaxAfter(f, ks, watched')
        /\ renewed' = renewed \cup gone

\* install_timer(): before the first one that is not shorter.
Place(ts, d) ==
    Min({j \in 1 .. Len(ts) : ts[j].left >= d} \cup {Len(ts) + 1})

InstallTimer(ts, t, d) ==
    timers' = InsertAt(ts, Place(ts, d), [id |-> t, left |-> d])

\* kill_timer(): off the list, wherever it is.
KillTimer(ts, j) == timers' = RemoveAt(ts, j)

Running(ts) == {ts[j].id : j \in 1 .. Len(ts)}

\* A handler runs, the bottom halves being hs and the timers ts.
Handle(hs, ts) ==
    \/ /\ halves' = hs /\ timers' = ts
       /\ UNCHANGED <<fdVars, elapsed, terminate, ops>>
    \/ /\ ops < MaxOps
       /\ ops' = ops + 1
       /\ \/ /\ \E b \in Halves : halves' = Registered(hs, b)
             /\ timers' = ts
             /\ UNCHANGED <<fdVars, elapsed, terminate>>
          \/ /\ \E f \in Fds, ks \in SUBSET Kinds : SetHandlers(f, ks)
             /\ halves' = hs /\ timers' = ts
             /\ UNCHANGED <<elapsed, terminate>>
          \/ /\ \/ \E t \in Timers \ Running(ts), d \in 1 .. MaxDelay :
                     InstallTimer(ts, t, d)
                \/ \E j \in 1 .. Len(ts) : KillTimer(ts, j)
             /\ halves' = hs
             /\ UNCHANGED <<fdVars, elapsed, terminate>>
          \/ /\ elapsed' = elapsed + 1
             /\ halves' = hs /\ timers' = ts
             /\ UNCHANGED <<fdVars, terminate>>
          \/ /\ terminate' = TRUE
             /\ halves' = hs /\ timers' = ts
             /\ UNCHANGED <<fdVars, elapsed>>

-----------------------------------------------------------------------------
(***************************************************************************)
(* Signals arrive at any time: got_signal(), check_for_select_race() and   *)
(* alarm_handler().                                                        *)
(***************************************************************************)

\* Mutant of Interrupted: select() is called again at once.
InterruptedInPlace == Goto("select") /\ alarm' = TRUE /\ UNCHANGED critical

\* select() returned an error, EINTR.
Interrupted ==
    /\ Goto("top")
    /\ critical' = FALSE /\ alarm' = FALSE

\* Mutant of RaceChecked: no alarm.
RaceIgnored == alarm

\* What got_signal() does about a loop that may be about to sleep.
RaceChecked == alarm \/ critical

GotSignal(g) ==
    /\ ~At("exit")
    /\ g \notin mask
    /\ mask' = mask \cup {g}
    /\ IF At("asleep") THEN Interrupted
       ELSE alarm' = RaceChecked /\ UNCHANGED <<pc, critical>>
    /\ UNCHANGED <<phase, posVars, opVars>>

\* The alarm is started again as long as the loop is in its critical section.
AlarmFires ==
    /\ alarm
    /\ IF At("asleep") THEN Interrupted
       ELSE alarm' = critical /\ UNCHANGED <<pc, critical>>
    /\ UNCHANGED <<phase, posVars, mask, opVars>>

-----------------------------------------------------------------------------
(***************************************************************************)
(* The loop.                                                               *)
(***************************************************************************)

\* check_bottom_halves(): each is taken off the list before it is called.
CheckBottomHalves ==
    /\ At("halves")
    /\ IF halves = << >>
       THEN Goto(pc.back) /\ UNCHANGED opVars
       ELSE Handle(Tail(halves), timers) /\ UNCHANGED pc
    /\ UNCHANGED <<phase, posVars, sigVars>>

\* A handler does several things before it returns.
HandlerGoesOn ==
    /\ At("halves")
    /\ Handle(halves, timers)
    /\ UNCHANGED <<pc, phase, posVars, sigVars>>

\* while (!program.terminate)
Top ==
    /\ At("top")
    /\ Goto(IF terminate THEN "exit" ELSE "signals")
    /\ phase' = "top"
    /\ n' = 0 /\ i' = 0 /\ kind' = 1 /\ k' = 0
    /\ ops' = 0
    /\ ready' = {} /\ renewed' = {}
    /\ UNCHANGED <<watched, w_max, halves, timeVars, terminate, sigVars>>

\* check_signals(): the marks are looked at once, in order.
Marked == {g \in mask : g > i}

CheckSignal ==
    /\ At("signals")
    /\ Marked # {}
    /\ i' = Min(Marked)
    /\ mask' = mask \ {i'}
    /\ Handle(halves, timers)
    /\ CallThen("signals")
    /\ UNCHANGED <<phase, n, kind, k, critical, alarm>>

\* check_timers(): the time that has passed is taken off every interval.
Left(l) == IF l > elapsed THEN l - elapsed ELSE 0

StartTimers ==
    /\ Goto("timers")
    /\ timers' = [j \in DOMAIN timers |->
                    [timers[j] EXCEPT !.left = Left(timers[j].left)]]
    /\ elapsed' = 0

\* The end of check_signals(), which tells whether there was a signal; the
\* one in the critical section lets the loop sleep only if there was none.
MaySleep == i = 0

SignalsChecked ==
    /\ At("signals")
    /\ Marked = {}
    /\ i' = 0
    /\ CASE phase # "critical" -> StartTimers /\ UNCHANGED critical
         [] phase = "critical" /\ MaySleep ->
              Goto("select") /\ UNCHANGED <<critical, timeVars>>
         [] OTHER ->
              Goto("top") /\ critical' = FALSE /\ UNCHANGED timeVars
    /\ UNCHANGED <<phase, n, kind, k, mask, alarm, fdVars, halves, terminate,
                   ops>>

Due == timers # << >> /\ timers[1].left = 0

FireTimer ==
    /\ At("timers")
    /\ Due
    /\ Handle(halves, Tail(timers))
    /\ CallThen("timers")
    /\ UNCHANGED <<phase, posVars, sigVars>>

\* The bits to wait for are copied; then the loop ends, or gets ready to
\* sleep and looks for signals again.
Over == terminate \/ (w_max = 0 /\ timers = << >>)

BeforeSelect ==
    /\ At("timers") /\ phase = "top"
    /\ ~Due
    /\ ready' = watched
    /\ IF Over
       THEN Goto("exit") /\ UNCHANGED <<phase, critical>>
       ELSE Goto("signals") /\ phase' = "critical" /\ critical' = TRUE
    /\ UNCHANGED <<posVars, mask, alarm, watched, w_max, renewed, halves,
                   timeVars, terminate, ops>>

Select ==
    /\ At("select")
    /\ Goto("asleep")
    /\ UNCHANGED <<phase, posVars, sigVars, opVars>>

\* select() returns with some of the bits, or when the first timer is due.
Awake(bits, e) ==
    /\ At("asleep")
    /\ ready' = bits
    /\ n' = Cardinality(bits)
    /\ elapsed' = e
    /\ renewed' = {}
    /\ critical' = FALSE /\ alarm' = FALSE
    /\ phase' = "after"
    /\ Goto("signals")
    /\ UNCHANGED <<i, kind, k, mask, watched, w_max, halves, timers,
                   terminate, ops>>

\* How long select() may have slept; without a timer it does not matter.
Slept == IF timers = << >> THEN {0} ELSE 0 .. timers[1].left

SelectReturns ==
    \E bits \in SUBSET ready, d \in Slept :
        bits # {} /\ Awake(bits, elapsed + d)

SelectTimesOut == timers # << >> /\ Awake({}, elapsed + timers[1].left)

\* A failed select(), of a descriptor that has been closed say.
SelectFails ==
    /\ At("asleep")
    /\ Interrupted
    /\ UNCHANGED <<phase, posVars, mask, opVars>>

AfterSelect ==
    /\ At("timers") /\ phase = "after"
    /\ ~Due
    /\ Goto("dispatch")
    /\ UNCHANGED <<phase, posVars, sigVars, opVars>>

\* The ready handlers of descriptor i that are still to be looked at.
Ahead == {q \in Kinds : q >= kind /\ <<i, q>> \in ready}

Looping == n > 0 /\ i < w_max

CallHandler ==
    /\ At("dispatch")
    /\ Looping
    /\ Ahead # {}
    /\ kind' = Min(Ahead) + 1
    /\ k' = 1
    /\ IF <<i, Min(Ahead)>> \in watched
       THEN Handle(halves, timers) /\ CallThen("dispatch")
       ELSE UNCHANGED <<pc, opVars>>
    /\ UNCHANGED <<phase, n, i, sigVars>>

\* Mutant of CountDown: descriptors that were not ready count.
CountEvery == n - 1

\* n -= k
CountDown == n - k

NextDescriptor ==
    /\ At("dispatch")
    /\ Looping
    /\ Ahead = {}
    /\ n' = CountDown
    /\ i' = i + 1
    /\ kind' = 1
    /\ k' = 0
    /\ UNCHANGED <<pc, phase, sigVars, opVars>>

Dispatched ==
    /\ At("dispatch")
    /\ ~Looping
    /\ Goto("top")
    /\ UNCHANGED <<phase, posVars, sigVars, opVars>>

-----------------------------------------------------------------------------

Step ==
    \/ CheckBottomHalves \/ Top \/ CheckSignal \/ SignalsChecked
    \/ FireTimer \/ BeforeSelect \/ Select \/ AfterSelect
    \/ CallHandler \/ NextDescriptor \/ Dispatched

Next ==
    \/ Step
    \/ HandlerGoesOn
    \/ SelectReturns \/ SelectTimesOut \/ SelectFails
    \/ \E g \in Sigs : GotSignal(g)
    \/ AlarmFires

Spec == Init /\ [][Next]_vars

\* The processor runs the loop, a timeout ends select(), and the kernel
\* delivers the alarm.  Nothing says that a descriptor is ever ready.
FairSpec ==
    /\ Spec
    /\ WF_vars(Step)
    /\ WF_vars(SelectTimesOut)
    /\ WF_vars(AlarmFires)

-----------------------------------------------------------------------------
(***************************************************************************)
(* Properties.                                                             *)
(***************************************************************************)

Places == {"top", "signals", "timers", "halves", "select", "asleep",
           "dispatch", "exit"}

\* The variables hold values of their types; no bottom half is registered
\* twice (register_bottom_half_do) and no timer is installed twice.
TypeOK ==
    /\ pc \in [at : Places, back : {"top", "signals", "timers", "dispatch"}]
    /\ phase \in {"top", "critical", "after"}
    /\ watched \subseteq Fds \X Kinds /\ ready \subseteq Fds \X Kinds
    /\ w_max \in 0 .. MaxFd + 1
    /\ n \in 0 .. (MaxFd + 1) * Cardinality(Kinds)
    /\ i \in 0 .. Max({MaxFd + 1, MaxSig}) /\ kind \in 1 .. 4 /\ k \in 0 .. 1
    /\ halves \in Seq(Halves) /\ IsInjective(halves)
    /\ timers \in Seq([id : Timers, left : 0 .. MaxDelay])
    /\ Cardinality(Running(timers)) = Len(timers)
    /\ elapsed \in Nat
    /\ mask \subseteq Sigs /\ critical \in BOOLEAN /\ alarm \in BOOLEAN
    /\ terminate \in BOOLEAN /\ ops \in 0 .. MaxOps
    /\ renewed \subseteq Fds \X Kinds

\* When select() sleeps (main/select.c:250), there is no bottom half to run,
\* the program has not been told to end, something can still happen, no timer
\* is due before the one that select() waits for, timers.next ("points to the
\* timer with the smallest interval", main/timer.c), and a signal that nobody
\* has looked at has an alarm to wake the loop.
SleepsWithNothingToDo ==
    At("asleep") =>
        /\ halves = << >>
        /\ ~terminate
        /\ watched # {} \/ timers # << >>
        /\ \A j \in 1 .. Len(timers) : timers[1].left <= timers[j].left
        /\ mask # {} => alarm

\* w_max is just above the highest descriptor with a handler, whatever order
\* set_handlers() is called in: select() and the loop over the descriptors
\* miss none of them, and the loop ends when there is none.
WMaxExact == TypeOK /\ w_max = Highest(watched)

\* A handler that was set after select() returned, in place of one that was
\* cleared, is not called for what its predecessor was ready for: between the
\* two the descriptor may have been closed and opened again.
NoStaleReady == phase = "after" => ready \cap renewed = {}

\* The loop over the descriptors does not end (main/select.c:272) before every
\* handler whose bit is still set has been called: counting down n, from which
\* cleared bits are not taken, never ends it early.
AllServed ==
    At("dispatch") /\ ~Looping => \A p \in ready : p[1] < i

\* A signal is handled or the program ends, also when it arrives between the
\* look at the marks and select(), and when nothing else ever happens.
SignalHandled ==
    \A g \in Sigs : g \in mask ~> (g \notin mask \/ At("exit"))
=============================================================================
