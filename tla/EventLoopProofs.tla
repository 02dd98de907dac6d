-------------------------- MODULE EventLoopProofs ---------------------------
(***************************************************************************)
(* What holds of EventLoop for every value of its constants.  First the     *)
(* lemmas about its operators (lists of timers and bottom halves, w_max,    *)
(* the handlers), then the inductive invariant IInv, one lemma per part of  *)
(* it, and the theorems.                                                    *)
(***************************************************************************)
EXTENDS EventLoop, ListLemmas

-----------------------------------------------------------------------------
(* The lists of bottom halves and timers.                                  *)

\* A list of timers, each installed once.
TimerList(ts) ==
    /\ ts \in Seq([id : Timers, left : 0 .. MaxDelay])
    /\ \A j, l \in 1 .. Len(ts) : ts[j].id = ts[l].id => j = l

\* The shortest first: "timers.next points to the timer with the smallest
\* interval".
Sorted(ts) ==
    \A j, l \in 1 .. Len(ts) : j <= l => ts[j].left <= ts[l].left

\* Counting the timers that run tells whether one is there twice.
LEMMA CountedOnce ==
    ASSUME NEW ts \in Seq([id : Timers, left : 0 .. MaxDelay])
    PROVE  Cardinality(Running(ts)) = Len(ts)
             <=> \A j, l \in 1 .. Len(ts) : ts[j].id = ts[l].id => j = l
<1> DEFINE D == 1 .. Len(ts)
           T == Running(ts)
           f == [j \in D |-> ts[j].id]
<1>1. IsFiniteSet(D) /\ Cardinality(D) = Len(ts)
  <2>1. Len(ts) \in Nat
    OBVIOUS
  <2> QED BY <2>1, CountUpTo
<1>2. f \in Surjection(D, T)
  BY DEF Running, Surjection
<1>3. Cardinality(T) = Cardinality(D) <=> f \in Injection(D, T)
  <2> HIDE DEF D, T, f
  <2> QED BY <1>1, <1>2, FS_Surjection
<1>4. f \in Injection(D, T) <=> \A j, l \in D : ts[j].id = ts[l].id => j = l
  <2>1. f \in [D -> T]
    BY <1>2 DEF Surjection
  <2> QED BY <2>1 DEF Injection, IsInjective
<1> QED BY <1>1, <1>3, <1>4

\* install_timer(): the list stays sorted, and what was on it stays.
LEMMA InstallFacts ==
    ASSUME NEW ts, TimerList(ts), Sorted(ts),
           NEW t \in Timers \ Running(ts), NEW d \in 1 .. MaxDelay
    PROVE  LET us == InsertAt(ts, Place(ts, d), [id |-> t, left |-> d])
           IN  TimerList(us) /\ Sorted(us)
<1> DEFINE T == [id : Timers, left : 0 .. MaxDelay]
           e == [id |-> t, left |-> d]
           m == Len(ts)
           C == {j \in 1 .. m : ts[j].left >= d}
           p == Place(ts, d)
           us == InsertAt(ts, p, e)
<1>1. ts \in Seq(T) /\ m \in Nat /\ d \in Nat /\ e \in T
  BY LoopAssumption DEF TimerList
<1>2. \A j \in 1 .. m : ts[j] \in T /\ ts[j].left \in Nat
  <2>1. \A j \in 1 .. m : ts[j] \in T
    BY <1>1, ElementOfSeq
  <2> QED BY <2>1, LoopAssumption
<1>3. p \in C \cup {m + 1} /\ \A y \in C \cup {m + 1} : p <= y
  <2>1. C \cup {m + 1} \in SUBSET Nat /\ C \cup {m + 1} # {}
    BY <1>1
  <2>2. p = Min(C \cup {m + 1})
    BY DEF Place
  <2> HIDE DEF C, p
  <2> QED BY <2>1, <2>2, MinFacts
<1>4. p \in 1 .. m + 1
  BY <1>1, <1>3
<1>5. \A j \in 1 .. m : j < p => ts[j].left < d
  <2> SUFFICES ASSUME NEW j \in 1 .. m, j < p PROVE ts[j].left < d
    OBVIOUS
  <2>1. j \notin C
    <3> HIDE DEF p, C
    <3> QED BY <1>1, <1>3, <1>4
  <2> QED BY <1>1, <1>2, <2>1
<1>6. \A j \in 1 .. m : j >= p => ts[j].left >= d
  <2> SUFFICES ASSUME NEW j \in 1 .. m, j >= p PROVE ts[j].left >= d
    OBVIOUS
  <2>1. p \in C
    BY <1>1, <1>3, <1>4
  <2>2. p \in 1 .. m /\ ts[p].left >= d
    BY <2>1
  <2>3. ts[p].left <= ts[j].left
    <3> HIDE DEF p
    <3> QED BY <2>2 DEF Sorted
  <2> HIDE DEF p
  <2> QED BY <1>1, <1>2, <2>2, <2>3
<1> HIDE DEF p, C, T
<1>7. /\ us \in Seq(T) /\ Len(us) = m + 1
      /\ \A j \in 1 .. m + 1 :
           us[j] = IF j < p THEN ts[j] ELSE IF j = p THEN e ELSE ts[j - 1]
  <2>1. ts \in Seq(T) /\ p \in 1 .. Len(ts) + 1 /\ e \in T
    BY <1>1, <1>4
  <2> HIDE DEF e
  <2>2. /\ InsertAt(ts, p, e) \in Seq(T) /\ Len(InsertAt(ts, p, e)) = Len(ts) + 1
        /\ \A j \in 1 .. Len(ts) + 1 :
             InsertAt(ts, p, e)[j] = IF j < p THEN ts[j]
                                     ELSE IF j = p THEN e ELSE ts[j - 1]
    BY ONLY <2>1, InsertAtFacts
  <2> QED BY <2>2
<1>8. \A j \in 1 .. m : ts[j].id # t
  BY DEF Running
<1> HIDE DEF us
<1>9. ASSUME NEW j \in 1 .. m + 1, NEW l \in 1 .. m + 1, us[j].id = us[l].id
      PROVE  j = l
  <2>1. \A a, b \in 1 .. m : ts[a].id = ts[b].id => a = b
    BY DEF TimerList
  <2>2. \A x \in 1 .. m + 1 : x # p => us[x].id # t
    <3> SUFFICES ASSUME NEW x \in 1 .. m + 1, x # p PROVE us[x].id # t
      OBVIOUS
    <3>1. (x < p /\ x \in 1 .. m) \/ (x > p /\ x - 1 \in 1 .. m)
      BY <1>1, <1>4
    <3>2. CASE x < p /\ x \in 1 .. m
      <4>1. us[x] = ts[x]
        BY <1>7, <3>2
      <4> QED BY <1>8, <3>2, <4>1
    <3>3. CASE x > p /\ x - 1 \in 1 .. m
      <4>1. us[x] = ts[x - 1]
        BY <1>1, <1>4, <1>7, <3>3
      <4> QED BY <1>8, <3>3, <4>1
    <3> QED BY <3>1, <3>2, <3>3
  <2>4. us[p].id = t
    BY <1>1, <1>4, <1>7
  <2>3. CASE j # p /\ l # p
    <3> DEFINE a == IF j < p THEN j ELSE j - 1
               b == IF l < p THEN l ELSE l - 1
    <3>1. a \in 1 .. m /\ b \in 1 .. m /\ us[j] = ts[a] /\ us[l] = ts[b]
      BY <1>1, <1>4, <1>7, <2>3
    <3>2. a = b
      BY <1>9, <2>1, <3>1
    <3> QED BY <1>1, <1>4, <2>3, <3>2
  <2> QED BY <1>9, <2>2, <2>3, <2>4
<1>10. ASSUME NEW j \in 1 .. m + 1, NEW l \in 1 .. m + 1, j <= l
       PROVE  us[j].left <= us[l].left
  <2>1. \A a, b \in 1 .. m : a <= b => ts[a].left <= ts[b].left
    BY DEF Sorted
  <2>2. CASE j = p
    BY <1>1, <1>2, <1>4, <1>6, <1>7, <1>10, <2>2
  <2>3. CASE l = p
    <3>1. us[l].left = d /\ d \in Nat
      BY <1>1, <1>4, <1>7, <2>3
    <3>2. CASE j = p
      BY <1>1, <2>3, <3>1, <3>2
    <3>3. CASE j # p
      <4>1. j \in 1 .. m /\ j < p
        BY <1>1, <1>4, <1>10, <2>3, <3>3
      <4>2. us[j] = ts[j]
        BY <1>7, <4>1
      <4> QED BY <1>2, <1>5, <3>1, <4>1, <4>2
    <3> QED BY <3>2, <3>3
  <2>4. CASE j # p /\ l # p
    <3> DEFINE a == IF j < p THEN j ELSE j - 1
               b == IF l < p THEN l ELSE l - 1
    <3>1. a \in 1 .. m /\ b \in 1 .. m /\ us[j] = ts[a] /\ us[l] = ts[b]
      BY <1>1, <1>4, <1>7, <2>4
    <3>2. a <= b
      BY <1>1, <1>4, <1>10, <2>4
    <3> HIDE DEF a, b
    <3> QED BY <2>1, <3>1, <3>2
  <2> QED BY <2>2, <2>3, <2>4
<1> QED BY <1>7, <1>9, <1>10 DEF TimerList, Sorted, us, p, T

\* kill_timer(): the others keep their order.
LEMMA KillFacts ==
    ASSUME NEW ts, TimerList(ts), Sorted(ts), NEW i0 \in 1 .. Len(ts)
    PROVE  TimerList(RemoveAt(ts, i0)) /\ Sorted(RemoveAt(ts, i0))
<1> DEFINE T == [id : Timers, left : 0 .. MaxDelay]
           m == Len(ts)
           us == RemoveAt(ts, i0)
<1>1. ts \in Seq(T) /\ m \in Nat
  BY DEF TimerList
<1> HIDE DEF T
<1>2. /\ us \in Seq(T) /\ Len(us) = m - 1
      /\ \A j \in 1 .. m - 1 : us[j] = IF j < i0 THEN ts[j] ELSE ts[j + 1]
  BY <1>1, RemoveAtFacts
<1> HIDE DEF us
<1>3. ASSUME NEW j \in 1 .. m - 1, NEW l \in 1 .. m - 1
      PROVE  /\ us[j].id = us[l].id => j = l
             /\ j <= l => us[j].left <= us[l].left
  <2> DEFINE a == IF j < i0 THEN j ELSE j + 1
             b == IF l < i0 THEN l ELSE l + 1
  <2>1. a \in 1 .. m /\ b \in 1 .. m /\ us[j] = ts[a] /\ us[l] = ts[b]
    BY <1>1, <1>2
  <2>2. (a = b => j = l) /\ (j <= l => a <= b)
    BY <1>1
  <2> HIDE DEF a, b
  <2>3. ts[a].id = ts[b].id => a = b
    BY <2>1 DEF TimerList
  <2>4. a <= b => ts[a].left <= ts[b].left
    BY <2>1 DEF Sorted
  <2> QED BY <2>1, <2>2, <2>3, <2>4
<1> QED BY <1>2, <1>3 DEF TimerList, Sorted, us, T

\* check_timers() takes the first timer off the list.
LEMMA TailFacts ==
    ASSUME NEW ts, TimerList(ts), Sorted(ts), ts # << >>
    PROVE  TimerList(Tail(ts)) /\ Sorted(Tail(ts))
<1> DEFINE T == [id : Timers, left : 0 .. MaxDelay]
           m == Len(ts)
           us == Tail(ts)
<1>1. ts \in Seq(T) /\ m \in Nat
  BY DEF TimerList
<1> HIDE DEF T
<1>2. /\ us \in Seq(T) /\ Len(us) = m - 1
      /\ \A j \in 1 .. m - 1 : us[j] = ts[j + 1]
  BY <1>1, HeadTailProperties
<1> HIDE DEF us
<1>3. ASSUME NEW j \in 1 .. m - 1, NEW l \in 1 .. m - 1
      PROVE  /\ us[j].id = us[l].id => j = l
             /\ j <= l => us[j].left <= us[l].left
  <2>1. j + 1 \in 1 .. m /\ l + 1 \in 1 .. m
    BY <1>1
  <2>2. ts[j + 1].id = ts[l + 1].id => j + 1 = l + 1
    BY <2>1 DEF TimerList
  <2>3. j + 1 <= l + 1 => ts[j + 1].left <= ts[l + 1].left
    BY <2>1 DEF Sorted
  <2> QED BY <1>2, <2>2, <2>3
<1> QED BY <1>2, <1>3 DEF TimerList, Sorted, us, T

\* check_timers() takes the elapsed time off every interval.
LEMMA StartTimersFacts ==
    ASSUME TimerList(timers), Sorted(timers), elapsed \in Nat, StartTimers
    PROVE  TimerList(timers') /\ Sorted(timers')
<1> DEFINE T == [id : Timers, left : 0 .. MaxDelay]
           m == Len(timers)
<1>1. timers \in Seq(T) /\ m \in Nat /\ DOMAIN timers = 1 .. m
  BY DEF TimerList
<1>2. \A j \in 1 .. m : timers[j] \in T
  BY <1>1, ElementOfSeq
<1>3. \A l \in 0 .. MaxDelay : Left(l) \in 0 .. MaxDelay
  BY LoopAssumption DEF Left
<1>4. timers' = [j \in 1 .. m |-> [timers[j] EXCEPT !.left = Left(timers[j].left)]]
  BY <1>1 DEF StartTimers
<1>5. \A j \in 1 .. m : [timers[j] EXCEPT !.left = Left(timers[j].left)] \in T
  BY <1>2, <1>3
<1>6. timers' \in Seq(T) /\ Len(timers') = m
  BY <1>1, <1>4, <1>5
<1>7. \A j \in 1 .. m : /\ timers'[j].id = timers[j].id
                         /\ timers'[j].left = Left(timers[j].left)
  BY <1>2, <1>4
<1>8. ASSUME NEW j \in 1 .. m, NEW l \in 1 .. m, j <= l
      PROVE  timers'[j].left <= timers'[l].left
  <2>1. timers[j].left <= timers[l].left
    BY <1>8 DEF Sorted
  <2>2. timers[j].left \in Nat /\ timers[l].left \in Nat
    BY <1>2, LoopAssumption
  <2>3. Left(timers[j].left) <= Left(timers[l].left)
    BY <2>1, <2>2 DEF Left
  <2> QED BY <1>7, <2>3
<1> QED BY <1>6, <1>7, <1>8 DEF TimerList, Sorted

\* A list of bottom halves, each registered once.
HalfList(hs) == hs \in Seq(Halves) /\ IsInjective(hs)

\* register_bottom_half(): none is registered twice.
LEMMA RegisteredFacts ==
    ASSUME NEW hs, HalfList(hs), NEW b \in Halves
    PROVE  HalfList(Registered(hs, b))
<1>1. CASE b \in ToSet(hs)
  BY <1>1 DEF Registered
<1>2. CASE b \notin ToSet(hs)
  <2> DEFINE m == Len(hs)
             us == Append(hs, b)
  <2>1. hs \in Seq(Halves) /\ m \in Nat /\ DOMAIN hs = 1 .. m
    BY DEF HalfList
  <2>2. us \in Seq(Halves) /\ DOMAIN us = 1 .. m + 1 /\ us[m + 1] = b
    BY <2>1
  <2>3. \A j \in 1 .. m : us[j] = hs[j] /\ hs[j] # b
    BY <1>2, <2>1 DEF ToSet
  <2>4. \A j, l \in 1 .. m : hs[j] = hs[l] => j = l
    BY <2>1 DEF HalfList, IsInjective
  <2> HIDE DEF us
  <2>5. \A j, l \in 1 .. m + 1 : us[j] = us[l] => j = l
    <3> SUFFICES ASSUME NEW j \in 1 .. m + 1, NEW l \in 1 .. m + 1,
                        us[j] = us[l]
                 PROVE  j = l
      OBVIOUS
    <3>1. j \in 1 .. m \/ j = m + 1
      BY <2>1
    <3>2. l \in 1 .. m \/ l = m + 1
      BY <2>1
    <3> QED BY <2>2, <2>3, <2>4, <3>1, <3>2
  <2>6. HalfList(us)
    BY <2>2, <2>5 DEF HalfList, IsInjective
  <2> QED BY <1>2, <2>6 DEF Registered, us
<1> QED BY <1>1, <1>2

\* check_bottom_halves() takes the first one off the list.
LEMMA TailHalves ==
    ASSUME NEW hs, HalfList(hs), hs # << >>
    PROVE  HalfList(Tail(hs))
<1> DEFINE m == Len(hs)
           us == Tail(hs)
<1>1. hs \in Seq(Halves) /\ m \in Nat /\ DOMAIN hs = 1 .. m
  BY DEF HalfList
<1>2. us \in Seq(Halves) /\ Len(us) = m - 1 /\ \A j \in 1 .. m - 1 : us[j] = hs[j + 1]
  BY <1>1, HeadTailProperties
<1>3. DOMAIN us = 1 .. m - 1
  BY <1>2
<1> HIDE DEF us
<1>4. ASSUME NEW j \in 1 .. m - 1, NEW l \in 1 .. m - 1, us[j] = us[l]
      PROVE  j = l
  <2>1. j + 1 \in 1 .. m /\ l + 1 \in 1 .. m
    BY <1>1
  <2>2. hs[j + 1] = hs[l + 1]
    BY <1>2, <1>4
  <2>3. j + 1 = l + 1
    BY <1>1, <2>1, <2>2 DEF HalfList, IsInjective
  <2> QED BY <2>3
<1> QED BY <1>2, <1>3, <1>4 DEF HalfList, IsInjective, us

-----------------------------------------------------------------------------
(* The highest descriptor.                                                 *)

\* What Highest returns.
LEMMA HighestFacts ==
    ASSUME NEW w \in SUBSET (Fds \X Kinds)
    PROVE  /\ Highest(w) \in 0 .. MaxFd + 1
           /\ w = {} <=> Highest(w) = 0
           /\ \A p \in w : p[1] < Highest(w)
           /\ w # {} => \E p \in w : p[1] + 1 = Highest(w)
<1> DEFINE T == {p[1] : p \in w}
<1>1. CASE w = {}
  BY <1>1, LoopAssumption DEF Highest
<1>2. CASE w # {}
  <2>1. T \in SUBSET (0 .. MaxFd) /\ T # {} /\ MaxFd \in Nat
    BY <1>2, LoopAssumption DEF Fds
  <2>2. Highest(w) = Max(T) + 1
    BY <1>2 DEF Highest
  <2>3. Max(T) \in T /\ \A y \in T : Max(T) >= y
    <3> HIDE DEF T
    <3> QED BY <2>1, MaxFacts
  <2>4. PICK p \in w : p[1] = Max(T)
    BY <2>3
  <2>5. \A q \in w : q[1] \in T
    OBVIOUS
  <2> DEFINE x == Max(T)
  <2> HIDE DEF T, x
  <2>6. x \in 0 .. MaxFd /\ \A y \in T : y \in Nat /\ x >= y
    <3>1. x \in T /\ \A y \in T : x >= y
      BY <2>3, Zenon DEF x
    <3>2. \A y \in T : y \in 0 .. MaxFd
      BY <2>1
    <3> QED BY <2>1, <3>1, <3>2
  <2>7. \A q \in w : q[1] < x + 1
    BY <2>5, <2>6
  <2>8. Highest(w) = x + 1 /\ p[1] = x
    BY <2>2, <2>4 DEF x
  <2> QED BY <1>2, <2>1, <2>6, <2>7, <2>8
<1> QED BY <1>1, <1>2

\* These facts determine it.
LEMMA HighestIs ==
    ASSUME NEW w \in SUBSET (Fds \X Kinds), NEW m \in Nat,
           w = {} => m = 0, \A p \in w : p[1] < m,
           w # {} => \E p \in w : p[1] + 1 = m
    PROVE  m = Highest(w)
<1> DEFINE h == Highest(w)
<1>1. CASE w = {}
  BY <1>1 DEF Highest
<1>2. CASE w # {}
  <2>1. h \in Nat /\ \A p \in w : p[1] < h
    BY HighestFacts, LoopAssumption
  <2>2. PICK p \in w : p[1] + 1 = h
    BY <1>2, HighestFacts
  <2>3. PICK q \in w : q[1] + 1 = m
    BY <1>2
  <2>4. p[1] \in Nat /\ q[1] \in Nat
    BY DEF Fds
  <2> HIDE DEF h
  <2>5. p[1] < m /\ q[1] < h
    BY <2>1
  <2>6. m = h
    BY <2>1, <2>2, <2>3, <2>4, <2>5
  <2> QED BY <2>6 DEF h
<1> QED BY <1>1, <1>2

\* set_handlers() computes it from w_max, looking for the next lower handler
\* only when the highest one goes.
LEMMA WMaxAfterFacts ==
    ASSUME NEW w \in SUBSET (Fds \X Kinds), w_max = Highest(w),
           NEW f \in Fds, NEW ks \in SUBSET Kinds
    PROVE  LET v == (w \ ({f} \X (Kinds \ ks))) \cup ({f} \X ks)
           IN  WMaxAfter(f, ks, v) = Highest(v)
<1> DEFINE v == (w \ ({f} \X (Kinds \ ks))) \cup ({f} \X ks)
<1>1. v \in SUBSET (Fds \X Kinds) /\ f \in Nat
  BY DEF Fds
<1>2. w_max \in Nat /\ \A p \in w : p[1] < w_max
  BY HighestFacts, LoopAssumption
<1>3. \A p \in w : p[1] \in Nat /\ p[2] \in Kinds /\ p = <<p[1], p[2]>>
  BY DEF Fds
<1>4. CASE ks # {}
  <2> DEFINE m == Max({w_max, f + 1})
  <2>1. m = IF w_max >= f + 1 THEN w_max ELSE f + 1
    BY <1>1, <1>2, MaxOfTwo
  <2>2. m \in Nat
    BY <1>1, <1>2, <2>1
  <2>3. v # {} /\ \E p \in v : p[1] = f
    <3>1. PICK q \in ks : TRUE
      BY <1>4
    <3>2. <<f, q>> \in v /\ <<f, q>>[1] = f
      BY <3>1
    <3> QED BY <3>2
  <2>4. ASSUME NEW p \in v PROVE p[1] < m
    <3>1. p \in w \/ p[1] = f
      OBVIOUS
    <3> QED BY <1>1, <1>2, <1>3, <2>1, <3>1
  <2>5. \E p \in v : p[1] + 1 = m
    <3>1. CASE w_max >= f + 1
      <4>1. w # {} /\ m = w_max
        BY <1>1, <1>2, <2>1, <3>1, HighestFacts
      <4>2. PICK p \in w : p[1] + 1 = w_max
        BY <4>1, HighestFacts
      <4>3. CASE p[1] = f
        BY <2>3, <4>1, <4>2, <4>3
      <4>4. CASE p[1] # f
        BY <1>3, <4>1, <4>2, <4>4
      <4> QED BY <4>3, <4>4
    <3>2. CASE ~ (w_max >= f + 1)
      BY <2>1, <2>3, <3>2
    <3> QED BY <3>1, <3>2
  <2> HIDE DEF m, v
  <2>6. m = Highest(v)
    BY <1>1, <2>2, <2>3, <2>4, <2>5, HighestIs
  <2> QED BY <1>4, <2>6 DEF WMaxAfter, m, v
<1>5. CASE ks = {} /\ f + 1 = w_max
  BY <1>5 DEF WMaxAfter
<1>6. CASE ks = {} /\ f + 1 # w_max
  <2>1. \A p \in v : p \in w
    BY <1>6
  <2>2. ASSUME w # {} PROVE \E p \in v : p[1] + 1 = w_max
    <3>1. PICK p \in w : p[1] + 1 = w_max
      BY <2>2, HighestFacts
    <3>2. p \in v
      BY <1>3, <1>6, <3>1
    <3> QED BY <3>1, <3>2
  <2>3. v = {} => w_max = 0
    BY <2>2, HighestFacts
  <2>4. v # {} => w # {}
    BY <2>1
  <2>5. \A p \in v : p[1] < w_max
    BY <1>2, <2>1
  <2> HIDE DEF v
  <2>6. w_max = Highest(v)
    BY <1>1, <1>2, <2>2, <2>3, <2>4, <2>5, HighestIs
  <2> QED BY <1>6, <2>6 DEF WMaxAfter, v
<1> QED BY <1>4, <1>5, <1>6

-----------------------------------------------------------------------------
(* What a handler leaves intact.                                           *)

\* The handlers and the bits select() set; w_max is exact.
FdOK ==
    /\ watched \in SUBSET (Fds \X Kinds)
    /\ renewed \in SUBSET (Fds \X Kinds)
    /\ ready \subseteq watched
    /\ w_max = Highest(watched)

\* The rest of what a handler changes.
LoopOK ==
    /\ elapsed \in Nat
    /\ terminate \in BOOLEAN
    /\ ops \in 0 .. MaxOps

\* set_handlers(): the descriptors stay consistent, and no bit of a handler
\* that is gone is left.
LEMMA SetHandlersFacts ==
    ASSUME FdOK, NEW f \in Fds, NEW ks \in SUBSET Kinds, SetHandlers(f, ks)
    PROVE  /\ FdOK'
           /\ ready' \subseteq ready
           /\ ready \cap renewed = {} => ready' \cap renewed' = {}
<1> DEFINE gone == {f} \X (Kinds \ ks)
           v == (watched \ gone) \cup ({f} \X ks)
<1>1. /\ watched' = v /\ ready' = ready \ gone
      /\ w_max' = WMaxAfter(f, ks, v) /\ renewed' = renewed \cup gone
  BY DEF SetHandlers, Unset
<1>2. w_max' = Highest(v)
  BY <1>1, WMaxAfterFacts DEF FdOK
<1>3. w_max' = Highest(watched')
  BY <1>1, <1>2
<1>4. ready' \subseteq watched' /\ ready' \subseteq ready
  BY <1>1 DEF FdOK
<1>5. watched' \in SUBSET (Fds \X Kinds) /\ renewed' \in SUBSET (Fds \X Kinds)
  BY <1>1 DEF FdOK
<1>6. ready \cap renewed = {} => ready' \cap renewed' = {}
  BY <1>1
<1> QED BY <1>3, <1>4, <1>5, <1>6 DEF FdOK

\* Whatever a handler does, the loop's data stay consistent, and it makes no
\* descriptor ready.
LEMMA HandleFacts ==
    ASSUME FdOK, LoopOK, NEW hs, HalfList(hs),
           NEW ts, TimerList(ts), Sorted(ts), Handle(hs, ts)
    PROVE  /\ FdOK' /\ LoopOK'
           /\ HalfList(halves') /\ TimerList(timers') /\ Sorted(timers')
           /\ ready' \subseteq ready
           /\ ready \cap renewed = {} => ready' \cap renewed' = {}
<1> DEFINE Same == /\ UNCHANGED fdVars
           Done == /\ FdOK' /\ ready' \subseteq ready
                   /\ ready \cap renewed = {} => ready' \cap renewed' = {}
<1>1. Same => Done
  BY DEF fdVars, FdOK, Highest
<1>2. CASE halves' = hs /\ timers' = ts /\ UNCHANGED <<fdVars, elapsed, terminate, ops>>
  <2>1. Done
    BY <1>1, <1>2
  <2>2. LoopOK'
    BY <1>2 DEF LoopOK
  <2> QED BY <1>2, <2>1, <2>2
<1> DEFINE Ops == ops < MaxOps /\ ops' = ops + 1
<1>3. Ops => ops' \in 0 .. MaxOps
  BY LoopAssumption DEF LoopOK
<1>4. CASE /\ Ops /\ \E b \in Halves : halves' = Registered(hs, b)
           /\ timers' = ts /\ UNCHANGED <<fdVars, elapsed, terminate>>
  <2>1. Done
    BY <1>1, <1>4
  <2>2. LoopOK'
    BY <1>3, <1>4 DEF LoopOK
  <2>3. HalfList(halves')
    BY <1>4, RegisteredFacts
  <2> QED BY <1>4, <2>1, <2>2, <2>3
<1>5. CASE /\ Ops /\ \E f \in Fds, ks \in SUBSET Kinds : SetHandlers(f, ks)
           /\ halves' = hs /\ timers' = ts /\ UNCHANGED <<elapsed, terminate>>
  <2>1. Done
    BY <1>5, SetHandlersFacts
  <2>2. LoopOK'
    BY <1>3, <1>5 DEF LoopOK
  <2> QED BY <1>5, <2>1, <2>2
<1>6. CASE /\ Ops
           /\ \/ \E t \in Timers \ Running(ts), d \in 1 .. MaxDelay :
                    InstallTimer(ts, t, d)
              \/ \E j \in 1 .. Len(ts) : KillTimer(ts, j)
           /\ halves' = hs /\ UNCHANGED <<fdVars, elapsed, terminate>>
  <2>1. Done
    BY <1>1, <1>6
  <2>2. LoopOK'
    BY <1>3, <1>6 DEF LoopOK
  <2>3. TimerList(timers') /\ Sorted(timers')
    <3>1. ASSUME NEW t \in Timers \ Running(ts), NEW d \in 1 .. MaxDelay,
                 InstallTimer(ts, t, d)
          PROVE  TimerList(timers') /\ Sorted(timers')
      BY <3>1, InstallFacts DEF InstallTimer
    <3>2. ASSUME NEW j \in 1 .. Len(ts), KillTimer(ts, j)
          PROVE  TimerList(timers') /\ Sorted(timers')
      BY <3>2, KillFacts DEF KillTimer
    <3> QED BY <1>6, <3>1, <3>2
  <2> QED BY <1>6, <2>1, <2>2, <2>3
<1>7. CASE /\ Ops /\ elapsed' = elapsed + 1
           /\ halves' = hs /\ timers' = ts /\ UNCHANGED <<fdVars, terminate>>
  <2>1. Done
    BY <1>1, <1>7
  <2>2. LoopOK'
    BY <1>3, <1>7 DEF LoopOK
  <2> QED BY <1>7, <2>1, <2>2
<1>8. CASE /\ Ops /\ terminate' = TRUE
           /\ halves' = hs /\ timers' = ts /\ UNCHANGED <<fdVars, elapsed>>
  <2>1. Done
    BY <1>1, <1>8
  <2>2. LoopOK'
    BY <1>3, <1>8 DEF LoopOK
  <2> QED BY <1>8, <2>1, <2>2
<1> HIDE DEF Done
<1> QED BY <1>2, <1>4, <1>5, <1>6, <1>7, <1>8 DEF Handle

-----------------------------------------------------------------------------
(* The inductive invariant.                                                *)

\* The loop is at l, or runs the bottom halves before it goes on there.
\* At l, or in the bottom halves that run before the loop goes on at l.
In(l) == At(l) \/ (At("halves") /\ pc.back = l)

\* At the call of select(), or in it.
Sleepy == At("select") \/ At("asleep")

\* Control and positions.
PosOK ==
    /\ pc \in [at : Places, back : {"top", "signals", "timers", "dispatch"}]
    /\ phase \in {"top", "critical", "after"}
    /\ n \in 0 .. (MaxFd + 1) * Cardinality(Kinds)
    /\ i \in 0 .. Max({MaxFd + 1, MaxSig}) /\ kind \in 1 .. 4 /\ k \in 0 .. 1

\* The marks of signals.
SigOK == mask \subseteq Sigs /\ critical \in BOOLEAN /\ alarm \in BOOLEAN

\* Handlers, bits, timers and bottom halves.
DataOK ==
    /\ FdOK /\ LoopOK
    /\ HalfList(halves) /\ TimerList(timers) /\ Sorted(timers)

\* Where the loop can be when: the bottom halves have run before it goes on;
\* signal handlers leave the number of the signal in i; the position among
\* the handlers of a descriptor is reset outside of the dispatch.
ControlInv ==
    /\ ~At("halves") => halves = << >>
    /\ In("dispatch") => phase = "after"
    /\ Sleepy => phase = "critical" /\ i = 0
    /\ At("halves") /\ pc.back = "signals" => i > 0
    /\ In("timers") => i = 0
    /\ ~In("dispatch") /\ ~At("top") => kind = 1 /\ k = 0
    /\ k = 0 => kind = 1

\* In the critical section a mark that nobody has seen starts the alarm, and
\* what was checked before it still holds unless a signal was handled.
SleepInv ==
    /\ phase = "critical" /\ (In("signals") \/ Sleepy) => critical
    /\ phase = "critical" /\ ((At("signals") /\ i = 0) \/ Sleepy) =>
         ~terminate /\ (w_max # 0 \/ timers # << >>)
    /\ Sleepy /\ mask # {} => alarm

\* The descriptors with a bit that select() set.
ReadyFds == {f \in Fds : \E q \in Kinds : <<f, q>> \in ready}

\* The descriptors the loop still has to take off n.
ToServe ==
    {f \in Fds : \/ f > i /\ f \in ReadyFds
                 \/ f = i /\ (k = 1 \/ f \in ReadyFds)}

\* n is never less than what is left to be served.
ServeInv ==
    /\ phase = "after" /\ (In("signals") \/ In("timers")) =>
         n >= Cardinality(ReadyFds)
    /\ In("dispatch") => n >= Cardinality(ToServe)

\* The inductive invariant.
IInv ==
    /\ PosOK /\ SigOK /\ DataOK
    /\ ControlInv /\ SleepInv /\ ServeInv
    /\ NoStaleReady

\* The signal check_signals() handles next.
LEMMA MarkedFacts ==
    ASSUME mask \subseteq Sigs, Marked # {}
    PROVE  Min(Marked) \in mask /\ Min(Marked) \in Sigs /\ Min(Marked) > i
<1>1. Marked \in SUBSET Nat
  <2>1. \A g \in mask : g \in Nat
    BY DEF Sigs
  <2> QED BY <2>1 DEF Marked
<1>2. Min(Marked) \in Marked
  BY <1>1, MinFacts
<1> QED BY <1>2 DEF Marked

\* The handler the loop over the descriptors calls next.
LEMMA AheadFacts ==
    ASSUME Ahead # {}
    PROVE  /\ Min(Ahead) \in Kinds /\ Min(Ahead) \in 1 .. 3
           /\ <<i, Min(Ahead)>> \in ready
<1>1. Ahead \in SUBSET Nat /\ \A q \in Kinds : q \in 1 .. 3
  <2>1. \A q \in Kinds : q \in 1 .. 3
    BY LoopAssumption
  <2>2. \A q \in Kinds : q \in Nat
    BY <2>1
  <2> QED BY <2>1, <2>2 DEF Ahead
<1>2. Min(Ahead) \in Ahead
  BY <1>1, MinFacts
<1> QED BY <1>1, <1>2 DEF Ahead

\* The bound of i.
LEMMA LastPosition ==
    /\ Max({MaxFd + 1, MaxSig}) \in Nat
    /\ Max({MaxFd + 1, MaxSig}) >= MaxFd + 1
    /\ Max({MaxFd + 1, MaxSig}) >= MaxSig
BY LoopAssumption, MaxOfTwo

\* There are finitely many descriptors, of which fewer are not more.
LEMMA FdsCount ==
    /\ IsFiniteSet(Fds) /\ Cardinality(Fds) = MaxFd + 1
    /\ IsFiniteSet(Kinds) /\ Cardinality(Kinds) \in Nat
    /\ IsFiniteSet(Fds \X Kinds)
    /\ Cardinality(Fds \X Kinds) = (MaxFd + 1) * Cardinality(Kinds)
<1>1. IsFiniteSet(Fds) /\ Cardinality(Fds) = MaxFd + 1
  BY LoopAssumption, FS_Interval DEF Fds
<1>2. IsFiniteSet(Kinds)
  <2>1. IsFiniteSet(1 .. 3) /\ Kinds \in SUBSET (1 .. 3)
    BY CountUpTo, LoopAssumption
  <2> QED BY <2>1, FS_Subset
<1>3. Cardinality(Kinds) \in Nat
  BY <1>2, FS_CardinalityType
<1> QED BY <1>1, <1>2, <1>3, FS_Product

\* Sets of descriptors are finite, and a part is not larger than the whole.
LEMMA FewerFds ==
    ASSUME NEW S, NEW T, S \subseteq T, T \subseteq Fds
    PROVE  /\ Cardinality(S) \in Nat /\ Cardinality(T) \in Nat
           /\ Cardinality(S) <= Cardinality(T)
<1>1. IsFiniteSet(T) /\ IsFiniteSet(S)
  BY FdsCount, FS_Subset
<1> QED BY <1>1, FS_Subset, FS_CardinalityType

\* select() counts bits, of which there are at least as many as descriptors.
LEMMA SelectedCount ==
    ASSUME NEW bits \in SUBSET (Fds \X Kinds)
    PROVE  /\ Cardinality(bits) \in 0 .. (MaxFd + 1) * Cardinality(Kinds)
           /\ Cardinality({f \in Fds : \E q \in Kinds : <<f, q>> \in bits})
                <= Cardinality(bits)
<1> DEFINE T == {f \in Fds : \E q \in Kinds : <<f, q>> \in bits}
           g == [p \in bits |-> p[1]]
<1>1. IsFiniteSet(bits) /\ Cardinality(bits) <= (MaxFd + 1) * Cardinality(Kinds)
  BY FdsCount, FS_Subset
<1>2. Cardinality(bits) \in Nat
  BY <1>1, FS_CardinalityType
<1>3. g \in Surjection(bits, T)
  <2>1. \A p \in bits : p[1] \in T
    BY DEF Fds
  <2>2. \A f \in T : \E p \in bits : p[1] = f
    <3> SUFFICES ASSUME NEW f \in Fds, NEW q \in Kinds, <<f, q>> \in bits
                 PROVE  \E p \in bits : p[1] = f
      OBVIOUS
    <3>1. <<f, q>>[1] = f
      OBVIOUS
    <3> QED BY <3>1
  <2> QED BY <2>1, <2>2 DEF Surjection
<1>4. Cardinality(T) <= Cardinality(bits)
  <2> HIDE DEF T, g
  <2> QED BY <1>1, <1>3, FS_Surjection
<1>5. (MaxFd + 1) * Cardinality(Kinds) \in Nat
  BY FdsCount, LoopAssumption
<1> QED BY <1>1, <1>2, <1>4, <1>5

-----------------------------------------------------------------------------
(* Every step preserves the invariant.                                     *)

\* The steps in which a handler runs.
Handling ==
    \/ CheckBottomHalves \/ HandlerGoesOn \/ CheckSignal \/ FireTimer
    \/ CallHandler

\* Init establishes the invariant.
LEMMA InitIInv == Init => IInv
<1> SUFFICES ASSUME Init PROVE IInv
  OBVIOUS
<1> USE DEF Init, At, In
<1>1. DataOK
  <2>1. TimerList(<< >>) /\ Sorted(<< >>)
    BY DEF TimerList, Sorted
  <2>2. HalfList(<< >>)
    BY DEF HalfList, IsInjective
  <2>3. LoopOK
    <3>1. elapsed \in Nat /\ ops \in 0 .. MaxOps
      BY LoopAssumption
    <3> QED BY <3>1 DEF LoopOK
  <2>4. FdOK
    <3>1. PICK f \in Fds, q \in Kinds : watched = {<<f, q>>} /\ w_max = f + 1
      OBVIOUS
    <3>2. watched \in SUBSET (Fds \X Kinds) /\ f + 1 \in Nat
      BY <3>1 DEF Fds
    <3>3. \A p \in watched : p[1] = f /\ p[1] < f + 1
      BY <3>1, <3>2 DEF Fds
    <3>4. f + 1 = Highest(watched)
      BY <3>1, <3>2, <3>3, HighestIs
    <3> QED BY <3>1, <3>2, <3>4 DEF FdOK
  <2> QED BY <2>1, <2>2, <2>3, <2>4 DEF DataOK
<1>2. PosOK
  <2>1. 0 <= (MaxFd + 1) * Cardinality(Kinds)
    BY FdsCount, LoopAssumption
  <2>2. (MaxFd + 1) * Cardinality(Kinds) \in Nat
    BY FdsCount, LoopAssumption
  <2> QED BY <2>1, <2>2, LastPosition DEF PosOK, Places
<1>3. SigOK
  BY DEF SigOK
<1>4. ControlInv
  BY DEF ControlInv, Sleepy
<1>5. SleepInv
  BY DEF SleepInv, Sleepy
<1>6. ServeInv
  BY DEF ServeInv
<1>7. NoStaleReady
  BY DEF NoStaleReady
<1> QED BY <1>1, <1>2, <1>3, <1>4, <1>5, <1>6, <1>7 DEF IInv

\* The data the handlers work on.
LEMMA HandlingData ==
    ASSUME DataOK, Handling
    PROVE  /\ DataOK'
           /\ ready' \subseteq ready
           /\ ready \cap renewed = {} => ready' \cap renewed' = {}
<1> DEFINE Done == /\ DataOK' /\ ready' \subseteq ready
                   /\ ready \cap renewed = {} => ready' \cap renewed' = {}
<1>1. ASSUME NEW hs, HalfList(hs), NEW ts, TimerList(ts), Sorted(ts), Handle(hs, ts)
      PROVE  Done
  <2>1. FdOK /\ LoopOK
    BY DEF DataOK
  <2>2. /\ FdOK' /\ LoopOK' /\ HalfList(halves') /\ TimerList(timers') /\ Sorted(timers')
        /\ ready' \subseteq ready
        /\ ready \cap renewed = {} => ready' \cap renewed' = {}
    BY <1>1, <2>1, HandleFacts
  <2>3. HalfList(halves)' /\ TimerList(timers)' /\ Sorted(timers)'
    BY <2>2 DEF HalfList, TimerList, Sorted, IsInjective
  <2> QED BY <2>2, <2>3 DEF DataOK
<1>2. ASSUME UNCHANGED opVars PROVE Done
  BY <1>2 DEF opVars, fdVars, timeVars, DataOK, FdOK, LoopOK, HalfList, TimerList,
     Sorted, Highest, IsInjective
<1>3. HalfList(halves) /\ TimerList(timers) /\ Sorted(timers)
  BY DEF DataOK
<1> SUFFICES Done
  OBVIOUS
<1> HIDE DEF Done
<1>4. CASE CheckBottomHalves
  <2>1. CASE halves = << >>
    BY <1>2, <1>4, <2>1 DEF CheckBottomHalves
  <2>2. CASE halves # << >>
    <3>1. Handle(Tail(halves), timers)
      BY <1>4, <2>2 DEF CheckBottomHalves
    <3>2. HalfList(Tail(halves))
      BY <1>3, <2>2, TailHalves
    <3> QED BY <1>1, <1>3, <3>1, <3>2
  <2> QED BY <2>1, <2>2
<1>5. CASE HandlerGoesOn
  BY <1>1, <1>3, <1>5 DEF HandlerGoesOn
<1>6. CASE CheckSignal
  BY <1>1, <1>3, <1>6 DEF CheckSignal
<1>7. CASE FireTimer
  <2>1. Handle(halves, Tail(timers)) /\ timers # << >>
    BY <1>7 DEF FireTimer, Due
  <2>2. TimerList(Tail(timers)) /\ Sorted(Tail(timers))
    BY <1>3, <2>1, TailFacts
  <2> QED BY <1>1, <1>3, <2>1, <2>2
<1>8. CASE CallHandler
  <2>1. Handle(halves, timers) \/ UNCHANGED opVars
    BY <1>8 DEF CallHandler
  <2> QED BY <1>1, <1>2, <1>3, <2>1
<1> QED BY <1>4, <1>5, <1>6, <1>7, <1>8 DEF Handling

\* Handlers, timers, bottom halves and bits stay what they are.
LEMMA NextDataOK ==
    ASSUME IInv, [Next]_vars
    PROVE  DataOK'
<1> USE DEF IInv, vars, opVars, fdVars, timeVars, posVars, sigVars
<1>1. CASE Handling
  BY <1>1, HandlingData
<1>2. ASSUME UNCHANGED <<watched, w_max, halves, timers, terminate>>,
             ready' \subseteq ready \/ ready' = watched,
             renewed' = renewed \/ renewed' = {},
             elapsed' \in Nat, ops' \in 0 .. MaxOps
      PROVE  DataOK'
  <2>1. FdOK'
    BY <1>2 DEF DataOK, FdOK, Highest
  <2>2. LoopOK'
    BY <1>2 DEF DataOK, LoopOK
  <2>3. HalfList(halves)' /\ TimerList(timers)' /\ Sorted(timers)'
    BY <1>2 DEF DataOK, HalfList, TimerList, Sorted, IsInjective
  <2> QED BY <2>1, <2>2, <2>3 DEF DataOK
<1>3. elapsed \in Nat /\ ops \in 0 .. MaxOps /\ 0 \in 0 .. MaxOps
  BY LoopAssumption DEF DataOK, LoopOK
<1>4. CASE Top
  BY <1>2, <1>3, <1>4 DEF Top
<1>5. CASE SignalsChecked
  <2>1. CASE StartTimers
    <3>1. TimerList(timers') /\ Sorted(timers')
      BY <1>3, <2>1, StartTimersFacts DEF DataOK
    <3>2. FdOK'
      BY <1>5 DEF SignalsChecked, DataOK, FdOK, Highest
    <3>3. LoopOK'
      <4>1. elapsed' = 0 /\ UNCHANGED <<terminate, ops>>
        BY <1>5, <2>1 DEF SignalsChecked, StartTimers
      <4> QED BY <1>3, <4>1 DEF LoopOK, DataOK
    <3>4. HalfList(halves)'
      BY <1>5 DEF SignalsChecked, DataOK, HalfList, IsInjective
    <3> QED BY <3>1, <3>2, <3>3, <3>4 DEF DataOK, TimerList, Sorted
  <2>2. CASE UNCHANGED timeVars
    BY <1>2, <1>3, <1>5, <2>2 DEF SignalsChecked
  <2>3. StartTimers \/ UNCHANGED timeVars
    BY <1>5 DEF SignalsChecked
  <2> QED BY <2>1, <2>2, <2>3
<1>6. CASE BeforeSelect
  BY <1>2, <1>3, <1>6 DEF BeforeSelect
<1>7. CASE SelectReturns \/ SelectTimesOut
  <2>1. PICK bits, e : Awake(bits, e) /\ bits \subseteq ready /\ e \in Nat
    <3>1. CASE timers = << >>
      BY <1>3, <1>7, <3>1 DEF SelectReturns, SelectTimesOut, Slept
    <3>2. CASE timers # << >>
      <4>1. timers[1] \in [id : Timers, left : 0 .. MaxDelay]
        <5> DEFINE T == [id : Timers, left : 0 .. MaxDelay]
        <5>1. timers \in Seq(T)
          BY DEF DataOK, TimerList
        <5> HIDE DEF T
        <5>2. 1 \in 1 .. Len(timers)
          BY <3>2, <5>1
        <5>3. timers[1] \in T
          BY <5>1, <5>2
        <5> QED BY <5>3 DEF T
      <4>2. timers[1].left \in Nat
        BY <4>1, LoopAssumption
      <4>3. \A d \in Slept : elapsed + d \in Nat
        BY <1>3, <3>2, <4>2 DEF Slept
      <4>4. CASE SelectReturns
        BY <4>3, <4>4 DEF SelectReturns
      <4>5. CASE SelectTimesOut
        BY <1>3, <4>2, <4>5 DEF SelectTimesOut
      <4> QED BY <1>7, <4>4, <4>5
    <3> QED BY <3>1, <3>2
  <2> QED BY <1>2, <1>3, <2>1 DEF Awake
<1>8. CASE UNCHANGED opVars
  BY <1>2, <1>3, <1>8
<1>9. CASE Select \/ AfterSelect \/ NextDescriptor \/ Dispatched \/ SelectFails
           \/ (\E g \in Sigs : GotSignal(g)) \/ AlarmFires \/ UNCHANGED vars
  BY <1>8, <1>9 DEF Select, AfterSelect, NextDescriptor, Dispatched, SelectFails,
     GotSignal, AlarmFires
<1> QED BY <1>1, <1>4, <1>5, <1>6, <1>7, <1>9 DEF Next, Step, Handling

\* The loop stays at a place of its own.
LEMMA NextPosOK ==
    ASSUME IInv, [Next]_vars
    PROVE  PosOK'
<1> USE DEF IInv, vars, opVars, fdVars, timeVars, posVars, sigVars, At, Goto, CallThen
<1> DEFINE N == (MaxFd + 1) * Cardinality(Kinds)
           M == Max({MaxFd + 1, MaxSig})
           Backs == {"top", "signals", "timers", "dispatch"}
           PcT == pc \in [at : Places, back : Backs] /\ phase \in {"top", "critical", "after"}
           PosT == n \in 0 .. N /\ i \in 0 .. M /\ kind \in 1 .. 4 /\ k \in 0 .. 1
<1>1. PcT /\ PosT
  BY DEF PosOK
<1>2. PcT'
  <2> USE <1>1 DEF Places
  <2>1. CASE CheckBottomHalves \/ HandlerGoesOn
    BY <2>1 DEF CheckBottomHalves, HandlerGoesOn
  <2>2. CASE Top
    BY <2>2 DEF Top
  <2>3. CASE CheckSignal \/ FireTimer
    BY <2>3 DEF CheckSignal, FireTimer
  <2>4. CASE SignalsChecked
    BY <2>4 DEF SignalsChecked, StartTimers
  <2>5. CASE BeforeSelect
    BY <2>5 DEF BeforeSelect
  <2>6. CASE Select \/ AfterSelect \/ Dispatched \/ NextDescriptor
    BY <2>6 DEF Select, AfterSelect, Dispatched, NextDescriptor
  <2>7. CASE CallHandler
    BY <2>7 DEF CallHandler
  <2>8. CASE SelectReturns \/ SelectTimesOut
    BY <2>8 DEF SelectReturns, SelectTimesOut, Awake
  <2>9. CASE SelectFails \/ AlarmFires \/ \E g \in Sigs : GotSignal(g)
    BY <2>9 DEF SelectFails, AlarmFires, GotSignal, Interrupted
  <2>10. CASE UNCHANGED vars
    BY <2>10
  <2> QED BY <2>1, <2>2, <2>3, <2>4, <2>5, <2>6, <2>7, <2>8, <2>9, <2>10 DEF Next, Step
<1>3. N \in Nat /\ M \in Nat /\ M >= MaxFd + 1 /\ M >= MaxSig
  BY FdsCount, LastPosition, LoopAssumption
<1> HIDE DEF N, M
<1>4. PosT'
  <2> USE <1>1, <1>3
  <2>1. CASE CheckBottomHalves \/ HandlerGoesOn \/ FireTimer \/ BeforeSelect
             \/ Select \/ AfterSelect \/ Dispatched \/ SelectFails \/ AlarmFires
             \/ (\E g \in Sigs : GotSignal(g)) \/ UNCHANGED vars
    <3>1. UNCHANGED posVars
      BY <2>1 DEF CheckBottomHalves, HandlerGoesOn, FireTimer, BeforeSelect, Select,
         AfterSelect, Dispatched, SelectFails, AlarmFires, GotSignal
    <3> QED BY <3>1 DEF N, M
  <2>2. CASE Top
    BY <2>2 DEF Top, N, M
  <2>3. CASE CheckSignal
    <3>1. i' \in Sigs /\ UNCHANGED <<n, kind, k>>
      BY <2>3, MarkedFacts DEF CheckSignal, SigOK
    <3>2. i' \in 0 .. M
      BY <3>1, LoopAssumption DEF Sigs
    <3> QED BY <3>1, <3>2 DEF N, M
  <2>4. CASE SignalsChecked
    BY <2>4 DEF SignalsChecked, N, M
  <2>5. CASE CallHandler
    <3>1. kind' \in 1 .. 4 /\ k' = 1 /\ UNCHANGED <<n, i>>
      BY <2>5, AheadFacts DEF CallHandler
    <3> QED BY <3>1 DEF N, M
  <2>6. CASE NextDescriptor
    <3>1. w_max \in 0 .. MaxFd + 1
      BY HighestFacts DEF DataOK, FdOK
    <3>2. n' = n - k /\ i' = i + 1 /\ kind' = 1 /\ k' = 0 /\ n > 0 /\ i < w_max
      BY <2>6 DEF NextDescriptor, CountDown, Looping
    <3>3. n' \in 0 .. N /\ i' \in 0 .. M
      BY <3>1, <3>2, LoopAssumption
    <3> QED BY <3>2, <3>3 DEF N, M
  <2>7. CASE SelectReturns \/ SelectTimesOut
    <3>1. PICK bits, e : Awake(bits, e) /\ bits \subseteq ready
      BY <2>7 DEF SelectReturns, SelectTimesOut
    <3>2. bits \in SUBSET (Fds \X Kinds)
      BY <3>1 DEF DataOK, FdOK
    <3>3. n' \in 0 .. N /\ UNCHANGED <<i, kind, k>>
      BY <3>1, <3>2, SelectedCount DEF Awake, N
    <3> QED BY <3>3 DEF N, M
  <2> QED BY <2>1, <2>2, <2>3, <2>4, <2>5, <2>6, <2>7 DEF Next, Step
<1> QED BY <1>2, <1>4 DEF PosOK, N, M, Places

\* The marks of signals stay marks of signals.
LEMMA NextSigOK ==
    ASSUME IInv, [Next]_vars
    PROVE  SigOK'
<1> USE DEF IInv, vars, sigVars, SigOK
<1>1. CASE \E g \in Sigs : GotSignal(g)
  BY <1>1 DEF GotSignal, Interrupted, RaceChecked
<1>2. CASE AlarmFires
  BY <1>2 DEF AlarmFires, Interrupted
<1>3. CASE SelectReturns \/ SelectTimesOut
  BY <1>3 DEF SelectReturns, SelectTimesOut, Awake
<1>4. CASE SignalsChecked
  BY <1>4 DEF SignalsChecked
<1>5. CASE BeforeSelect
  BY <1>5 DEF BeforeSelect
<1>6. CASE CheckSignal
  BY <1>6 DEF CheckSignal
<1>7. CASE SelectFails
  BY <1>7 DEF SelectFails, Interrupted
<1>8. CASE UNCHANGED sigVars
  BY <1>8
<1>9. CASE CheckBottomHalves \/ HandlerGoesOn \/ Top \/ FireTimer \/ Select
           \/ AfterSelect \/ CallHandler \/ NextDescriptor \/ Dispatched
           \/ UNCHANGED vars
  BY <1>8, <1>9 DEF CheckBottomHalves, HandlerGoesOn, Top, FireTimer, Select,
     AfterSelect, CallHandler, NextDescriptor, Dispatched
<1> QED BY <1>1, <1>2, <1>3, <1>4, <1>5, <1>6, <1>7, <1>9 DEF Next, Step

\* No bit of a handler that was cleared comes back.
LEMMA NextNoStale ==
    ASSUME IInv, [Next]_vars
    PROVE  NoStaleReady'
<1> USE DEF IInv, vars, opVars, fdVars, NoStaleReady
<1>1. CASE Handling
  <2>1. UNCHANGED phase
    BY <1>1 DEF Handling, CheckBottomHalves, HandlerGoesOn, CheckSignal, FireTimer,
       CallHandler
  <2> QED BY <1>1, <2>1, HandlingData
<1>2. CASE Top
  BY <1>2 DEF Top
<1>3. CASE BeforeSelect
  BY <1>3 DEF BeforeSelect
<1>4. CASE SelectReturns \/ SelectTimesOut
  BY <1>4 DEF SelectReturns, SelectTimesOut, Awake
<1>5. CASE SignalsChecked \/ Select \/ AfterSelect \/ NextDescriptor \/ Dispatched
           \/ SelectFails \/ (\E g \in Sigs : GotSignal(g)) \/ AlarmFires
           \/ UNCHANGED vars
  <2>1. UNCHANGED <<phase, ready, renewed>>
    BY <1>5 DEF SignalsChecked, Select, AfterSelect, NextDescriptor, Dispatched,
       SelectFails, GotSignal, AlarmFires
  <2> QED BY <2>1
<1> QED BY <1>1, <1>2, <1>3, <1>4, <1>5 DEF Next, Step, Handling

\* Where the loop can be.
LEMMA NextControl ==
    ASSUME IInv, [Next]_vars
    PROVE  ControlInv'
<1> USE DEF IInv, vars, posVars, sigVars, At, In, Sleepy, Goto, CallThen, ControlInv
<1>0. pc = [at |-> pc.at, back |-> pc.back] /\ pc.back # "halves" /\ pc.back # "select"
      /\ pc.back # "asleep" /\ i \in Nat
      /\ pc \in [at : Places, back : {"top", "signals", "timers", "dispatch"}]
  BY LastPosition DEF PosOK
<1>1. CASE CheckBottomHalves
  <2>1. CASE halves = << >>
    <3>1. pc' = [pc EXCEPT !.at = pc.back] /\ At("halves")
          /\ UNCHANGED <<halves, phase, posVars>>
      BY <1>1, <2>1 DEF CheckBottomHalves, opVars
    <3>2. pc'.at = pc.back /\ pc'.back = pc.back
      BY <1>0, <3>1
    <3> QED BY <1>0, <2>1, <3>1, <3>2
  <2>2. CASE halves # << >>
    <3>1. UNCHANGED <<pc, phase, posVars>> /\ At("halves")
      BY <1>1, <2>2 DEF CheckBottomHalves
    <3> QED BY <1>0, <3>1
  <2> QED BY <2>1, <2>2
<1>2. CASE HandlerGoesOn
  <2>1. UNCHANGED <<pc, phase, posVars>> /\ At("halves")
    BY <1>2 DEF HandlerGoesOn
  <2> QED BY <2>1
<1>3. CASE Top
  BY <1>0, <1>3 DEF Top
<1>4. CASE CheckSignal
  <2>1. i' \in Nat /\ i' > i /\ i' > 0
    BY <1>0, <1>4, MarkedFacts DEF CheckSignal, SigOK, Sigs
  <2> QED BY <1>0, <1>4, <2>1 DEF CheckSignal
<1>5. CASE SignalsChecked
  BY <1>0, <1>5 DEF SignalsChecked, StartTimers, MaySleep
<1>6. CASE FireTimer
  BY <1>0, <1>6 DEF FireTimer
<1>7. CASE BeforeSelect
  BY <1>0, <1>7 DEF BeforeSelect
<1>8. CASE Select \/ AfterSelect \/ Dispatched
  BY <1>0, <1>8 DEF Select, AfterSelect, Dispatched, opVars
<1>9. CASE CallHandler
  BY <1>0, <1>9 DEF CallHandler, opVars
<1>10. CASE NextDescriptor
  BY <1>0, <1>10 DEF NextDescriptor, opVars
<1>11. CASE SelectReturns \/ SelectTimesOut
  BY <1>0, <1>11 DEF SelectReturns, SelectTimesOut, Awake
<1>12. CASE SelectFails \/ AlarmFires \/ \E g \in Sigs : GotSignal(g)
  BY <1>0, <1>12 DEF SelectFails, AlarmFires, GotSignal, Interrupted, opVars
<1>13. CASE UNCHANGED vars
  BY <1>13 DEF opVars
<1> QED BY <1>1, <1>2, <1>3, <1>4, <1>5, <1>6, <1>7, <1>8, <1>9, <1>10, <1>11,
           <1>12, <1>13 DEF Next, Step

\* What the loop knows when it goes to sleep.
LEMMA NextSleep ==
    ASSUME IInv, [Next]_vars
    PROVE  SleepInv'
<1> USE DEF IInv, vars, posVars, sigVars, At, In, Sleepy, Goto, CallThen, SleepInv
<1>0. /\ pc \in [at : Places, back : {"top", "signals", "timers", "dispatch"}]
      /\ ControlInv /\ i \in Nat
  BY LastPosition DEF PosOK
<1>1. CASE CheckBottomHalves
  <2>1. CASE halves = << >>
    <3>1. pc' = [pc EXCEPT !.at = pc.back] /\ At("halves")
          /\ UNCHANGED <<phase, posVars, sigVars>>
      BY <1>1, <2>1 DEF CheckBottomHalves
    <3>2. pc'.at = pc.back /\ pc'.back = pc.back
      BY <1>0, <3>1
    <3> QED BY <1>0, <3>1, <3>2 DEF ControlInv
  <2>2. CASE halves # << >>
    <3>1. UNCHANGED <<pc, phase, posVars, sigVars>> /\ At("halves")
      BY <1>1, <2>2 DEF CheckBottomHalves
    <3> QED BY <1>0, <3>1
  <2> QED BY <2>1, <2>2
<1>2. CASE HandlerGoesOn
  <2>1. UNCHANGED <<pc, phase, posVars, sigVars>> /\ At("halves")
    BY <1>2 DEF HandlerGoesOn
  <2> QED BY <2>1
<1>3. CASE Top
  BY <1>0, <1>3 DEF Top
<1>4. CASE CheckSignal
  BY <1>0, <1>4 DEF CheckSignal
<1>5. CASE SignalsChecked
  <2>1. CASE phase # "critical"
    BY <1>0, <1>5, <2>1 DEF SignalsChecked, StartTimers
  <2>2. CASE phase = "critical" /\ i = 0
    <3>1. mask = {}
      <4>1. \A g \in mask : g > 0
        BY DEF SigOK, Sigs
      <4> QED BY <1>5, <2>2, <4>1 DEF SignalsChecked, Marked
    <3> QED BY <1>0, <1>5, <2>2, <3>1 DEF SignalsChecked, MaySleep, timeVars, fdVars
  <2>3. CASE phase = "critical" /\ i # 0
    BY <1>0, <1>5, <2>3 DEF SignalsChecked, MaySleep
  <2> QED BY <2>1, <2>2, <2>3
<1>6. CASE FireTimer
  BY <1>0, <1>6 DEF FireTimer
<1>7. CASE BeforeSelect
  BY <1>0, <1>7 DEF BeforeSelect, Over, timeVars
<1>8. CASE Select \/ AfterSelect \/ Dispatched
  BY <1>0, <1>8 DEF Select, AfterSelect, Dispatched, opVars, fdVars, timeVars
<1>9. CASE CallHandler
  BY <1>0, <1>9 DEF CallHandler
<1>10. CASE NextDescriptor
  BY <1>0, <1>10 DEF NextDescriptor
<1>11. CASE SelectReturns \/ SelectTimesOut
  BY <1>0, <1>11 DEF SelectReturns, SelectTimesOut, Awake
<1>12. CASE SelectFails \/ AlarmFires \/ \E g \in Sigs : GotSignal(g)
  <2>1. CASE At("asleep")
    <3>1. pc' = [pc EXCEPT !.at = "top"]
      BY <1>12, <2>1 DEF SelectFails, AlarmFires, GotSignal, Interrupted
    <3> QED BY <1>0, <3>1
  <2>2. CASE ~At("asleep")
    <3>1. UNCHANGED <<pc, critical, phase, i, terminate, w_max, timers>>
      BY <1>12, <2>2 DEF SelectFails, AlarmFires, GotSignal, opVars, fdVars, timeVars
    <3>2. alarm' = critical \/ alarm' = RaceChecked
      BY <1>12, <2>2 DEF SelectFails, AlarmFires, GotSignal
    <3>3. critical => alarm'
      BY <3>2 DEF RaceChecked
    <3>4. Sleepy => critical
      BY <1>0 DEF ControlInv
    <3> QED BY <3>1, <3>3, <3>4
  <2> QED BY <2>1, <2>2
<1>13. CASE UNCHANGED vars
  BY <1>13 DEF opVars, fdVars, timeVars
<1> QED BY <1>1, <1>2, <1>3, <1>4, <1>5, <1>6, <1>7, <1>8, <1>9, <1>10, <1>11,
           <1>12, <1>13 DEF Next, Step

\* n covers what is still to be served.
LEMMA NextServe ==
    ASSUME IInv, [Next]_vars
    PROVE  ServeInv'
<1> USE DEF IInv, vars, posVars, At, In, Goto, CallThen
<1>0. /\ pc \in [at : Places, back : {"top", "signals", "timers", "dispatch"}]
      /\ i \in Nat /\ n \in Nat /\ k \in 0 .. 1 /\ ControlInv /\ ServeInv
  BY LastPosition, FdsCount, LoopAssumption DEF PosOK
<1>1. ReadyFds \subseteq Fds /\ ToServe \subseteq Fds
  BY DEF ReadyFds, ToServe
<1>2. ASSUME ready' \subseteq ready
      PROVE  ReadyFds' \subseteq ReadyFds
  BY <1>2 DEF ReadyFds
<1>3. ASSUME ready' \subseteq ready, UNCHANGED <<i, k>>
      PROVE  ToServe' \subseteq ToServe
  BY <1>2, <1>3 DEF ToServe
<1>4. ASSUME ready' \subseteq ready
      PROVE  n >= Cardinality(ReadyFds) => n >= Cardinality(ReadyFds')
  <2>1. ReadyFds' \subseteq ReadyFds
    BY <1>2, <1>4
  <2>2. /\ Cardinality(ReadyFds') \in Nat /\ Cardinality(ReadyFds) \in Nat
        /\ Cardinality(ReadyFds') <= Cardinality(ReadyFds)
    BY <1>1, <2>1, FewerFds
  <2> QED BY <1>0, <2>2
<1>5. ASSUME ToServe' \subseteq ToServe
      PROVE  n >= Cardinality(ToServe) => n >= Cardinality(ToServe')
  <2>1. /\ Cardinality(ToServe') \in Nat /\ Cardinality(ToServe) \in Nat
        /\ Cardinality(ToServe') <= Cardinality(ToServe)
    BY <1>1, <1>5, FewerFds
  <2> QED BY <1>0, <2>1
<1>6. ASSUME UNCHANGED <<phase, n, i, k>>, ready' \subseteq ready,
             pc'.at # "top" /\ (In("signals")' \/ In("timers")')
               => In("signals") \/ In("timers"),
             In("dispatch")' => In("dispatch")
      PROVE  ServeInv'
  BY <1>0, <1>3, <1>4, <1>5, <1>6 DEF ServeInv
<1>7. CASE CheckBottomHalves
  <2>1. ready' \subseteq ready
    BY <1>7, HandlingData DEF Handling
  <2>2. pc'.back = pc.back /\ (pc'.at = pc.back \/ pc'.at = "halves")
        /\ At("halves") /\ UNCHANGED <<phase, n, i, k>>
    BY <1>0, <1>7 DEF CheckBottomHalves
  <2> QED BY <1>6, <2>1, <2>2
<1>8. CASE HandlerGoesOn
  <2>1. ready' \subseteq ready
    BY <1>8, HandlingData DEF Handling
  <2> QED BY <1>6, <1>8, <2>1 DEF HandlerGoesOn
<1>9. CASE Top
  BY <1>0, <1>9 DEF Top, ServeInv
<1>10. CASE CheckSignal
  <2>1. ready' \subseteq ready
    BY <1>10, HandlingData DEF Handling
  <2>2. /\ pc' = [at |-> "halves", back |-> "signals"] /\ At("signals")
        /\ UNCHANGED <<phase, n>>
    BY <1>10 DEF CheckSignal
  <2> QED BY <1>0, <1>4, <2>1, <2>2 DEF ServeInv
<1>11. CASE SignalsChecked
  <2>1. UNCHANGED <<phase, n, ready>> /\ At("signals")
    BY <1>11 DEF SignalsChecked, fdVars
  <2>2. pc'.at \in {"timers", "select", "top"}
    BY <1>0, <1>11 DEF SignalsChecked, StartTimers
  <2>3. n >= Cardinality(ReadyFds) => n >= Cardinality(ReadyFds')
    BY <1>4, <2>1
  <2> QED BY <1>0, <2>1, <2>2, <2>3 DEF ServeInv
<1>12. CASE FireTimer
  <2>1. ready' \subseteq ready
    BY <1>12, HandlingData DEF Handling
  <2> QED BY <1>0, <1>6, <1>12, <2>1 DEF FireTimer
<1>13. CASE BeforeSelect
  BY <1>0, <1>13 DEF BeforeSelect, ServeInv
<1>14. CASE Select
  BY <1>0, <1>6, <1>14 DEF Select, opVars, fdVars
<1>15. CASE AfterSelect
  <2>1. /\ pc'.at = "dispatch" /\ At("timers") /\ phase = "after"
        /\ UNCHANGED <<phase, n, i, k, ready>>
    BY <1>0, <1>15 DEF AfterSelect, opVars, fdVars
  <2>2. i = 0 /\ k = 0
    BY <1>0, <2>1 DEF ControlInv
  <2>3. ToServe' \subseteq ReadyFds
    BY <2>1, <2>2 DEF ToServe, ReadyFds
  <2>4. /\ Cardinality(ToServe') \in Nat /\ Cardinality(ReadyFds) \in Nat
        /\ Cardinality(ToServe') <= Cardinality(ReadyFds)
    BY <1>1, <2>3, FewerFds
  <2>5. n >= Cardinality(ReadyFds)
    BY <1>0, <2>1 DEF ServeInv
  <2> QED BY <1>0, <2>1, <2>4, <2>5 DEF ServeInv
<1>16. CASE CallHandler
  <2>1. ready' \subseteq ready
    BY <1>16, HandlingData DEF Handling
  <2>2. /\ At("dispatch") /\ k' = 1 /\ UNCHANGED <<phase, n, i>>
        /\ pc'.at \in {"halves", "dispatch"} /\ In("dispatch")'
    BY <1>0, <1>16 DEF CallHandler
  <2>3. i \in ReadyFds
    <3>1. Min(Ahead) \in Kinds /\ <<i, Min(Ahead)>> \in ready
      BY <1>16, AheadFacts DEF CallHandler
    <3>2. ready \subseteq Fds \X Kinds
      BY DEF DataOK, FdOK
    <3>3. i \in Fds
      BY <3>1, <3>2
    <3> QED BY <3>1, <3>3 DEF ReadyFds
  <2>4. ToServe' \subseteq ToServe
    BY <1>2, <2>1, <2>2, <2>3 DEF ToServe
  <2>5. n >= Cardinality(ToServe')
    BY <1>0, <1>5, <2>2, <2>4 DEF ServeInv
  <2>6. ~In("signals")' /\ ~In("timers")'
    BY <1>0, <1>16 DEF CallHandler
  <2> QED BY <2>2, <2>5, <2>6 DEF ServeInv
<1>17. CASE NextDescriptor
  <2>1. /\ At("dispatch") /\ Ahead = {} /\ n > 0
        /\ n' = n - k /\ i' = i + 1 /\ k' = 0
        /\ UNCHANGED <<pc, phase, ready>>
    BY <1>17 DEF NextDescriptor, CountDown, Looping, opVars, fdVars
  <2>2. n >= Cardinality(ToServe)
    BY <1>0, <2>1 DEF ServeInv
  <2>3. ReadyFds' = ReadyFds
    BY <2>1 DEF ReadyFds
  <2>4. ToServe' \subseteq ToServe \ {i}
    <3> SUFFICES ASSUME NEW f \in Fds, f \in ToServe'
                 PROVE  f \in ToServe /\ f # i
      BY <1>1 DEF ToServe
    <3>1. f \in ReadyFds /\ (f > i + 1 \/ f = i + 1)
      BY <2>1, <2>3 DEF ToServe
    <3>2. f \in Nat
      BY DEF Fds
    <3> QED BY <1>0, <3>1, <3>2 DEF ToServe
  <2>5. /\ Cardinality(ToServe \ {i}) \in Nat /\ Cardinality(ToServe') \in Nat
        /\ Cardinality(ToServe') <= Cardinality(ToServe \ {i})
    BY <1>1, <2>4, FewerFds
  <2>6. IsFiniteSet(ToServe)
    BY <1>1, FdsCount, FS_Subset
  <2>7. Cardinality(ToServe) \in Nat
    BY <2>6, FS_CardinalityType
  <2>8. Cardinality(ToServe \ {i}) = IF i \in ToServe THEN Cardinality(ToServe) - 1
                                     ELSE Cardinality(ToServe)
    BY <2>6, FS_RemoveElement
  <2>9. CASE k = 1
    <3>1. i \in ToServe
      <4>1. i < w_max /\ w_max \in 0 .. MaxFd + 1
        BY <1>17, HighestFacts DEF NextDescriptor, Looping, DataOK, FdOK
      <4>2. i \in Fds
        BY <1>0, <4>1, LoopAssumption DEF Fds
      <4> QED BY <2>9, <4>2 DEF ToServe
    <3>2. n' >= Cardinality(ToServe')
      BY <1>0, <2>1, <2>2, <2>5, <2>7, <2>8, <2>9, <3>1
    <3> QED BY <2>1, <3>2 DEF ServeInv
  <2>10. CASE k = 0
    <3>1. n' >= Cardinality(ToServe')
      BY <1>0, <2>1, <2>2, <2>5, <2>7, <2>8, <2>10
    <3> QED BY <2>1, <3>1 DEF ServeInv
  <2> QED BY <1>0, <2>9, <2>10
<1>18. CASE Dispatched
  BY <1>0, <1>18 DEF Dispatched, ServeInv
<1>19. CASE SelectReturns \/ SelectTimesOut
  <2>1. PICK bits, e : Awake(bits, e) /\ bits \subseteq ready
    BY <1>19 DEF SelectReturns, SelectTimesOut
  <2>2. bits \in SUBSET (Fds \X Kinds)
    BY <2>1 DEF DataOK, FdOK
  <2>3. ready' = bits /\ n' = Cardinality(bits) /\ pc'.at = "signals"
    BY <1>0, <2>1 DEF Awake
  <2>4. Cardinality(ReadyFds') <= Cardinality(bits)
    BY <2>2, <2>3, SelectedCount DEF ReadyFds
  <2>5. Cardinality(ReadyFds') \in Nat /\ Cardinality(bits) \in Nat
    <3>1. ReadyFds' \subseteq Fds
      BY DEF ReadyFds
    <3>2. Cardinality(bits) \in 0 .. (MaxFd + 1) * Cardinality(Kinds)
      BY <2>2, SelectedCount
    <3> QED BY <3>1, <3>2, FewerFds
  <2> QED BY <2>3, <2>4, <2>5 DEF ServeInv
<1>20. CASE SelectFails \/ AlarmFires \/ \E g \in Sigs : GotSignal(g)
  <2>1. /\ UNCHANGED <<phase, n, i, k, ready>>
        /\ (pc'.at = "top" /\ At("asleep")) \/ UNCHANGED pc
    BY <1>0, <1>20 DEF SelectFails, AlarmFires, GotSignal, Interrupted, opVars, fdVars
  <2> QED BY <1>6, <2>1
<1>21. CASE UNCHANGED vars
  BY <1>6, <1>21 DEF opVars, fdVars
<1> QED BY <1>7, <1>8, <1>9, <1>10, <1>11, <1>12, <1>13, <1>14, <1>15, <1>16, <1>17,
           <1>18, <1>19, <1>20, <1>21 DEF Next, Step

-----------------------------------------------------------------------------
(* Theorems.                                                               *)

\* The invariant holds in every reachable state.
THEOREM Invariance == Spec => []IInv
<1>1. IInv /\ [Next]_vars => IInv'
  BY NextPosOK, NextSigOK, NextDataOK, NextControl, NextSleep, NextServe, NextNoStale
  DEF IInv
<1> QED BY <1>1, InitIInv, PTL DEF Spec

\* The types of select.c's and timer.c's data, no bottom half registered twice,
\* no timer installed twice, and w_max just above the highest descriptor with a
\* handler after any sequence of set_handlers().
THEOREM WMaxAlwaysExact == Spec => []WMaxExact
<1>1. IInv => WMaxExact
  <2> SUFFICES ASSUME IInv PROVE WMaxExact
    OBVIOUS
  <2>1. w_max \in 0 .. MaxFd + 1 /\ w_max = Highest(watched)
    BY HighestFacts DEF IInv, DataOK, FdOK
  <2>2. Cardinality(Running(timers)) = Len(timers)
    BY CountedOnce DEF IInv, DataOK, TimerList
  <2>3. watched \subseteq Fds \X Kinds /\ ready \subseteq Fds \X Kinds
        /\ renewed \subseteq Fds \X Kinds
    BY DEF IInv, DataOK, FdOK
  <2>4. PosOK /\ SigOK /\ LoopOK /\ HalfList(halves) /\ TimerList(timers)
    BY DEF IInv, DataOK
  <2> QED BY <2>1, <2>2, <2>3, <2>4
          DEF WMaxExact, TypeOK, PosOK, SigOK, LoopOK, HalfList, TimerList
<1> QED BY <1>1, Invariance, PTL

\* select_loop() never sleeps on work that is already there: a bottom half, the
\* end of the program, an earlier timer, or a signal that arrived between the
\* look at the marks and select().
THEOREM NeverSleepsOnWork == Spec => []SleepsWithNothingToDo
<1>1. IInv => SleepsWithNothingToDo
  <2> SUFFICES ASSUME IInv, At("asleep") PROVE SleepsWithNothingToDo
    BY DEF SleepsWithNothingToDo
  <2>1. Sleepy /\ ~At("halves") /\ ControlInv /\ SleepInv
    BY DEF Sleepy, At, IInv
  <2>2. phase = "critical" /\ halves = << >>
    BY <2>1 DEF ControlInv
  <2>3. ~terminate /\ (w_max # 0 \/ timers # << >>) /\ (mask # {} => alarm)
    BY <2>1, <2>2 DEF SleepInv
  <2>4. w_max # 0 => watched # {}
    BY HighestFacts DEF IInv, DataOK, FdOK
  <2>5. \A j \in 1 .. Len(timers) : timers[1].left <= timers[j].left
    <3> SUFFICES ASSUME NEW j \in 1 .. Len(timers)
                 PROVE  timers[1].left <= timers[j].left
      OBVIOUS
    <3>1. Len(timers) \in Nat
      BY DEF IInv, DataOK, TimerList
    <3>2. 1 \in 1 .. Len(timers) /\ 1 <= j
      BY <3>1
    <3> QED BY <3>2 DEF IInv, DataOK, Sorted
  <2> QED BY <2>2, <2>3, <2>4, <2>5 DEF SleepsWithNothingToDo
<1> QED BY <1>1, Invariance, PTL

\* A handler set after select() returned is not called for what its predecessor
\* on the same descriptor was ready for.
THEOREM NeverStale == Spec => []NoStaleReady
<1>1. IInv => NoStaleReady
  BY DEF IInv
<1> QED BY <1>1, Invariance, PTL

\* Counting down what select() returned never ends the loop over the descriptors
\* before every ready handler has been called.
THEOREM EveryoneServed == Spec => []AllServed
<1>1. IInv => AllServed
  <2> SUFFICES ASSUME IInv, At("dispatch"), ~Looping, NEW p \in ready
               PROVE  p[1] < i
    BY DEF AllServed
  <2>1. p \in watched /\ p \in Fds \X Kinds /\ w_max = Highest(watched)
        /\ watched \in SUBSET (Fds \X Kinds)
    BY DEF IInv, DataOK, FdOK
  <2>2. p[1] < w_max /\ w_max \in 0 .. MaxFd + 1
    BY <2>1, HighestFacts
  <2>3. p[1] \in Fds /\ p[2] \in Kinds /\ p = <<p[1], p[2]>> /\ p[1] \in Nat
    BY <2>1 DEF Fds
  <2>4. i \in Nat /\ n \in Nat
    BY LastPosition, FdsCount, LoopAssumption DEF IInv, PosOK
  <2>5. CASE i >= w_max
    BY <2>2, <2>3, <2>4, <2>5, LoopAssumption
  <2>6. CASE n = 0
    <3>1. n >= Cardinality(ToServe)
      BY DEF IInv, ServeInv, In
    <3>2. ToServe \subseteq Fds /\ IsFiniteSet(Fds)
      BY FdsCount DEF ToServe
    <3>3. IsFiniteSet(ToServe)
      BY <3>2, FS_Subset
    <3>4. Cardinality(ToServe) \in Nat
      BY <3>3, FS_CardinalityType
    <3>5. Cardinality(ToServe) = 0
      BY <2>6, <3>1, <3>4
    <3>6. ToServe = {}
      BY <3>3, <3>5, FS_EmptySet
    <3>7. p[1] \in ReadyFds
      BY <2>3 DEF ReadyFds
    <3>8. ~ (p[1] > i) /\ ~ (p[1] = i)
      BY <2>3, <3>6, <3>7 DEF ToServe
    <3> QED BY <2>3, <2>4, <3>8
  <2>7. n = 0 \/ i >= w_max
    BY <2>2, <2>4, LoopAssumption DEF Looping
  <2> QED BY <2>5, <2>6, <2>7
<1> QED BY <1>1, Invariance, PTL

=============================================================================
