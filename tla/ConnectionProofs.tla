-------------------------- MODULE ConnectionProofs --------------------------
(***************************************************************************)
(* What holds of Connection for every value of its constants.  The          *)
(* inductive invariant IInv ties the queue, the states and the counters     *)
(* together (Core) and adds where the handlers and the shutdown stand.      *)
(* First come the lemmas about the recursive functions on lists and about   *)
(* the operations on a connection that several actions share (adding,       *)
(* moving, ending one), then a lemma per action, then the theorems.         *)
(***************************************************************************)
EXTENDS Connection, ListLemmas

\* What is on a list.
Elems(q) == {q[i] : i \in 1 .. Len(q)}

\* Nothing is on q twice, and q is sorted by the priorities of cs.
Ranked(cs, q) ==
    \A i, j \in 1 .. Len(q) : i < j =>
        q[i] # q[j] /\ GetPriority(cs[q[i]]) <= GetPriority(cs[q[j]])

\* The queue holds the connections there are.
QueueInv == OnQueue = Elems(queue) /\ Ranked(conn, queue)

\* What waits does not run, what runs does not wait, but for the connection
\* whose protocol handler is running.
StateInv ==
    \A c \in OnQueue :
        /\ conn[c].state = "result" => c = cur
        /\ c # cur => (Waiting(c) <=> ~conn[c].running)
        /\ c = cur => conn[c].running

\* The running connections to a host.
RunningTo(h) == {c \in Running(OnQueue) : HostName(c) = h}

\* The counters of running connections are exact.
CountInv ==
    /\ active = Cardinality(Running(OnQueue))
    /\ \A h \in Hosts : hosts[h] = Cardinality(RunningTo(h))

\* The running connections that were started under the limits.
Counted == {c \in Running(OnQueue) : ~conn[c].extra}

\* Those to one host.
CountedTo(h) == {c \in Counted : HostName(c) = h}

\* The largest settings of the two limits.
MostConns == Max({l.conns : l \in LimitSet})

MostToHost == Max({l.tohost : l \in LimitSet})

\* What was started under the limits stays within them.
LimitInv ==
    /\ Cardinality(Counted) <= MostConns
    /\ \A h \in Hosts : Cardinality(CountedTo(h)) <= MostToHost

\* The downloads that own c at priority p.
OwnersOf(c, p) == {d \in Owners(c) : dl[d].pri = p}

\* The owners of each connection are counted.
OwnInv ==
    /\ \A c \in OnQueue :
        /\ \A p \in 0 .. Cancel - 1 : conn[c].pri[p] = Cardinality(OwnersOf(c, p))
        /\ \E p \in Priorities : conn[c].pri[p] > 0
        /\ conn[c].detached => Cardinality(Owners(c)) <= 1
    /\ \A d \in Downloads :
        InProgress(d) => dl[d].conn \in OnQueue /\ dl[d].pri \in 0 .. Cancel - 1

\* The order of the shutdown.
PhaseInv ==
    /\ phase \in {"keepalive", "keepalive2", "exit", "failed"} =>
         cur = NoConn /\ ~checking
    /\ phase \in {"halves", "keepalive2", "exit"} => keep = << >>
    /\ phase \in {"keepalive2", "exit"} => queue = << >>

\* try_to_suspend_connection() could take v for c.
Victim(c, v) ==
    /\ Priority(v) > Priority(c)
    /\ ~Waiting(v)
    /\ conn[v].uri \notin Posts \/ Priority(v) >= Cancel
    /\ HostFull(c) => HostName(v) = HostName(c)

\* check_queue() has seen the options as they are, or will run.
SeenInv == ~bh => lim = limits

\* Once check_queue() has nothing left to do, nothing can be started, and
\* nobody can be suspended for it but those beyond the limits.
WorkInv ==
    phase = "run" /\ ~bh /\ ~checking =>
        \A c \in OnQueue : Waiting(c) =>
            ~CanRun(c) /\ \A v \in OnQueue : Victim(c, v) => conn[v].extra

\* The types of what the queue does not depend on.
RestOK ==
    /\ keep \in Seq({u \in Uris : HostOf[u] # NoHost})
    /\ limits \in LimitSet /\ lim \in LimitSet
    /\ bh \in BOOLEAN /\ checking \in BOOLEAN
    /\ phase \in {"run", "keepalive", "halves", "keepalive2", "exit", "failed"}

\* The types of the queue, the downloads and the counters.
CoreOK ==
    /\ conn \in [Conns -> ConnType \cup {Free}]
    /\ queue \in Seq(Conns)
    /\ dl \in [Downloads -> DownloadType]
    /\ active \in Nat
    /\ hosts \in [Hosts -> Nat]
    /\ cur \in Conns \cup {NoConn} /\ (cur # NoConn => cur \in OnQueue)

\* What the operations on connections preserve.
Core == CoreOK /\ QueueInv /\ StateInv /\ CountInv /\ LimitInv /\ OwnInv

\* Outside check_queue() a protocol handler only runs for another try.
HandlerInv == cur # NoConn /\ ~checking => ~Waiting(cur)

\* The inductive invariant.
IInv == RestOK /\ Core /\ PhaseInv /\ SeenInv /\ HandlerInv

\* A step that changes nothing check_queue() looks at.
Unmoved ==
    /\ OnQueue' = OnQueue
    /\ \A c \in OnQueue : /\ GetPriority(conn'[c]) = GetPriority(conn[c])
                          /\ conn'[c].uri = conn[c].uri /\ conn'[c].extra = conn[c].extra
                          /\ conn'[c].state = "wait" <=> conn[c].state = "wait"

-----------------------------------------------------------------------------
(* Priorities and the lists of connections.                                *)

\* get_priority() returns the least priority that has an owner.
LEMMA PriorityFacts ==
    ASSUME NEW r, NEW m \in Nat, r.pri \in [Priorities -> 0 .. m],
           \E p \in Priorities : r.pri[p] > 0
    PROVE  /\ GetPriority(r) \in Priorities /\ r.pri[GetPriority(r)] > 0
           /\ \A q \in Priorities : q < GetPriority(r) => r.pri[q] = 0
           /\ \A p \in Priorities :
                r.pri[p] > 0 /\ (\A q \in Priorities : q < p => r.pri[q] = 0)
                    => p = GetPriority(r)
<1> DEFINE T == {p \in Priorities : r.pri[p] > 0}
           Least(p) == r.pri[p] > 0 /\ \A q \in Priorities : q < p => r.pri[q] = 0
<1>0. Priorities \subseteq Nat
  BY ConnectionAssumption DEF Priorities
<1>1. T \in SUBSET Nat /\ T # {}
  BY <1>0
<1>2. PICK x \in T : \A y \in T : x <= y
  <2> HIDE DEF T
  <2> QED BY <1>1, LeastExists
<1>3. x \in Priorities /\ Least(x)
  <2>1. ASSUME NEW q \in Priorities, q < x PROVE r.pri[q] = 0
    <3>1. q \in Nat /\ x \in Nat /\ r.pri[q] \in Nat
      BY <1>0
    <3>2. q \notin T
      BY <1>2, <2>1, <3>1
    <3> QED BY <3>1, <3>2
  <2> QED BY <1>2, <2>1
<1>4. GetPriority(r) = CHOOSE p \in Priorities : Least(p)
  BY DEF GetPriority
<1>5. GetPriority(r) \in Priorities /\ Least(GetPriority(r))
  <2> HIDE DEF Least
  <2> QED BY <1>3, <1>4
<1>6. ASSUME NEW a \in Priorities, NEW b \in Priorities, Least(a), Least(b) PROVE a = b
  <2>1. a \in Nat /\ b \in Nat /\ ~(a < b) /\ ~(b < a)
    BY <1>0, <1>6
  <2> QED BY <2>1
<1> QED BY <1>5, <1>6

\* A list has what stands on it.
LEMMA ElemsFacts ==
    ASSUME NEW S, NEW q \in Seq(S)
    PROVE  /\ Len(q) \in Nat /\ Elems(q) \subseteq S
           /\ \A i \in 1 .. Len(q) : q[i] \in S /\ q[i] \in Elems(q)
BY ElementOfSeq DEF Elems

\* add_to_queue() keeps the queue sorted.
LEMMA AddFacts ==
    ASSUME NEW cs, NEW q \in Seq(Conns), NEW c \in Conns, c \notin Elems(q), Ranked(cs, q),
           \A x \in Elems(q) \cup {c} : GetPriority(cs[x]) \in Nat
    PROVE  /\ AddToQueue(cs, q, c) \in Seq(Conns)
           /\ Elems(AddToQueue(cs, q, c)) = Elems(q) \cup {c}
           /\ Ranked(cs, AddToQueue(cs, q, c))
<1> DEFINE P(x) == GetPriority(cs[x])
           N == Len(q)
           ahead == {n \in 0 .. N : \A i \in 1 .. n : P(q[i]) <= P(c)}
           m == Max(ahead)
<1>0. /\ N \in Nat /\ \A i \in 1 .. N : q[i] \in Conns /\ q[i] \in Elems(q) /\ P(q[i]) \in Nat /\ q[i] # c
      /\ P(c) \in Nat
  BY ElemsFacts
<1>00. \A i, j \in 1 .. N : i < j => q[i] # q[j] /\ P(q[i]) <= P(q[j])
  BY DEF Ranked
<1> HIDE DEF P
<1>1. ahead \in SUBSET (0 .. N) /\ 0 \in ahead
  BY <1>0
<1>2. m \in ahead /\ \A y \in ahead : m >= y
  <2> HIDE DEF ahead, N
  <2> QED BY <1>0, <1>1, MaxFacts
<1>3. m \in 0 .. N /\ \A i \in 1 .. m : P(q[i]) <= P(c)
  <2> HIDE DEF m
  <2> QED BY <1>2
<1>4. \A i \in m + 1 .. N : P(q[i]) > P(c)
  <2> HIDE DEF m
  <2>1. SUFFICES ASSUME NEW i \in m + 1 .. N PROVE P(q[i]) > P(c)
    OBVIOUS
  <2>2. i \in 1 .. N /\ m \in Nat
    BY <1>0, <1>3
  <2>3. CASE m + 1 \notin ahead
    <3>1. m + 1 \in 0 .. N
      BY <1>0, <1>3, <2>1
    <3>2. PICK k \in 1 .. m + 1 : ~(P(q[k]) <= P(c))
      BY <2>3, <3>1
    <3>3. k = m + 1
      BY <1>3, <2>2, <3>2
    <3>4. k \in 1 .. N /\ i >= k
      BY <1>0, <2>1, <2>2, <3>1, <3>2, <3>3
    <3>5. P(q[k]) <= P(q[i])
      <4>1. CASE i = k
        BY <1>0, <3>4, <4>1
      <4>2. CASE i > k
        BY <1>00, <2>2, <3>4, <4>2
      <4> QED BY <2>2, <3>4, <4>1, <4>2
    <3>6. P(q[k]) \in Nat /\ P(q[i]) \in Nat /\ P(c) \in Nat
      BY <1>0, <2>2, <3>4
    <3> QED BY <3>2, <3>5, <3>6
  <2>4. CASE m + 1 \in ahead
    <3>1. m >= m + 1 /\ m \in Nat
      BY <1>2, <2>2, <2>4
    <3> QED BY <3>1
  <2> QED BY <2>3, <2>4
<1> DEFINE r == InsertAt(q, m + 1, c)
<1>5. AddToQueue(cs, q, c) = r
  BY Zenon DEF AddToQueue, P
<1>6. m + 1 \in 1 .. N + 1
  <2> HIDE DEF m
  <2> QED BY <1>0, <1>3
<1> HIDE DEF m
<1>7. /\ r \in Seq(Conns) /\ Len(r) = N + 1
      /\ \A j \in 1 .. N + 1 : r[j] = IF j < m + 1 THEN q[j] ELSE IF j = m + 1 THEN c ELSE q[j - 1]
  <2>1. PICK k \in 1 .. Len(q) + 1 : k = m + 1
    BY <1>6
  <2>2. /\ InsertAt(q, k, c) \in Seq(Conns) /\ Len(InsertAt(q, k, c)) = Len(q) + 1
        /\ \A j \in 1 .. Len(q) + 1 :
             InsertAt(q, k, c)[j] = IF j < k THEN q[j] ELSE IF j = k THEN c ELSE q[j - 1]
    BY <2>1, InsertAtFacts
  <2>3. InsertAt(q, k, c) = r
    BY <2>1
  <2> HIDE DEF r
  <2> QED BY <2>1, <2>2, <2>3
<1> HIDE DEF r, N, ahead
<1>8. Elems(r) = Elems(q) \cup {c}
  <2>1. ASSUME NEW x \in Elems(r) PROVE x \in Elems(q) \cup {c}
    <3>1. PICK j \in 1 .. N + 1 : x = r[j]
      BY <1>7 DEF Elems
    <3>2. j \in Int /\ m \in Int
      BY <1>0, <1>3
    <3>3. CASE j < m + 1
      BY <1>0, <1>3, <1>7, <3>1, <3>3
    <3>4. CASE j = m + 1
      BY <1>7, <3>1, <3>4
    <3>5. CASE j > m + 1
      <4>1. j - 1 \in 1 .. N /\ r[j] = q[j - 1]
        BY <1>0, <1>3, <1>7, <3>5
      <4> QED BY <1>0, <3>1, <4>1
    <3> QED BY <3>2, <3>3, <3>4, <3>5
  <2>2. ASSUME NEW i \in 1 .. N PROVE q[i] \in Elems(r)
    <3>0. i \in Int /\ m \in Int
      BY <1>0, <1>3
    <3>1. CASE i <= m
      <4>1. i \in 1 .. N + 1 /\ r[i] = q[i]
        BY <1>0, <1>3, <1>7, <3>1
      <4> QED BY <1>7, <4>1 DEF Elems
    <3>2. CASE i > m
      <4>1. i + 1 \in 1 .. N + 1 /\ (i + 1) - 1 = i /\ ~(i + 1 < m + 1) /\ i + 1 # m + 1
        BY <1>0, <1>3, <3>2
      <4>2. r[i + 1] = q[i]
        BY <1>7, <4>1
      <4> QED BY <1>7, <4>1, <4>2 DEF Elems
    <3> QED BY <3>0, <3>1, <3>2
  <2>3. c \in Elems(r)
    <3>1. m + 1 \in 1 .. N + 1 /\ r[m + 1] = c
      BY <1>0, <1>3, <1>6, <1>7
    <3> QED BY <1>7, <3>1 DEF Elems
  <2>4. \A x \in Elems(q) : x \in Elems(r)
    BY <2>2 DEF Elems, N
  <2> QED BY <2>1, <2>3, <2>4
<1>9. Ranked(cs, r)
  <2>1. SUFFICES ASSUME NEW i \in 1 .. N + 1, NEW j \in 1 .. N + 1, i < j
                 PROVE  r[i] # r[j] /\ P(r[i]) <= P(r[j])
    BY <1>7 DEF Ranked, P
  <2>0. i \in Int /\ j \in Int /\ m \in Nat
    BY <1>0, <1>3
  <2>2. CASE j < m + 1
    <3>1. i \in 1 .. N /\ j \in 1 .. N /\ r[i] = q[i] /\ r[j] = q[j]
      BY <1>0, <1>3, <1>7, <2>1, <2>2
    <3> QED BY <1>00, <2>1, <3>1
  <2>3. CASE j = m + 1
    <3>1. i \in 1 .. m /\ i \in 1 .. N /\ r[i] = q[i] /\ r[j] = c
      BY <1>0, <1>3, <1>7, <2>1, <2>3
    <3> QED BY <1>0, <1>3, <3>1
  <2>4. CASE j > m + 1 /\ i < m + 1
    <3>0. i \in 1 .. N /\ j - 1 \in 1 .. N /\ i < j - 1
      BY <1>0, <1>3, <2>1, <2>4
    <3>1. r[i] = q[i] /\ r[j] = q[j - 1]
      BY <1>7, <2>0, <2>4
    <3> QED BY <1>00, <3>0, <3>1
  <2>5. CASE j > m + 1 /\ i = m + 1
    <3>1. j - 1 \in m + 1 .. N /\ j - 1 \in 1 .. N /\ r[i] = c /\ r[j] = q[j - 1]
      BY <1>0, <1>3, <1>7, <2>1, <2>5
    <3>2. q[j - 1] # c /\ P(q[j - 1]) > P(c) /\ P(q[j - 1]) \in Nat /\ P(c) \in Nat
      BY <1>0, <1>4, <3>1
    <3> QED BY <3>1, <3>2
  <2>6. CASE j > m + 1 /\ i > m + 1
    <3>0. i - 1 \in 1 .. N /\ j - 1 \in 1 .. N /\ i - 1 < j - 1
      BY <1>0, <1>3, <2>1, <2>6
    <3>1. r[i] = q[i - 1] /\ r[j] = q[j - 1]
      BY <1>7, <2>0, <2>6
    <3> QED BY <1>00, <3>0, <3>1
  <2> QED BY <2>0, <2>2, <2>3, <2>4, <2>5, <2>6
<1> QED BY <1>5, <1>7, <1>8, <1>9

\* Whatever is inserted, the queue stays a list of connections.
LEMMA AddType ==
    ASSUME NEW cs, NEW q \in Seq(Conns), NEW c \in Conns
    PROVE  AddToQueue(cs, q, c) \in Seq(Conns)
<1> DEFINE N == Len(q)
           ahead == {n \in 0 .. N : \A i \in 1 .. n :
                        GetPriority(cs[q[i]]) <= GetPriority(cs[c])}
           m == Max(ahead)
<1>0. N \in Nat
  BY ElemsFacts
<1>1. ahead \in SUBSET (0 .. N) /\ 0 \in ahead
  BY <1>0
<1>2. m \in ahead
  <2> HIDE DEF ahead, N
  <2> QED BY <1>0, <1>1, MaxFacts
<1>3. m + 1 \in 1 .. N + 1
  <2> HIDE DEF m
  <2> QED BY <1>0, <1>1, <1>2
<1>4. AddToQueue(cs, q, c) = InsertAt(q, m + 1, c)
  BY Zenon DEF AddToQueue
<1> HIDE DEF m
<1>5. PICK k \in 1 .. Len(q) + 1 : k = m + 1
  BY <1>3
<1>6. InsertAt(q, k, c) \in Seq(Conns)
  BY InsertAtFacts
<1> QED BY <1>4, <1>5, <1>6

\* del_from_list() takes elements off a list one after another.
LEMMA DelSteps ==
    ASSUME NEW q \in Seq(Conns), NEW S
    PROVE  \E d : /\ DelFromList(q, S) = d[Len(q)]
                  /\ d[0] = << >>
                  /\ \A n \in 1 .. Len(q) :
                       d[n] = IF q[n] \in S THEN d[n - 1] ELSE Append(d[n - 1], q[n])
<1> DEFINE N == Len(q)
           V == Seq(Conns)
           F == [n \in 1 .. N |-> [s \in V |-> IF q[n] \in S THEN s ELSE Append(s, q[n])]]
<1>0. N \in Nat /\ \A n \in 1 .. N : q[n] \in Conns
  BY ElemsFacts
<1>1. F \in [1 .. N -> [V -> V]]
  <2>1. \A n \in 1 .. N, s \in V : (IF q[n] \in S THEN s ELSE Append(s, q[n])) \in V
    BY <1>0
  <2> QED BY <2>1
<1>2. PICK e \in V : e = << >>
  <2>1. << >> \in V
    OBVIOUS
  <2> HIDE DEF V
  <2> QED BY <2>1
<1> HIDE DEF F, V, N
<1>3. PICK g \in [0 .. N -> V] : g[0] = e /\ \A n \in 1 .. N : g[n] = F[n][g[n - 1]]
  <2>1. N \in Nat
    BY <1>0
  <2>2. StepsOn(F, N, V)
    BY <1>1 DEF StepsOn
  <2>3. PICK g : Follows(g, F, N, V, e)
    BY <2>1, <2>2, StepByStep
  <2> QED BY <2>3 DEF Follows
<1>4. \A n \in 1 .. N : g[n] = IF q[n] \in S THEN g[n - 1] ELSE Append(g[n - 1], q[n])
  <2>1. ASSUME NEW n \in 1 .. N PROVE g[n - 1] \in V
    <3>1. n - 1 \in 0 .. N
      BY <1>0
    <3> QED BY <3>1
  <2> QED BY <1>3, <2>1 DEF F
<1> DEFINE body(n, f) == IF n = 0 THEN << >>
                         ELSE IF q[n] \in S THEN f[n - 1] ELSE Append(f[n - 1], q[n])
<1>5. \A n \in 0 .. N : g[n] = body(n, g)
  <2>1. \A n \in 0 .. N : n # 0 => n \in 1 .. N
    BY <1>0
  <2> QED BY <1>2, <1>3, <1>4, <2>1
<1>6. g = [n \in 0 .. N |-> body(n, g)]
  <2> HIDE DEF body
  <2> QED BY <1>5
<1> DEFINE d == CHOOSE f : f = [n \in 0 .. N |-> body(n, f)]
<1>7. d = [n \in 0 .. N |-> body(n, d)]
  <2> HIDE DEF body
  <2> QED BY <1>6, Zenon
<1>8. DelFromList(q, S) = d[Len(q)]
  BY Zenon DEF DelFromList, N
<1> HIDE DEF d
<1>9. \A n \in 0 .. N : d[n] = body(n, d)
  <2> HIDE DEF body
  <2> QED BY <1>7
<1>10. d[0] = << >> /\ \A n \in 1 .. N : d[n] = IF q[n] \in S THEN d[n - 1] ELSE Append(d[n - 1], q[n])
  <2>1. 0 \in 0 .. N /\ \A n \in 1 .. N : n \in 0 .. N /\ n # 0
    BY <1>0
  <2> QED BY <1>9, <2>1
<1> QED BY <1>8, <1>10 DEF N

\* What is left of a list is in the same order.
LEMMA DelFacts ==
    ASSUME NEW cs, NEW q \in Seq(Conns), NEW S, Ranked(cs, q)
    PROVE  /\ DelFromList(q, S) \in Seq(Conns)
           /\ Elems(DelFromList(q, S)) = Elems(q) \ S
           /\ Ranked(cs, DelFromList(q, S))
<1> DEFINE N == Len(q)
           P(x) == GetPriority(cs[x])
           E(n) == {q[i] : i \in 1 .. n}
           D(s, n) == s \in Seq(Conns) /\ Elems(s) = E(n) \ S /\ Ranked(cs, s)
<1>0. N \in Nat /\ \A n \in 1 .. N : q[n] \in Conns
  BY ElemsFacts
<1>1. PICK d : /\ DelFromList(q, S) = d[N]
               /\ d[0] = << >>
               /\ \A n \in 1 .. N : d[n] = IF q[n] \in S THEN d[n - 1] ELSE Append(d[n - 1], q[n])
  BY DelSteps
<1> DEFINE T == {n \in 0 .. N : D(d[n], n)}
<1>2. 0 \in T
  <2>1. << >> \in Seq(Conns) /\ Len(<< >>) = 0
    OBVIOUS
  <2>2. Elems(<< >>) = {} /\ E(0) = {}
    BY <2>1 DEF Elems
  <2>3. Ranked(cs, << >>)
    BY <2>1 DEF Ranked
  <2>4. D(<< >>, 0)
    <3> HIDE DEF E
    <3> QED BY <2>1, <2>2, <2>3
  <2> HIDE DEF D
  <2> QED BY <1>0, <1>1, <2>4
<1>3. ASSUME NEW n \in 1 .. N, n - 1 \in T PROVE n \in T
  <2> DEFINE s == d[n - 1]
  <2>1. D(s, n - 1)
    BY <1>3
  <2>2. E(n) = E(n - 1) \cup {q[n]}
    <3>1. \A i \in 1 .. n : i = n \/ i \in 1 .. n - 1
      OBVIOUS
    <3>2. \A i \in 1 .. n - 1 : i \in 1 .. n
      OBVIOUS
    <3>3. n \in 1 .. n
      OBVIOUS
    <3> QED BY <3>1, <3>2, <3>3
  <2>3. CASE q[n] \in S
    <3>1. d[n] = s
      BY <1>1, <2>3
    <3>2. E(n) \ S = E(n - 1) \ S
      <4> HIDE DEF E
      <4> QED BY <2>2, <2>3
    <3> HIDE DEF E, s
    <3>3. D(d[n], n)
      BY <2>1, <3>1, <3>2
    <3> HIDE DEF D
    <3> QED BY <3>3
  <2>4. CASE q[n] \notin S
    <3> DEFINE r == Append(s, q[n])
    <3>1. d[n] = r
      BY <1>1, <2>4
    <3>2. q[n] \in Conns /\ s \in Seq(Conns)
      BY <1>0, <2>1
    <3> HIDE DEF s
    <3> DEFINE M == Len(s)
    <3>3. M \in Nat /\ r \in Seq(Conns) /\ Len(r) = M + 1 /\ r[M + 1] = q[n] /\ \A i \in 1 .. M : r[i] = s[i]
      BY <3>2
    <3> HIDE DEF r
    <3>4. Elems(r) = Elems(s) \cup {q[n]}
      <4>1. \A i \in 1 .. M + 1 : i = M + 1 \/ i \in 1 .. M
        BY <3>3
      <4>2. (\A i \in 1 .. M : i \in 1 .. M + 1) /\ M + 1 \in 1 .. M + 1
        BY <3>3
      <4>3. \A x \in Elems(r) : x \in Elems(s) \cup {q[n]}
        BY <3>3, <4>1 DEF Elems
      <4>4. \A x \in Elems(s) : x \in Elems(r)
        BY <3>3, <4>2 DEF Elems
      <4>5. q[n] \in Elems(r)
        BY <3>3, <4>2 DEF Elems
      <4> QED BY <4>3, <4>4, <4>5
    <3>5. Elems(r) = E(n) \ S
      <4> HIDE DEF E
      <4> QED BY <2>1, <2>2, <2>4, <3>4
    <3>6. \A x \in Elems(s) : x # q[n] /\ P(x) <= P(q[n])
      <4>1. SUFFICES ASSUME NEW x \in Elems(s) PROVE x # q[n] /\ P(x) <= P(q[n])
        OBVIOUS
      <4>2. PICK i \in 1 .. n - 1 : x = q[i]
        BY <2>1, <4>1
      <4>3. i \in 1 .. N /\ i < n
        BY <1>0
      <4> QED BY <4>2, <4>3 DEF Ranked
    <3> HIDE DEF P
    <3>7. Ranked(cs, r)
      <4>1. SUFFICES ASSUME NEW i \in 1 .. M + 1, NEW j \in 1 .. M + 1, i < j
                     PROVE  r[i] # r[j] /\ P(r[i]) <= P(r[j])
        BY <3>3 DEF Ranked, P
      <4>2. i \in 1 .. M
        BY <3>3, <4>1
      <4>3. CASE j = M + 1
        <5>1. s[i] \in Elems(s)
          BY <4>2 DEF Elems
        <5> QED BY <3>3, <3>6, <4>2, <4>3, <5>1
      <4>4. CASE j # M + 1
        <5>1. j \in 1 .. M
          BY <3>3, <4>4
        <5>2. s[i] # s[j] /\ P(s[i]) <= P(s[j])
          BY <2>1, <4>1, <4>2, <5>1 DEF Ranked, P
        <5> QED BY <3>3, <4>2, <5>1, <5>2
      <4> QED BY <4>3, <4>4
    <3> HIDE DEF E
    <3>8. D(d[n], n)
      BY <3>1, <3>3, <3>5, <3>7
    <3> HIDE DEF D
    <3> QED BY <3>8
  <2> QED BY <2>3, <2>4
<1> HIDE DEF D
<1>4. N \in 0 .. N
  BY <1>0
<1>5. N \in T
  <2> HIDE DEF T, N
  <2> QED BY <1>0, <1>2, <1>3, <1>4, CountInduction
<1>6. D(d[N], N)
  BY <1>5
<1> QED BY <1>1, <1>6 DEF D, Elems

\* sort_queue() puts connection after connection into its place.
LEMMA SortSteps ==
    ASSUME NEW cs, NEW q \in Seq(Conns)
    PROVE  \E d : /\ SortQueue(cs, q) = d[Len(q)]
                  /\ d[0] = << >>
                  /\ \A n \in 1 .. Len(q) : d[n] = AddToQueue(cs, d[n - 1], q[n])
<1> DEFINE N == Len(q)
           V == Seq(Conns)
           F == [n \in 1 .. N |-> [s \in V |-> AddToQueue(cs, s, q[n])]]
<1>0. N \in Nat /\ \A n \in 1 .. N : q[n] \in Conns
  BY ElemsFacts
<1>1. F \in [1 .. N -> [V -> V]]
  <2>1. \A n \in 1 .. N, s \in V : AddToQueue(cs, s, q[n]) \in V
    BY <1>0, AddType
  <2> QED BY <2>1
<1>2. PICK e \in V : e = << >>
  <2>1. << >> \in V
    OBVIOUS
  <2> HIDE DEF V
  <2> QED BY <2>1
<1> HIDE DEF F, V, N
<1>3. PICK g \in [0 .. N -> V] : g[0] = e /\ \A n \in 1 .. N : g[n] = F[n][g[n - 1]]
  <2>1. N \in Nat
    BY <1>0
  <2>2. StepsOn(F, N, V)
    BY <1>1 DEF StepsOn
  <2>3. PICK g : Follows(g, F, N, V, e)
    BY <2>1, <2>2, StepByStep
  <2> QED BY <2>3 DEF Follows
<1>4. \A n \in 1 .. N : g[n] = AddToQueue(cs, g[n - 1], q[n])
  <2>1. ASSUME NEW n \in 1 .. N PROVE g[n - 1] \in V
    <3>1. n - 1 \in 0 .. N
      BY <1>0
    <3> QED BY <3>1
  <2> QED BY <1>3, <2>1 DEF F
<1> DEFINE body(n, f) == IF n = 0 THEN << >> ELSE AddToQueue(cs, f[n - 1], q[n])
<1>5. \A n \in 0 .. N : g[n] = body(n, g)
  <2>1. \A n \in 0 .. N : n # 0 => n \in 1 .. N
    BY <1>0
  <2> QED BY <1>2, <1>3, <1>4, <2>1
<1>6. g = [n \in 0 .. N |-> body(n, g)]
  <2> HIDE DEF body
  <2> QED BY <1>5
<1> DEFINE d == CHOOSE f : f = [n \in 0 .. N |-> body(n, f)]
<1>7. d = [n \in 0 .. N |-> body(n, d)]
  <2> HIDE DEF body
  <2> QED BY <1>6, Zenon
<1>8. SortQueue(cs, q) = d[Len(q)]
  BY Zenon DEF SortQueue, N
<1> HIDE DEF d
<1>9. \A n \in 0 .. N : d[n] = body(n, d)
  <2> HIDE DEF body
  <2> QED BY <1>7
<1>10. d[0] = << >> /\ \A n \in 1 .. N : d[n] = AddToQueue(cs, d[n - 1], q[n])
  <2>1. 0 \in 0 .. N /\ \A n \in 1 .. N : n \in 0 .. N /\ n # 0
    BY <1>0
  <2> QED BY <1>9, <2>1
<1> QED BY <1>8, <1>10 DEF N

\* sort_queue() sorts: what was on the queue is on it once, by priority.
LEMMA SortFacts ==
    ASSUME NEW cs, NEW q \in Seq(Conns),
           \A i, j \in 1 .. Len(q) : i < j => q[i] # q[j],
           \A x \in Elems(q) : GetPriority(cs[x]) \in Nat
    PROVE  /\ SortQueue(cs, q) \in Seq(Conns)
           /\ Elems(SortQueue(cs, q)) = Elems(q)
           /\ Ranked(cs, SortQueue(cs, q))
<1> DEFINE N == Len(q)
           E(n) == {q[i] : i \in 1 .. n}
           D(s, n) == s \in Seq(Conns) /\ Elems(s) = E(n) /\ Ranked(cs, s)
<1>0. N \in Nat /\ \A n \in 1 .. N : q[n] \in Conns /\ q[n] \in Elems(q)
  BY ElemsFacts
<1>1. PICK d : /\ SortQueue(cs, q) = d[N]
               /\ d[0] = << >>
               /\ \A n \in 1 .. N : d[n] = AddToQueue(cs, d[n - 1], q[n])
  BY SortSteps
<1> DEFINE T == {n \in 0 .. N : D(d[n], n)}
<1>2. 0 \in T
  <2>1. << >> \in Seq(Conns) /\ Len(<< >>) = 0
    OBVIOUS
  <2>2. Elems(<< >>) = {} /\ E(0) = {}
    BY <2>1 DEF Elems
  <2>3. Ranked(cs, << >>)
    BY <2>1 DEF Ranked
  <2>4. D(<< >>, 0)
    <3> HIDE DEF E
    <3> QED BY <2>1, <2>2, <2>3
  <2> HIDE DEF D
  <2> QED BY <1>0, <1>1, <2>4
<1>3. ASSUME NEW n \in 1 .. N, n - 1 \in T PROVE n \in T
  <2> DEFINE s == d[n - 1]
  <2>1. D(s, n - 1)
    BY <1>3
  <2>2. E(n) = E(n - 1) \cup {q[n]}
    <3>1. \A i \in 1 .. n : i = n \/ i \in 1 .. n - 1
      OBVIOUS
    <3>2. \A i \in 1 .. n - 1 : i \in 1 .. n
      OBVIOUS
    <3>3. n \in 1 .. n
      OBVIOUS
    <3> QED BY <3>1, <3>2, <3>3
  <2>3. q[n] \notin Elems(s) /\ Elems(s) \subseteq Elems(q)
    <3>1. \A i \in 1 .. n - 1 : i \in 1 .. N /\ i < n
      BY <1>0
    <3>2. \A i \in 1 .. n - 1 : q[i] # q[n] /\ q[i] \in Elems(q)
      BY <1>0, <3>1
    <3> QED BY <2>1, <3>2
  <2>4. d[n] = AddToQueue(cs, s, q[n])
    BY <1>1
  <2>5. s \in Seq(Conns) /\ Ranked(cs, s) /\ q[n] \in Conns
    BY <1>0, <2>1
  <2>6. \A x \in Elems(s) \cup {q[n]} : GetPriority(cs[x]) \in Nat
    BY <1>0, <2>3
  <2> HIDE DEF s, E
  <2>7. D(d[n], n)
    BY <2>1, <2>2, <2>3, <2>4, <2>5, <2>6, AddFacts
  <2> HIDE DEF D
  <2> QED BY <2>7
<1> HIDE DEF D
<1>4. N \in 0 .. N
  BY <1>0
<1>5. N \in T
  <2> HIDE DEF T, N
  <2> QED BY <1>0, <1>2, <1>3, <1>4, CountInduction
<1>6. D(d[N], N)
  BY <1>5
<1> QED BY <1>1, <1>6 DEF D, Elems

\* detach_connection() adds up the counters of the priorities.
LEMMA TotalSteps ==
    ASSUME NEW c, conn[c].pri \in [Priorities -> 0 .. MaxPri]
    PROVE  \E d : /\ TotalPri(c) = d[Cancel]
                  /\ d[0] = 0
                  /\ \A n \in 1 .. Cancel : d[n] = d[n - 1] + conn[c].pri[n - 1]
<1> DEFINE N == Cancel
           F == [n \in 1 .. N |-> [s \in Nat |-> s + conn[c].pri[n - 1]]]
<1>0. N \in Nat /\ MaxPri \in Nat
  BY ConnectionAssumption
<1>1. F \in [1 .. N -> [Nat -> Nat]]
  <2>1. ASSUME NEW n \in 1 .. N, NEW s \in Nat PROVE s + conn[c].pri[n - 1] \in Nat
    <3>1. n - 1 \in Priorities
      BY <1>0 DEF Priorities
    <3>2. conn[c].pri[n - 1] \in Nat
      BY <1>0, <3>1
    <3> QED BY <3>2
  <2> QED BY <2>1
<1> HIDE DEF F, N
<1>3. PICK g \in [0 .. N -> Nat] : g[0] = 0 /\ \A n \in 1 .. N : g[n] = F[n][g[n - 1]]
  <2>1. N \in Nat /\ 0 \in Nat
    BY <1>0
  <2>2. StepsOn(F, N, Nat)
    BY <1>1 DEF StepsOn
  <2>3. PICK g : Follows(g, F, N, Nat, 0)
    BY <2>1, <2>2, StepByStep
  <2> QED BY <2>3 DEF Follows
<1>4. \A n \in 1 .. N : g[n] = g[n - 1] + conn[c].pri[n - 1]
  <2>1. ASSUME NEW n \in 1 .. N PROVE g[n - 1] \in Nat
    <3>1. n - 1 \in 0 .. N
      BY <1>0
    <3> QED BY <3>1
  <2> QED BY <1>3, <2>1 DEF F
<1> DEFINE body(n, f) == IF n = 0 THEN 0 ELSE f[n - 1] + conn[c].pri[n - 1]
<1>5. \A n \in 0 .. N : g[n] = body(n, g)
  <2>1. \A n \in 0 .. N : n # 0 => n \in 1 .. N
    BY <1>0
  <2> QED BY <1>3, <1>4, <2>1
<1>6. g = [n \in 0 .. N |-> body(n, g)]
  <2> HIDE DEF body
  <2> QED BY <1>5
<1> DEFINE d == CHOOSE f : f = [n \in 0 .. N |-> body(n, f)]
<1>7. d = [n \in 0 .. N |-> body(n, d)]
  <2> HIDE DEF body
  <2> QED BY <1>6, Zenon
<1>8. TotalPri(c) = d[Cancel]
  BY Zenon DEF TotalPri, N
<1> HIDE DEF d
<1>9. \A n \in 0 .. N : d[n] = body(n, d)
  <2> HIDE DEF body
  <2> QED BY <1>7
<1>10. d[0] = 0 /\ \A n \in 1 .. N : d[n] = d[n - 1] + conn[c].pri[n - 1]
  <2>1. 0 \in 0 .. N /\ \A n \in 1 .. N : n \in 0 .. N /\ n # 0
    BY <1>0
  <2> QED BY <1>9, <2>1
<1> QED BY <1>8, <1>10 DEF N

\* When every counter is the number of owners of its priority, the sum is the
\* number of owners.
LEMMA TotalFacts ==
    ASSUME NEW c, conn[c].pri \in [Priorities -> 0 .. MaxPri],
           \A p \in 0 .. Cancel - 1 : conn[c].pri[p] = Cardinality(OwnersOf(c, p)),
           \A d \in Owners(c) : dl[d].pri \in 0 .. Cancel - 1
    PROVE  TotalPri(c) = Cardinality(Owners(c))
<1> DEFINE N == Cancel
           B(n) == {d \in Owners(c) : dl[d].pri < n}
<1>0. N \in Nat /\ IsFiniteSet(Downloads)
  BY ConnectionAssumption
<1>1. PICK t : /\ TotalPri(c) = t[N] /\ t[0] = 0
               /\ \A n \in 1 .. N : t[n] = t[n - 1] + conn[c].pri[n - 1]
  BY TotalSteps
<1>2. IsFiniteSet(Owners(c))
  <2>1. Owners(c) \subseteq Downloads
    BY DEF Owners
  <2> QED BY <1>0, <2>1, FS_Subset
<1> DEFINE T == {n \in 0 .. N : t[n] = Cardinality(B(n))}
<1>3. 0 \in T
  <2>1. B(0) = {}
    BY DEF Owners
  <2>2. Cardinality(B(0)) = 0
    BY <2>1, FS_EmptySet
  <2> QED BY <1>0, <1>1, <2>2
<1>4. ASSUME NEW n \in 1 .. N, n - 1 \in T PROVE n \in T
  <2>0. n - 1 \in 0 .. Cancel - 1 /\ n \in 0 .. N
    BY <1>0
  <2>1. B(n) = B(n - 1) \cup OwnersOf(c, n - 1) /\ B(n - 1) \cap OwnersOf(c, n - 1) = {}
    <3>1. ASSUME NEW d \in Owners(c)
          PROVE  /\ (dl[d].pri < n) <=> (dl[d].pri < n - 1 \/ dl[d].pri = n - 1)
                 /\ ~(dl[d].pri < n - 1 /\ dl[d].pri = n - 1)
      <4>1. dl[d].pri \in Int /\ n \in Int
        BY <1>0
      <4> QED BY <4>1
    <3> QED BY <3>1 DEF OwnersOf
  <2> DEFINE X == B(n - 1)
             Y == OwnersOf(c, n - 1)
  <2>2. X \subseteq Owners(c) /\ Y \subseteq Owners(c)
    BY DEF OwnersOf
  <2> HIDE DEF X, Y
  <2>3. IsFiniteSet(X) /\ IsFiniteSet(Y)
    BY <1>2, <2>2, FS_Subset
  <2>4. Cardinality(X \cup Y) = Cardinality(X) + Cardinality(Y) - Cardinality(X \cap Y)
    BY <2>3, FS_Union
  <2>5. Cardinality(X \cap Y) = 0 /\ Cardinality(X) \in Nat /\ Cardinality(Y) \in Nat
    BY <2>1, <2>3, FS_EmptySet, FS_CardinalityType DEF X, Y
  <2>6. Cardinality(X \cup Y) = Cardinality(X) + Cardinality(Y)
    BY <2>4, <2>5
  <2>7. t[n - 1] = Cardinality(X) /\ conn[c].pri[n - 1] = Cardinality(Y)
    BY <1>4, <2>0 DEF X, Y
  <2>8. B(n) = X \cup Y
    BY <2>1 DEF X, Y
  <2> HIDE DEF B
  <2> QED BY <1>1, <2>0, <2>6, <2>7, <2>8
<1>5. N \in 0 .. N
  BY <1>0
<1>6. N \in T
  <2> HIDE DEF T, N
  <2> QED BY <1>0, <1>3, <1>4, <1>5, CountInduction
<1>7. B(N) = Owners(c)
  <2>1. \A d \in Owners(c) : dl[d].pri < Cancel
    BY <1>0
  <2> QED BY <2>1
<1> HIDE DEF B
<1> QED BY <1>1, <1>6, <1>7

-----------------------------------------------------------------------------
(* Counting.                                                               *)

\* Subsets of what is on the queue are finite, and have no more elements.
LEMMA QueueFinite ==
    ASSUME NEW A \in SUBSET Conns
    PROVE  /\ IsFiniteSet(A) /\ Cardinality(A) \in Nat
           /\ \A B \in SUBSET A : Cardinality(B) \in Nat /\ Cardinality(B) <= Cardinality(A)
<1>1. IsFiniteSet(A)
  BY ConnectionAssumption, FS_Subset
<1>2. ASSUME NEW B \in SUBSET A PROVE Cardinality(B) \in Nat /\ Cardinality(B) <= Cardinality(A)
  BY <1>1, FS_Subset, FS_CardinalityType
<1> QED BY <1>1, <1>2, FS_CardinalityType

\* What a connection on the queue is.
LEMMA OnQueueFacts ==
    ASSUME Core, NEW c \in OnQueue
    PROVE  /\ c \in Conns /\ conn[c] \in ConnType /\ conn[c] # Free /\ c # NoConn
           /\ conn[c].pri \in [Priorities -> 0 .. MaxPri]
           /\ conn[c].uri \in Uris /\ conn[c].running \in BOOLEAN /\ conn[c].extra \in BOOLEAN
           /\ Priority(c) \in Priorities /\ Priority(c) \in Nat
<1>1. c \in Conns /\ conn[c] \in ConnType /\ conn[c] # Free
  BY DEF Core, CoreOK, OnQueue
<1>2. c # NoConn
  BY <1>1, ConnectionAssumption
<1>3. /\ conn[c].pri \in [Priorities -> 0 .. MaxPri]
      /\ conn[c].uri \in Uris /\ conn[c].running \in BOOLEAN /\ conn[c].extra \in BOOLEAN
  BY <1>1 DEF ConnType
<1>4. \E p \in Priorities : conn[c].pri[p] > 0
  BY DEF Core, OwnInv
<1>5. MaxPri \in Nat /\ Priorities \subseteq Nat
  BY ConnectionAssumption DEF Priorities
<1>6. Priority(c) \in Priorities
  BY <1>3, <1>4, <1>5, PriorityFacts DEF Priority
<1> QED BY <1>1, <1>2, <1>3, <1>5, <1>6

\* A connection and a free slot are different.
LEMMA NotFree == \A r \in ConnType : r # Free
BY DEF ConnType, Free

\* The greatest limits there are.
LEMMA MostFacts ==
    /\ MostConns \in Nat /\ MostToHost \in Nat
    /\ \A l \in LimitSet : /\ l.conns \in Nat /\ l.conns <= MostConns
                           /\ l.tohost \in Nat /\ l.tohost <= MostToHost
<1> DEFINE C == {l.conns : l \in LimitSet}
           H == {l.tohost : l \in LimitSet}
<1>1. \A l \in LimitSet : l.conns \in 1 .. 16 /\ l.tohost \in 1 .. 8
  BY ConnectionAssumption DEF Limit
<1>2. C \in SUBSET (0 .. 16) /\ C # {} /\ H \in SUBSET (0 .. 8) /\ H # {}
  BY <1>1, ConnectionAssumption
<1>3. \A l \in LimitSet : l.conns \in C /\ l.tohost \in H
  OBVIOUS
<1>4. MostConns = Max(C) /\ MostToHost = Max(H)
  BY DEF MostConns, MostToHost
<1> HIDE DEF C, H
<1>5. Max(C) \in C /\ \A y \in C : Max(C) >= y
  BY <1>2, MaxFacts
<1>6. Max(H) \in H /\ \A y \in H : Max(H) >= y
  BY <1>2, MaxFacts
<1>7. MostConns \in 0 .. 16 /\ \A y \in C : y \in 0 .. 16 /\ y <= MostConns
  BY <1>2, <1>4, <1>5
<1>8. MostToHost \in 0 .. 8 /\ \A y \in H : y \in 0 .. 8 /\ y <= MostToHost
  BY <1>2, <1>4, <1>6
<1> QED BY <1>3, <1>7, <1>8

\* When no more connections run, the limits are kept.
LEMMA FewerCounted ==
    ASSUME Core, Running(OnQueue)' \subseteq Running(OnQueue),
           \A c \in Running(OnQueue)' : conn'[c].uri = conn[c].uri /\ conn'[c].extra = conn[c].extra
    PROVE  LimitInv'
<1>1. Counted' \subseteq Counted /\ Counted \in SUBSET Conns
  BY DEF Counted, Running, OnQueue
<1>2. \A h \in Hosts : CountedTo(h)' \subseteq CountedTo(h) /\ CountedTo(h) \in SUBSET Conns
  BY <1>1 DEF Counted, CountedTo, HostName
<1>3. Cardinality(Counted) <= MostConns /\ \A h \in Hosts : Cardinality(CountedTo(h)) <= MostToHost
  BY DEF Core, LimitInv
<1>4. Cardinality(Counted') <= Cardinality(Counted) /\ Cardinality(Counted') \in Nat /\ Cardinality(Counted) \in Nat
  BY <1>1, QueueFinite
<1>5. \A h \in Hosts : /\ Cardinality(CountedTo(h)') <= Cardinality(CountedTo(h))
                       /\ Cardinality(CountedTo(h)') \in Nat /\ Cardinality(CountedTo(h)) \in Nat
  BY <1>2, QueueFinite
<1>6. MostConns' = MostConns /\ MostToHost' = MostToHost
  BY DEF MostConns, MostToHost
<1>7. Cardinality(Counted') <= MostConns /\ \A h \in Hosts : Cardinality(CountedTo(h)') <= MostToHost
  BY <1>3, <1>4, <1>5, MostFacts
<1> QED BY <1>6, <1>7 DEF LimitInv

\* Running connections are let go: the counters stay exact.
LEMMA CountDel ==
    ASSUME Core, NEW X \in SUBSET OnQueue,
           Running(OnQueue)' = Running(OnQueue) \ X,
           \A c \in Running(OnQueue)' : conn'[c].uri = conn[c].uri /\ conn'[c].extra = conn[c].extra,
           active' = active - Cardinality(Running(X)), hosts' = DoneHosts(X)
    PROVE  CountInv' /\ LimitInv' /\ active' \in Nat /\ hosts' \in [Hosts -> Nat]
<1> DEFINE R == Running(OnQueue)
           Y == Running(X)
<1>0. R \in SUBSET Conns /\ Y \in SUBSET R /\ R \ X = R \ Y
  BY DEF Running, OnQueue
<1>1. active = Cardinality(R) /\ \A h \in Hosts : hosts[h] = Cardinality(RunningTo(h))
  BY DEF Core, CountInv
<1>2. active' = Cardinality(R \ Y) /\ active' \in Nat
  <2>1. IsFiniteSet(R) /\ IsFiniteSet(R \ Y)
    <3>1. R \ Y \in SUBSET Conns
      BY <1>0
    <3> QED BY <1>0, <3>1, QueueFinite
  <2>2. Cardinality(R \ Y) = Cardinality(R) - Cardinality(Y)
    BY <1>0, <2>1, CardDiff
  <2>3. Cardinality(R \ Y) \in Nat
    BY <2>1, FS_CardinalityType
  <2> QED BY <1>1, <2>2, <2>3
<1>3. ASSUME NEW h \in Hosts PROVE hosts'[h] = Cardinality(RunningTo(h)') /\ hosts'[h] \in Nat
  <2> DEFINE A == RunningTo(h)
             B == {c \in Y : HostName(c) = h}
  <2>1. A \in SUBSET Conns /\ B \in SUBSET A
    BY <1>0 DEF RunningTo
  <2>2. RunningTo(h)' = A \ B
    <3>1. \A c : c \in RunningTo(h)' <=> c \in R /\ c \notin Y /\ HostOf[conn'[c].uri] = h
      BY <1>0 DEF RunningTo, HostName
    <3>2. \A c \in R : c \notin Y => HostOf[conn'[c].uri] = HostName(c)
      BY <1>0 DEF HostName
    <3> QED BY <3>1, <3>2 DEF RunningTo
  <2>3. IsFiniteSet(A) /\ Cardinality(A \ B) \in Nat
    <3>1. A \ B \in SUBSET Conns
      BY <2>1
    <3> QED BY <2>1, <3>1, QueueFinite
  <2>4. hosts'[h] = hosts[h] - Cardinality(B)
    BY DEF DoneHosts
  <2>5. Cardinality(A \ B) = Cardinality(A) - Cardinality(B)
    BY <2>1, <2>3, CardDiff
  <2>6. hosts[h] = Cardinality(A)
    BY <1>1
  <2> HIDE DEF A, B
  <2> QED BY <2>2, <2>3, <2>4, <2>5, <2>6
<1>4. hosts' \in [Hosts -> Nat]
  <2>1. hosts' = [h \in Hosts |-> hosts'[h]]
    BY DEF DoneHosts
  <2> QED BY <1>3, <2>1
<1>5. CountInv'
  BY <1>0, <1>2, <1>3 DEF CountInv
<1>6. LimitInv'
  BY <1>0, FewerCounted
<1> QED BY <1>2, <1>4, <1>5, <1>6

\* The same connections run: the counters stay exact.
LEMMA CountSame ==
    ASSUME Core, Running(OnQueue)' = Running(OnQueue),
           \A c \in Running(OnQueue) : conn'[c].uri = conn[c].uri /\ conn'[c].extra = conn[c].extra,
           active' = active, hosts' = hosts
    PROVE  CountInv' /\ LimitInv' /\ active' \in Nat /\ hosts' \in [Hosts -> Nat]
<1>1. ASSUME NEW h \in Hosts PROVE RunningTo(h)' = RunningTo(h)
  <2>1. \A c \in Running(OnQueue) : HostName(c)' = HostName(c)
    BY DEF HostName
  <2> QED BY <2>1 DEF RunningTo
<1>2. CountInv'
  BY <1>1 DEF Core, CountInv
<1>3. LimitInv'
  BY FewerCounted
<1> QED BY <1>2, <1>3 DEF Core, CoreOK

\* One more connection runs, and is counted.
LEMMA CountAdd ==
    ASSUME Core, NEW x \in Conns, x \notin Running(OnQueue),
           Running(OnQueue)' = Running(OnQueue) \cup {x},
           \A c \in Running(OnQueue) : conn'[c].uri = conn[c].uri,
           conn'[x].uri \in Uris,
           active' = active + 1, hosts' = AddHost(hosts, conn'[x].uri)
    PROVE  CountInv' /\ active' \in Nat /\ hosts' \in [Hosts -> Nat]
<1> DEFINE R == Running(OnQueue)
           g == HostOf[conn'[x].uri]
<1>0. R \in SUBSET Conns
  BY DEF Running, OnQueue
<1>1. active = Cardinality(R) /\ \A h \in Hosts : hosts[h] = Cardinality(RunningTo(h))
  BY DEF Core, CountInv
<1>2. active' = Cardinality(R \cup {x}) /\ active' \in Nat
  <2>1. IsFiniteSet(R) /\ Cardinality(R) \in Nat
    BY <1>0, QueueFinite
  <2>2. Cardinality(R \cup {x}) = Cardinality(R) + 1
    BY <2>1, FS_AddElement
  <2> HIDE DEF R
  <2> QED BY <1>1, <2>1, <2>2
<1>3. g # NoHost => g \in Hosts
  BY DEF Hosts
<1>4. ASSUME NEW h \in Hosts
      PROVE  /\ hosts'[h] = IF h = g THEN hosts[h] + 1 ELSE hosts[h]
             /\ hosts' = [k \in Hosts |-> hosts'[k]]
  <2>1. hosts \in [Hosts -> Nat] /\ h # NoHost
    BY DEF Core, CoreOK, Hosts
  <2>2. hosts' = IF g = NoHost THEN hosts ELSE [hosts EXCEPT ![g] = hosts[g] + 1]
    BY DEF AddHost
  <2> HIDE DEF g
  <2>3. CASE g = NoHost
    BY <2>1, <2>2, <2>3
  <2>4. CASE g # NoHost
    BY <1>3, <2>1, <2>2, <2>4
  <2> QED BY <2>3, <2>4
<1>5. ASSUME NEW h \in Hosts PROVE hosts'[h] = Cardinality(RunningTo(h)') /\ hosts'[h] \in Nat
  <2> DEFINE A == RunningTo(h)
  <2>1. A \in SUBSET Conns /\ x \notin A
    BY <1>0 DEF RunningTo
  <2>2. IsFiniteSet(A) /\ Cardinality(A) \in Nat /\ hosts[h] = Cardinality(A)
    BY <1>1, <2>1, QueueFinite
  <2>3. \A c \in R : HostName(c)' = HostName(c)
    BY DEF HostName
  <2>4. HostName(x)' = g
    BY DEF HostName
  <2>5. CASE h = g
    <3>1. RunningTo(h)' = A \cup {x}
      BY <2>3, <2>4, <2>5 DEF RunningTo
    <3>2. Cardinality(A \cup {x}) = Cardinality(A) + 1
      BY <2>1, <2>2, FS_AddElement
    <3> HIDE DEF A, g
    <3>3. hosts'[h] = hosts[h] + 1
      BY <1>4, <2>5
    <3> QED BY ONLY <2>2, <3>1, <3>2, <3>3
  <2>6. CASE h # g
    <3>1. RunningTo(h)' = A
      BY <2>3, <2>4, <2>6 DEF RunningTo
    <3> HIDE DEF A, g
    <3> QED BY <1>4, <2>2, <2>6, <3>1
  <2> QED BY <2>5, <2>6
<1>6. hosts' \in [Hosts -> Nat]
  <2>1. hosts \in [Hosts -> Nat]
    BY DEF Core, CoreOK
  <2>2. hosts' = IF g = NoHost THEN hosts ELSE [hosts EXCEPT ![g] = hosts[g] + 1]
    BY DEF AddHost
  <2> HIDE DEF g
  <2>3. CASE g = NoHost
    BY <2>1, <2>2, <2>3
  <2>4. CASE g # NoHost
    <3>1. g \in Hosts /\ hosts[g] + 1 \in Nat
      BY <1>3, <2>1, <2>4
    <3> QED BY <2>1, <2>2, <2>4, <3>1
  <2> QED BY <2>3, <2>4
<1>7. CountInv'
  BY <1>2, <1>5 DEF CountInv
<1> QED BY <1>2, <1>6, <1>7

\* A connection that is let go of its host and starts again at once is
\* counted as before.
LEMMA Recount ==
    ASSUME Core, NEW c \in OnQueue, conn[c].running
    PROVE  AddHost(DoneHosts({c}), conn[c].uri) = hosts /\ (active - 1) + 1 = active
<1> DEFINE g == HostOf[conn[c].uri]
           Y(h) == {x \in Running({c}) : HostName(x) = h}
<1>0. hosts \in [Hosts -> Nat] /\ active \in Nat /\ conn[c].uri \in Uris
  BY OnQueueFacts DEF Core, CoreOK
<1>1. g # NoHost => g \in Hosts
  BY <1>0 DEF Hosts
<1>2. \A h \in Hosts : Cardinality(Y(h)) = IF h = g THEN 1 ELSE 0
  <2>1. ASSUME NEW h \in Hosts, h = g PROVE Cardinality(Y(h)) = 1
    <3>1. Y(h) = {c}
      BY <2>1 DEF Running, HostName
    <3> HIDE DEF Y
    <3> QED BY <3>1, FS_Singleton
  <2>2. ASSUME NEW h \in Hosts, h # g PROVE Cardinality(Y(h)) = 0
    <3>1. Y(h) = {}
      BY <2>2 DEF Running, HostName
    <3> HIDE DEF Y
    <3> QED BY <3>1, FS_EmptySet
  <2> QED BY <2>1, <2>2
<1> DEFINE D == DoneHosts({c})
<1>3. D = [h \in Hosts |-> hosts[h] - Cardinality(Y(h))]
  BY DEF DoneHosts
<1> HIDE DEF D, Y
<1>4. D = [h \in Hosts |-> IF h = g THEN hosts[h] - 1 ELSE hosts[h]]
  BY <1>0, <1>2, <1>3
<1>5. AddHost(D, conn[c].uri) = hosts
  <2>1. CASE g = NoHost
    <3>1. \A h \in Hosts : h # g
      BY <2>1 DEF Hosts
    <3>2. D = hosts
      BY <1>0, <1>4, <3>1
    <3> QED BY <2>1, <3>2 DEF AddHost
  <2>2. CASE g # NoHost
    <3>1. AddHost(D, conn[c].uri) = [D EXCEPT ![g] = D[g] + 1]
      BY <2>2 DEF AddHost
    <3> HIDE DEF g
    <3>2. D[g] + 1 = hosts[g] /\ g \in Hosts
      BY <1>0, <1>1, <1>4, <2>2
    <3>3. [D EXCEPT ![g] = D[g] + 1] = [D EXCEPT ![g] = hosts[g]]
      BY <3>2
    <3>4. [D EXCEPT ![g] = hosts[g]] = hosts
      BY <1>0, <1>4, <3>2
    <3> QED BY <3>1, <3>3, <3>4
  <2> QED BY <2>1, <2>2
<1> QED BY <1>0, <1>5 DEF D

-----------------------------------------------------------------------------
(* What a step does to the queue.                                          *)

\* Neither the queue nor the owners change.
LEMMA SameQueue ==
    ASSUME Core, queue' = queue, dl' = dl, OnQueue' = OnQueue,
           \A c \in OnQueue : /\ conn'[c].pri = conn[c].pri
                              /\ conn'[c].detached => conn[c].detached
    PROVE  QueueInv' /\ OwnInv' /\ queue' \in Seq(Conns)
<1>1. \A i \in 1 .. Len(queue) : queue[i] \in OnQueue
  BY DEF Core, QueueInv, Elems
<1>2. \A c \in OnQueue : GetPriority(conn'[c]) = GetPriority(conn[c])
  BY DEF GetPriority
<1>3. QueueInv'
  BY <1>1, <1>2 DEF Core, QueueInv, Ranked, Elems
<1>4. \A c, p : OwnersOf(c, p)' = OwnersOf(c, p) /\ Owners(c)' = Owners(c)
  BY DEF OwnersOf, Owners, InProgress
<1>5. OwnInv'
  BY <1>4 DEF Core, OwnInv, InProgress
<1> QED BY <1>3, <1>5 DEF Core, CoreOK

\* Nothing of it changes.
LEMMA SameCore ==
    ASSUME Core, queue' = queue, conn' = conn, active' = active, hosts' = hosts, dl' = dl, cur' = cur
    PROVE  Core'
<1>1. OnQueue' = OnQueue
  BY DEF OnQueue
<1>2. CoreOK' /\ QueueInv' /\ StateInv'
  BY <1>1 DEF Core, CoreOK, QueueInv, StateInv, Waiting
<1>3. Running(OnQueue)' = Running(OnQueue)
  BY <1>1 DEF Running
<1>4. CountInv' /\ LimitInv'
  BY <1>3, CountSame
<1>5. QueueInv' /\ OwnInv'
  BY <1>1, SameQueue
<1> QED BY <1>2, <1>4, <1>5 DEF Core

\* The connections of S are ended: set_connection_state(), and then
\* free_connection_data() and done_connection().
LEMMA AbortCore ==
    ASSUME Core, NEW S \in SUBSET OnQueue, NEW r \in {"result", "nomem"}, Abort(S, r),
           cur' = IF cur \in S THEN NoConn ELSE cur
    PROVE  /\ Core' /\ OnQueue' = OnQueue \ S
           /\ \A c \in OnQueue' : conn'[c] = conn[c]
<1>1. /\ dl' = EndDownloads(S, r) /\ queue' = DelFromList(queue, S)
      /\ conn' = [c \in Conns |-> IF c \in S THEN Free ELSE conn[c]]
      /\ active' = active - Cardinality(Running(S)) /\ hosts' = DoneHosts(S)
  BY DEF Abort
<1>2. OnQueue' = OnQueue \ S /\ \A c \in OnQueue' : conn'[c] = conn[c]
  BY <1>1 DEF OnQueue
<1>3. conn' \in [Conns -> ConnType \cup {Free}]
  BY <1>1 DEF Core, CoreOK
<1>4. CountInv' /\ LimitInv' /\ active' \in Nat /\ hosts' \in [Hosts -> Nat]
  <2>1. Running(OnQueue)' = Running(OnQueue) \ S
    BY <1>2 DEF Running
  <2>2. \A c \in Running(OnQueue)' : conn'[c].uri = conn[c].uri /\ conn'[c].extra = conn[c].extra
    BY <1>2 DEF Running
  <2> QED BY <1>1, <2>1, <2>2, CountDel
<1>5. queue' \in Seq(Conns) /\ QueueInv'
  <2>1. queue \in Seq(Conns) /\ Ranked(conn, queue) /\ Elems(queue) = OnQueue
    BY DEF Core, CoreOK, QueueInv
  <2> DEFINE q == DelFromList(queue, S)
  <2>2. q \in Seq(Conns) /\ Elems(q) = Elems(queue) \ S /\ Ranked(conn, q)
    BY <2>1, DelFacts
  <2> HIDE DEF q
  <2>3. queue' = q
    BY <1>1 DEF q
  <2>4. \A i \in 1 .. Len(q) : conn'[q[i]] = conn[q[i]]
    BY <1>2, <2>1, <2>2 DEF Elems
  <2>5. Ranked(conn', q)
    BY <2>2, <2>4 DEF Ranked
  <2> QED BY <1>2, <2>1, <2>2, <2>3, <2>5 DEF QueueInv
<1>6. StateInv'
  <2>1. SUFFICES ASSUME NEW c \in OnQueue'
                 PROVE  /\ conn'[c].state = "result" => c = cur'
                        /\ c # cur' => (Waiting(c)' <=> ~conn'[c].running)
                        /\ c = cur' => conn'[c].running
    BY DEF StateInv
  <2>2. c \in OnQueue /\ c \notin S /\ conn'[c] = conn[c] /\ c # NoConn
    BY <1>2, OnQueueFacts
  <2>3. c = cur' <=> c = cur
    BY <2>2
  <2> QED BY <2>2, <2>3 DEF Core, StateInv, Waiting
<1>7. dl' \in [Downloads -> DownloadType] /\ \A d \in Downloads :
        dl'[d] = IF InProgress(d) /\ dl[d].conn \in S THEN Result(r) ELSE dl[d]
  <2>1. Result(r) \in DownloadType
    BY ConnectionAssumption DEF Result, DownloadType, Priorities
  <2> QED BY <1>1, <2>1 DEF EndDownloads, Core, CoreOK
<1>8. OwnInv'
  <2>1. Result(r).state # "progress"
    BY DEF Result
  <2>2. ASSUME NEW d \in Downloads
        PROVE  /\ InProgress(d)' <=> InProgress(d) /\ dl[d].conn \notin S
               /\ InProgress(d)' => dl'[d] = dl[d]
    BY <1>7, <2>1 DEF InProgress
  <2>3. ASSUME NEW c \in OnQueue' PROVE Owners(c)' = Owners(c) /\ \A p : OwnersOf(c, p)' = OwnersOf(c, p)
    <3>1. c \notin S
      BY <1>2
    <3>2. Owners(c)' = Owners(c) /\ \A d \in Owners(c) : dl'[d] = dl[d]
      BY <2>2, <3>1 DEF Owners
    <3> QED BY <3>2 DEF OwnersOf
  <2>4. ASSUME NEW c \in OnQueue'
        PROVE  /\ \A p \in 0 .. Cancel - 1 : conn'[c].pri[p] = Cardinality(OwnersOf(c, p)')
               /\ \E p \in Priorities : conn'[c].pri[p] > 0
               /\ conn'[c].detached => Cardinality(Owners(c)') <= 1
    BY <1>2, <2>3 DEF Core, OwnInv
  <2>5. ASSUME NEW d \in Downloads, InProgress(d)' PROVE dl'[d].conn \in OnQueue' /\ dl'[d].pri \in 0 .. Cancel - 1
    BY <1>2, <2>2, <2>5 DEF Core, OwnInv
  <2> QED BY <2>4, <2>5 DEF OwnInv
<1>9. cur' \in Conns \cup {NoConn} /\ (cur' # NoConn => cur' \in OnQueue')
  <2>1. CASE cur \in S
    BY <2>1
  <2>2. CASE cur \notin S
    BY <1>2, <2>2 DEF Core, CoreOK
  <2> QED BY <2>1, <2>2
<1> QED BY <1>2, <1>3, <1>4, <1>5, <1>6, <1>7, <1>8, <1>9 DEF Core, CoreOK

\* A connection with an owner has a priority.
LEMMA HasPriority ==
    ASSUME NEW r \in ConnType, \E p \in Priorities : r.pri[p] > 0
    PROVE  GetPriority(r) \in Nat
<1>1. MaxPri \in Nat /\ Priorities \subseteq Nat
  BY ConnectionAssumption DEF Priorities
<1>2. r.pri \in [Priorities -> 0 .. MaxPri]
  BY DEF ConnType
<1> QED BY <1>1, <1>2, PriorityFacts

\* init_connection() makes a connection with one owner.
LEMMA InitFacts ==
    ASSUME NEW u \in Uris, NEW p \in Priorities
    PROVE  /\ InitConnection(u, p) \in ConnType
           /\ \A q \in Priorities : InitConnection(u, p).pri[q] = IF q = p THEN 1 ELSE 0
           /\ \E q \in Priorities : InitConnection(u, p).pri[q] > 0
<1> DEFINE r == InitConnection(u, p)
<1>1. r.pri = [q \in Priorities |-> IF q = p THEN 1 ELSE 0]
  BY DEF InitConnection
<1>2. r.pri \in [Priorities -> 0 .. MaxPri]
  BY <1>1, ConnectionAssumption
<1>3. r \in ConnType
  BY <1>2 DEF InitConnection, ConnType
<1> QED BY <1>1, <1>3

\* One more connection is put on the queue.
LEMMA AddedQueue ==
    ASSUME Core, NEW x \in Conns \ OnQueue, NEW r \in ConnType,
           \E p \in Priorities : r.pri[p] > 0,
           conn' = [conn EXCEPT ![x] = r], queue' = AddToQueue(conn', queue, x)
    PROVE  /\ conn' \in [Conns -> ConnType \cup {Free}] /\ queue' \in Seq(Conns)
           /\ OnQueue' = OnQueue \cup {x} /\ QueueInv'
           /\ conn'[x] = r /\ \A c \in OnQueue : conn'[c] = conn[c]
<1>1. conn \in [Conns -> ConnType \cup {Free}] /\ queue \in Seq(Conns)
  BY DEF Core, CoreOK
<1>2. /\ conn' \in [Conns -> ConnType \cup {Free}] /\ conn'[x] = r
      /\ \A c \in Conns : c # x => conn'[c] = conn[c]
  BY <1>1
<1>3. OnQueue' = OnQueue \cup {x} /\ \A c \in OnQueue : conn'[c] = conn[c]
  BY <1>2, NotFree DEF OnQueue
<1>4. Elems(queue) = OnQueue /\ Ranked(conn, queue)
  BY DEF Core, QueueInv
<1>5. \A i \in 1 .. Len(queue) : queue[i] \in OnQueue
  BY <1>4 DEF Elems
<1>6. Ranked(conn', queue)
  BY <1>3, <1>4, <1>5 DEF Ranked
<1>7. \A y \in Elems(queue) \cup {x} : GetPriority(conn'[y]) \in Nat
  <2>1. \A y \in OnQueue : GetPriority(conn'[y]) \in Nat
    BY <1>3, OnQueueFacts DEF Priority
  <2> QED BY <1>2, <1>4, <2>1, HasPriority
<1>8. /\ AddToQueue(conn', queue, x) \in Seq(Conns)
      /\ Elems(AddToQueue(conn', queue, x)) = Elems(queue) \cup {x}
      /\ Ranked(conn', AddToQueue(conn', queue, x))
  <2>1. x \notin Elems(queue)
    BY <1>4
  <2>2. PICK cs : cs = conn'
    OBVIOUS
  <2>3. Ranked(cs, queue) /\ \A y \in Elems(queue) \cup {x} : GetPriority(cs[y]) \in Nat
    BY <1>6, <1>7, <2>2
  <2>4. x \in Conns
    OBVIOUS
  <2>5. /\ AddToQueue(cs, queue, x) \in Seq(Conns)
        /\ Elems(AddToQueue(cs, queue, x)) = Elems(queue) \cup {x}
        /\ Ranked(cs, AddToQueue(cs, queue, x))
    BY ONLY <1>1, <2>1, <2>3, <2>4, AddFacts
  <2> QED BY <2>2, <2>5
<1>9. QueueInv'
  BY <1>3, <1>4, <1>8 DEF QueueInv
<1> QED BY <1>2, <1>3, <1>8, <1>9

\* load_uri() of something new.
LEMMA LoadNewCore ==
    ASSUME Core, cur = NoConn, NEW d \in Downloads, NEW u \in Uris, NEW p \in 0 .. Cancel - 1,
           LoadNew(d, u, p)
    PROVE  Core'
<1>1. PICK x \in Conns \ OnQueue :
        /\ conn' = [conn EXCEPT ![x] = InitConnection(u, p)]
        /\ queue' = AddToQueue(conn', queue, x)
        /\ dl' = [dl EXCEPT ![d] = Attached(x, p)]
  BY DEF LoadNew
<1> DEFINE r == InitConnection(u, p)
<1>2. p \in Priorities /\ p \in Nat
  BY ConnectionAssumption DEF Priorities
<1>3. /\ r \in ConnType /\ \A q \in Priorities : r.pri[q] = IF q = p THEN 1 ELSE 0
      /\ \E q \in Priorities : r.pri[q] > 0
  BY <1>2, InitFacts
<1>4. r.state = "wait" /\ ~r.running /\ ~r.detached
  BY DEF InitConnection
<1> HIDE DEF r
<1>5. /\ conn' \in [Conns -> ConnType \cup {Free}] /\ queue' \in Seq(Conns)
      /\ OnQueue' = OnQueue \cup {x} /\ QueueInv'
      /\ conn'[x] = r /\ \A c \in OnQueue : conn'[c] = conn[c]
  BY <1>1, <1>3, AddedQueue DEF r
<1>6. active' = active /\ hosts' = hosts /\ cur' = cur /\ ~InProgress(d)
  BY DEF LoadNew
<1>7. CountInv' /\ LimitInv' /\ active' \in Nat /\ hosts' \in [Hosts -> Nat]
  <2>1. Running(OnQueue)' = Running(OnQueue)
    BY <1>4, <1>5 DEF Running
  <2>2. \A c \in Running(OnQueue) : conn'[c].uri = conn[c].uri /\ conn'[c].extra = conn[c].extra
    BY <1>5 DEF Running
  <2> QED BY <1>6, <2>1, <2>2, CountSame
<1>8. StateInv'
  <2>1. x # NoConn
    BY ConnectionAssumption
  <2> QED BY <1>4, <1>5, <1>6, <2>1 DEF Core, StateInv, Waiting
<1>9. /\ dl' \in [Downloads -> DownloadType] /\ dl'[d] = Attached(x, p)
      /\ \A e \in Downloads : e # d => dl'[e] = dl[e]
  <2>1. Attached(x, p) \in DownloadType
    BY <1>2 DEF Attached, DownloadType
  <2> QED BY <1>1, <2>1 DEF Core, CoreOK
<1>10. OwnInv'
  <2>0. Attached(x, p).state = "progress" /\ Attached(x, p).conn = x /\ Attached(x, p).pri = p
    BY DEF Attached
  <2>1. \A e \in Downloads : InProgress(e) => dl[e].conn \in OnQueue /\ dl[e].conn # x
    BY DEF Core, OwnInv
  <2>2. Owners(x)' = {d}
    BY <1>6, <1>9, <2>0, <2>1 DEF Owners, InProgress
  <2>3. ASSUME NEW c \in OnQueue
        PROVE  Owners(c)' = Owners(c) /\ \A q : OwnersOf(c, q)' = OwnersOf(c, q)
    <3>1. Owners(c)' = Owners(c) /\ d \notin Owners(c)
      BY <1>6, <1>9, <2>0 DEF Owners, InProgress
    <3>2. \A e \in Owners(c) : dl'[e] = dl[e]
      BY <1>9, <3>1 DEF Owners
    <3> QED BY <3>1, <3>2 DEF OwnersOf
  <2>4. ASSUME NEW c \in OnQueue'
        PROVE  /\ \A q \in 0 .. Cancel - 1 : conn'[c].pri[q] = Cardinality(OwnersOf(c, q)')
               /\ \E q \in Priorities : conn'[c].pri[q] > 0
               /\ conn'[c].detached => Cardinality(Owners(c)') <= 1
    <3>1. CASE c \in OnQueue
      BY <1>5, <2>3, <3>1 DEF Core, OwnInv
    <3>2. CASE c = x
      <4>1. ASSUME NEW q \in 0 .. Cancel - 1 PROVE conn'[x].pri[q] = Cardinality(OwnersOf(x, q)')
        <5>0. q \in Priorities
          BY ConnectionAssumption DEF Priorities
        <5>1. CASE q = p
          <6>1. OwnersOf(x, q)' = {d}
            BY <1>9, <2>0, <2>2, <5>1 DEF OwnersOf
          <6>2. conn'[x].pri[q] = 1
            BY <1>3, <1>5, <5>0, <5>1
          <6> QED BY <6>1, <6>2, FS_Singleton
        <5>2. CASE q # p
          <6>1. OwnersOf(x, q)' = {}
            BY <1>9, <2>0, <2>2, <5>2 DEF OwnersOf
          <6>2. conn'[x].pri[q] = 0
            BY <1>3, <1>5, <5>0, <5>2
          <6> QED BY <6>1, <6>2, FS_EmptySet
        <5> QED BY <5>1, <5>2
      <4> QED BY <1>3, <1>4, <1>5, <3>2, <4>1
    <3> QED BY <1>5, <3>1, <3>2
  <2>5. ASSUME NEW e \in Downloads, InProgress(e)' PROVE dl'[e].conn \in OnQueue' /\ dl'[e].pri \in 0 .. Cancel - 1
    <3>1. CASE e = d
      BY <1>5, <1>9, <2>0, <3>1
    <3>2. CASE e # d
      <4>1. dl'[e] = dl[e] /\ InProgress(e)
        BY <1>9, <2>5, <3>2 DEF InProgress
      <4> QED BY <1>5, <4>1 DEF Core, OwnInv
    <3> QED BY <3>1, <3>2
  <2> QED BY <2>4, <2>5 DEF OwnInv
<1>11. cur' \in Conns \cup {NoConn} /\ (cur' # NoConn => cur' \in OnQueue')
  BY <1>6
<1> QED BY <1>5, <1>7, <1>8, <1>9, <1>10, <1>11 DEF Core, CoreOK

\* done_keepalive_connection(): a goodbye is one more connection that runs,
\* without owner and without regard to the limits.
LEMMA DoneKeepaliveCore ==
    ASSUME Core, keep \in Seq({u \in Uris : HostOf[u] # NoHost}),
           NEW i \in 1 .. Len(keep), cur = NoConn, cur' = cur, dl' = dl, DoneKeepalive(i)
    PROVE  /\ Core' /\ OnQueue \subseteq OnQueue'
           /\ \A c \in OnQueue : conn'[c] = conn[c]
           /\ \A c \in OnQueue' \ OnQueue : ~Waiting(c)' /\ conn'[c].extra
           /\ active' >= active /\ \A h \in Hosts : hosts'[h] >= hosts[h]
<1>0. keep[i] \in Uris /\ HostOf[keep[i]] # NoHost
  BY ElementOfSeq
<1>00. active \in Nat /\ hosts \in [Hosts -> Nat]
  BY DEF Core, CoreOK
<1>1. CASE UNCHANGED <<queue, conn, active, hosts>>
  <2>0. queue' = queue /\ conn' = conn /\ active' = active /\ hosts' = hosts
    BY <1>1
  <2>1. Core'
    BY <2>0, SameCore
  <2>2. OnQueue' = OnQueue
    BY <2>0 DEF OnQueue
  <2> QED BY <1>00, <2>0, <2>1, <2>2
<1>2. ASSUME NEW x \in Conns \ OnQueue,
             conn' = [conn EXCEPT ![x] = [InitConnection(keep[i], Cancel) EXCEPT
                                            !.state = "quit", !.running = TRUE, !.extra = TRUE]],
             queue' = AddToQueue(conn', queue, x),
             hosts' = AddHost(hosts, keep[i]), active' = active + 1
      PROVE  /\ Core' /\ OnQueue \subseteq OnQueue'
             /\ \A c \in OnQueue : conn'[c] = conn[c]
             /\ \A c \in OnQueue' \ OnQueue : ~Waiting(c)' /\ conn'[c].extra
             /\ active' >= active /\ \A h \in Hosts : hosts'[h] >= hosts[h]
  <2> DEFINE b == InitConnection(keep[i], Cancel)
             r == [b EXCEPT !.state = "quit", !.running = TRUE, !.extra = TRUE]
  <2>1. Cancel \in Priorities
    BY ConnectionAssumption DEF Priorities
  <2>2. /\ b \in ConnType /\ \A q \in Priorities : b.pri[q] = IF q = Cancel THEN 1 ELSE 0
        /\ \E q \in Priorities : b.pri[q] > 0
    BY <1>0, <2>1, InitFacts
  <2>3. b.uri = keep[i] /\ ~b.detached
    BY DEF InitConnection
  <2> HIDE DEF b
  <2>4. /\ r \in ConnType /\ r.pri = b.pri /\ r.uri = keep[i] /\ r.state = "quit"
        /\ r.running /\ r.extra /\ r.detached = b.detached
    BY <2>2, <2>3 DEF ConnType
  <2>5. conn' = [conn EXCEPT ![x] = r]
    BY <1>2 DEF b
  <2> HIDE DEF r
  <2>50. ~r.detached
    BY <2>3, <2>4
  <2>6. /\ conn' \in [Conns -> ConnType \cup {Free}] /\ queue' \in Seq(Conns)
        /\ OnQueue' = OnQueue \cup {x} /\ QueueInv'
        /\ conn'[x] = r /\ \A c \in OnQueue : conn'[c] = conn[c]
    <3>1. \E p \in Priorities : r.pri[p] > 0
      BY <2>2, <2>4
    <3> QED BY <1>2, <2>4, <2>5, <3>1, AddedQueue
  <2>7. /\ Running(OnQueue)' = Running(OnQueue) \cup {x} /\ x \notin Running(OnQueue)
        /\ \A c \in Running(OnQueue) : conn'[c] = conn[c]
    BY <2>4, <2>6 DEF Running
  <2>8. CountInv' /\ active' \in Nat /\ hosts' \in [Hosts -> Nat]
    BY <1>0, <1>2, <2>4, <2>6, <2>7, CountAdd
  <2>9. LimitInv'
    <3>1. Counted' = Counted
      BY <2>4, <2>6, <2>7 DEF Counted
    <3>2. \A h \in Hosts : CountedTo(h)' = CountedTo(h)
      BY <2>7, <3>1 DEF CountedTo, HostName, Counted
    <3> QED BY <3>1, <3>2 DEF Core, LimitInv, MostConns, MostToHost
  <2>10. x # NoConn
    BY ConnectionAssumption
  <2>11. StateInv'
    BY <2>4, <2>6, <2>10 DEF Core, StateInv, Waiting
  <2>12. OwnInv'
    <3>1. \A c : Owners(c)' = Owners(c) /\ \A q : OwnersOf(c, q)' = OwnersOf(c, q)
      BY DEF Owners, OwnersOf, InProgress
    <3>2. Owners(x) = {}
      BY DEF Core, OwnInv, Owners
    <3>3. ASSUME NEW c \in OnQueue'
          PROVE  /\ \A q \in 0 .. Cancel - 1 : conn'[c].pri[q] = Cardinality(OwnersOf(c, q)')
                 /\ \E q \in Priorities : conn'[c].pri[q] > 0
                 /\ conn'[c].detached => Cardinality(Owners(c)') <= 1
      <4>1. CASE c \in OnQueue
        BY <2>6, <3>1, <4>1 DEF Core, OwnInv
      <4>2. CASE c = x
        <5>1. ASSUME NEW q \in 0 .. Cancel - 1 PROVE conn'[x].pri[q] = Cardinality(OwnersOf(x, q)')
          <6>1. q \in Priorities /\ q # Cancel
            BY ConnectionAssumption DEF Priorities
          <6>2. conn'[x].pri[q] = 0
            BY <2>2, <2>4, <2>6, <6>1
          <6>3. OwnersOf(x, q)' = {}
            BY <3>1, <3>2 DEF OwnersOf
          <6> QED BY <6>2, <6>3, FS_EmptySet
        <5>2. \E q \in Priorities : conn'[x].pri[q] > 0
          BY <2>2, <2>4, <2>6
        <5> QED BY <2>6, <2>50, <4>2, <5>1, <5>2
      <4> QED BY <2>6, <4>1, <4>2
    <3>4. \A d \in Downloads : InProgress(d)' => dl'[d].conn \in OnQueue' /\ dl'[d].pri \in 0 .. Cancel - 1
      BY <2>6 DEF Core, OwnInv, InProgress
    <3> QED BY <3>3, <3>4 DEF OwnInv
  <2>13. active' >= active /\ \A h \in Hosts : hosts'[h] >= hosts[h]
    <3> DEFINE g == HostOf[keep[i]]
    <3>1. g \in Hosts /\ g # NoHost
      BY <1>0 DEF Hosts
    <3>2. hosts' = [hosts EXCEPT ![g] = hosts[g] + 1]
      BY <1>2, <3>1 DEF AddHost
    <3> HIDE DEF g
    <3>3. \A h \in Hosts : hosts'[h] >= hosts[h]
      BY <1>00, <3>1, <3>2
    <3> QED BY <1>00, <1>2, <3>3
  <2>14. ~Waiting(x)' /\ conn'[x].extra
    BY <2>4, <2>6 DEF Waiting
  <2>15. Core'
    BY <2>6, <2>8, <2>9, <2>11, <2>12 DEF Core, CoreOK
  <2> QED BY <2>6, <2>13, <2>14, <2>15
<1> QED BY <1>1, <1>2 DEF DoneKeepalive

\* The counters of owners of one connection change: the queue is sorted
\* again, or stays sorted.
LEMMA NewCounters ==
    ASSUME Core, OnQueue' = OnQueue, conn' \in [Conns -> ConnType \cup {Free}],
           \A c \in OnQueue : /\ conn'[c].uri = conn[c].uri /\ conn'[c].running = conn[c].running
                              /\ conn'[c].extra = conn[c].extra /\ conn'[c].state = conn[c].state,
           dl' \in [Downloads -> DownloadType], queue' \in Seq(Conns), QueueInv', OwnInv',
           active' = active, hosts' = hosts, cur' = cur
    PROVE  Core'
<1>1. Running(OnQueue)' = Running(OnQueue)
  BY DEF Running
<1>2. \A c \in Running(OnQueue) : conn'[c].uri = conn[c].uri /\ conn'[c].extra = conn[c].extra
  BY DEF Running
<1>3. CountInv' /\ LimitInv' /\ active' \in Nat /\ hosts' \in [Hosts -> Nat]
  BY <1>1, <1>2, CountSame
<1>4. StateInv'
  BY DEF Core, StateInv, Waiting
<1> QED BY <1>3, <1>4 DEF Core, CoreOK

\* sort_queue(), when priorities have changed.
LEMMA SortedQueue ==
    ASSUME Core, OnQueue' = OnQueue, conn' \in [Conns -> ConnType \cup {Free}],
           \A c \in OnQueue : \E p \in Priorities : conn'[c].pri[p] > 0,
           queue' = SortQueue(conn', queue)
    PROVE  queue' \in Seq(Conns) /\ QueueInv'
<1>1. queue \in Seq(Conns) /\ Elems(queue) = OnQueue /\ Ranked(conn, queue)
  BY DEF Core, CoreOK, QueueInv
<1>2. PICK cs : cs = conn'
  OBVIOUS
<1>3. \A i, j \in 1 .. Len(queue) : i < j => queue[i] # queue[j]
  BY <1>1 DEF Ranked
<1>4. \A x \in Elems(queue) : GetPriority(cs[x]) \in Nat
  <2>1. \A x \in OnQueue : conn'[x] \in ConnType
    BY DEF OnQueue
  <2> QED BY <1>1, <1>2, <2>1, HasPriority
<1>5. /\ SortQueue(cs, queue) \in Seq(Conns)
      /\ Elems(SortQueue(cs, queue)) = Elems(queue)
      /\ Ranked(cs, SortQueue(cs, queue))
  BY ONLY <1>1, <1>3, <1>4, SortFacts
<1> QED BY <1>1, <1>2, <1>5 DEF QueueInv

\* The counters of the owners of one connection are all that changes of it.
LEMMA NewPri ==
    ASSUME Core, NEW c \in OnQueue, NEW f \in [Priorities -> 0 .. MaxPri],
           conn' = [conn EXCEPT ![c] = [conn[c] EXCEPT !.pri = f]]
    PROVE  /\ conn' \in [Conns -> ConnType \cup {Free}] /\ OnQueue' = OnQueue
           /\ conn'[c].pri = f /\ conn'[c].detached = conn[c].detached
           /\ \A e \in OnQueue : /\ conn'[e].uri = conn[e].uri /\ conn'[e].running = conn[e].running
                                 /\ conn'[e].extra = conn[e].extra /\ conn'[e].state = conn[e].state
           /\ \A e \in Conns : e # c => conn'[e] = conn[e]
<1>1. c \in Conns /\ conn[c] \in ConnType /\ conn \in [Conns -> ConnType \cup {Free}]
  BY OnQueueFacts DEF Core, CoreOK
<1> DEFINE r == [conn[c] EXCEPT !.pri = f]
<1>2. /\ r \in ConnType /\ r.pri = f /\ r.uri = conn[c].uri /\ r.running = conn[c].running
      /\ r.extra = conn[c].extra /\ r.state = conn[c].state /\ r.detached = conn[c].detached
  BY <1>1 DEF ConnType
<1>3. conn' = [conn EXCEPT ![c] = r]
  OBVIOUS
<1> HIDE DEF r
<1>4. /\ conn' \in [Conns -> ConnType \cup {Free}] /\ conn'[c] = r
      /\ \A e \in Conns : e # c => conn'[e] = conn[e]
  BY <1>1, <1>2, <1>3
<1>5. OnQueue' = OnQueue
  BY <1>2, <1>4, NotFree DEF OnQueue
<1>6. ASSUME NEW e \in OnQueue
      PROVE  /\ conn'[e].uri = conn[e].uri /\ conn'[e].running = conn[e].running
             /\ conn'[e].extra = conn[e].extra /\ conn'[e].state = conn[e].state
  <2>1. CASE e = c
    BY <1>2, <1>4, <2>1
  <2>2. CASE e # c
    BY <1>4, <2>2 DEF OnQueue
  <2> QED BY <2>1, <2>2
<1> QED BY <1>2, <1>4, <1>5, <1>6

\* The owners of a connection are finitely many.
LEMMA OwnersFinite ==
    ASSUME NEW c, NEW A \in SUBSET Owners(c)
    PROVE  IsFiniteSet(A) /\ Cardinality(A) \in Nat
<1>1. A \in SUBSET Downloads
  BY DEF Owners
<1> QED BY <1>1, ConnectionAssumption, FS_Subset, FS_CardinalityType

\* An owner that lets go of a connection is counted in one place.
LEMMA OwnerGone ==
    ASSUME NEW c, NEW q, NEW old \in Owners(c)
    PROVE  /\ Cardinality(OwnersOf(c, q) \ {old})
                = Cardinality(OwnersOf(c, q)) - IF q = dl[old].pri THEN 1 ELSE 0
           /\ q = dl[old].pri => Cardinality(OwnersOf(c, q)) >= 1
           /\ IsFiniteSet(OwnersOf(c, q) \ {old}) /\ Cardinality(OwnersOf(c, q)) \in Nat
           /\ Cardinality(OwnersOf(c, q) \ {old}) \in Nat
<1> DEFINE A == OwnersOf(c, q)
           B == A \ {old}
<1>1. /\ IsFiniteSet(A) /\ Cardinality(A) \in Nat
      /\ IsFiniteSet(B) /\ Cardinality(B) \in Nat
  <2>1. A \in SUBSET Owners(c) /\ B \in SUBSET Owners(c)
    BY DEF OwnersOf
  <2> QED BY <2>1, OwnersFinite
<1>2. CASE q = dl[old].pri
  <2>1. old \in A
    BY <1>2 DEF OwnersOf
  <2>2. Cardinality(B) = Cardinality(A) - 1
    BY <1>1, <2>1, FS_RemoveElement
  <2> HIDE DEF A, B
  <2> QED BY <1>1, <1>2, <2>2 DEF A, B
<1>3. CASE q # dl[old].pri
  <2>1. B = A
    BY <1>3 DEF OwnersOf
  <2> QED BY <1>1, <1>3, <2>1
<1> QED BY <1>2, <1>3

\* What the other connections count is as before.
LEMMA OthersOwned ==
    ASSUME Core, NEW c, OnQueue' = OnQueue,
           \A e \in Conns : e # c => conn'[e] = conn[e],
           \A e \in Conns \ {c} : Owners(e)' = Owners(e) /\ \A d \in Owners(e) : dl'[d] = dl[d]
    PROVE  \A e \in OnQueue : e # c =>
               /\ \A q \in 0 .. Cancel - 1 : conn'[e].pri[q] = Cardinality(OwnersOf(e, q)')
               /\ \E q \in Priorities : conn'[e].pri[q] > 0
               /\ conn'[e].detached => Cardinality(Owners(e)') <= 1
<1>1. SUFFICES ASSUME NEW e \in OnQueue, e # c
               PROVE  /\ \A q \in 0 .. Cancel - 1 : conn'[e].pri[q] = Cardinality(OwnersOf(e, q)')
                      /\ \E q \in Priorities : conn'[e].pri[q] > 0
                      /\ conn'[e].detached => Cardinality(Owners(e)') <= 1
  OBVIOUS
<1>2. e \in Conns \ {c} /\ conn'[e] = conn[e]
  BY <1>1 DEF OnQueue
<1>3. \A q : OwnersOf(e, q)' = OwnersOf(e, q)
  BY <1>2 DEF OwnersOf
<1> QED BY <1>2, <1>3 DEF Core, OwnInv

\* One connection gets a higher priority and goes to its place on the queue.
LEMMA RaisedQueue ==
    ASSUME Core, NEW c \in OnQueue, OnQueue' = OnQueue,
           conn' \in [Conns -> ConnType \cup {Free}],
           \A e \in Conns : e # c => conn'[e] = conn[e],
           \E q \in Priorities : conn'[c].pri[q] > 0,
           queue' = AddToQueue(conn', DelFromList(queue, {c}), c)
    PROVE  queue' \in Seq(Conns) /\ QueueInv'
<1> DEFINE left == DelFromList(queue, {c})
<1>1. queue \in Seq(Conns) /\ Elems(queue) = OnQueue /\ Ranked(conn, queue)
  BY DEF Core, CoreOK, QueueInv
<1>2. left \in Seq(Conns) /\ Elems(left) = OnQueue \ {c} /\ Ranked(conn, left)
  BY <1>1, DelFacts
<1> HIDE DEF left
<1>3. PICK cs : cs = conn'
  OBVIOUS
<1>4. \A i \in 1 .. Len(left) : cs[left[i]] = conn[left[i]]
  <2>1. \A i \in 1 .. Len(left) : left[i] \in OnQueue \ {c}
    BY <1>2 DEF Elems
  <2> QED BY <1>3, <2>1 DEF OnQueue
<1>5. Ranked(cs, left)
  BY <1>2, <1>4 DEF Ranked
<1>6. \A x \in Elems(left) \cup {c} : GetPriority(cs[x]) \in Nat
  <2>1. c \in Conns /\ cs[c] \in ConnType /\ GetPriority(cs[c]) \in Nat
    BY <1>3, HasPriority DEF OnQueue
  <2>2. \A x \in OnQueue \ {c} : GetPriority(cs[x]) \in Nat
    <3>1. \A x \in OnQueue \ {c} : cs[x] = conn[x]
      BY <1>3 DEF OnQueue
    <3> QED BY <3>1, OnQueueFacts DEF Priority
  <2> QED BY <1>2, <2>1, <2>2
<1>7. c \in Conns /\ c \notin Elems(left)
  BY <1>2 DEF OnQueue
<1>8. /\ AddToQueue(cs, left, c) \in Seq(Conns)
      /\ Elems(AddToQueue(cs, left, c)) = Elems(left) \cup {c}
      /\ Ranked(cs, AddToQueue(cs, left, c))
  BY ONLY <1>2, <1>5, <1>6, <1>7, AddFacts
<1>9. queue' = AddToQueue(cs, left, c)
  BY <1>3 DEF left
<1> QED BY <1>2, <1>3, <1>8, <1>9 DEF QueueInv

\* load_uri() of something a connection on the queue already fetches.  Where
\* that does not raise the connection, the scheduler sees no difference.
LEMMA LoadJoinCore ==
    ASSUME Core, cur = NoConn, NEW d \in Downloads, NEW u \in Uris, NEW p \in 0 .. Cancel - 1,
           LoadJoin(d, u, p)
    PROVE  Core' /\ (bh' \/ Unmoved)
<1>1. PICK i \in 1 .. Len(queue) :
        /\ Joinable(queue[i], u)
        /\ conn[queue[i]].pri[p] < MaxPri
        /\ conn' = [conn EXCEPT ![queue[i]].pri[p] = @ + 1]
        /\ queue' = IF Priority(queue[i]) > p
                    THEN AddToQueue([conn EXCEPT ![queue[i]].pri[p] = @ + 1],
                                    DelFromList(queue, {queue[i]}), queue[i])
                    ELSE queue
        /\ bh' = (bh \/ Priority(queue[i]) > p)
        /\ dl' = [dl EXCEPT ![d] = Attached(queue[i], p)]
  BY DEF LoadJoin
<1>2. PICK c \in OnQueue : c = queue[i]
  BY DEF Core, QueueInv, Elems
<1>3. /\ ~conn[c].detached /\ conn[c].pri[p] < MaxPri
      /\ conn' = [conn EXCEPT ![c] = [conn[c] EXCEPT !.pri = [conn[c].pri EXCEPT ![p] = conn[c].pri[p] + 1]]]
      /\ queue' = IF Priority(c) > p THEN AddToQueue(conn', DelFromList(queue, {c}), c) ELSE queue
      /\ dl' = [dl EXCEPT ![d] = Attached(c, p)]
  BY <1>1, <1>2 DEF Joinable
<1>4. p \in Priorities /\ p \in Nat /\ Priorities \subseteq Nat /\ MaxPri \in Nat
  BY ConnectionAssumption DEF Priorities
<1>5. /\ c \in Conns /\ conn[c].pri \in [Priorities -> 0 .. MaxPri]
      /\ Priority(c) \in Priorities /\ Priority(c) \in Nat
  BY OnQueueFacts
<1> DEFINE f == [conn[c].pri EXCEPT ![p] = conn[c].pri[p] + 1]
<1>6. /\ f \in [Priorities -> 0 .. MaxPri]
      /\ \A q \in Priorities : f[q] = IF q = p THEN conn[c].pri[q] + 1 ELSE conn[c].pri[q]
      /\ f[p] > 0
  BY <1>3, <1>4, <1>5
<1>7. conn' = [conn EXCEPT ![c] = [conn[c] EXCEPT !.pri = f]]
  BY <1>3
<1> HIDE DEF f
<1>8. /\ conn' \in [Conns -> ConnType \cup {Free}] /\ OnQueue' = OnQueue
      /\ conn'[c].pri = f /\ conn'[c].detached = conn[c].detached
      /\ \A e \in OnQueue : /\ conn'[e].uri = conn[e].uri /\ conn'[e].running = conn[e].running
                            /\ conn'[e].extra = conn[e].extra /\ conn'[e].state = conn[e].state
      /\ \A e \in Conns : e # c => conn'[e] = conn[e]
  BY <1>6, <1>7, NewPri
<1>9. \E q \in Priorities : conn'[c].pri[q] > 0
  BY <1>4, <1>6, <1>8
<1>17. ASSUME ~(Priority(c) > p) PROVE \A e \in OnQueue : GetPriority(conn'[e]) = GetPriority(conn[e])
  <2>0. PICK P \in Priorities : P = Priority(c)
    BY <1>5
  <2>1. /\ conn[c].pri[P] > 0 /\ \A q \in Priorities : q < P => conn[c].pri[q] = 0
    <3>1. \E q \in Priorities : conn[c].pri[q] > 0
      BY DEF Core, OwnInv
    <3> QED BY <1>4, <1>5, <2>0, <3>1, PriorityFacts DEF Priority
  <2>2. f[P] > 0 /\ \A q \in Priorities : q < P => f[q] = 0
    <3>1. P \in Nat /\ P <= p /\ conn[c].pri[P] \in Nat
      BY <1>4, <1>5, <1>17, <2>0
    <3>2. f[P] > 0
      BY <1>6, <2>1, <3>1
    <3>3. ASSUME NEW q \in Priorities, q < P PROVE f[q] = 0
      <4>1. q # p
        BY <1>4, <3>1, <3>3
      <4> QED BY <1>6, <2>1, <3>3, <4>1
    <3> QED BY <3>2, <3>3
  <2>3. GetPriority(conn'[c]) = P
    <3>1. PICK r : r = conn'[c]
      OBVIOUS
    <3>2. r.pri = f
      BY <1>8, <3>1
    <3>3. \E q \in Priorities : r.pri[q] > 0
      BY <1>4, <1>6, <3>2
    <3>4. r.pri \in [Priorities -> 0 .. MaxPri]
      BY <1>6, <3>2
    <3>5. P = GetPriority(r)
      BY ONLY <1>4, <2>0, <2>2, <3>2, <3>3, <3>4, PriorityFacts
    <3> QED BY <3>1, <3>5
  <2> QED BY <1>8, <2>0, <2>3 DEF Priority, OnQueue
<1>10. queue' \in Seq(Conns) /\ QueueInv'
  <2>1. CASE Priority(c) > p
    BY <1>3, <1>8, <1>9, <2>1, RaisedQueue
  <2>2. CASE ~(Priority(c) > p)
    <3>4. \A e \in OnQueue : GetPriority(conn'[e]) = GetPriority(conn[e])
      BY <1>17, <2>2
    <3>5. queue' = queue
      BY <1>3, <2>2
    <3>6. \A j \in 1 .. Len(queue) : queue[j] \in OnQueue
      BY DEF Core, QueueInv, Elems
    <3>7. OnQueue = Elems(queue) /\ Ranked(conn, queue) /\ queue \in Seq(Conns)
      BY DEF Core, CoreOK, QueueInv
    <3>8. Ranked(conn', queue)
      BY <3>4, <3>6, <3>7 DEF Ranked
    <3>9. Elems(queue)' = Elems(queue) /\ Ranked(conn, queue)'
      BY <3>5, <3>8 DEF Elems
    <3> QED BY <1>8, <3>5, <3>7, <3>9 DEF QueueInv
  <2> QED BY <2>1, <2>2
<1>11. active' = active /\ hosts' = hosts /\ cur' = cur /\ ~InProgress(d)
  BY DEF LoadJoin
<1>12. /\ dl' \in [Downloads -> DownloadType] /\ dl'[d] = Attached(c, p)
       /\ \A e \in Downloads : e # d => dl'[e] = dl[e]
  <2>1. Attached(c, p) \in DownloadType
    BY <1>4, <1>5 DEF Attached, DownloadType
  <2> QED BY <1>3, <2>1 DEF Core, CoreOK
<1>13. OwnInv'
  <2>0. Attached(c, p).state = "progress" /\ Attached(c, p).conn = c /\ Attached(c, p).pri = p
    BY DEF Attached
  <2>1. Owners(c)' = Owners(c) \cup {d} /\ d \notin Owners(c)
    BY <1>11, <1>12, <2>0 DEF Owners, InProgress
  <2>2. \A e \in Conns \ {c} : Owners(e)' = Owners(e) /\ d \notin Owners(e)
    BY <1>11, <1>12, <2>0 DEF Owners, InProgress
  <2>3. \A e \in Conns \ {c} : \A x \in Owners(e) : dl'[x] = dl[x]
    BY <1>12, <2>2 DEF Owners
  <2>4. \A e \in OnQueue : e # c =>
          /\ \A q \in 0 .. Cancel - 1 : conn'[e].pri[q] = Cardinality(OwnersOf(e, q)')
          /\ \E q \in Priorities : conn'[e].pri[q] > 0
          /\ conn'[e].detached => Cardinality(Owners(e)') <= 1
    BY <1>8, <2>2, <2>3, OthersOwned
  <2>5. ASSUME NEW q \in 0 .. Cancel - 1 PROVE conn'[c].pri[q] = Cardinality(OwnersOf(c, q)')
    <3>0. q \in Priorities /\ conn[c].pri[q] = Cardinality(OwnersOf(c, q))
      BY ConnectionAssumption DEF Priorities, Core, OwnInv
    <3>1. IsFiniteSet(OwnersOf(c, q)) /\ d \notin OwnersOf(c, q)
      <4>1. OwnersOf(c, q) \in SUBSET Owners(c)
        BY DEF OwnersOf
      <4> QED BY <2>1, <4>1, OwnersFinite
    <3>2. \A x \in Owners(c) : dl'[x] = dl[x]
      BY <1>12, <2>1 DEF Owners
    <3>3. CASE q = p
      <4>1. OwnersOf(c, q)' = OwnersOf(c, q) \cup {d}
        BY <1>12, <2>0, <2>1, <3>2, <3>3 DEF OwnersOf
      <4>2. Cardinality(OwnersOf(c, q) \cup {d}) = Cardinality(OwnersOf(c, q)) + 1
        BY <3>1, FS_AddElement
      <4> QED BY <1>6, <1>8, <3>0, <3>3, <4>1, <4>2
    <3>4. CASE q # p
      <4>1. OwnersOf(c, q)' = OwnersOf(c, q)
        BY <1>12, <2>0, <2>1, <3>2, <3>4 DEF OwnersOf
      <4> QED BY <1>6, <1>8, <3>0, <3>4, <4>1
    <3> QED BY <3>3, <3>4
  <2>6. ~conn'[c].detached
    BY <1>3, <1>8
  <2>7. ASSUME NEW e \in Downloads, InProgress(e)' PROVE dl'[e].conn \in OnQueue' /\ dl'[e].pri \in 0 .. Cancel - 1
    <3>1. CASE e = d
      BY <1>8, <1>12, <2>0, <3>1
    <3>2. CASE e # d
      <4>1. dl'[e] = dl[e] /\ InProgress(e)
        BY <1>12, <2>7, <3>2 DEF InProgress
      <4> QED BY <1>8, <4>1 DEF Core, OwnInv
    <3> QED BY <3>1, <3>2
  <2>8. ASSUME NEW e \in OnQueue'
        PROVE  /\ \A q \in 0 .. Cancel - 1 : conn'[e].pri[q] = Cardinality(OwnersOf(e, q)')
               /\ \E q \in Priorities : conn'[e].pri[q] > 0
               /\ conn'[e].detached => Cardinality(Owners(e)') <= 1
    <3>1. CASE e = c
      BY <1>9, <2>5, <2>6, <3>1
    <3>2. CASE e # c
      BY <1>8, <2>4, <3>2
    <3> QED BY <3>1, <3>2
  <2> QED BY <2>7, <2>8 DEF OwnInv
<1>14. Core'
  BY <1>8, <1>10, <1>11, <1>12, <1>13, NewCounters
<1>15. bh' \/ ~(Priority(c) > p)
  BY <1>1, <1>2
<1>16. bh' \/ Unmoved
  BY <1>8, <1>15, <1>17 DEF Unmoved
<1> QED BY <1>14, <1>16

\* conn->pri[old->pri]--, conn->pri[newpri]++: nobody is counted twice or
\* forgotten, and somebody or PRI_CANCEL is left.
LEMMA MovedFacts ==
    ASSUME Core, NEW old \in Downloads, InProgress(old), NEW p \in Priorities,
           conn[dl[old].conn].pri[p] < MaxPri, conn' = MovedOwner(dl[old].conn, old, p)
    PROVE  LET c == dl[old].conn IN
           /\ c \in OnQueue /\ old \in Owners(c)
           /\ conn' \in [Conns -> ConnType \cup {Free}] /\ OnQueue' = OnQueue
           /\ \A q \in Priorities : conn'[c].pri[q] =
                (conn[c].pri[q] + IF q = p THEN 1 ELSE 0) - IF q = dl[old].pri THEN 1 ELSE 0
           /\ \E q \in Priorities : conn'[c].pri[q] > 0
           /\ conn'[c].detached = conn[c].detached
           /\ \A e \in OnQueue : /\ conn'[e].uri = conn[e].uri /\ conn'[e].running = conn[e].running
                                 /\ conn'[e].extra = conn[e].extra /\ conn'[e].state = conn[e].state
           /\ \A e \in Conns : e # c => conn'[e] = conn[e]
<1>0. PICK c \in OnQueue : c = dl[old].conn /\ dl[old].pri \in 0 .. Cancel - 1
  BY DEF Core, OwnInv
<1>1. old \in Owners(c) /\ c \in Conns
  BY <1>0 DEF Owners, OnQueue
<1>2. PICK b \in 0 .. Cancel - 1 : b = dl[old].pri
  BY <1>0
<1>3. b \in Priorities /\ MaxPri \in Nat /\ Priorities \subseteq Nat
  BY ConnectionAssumption DEF Priorities
<1>4. conn[c].pri[b] >= 1
  <2>1. conn[c].pri[b] = Cardinality(OwnersOf(c, b))
    BY DEF Core, OwnInv
  <2>2. b = dl[old].pri => Cardinality(OwnersOf(c, b)) >= 1
    BY ONLY <1>1, OwnerGone, Zenon
  <2> QED BY <1>2, <2>1, <2>2
<1> DEFINE g == conn[c].pri
           f == [q \in Priorities |-> (g[q] + IF q = p THEN 1 ELSE 0) - IF q = b THEN 1 ELSE 0]
<1>5. g \in [Priorities -> 0 .. MaxPri]
  BY OnQueueFacts
<1>6. g[p] < MaxPri /\ g[b] >= 1
  BY <1>0, <1>4
<1>7. conn' = [conn EXCEPT ![c] = [conn[c] EXCEPT !.pri = f]]
  <2>1. conn' = MovedOwner(c, old, p)
    BY <1>0
  <2> QED BY <1>2, <2>1 DEF MovedOwner
<1> HIDE DEF g
<1>8. f \in [Priorities -> 0 .. MaxPri]
  <2>1. ASSUME NEW q \in Priorities
        PROVE  (g[q] + IF q = p THEN 1 ELSE 0) - (IF q = b THEN 1 ELSE 0) \in 0 .. MaxPri
    <3>1. g[q] \in 0 .. MaxPri
      BY <1>5
    <3> QED BY <1>3, <1>6, <3>1
  <2> QED BY <2>1
<1>9. f[p] > 0
  <2>1. g[p] \in 0 .. MaxPri
    BY <1>5
  <2> QED BY <1>3, <1>6, <2>1
<1>10. \A q \in Priorities : f[q] = (g[q] + IF q = p THEN 1 ELSE 0) - IF q = b THEN 1 ELSE 0
  OBVIOUS
<1> HIDE DEF f
<1>11. /\ conn' \in [Conns -> ConnType \cup {Free}] /\ OnQueue' = OnQueue
       /\ conn'[c].pri = f /\ conn'[c].detached = conn[c].detached
       /\ \A e \in OnQueue : /\ conn'[e].uri = conn[e].uri /\ conn'[e].running = conn[e].running
                             /\ conn'[e].extra = conn[e].extra /\ conn'[e].state = conn[e].state
       /\ \A e \in Conns : e # c => conn'[e] = conn[e]
  BY <1>7, <1>8, NewPri
<1>12. /\ \A q \in Priorities : conn'[c].pri[q] =
            (conn[c].pri[q] + IF q = p THEN 1 ELSE 0) - IF q = b THEN 1 ELSE 0
       /\ \E q \in Priorities : conn'[c].pri[q] > 0
  BY <1>9, <1>10, <1>11 DEF g
<1> QED BY <1>0, <1>1, <1>2, <1>11, <1>12

\* All connections still have an owner or PRI_CANCEL.
LEMMA AllOwned ==
    ASSUME Core, NEW c \in OnQueue, OnQueue' = OnQueue,
           \E q \in Priorities : conn'[c].pri[q] > 0,
           \A e \in Conns : e # c => conn'[e] = conn[e]
    PROVE  \A e \in OnQueue : \E q \in Priorities : conn'[e].pri[q] > 0
<1>1. SUFFICES ASSUME NEW e \in OnQueue PROVE \E q \in Priorities : conn'[e].pri[q] > 0
  OBVIOUS
<1>2. CASE e = c
  BY <1>2
<1>3. CASE e # c
  <2>1. conn'[e] = conn[e]
    BY <1>3 DEF OnQueue
  <2> QED BY <2>1 DEF Core, OwnInv
<1> QED BY <1>2, <1>3

\* change_connection() to a new owner or to another priority.
LEMMA ChangeCore ==
    ASSUME Core, NEW old \in Downloads, NEW new \in Downloads, NEW p \in 0 .. Cancel - 1,
           ChangeConnection(old, new, p)
    PROVE  Core'
<1>1. PICK c : c = dl[old].conn
  OBVIOUS
<1>2. /\ InProgress(old) /\ (new = old \/ ~InProgress(new))
      /\ conn[c].pri[p] < MaxPri /\ conn' = MovedOwner(c, old, p)
      /\ queue' = SortQueue(conn', queue)
      /\ dl' = [[dl EXCEPT ![old] = Result("result")] EXCEPT ![new] = Attached(c, p)]
      /\ active' = active /\ hosts' = hosts /\ cur' = cur
  BY <1>1 DEF ChangeConnection
<1>3. p \in Priorities
  BY ConnectionAssumption DEF Priorities
<1>4. /\ c \in OnQueue /\ old \in Owners(c)
      /\ conn' \in [Conns -> ConnType \cup {Free}] /\ OnQueue' = OnQueue
      /\ \A q \in Priorities : conn'[c].pri[q] =
           (conn[c].pri[q] + IF q = p THEN 1 ELSE 0) - IF q = dl[old].pri THEN 1 ELSE 0
      /\ \E q \in Priorities : conn'[c].pri[q] > 0
      /\ conn'[c].detached = conn[c].detached
      /\ \A e \in OnQueue : /\ conn'[e].uri = conn[e].uri /\ conn'[e].running = conn[e].running
                            /\ conn'[e].extra = conn[e].extra /\ conn'[e].state = conn[e].state
      /\ \A e \in Conns : e # c => conn'[e] = conn[e]
  BY <1>1, <1>2, <1>3, MovedFacts
<1>5. queue' \in Seq(Conns) /\ QueueInv'
  <2>1. \A e \in OnQueue : \E q \in Priorities : conn'[e].pri[q] > 0
    BY <1>4, AllOwned
  <2> QED BY <1>2, <1>4, <2>1, SortedQueue
<1>6. c \in Conns
  BY <1>4 DEF OnQueue
<1>7. /\ dl' \in [Downloads -> DownloadType] /\ dl'[new] = Attached(c, p)
      /\ old # new => dl'[old] = Result("result")
      /\ \A e \in Downloads : e # old /\ e # new => dl'[e] = dl[e]
  <2>1. Attached(c, p) \in DownloadType /\ Result("result") \in DownloadType
    BY <1>3, <1>6, ConnectionAssumption DEF Attached, Result, DownloadType, Priorities
  <2> QED BY <1>2, <2>1 DEF Core, CoreOK
<1>8. OwnInv'
  <2>0. /\ Attached(c, p).state = "progress" /\ Attached(c, p).conn = c /\ Attached(c, p).pri = p
        /\ Result("result").state # "progress"
    BY DEF Attached, Result
  <2>1. /\ Owners(c)' = (Owners(c) \ {old}) \cup {new}
        /\ \A x \in Owners(c) \ {old} : x # new /\ dl'[x] = dl[x]
    <3>1. \A x \in Owners(c) \ {old} : x # new /\ dl'[x] = dl[x]
      BY <1>2, <1>7 DEF Owners
    <3>2. ASSUME NEW x \in Downloads PROVE x \in Owners(c)' <=> x \in (Owners(c) \ {old}) \cup {new}
      <4>1. CASE x = new
        BY <1>7, <2>0, <4>1 DEF Owners, InProgress
      <4>2. CASE x # new /\ x = old
        BY <1>7, <2>0, <4>2 DEF Owners, InProgress
      <4>3. CASE x # new /\ x # old
        BY <1>7, <4>3 DEF Owners, InProgress
      <4> QED BY <4>1, <4>2, <4>3
    <3>3. Owners(c)' \subseteq Downloads /\ (Owners(c) \ {old}) \cup {new} \subseteq Downloads
      BY DEF Owners
    <3>4. Owners(c)' = (Owners(c) \ {old}) \cup {new}
      BY <3>2, <3>3
    <3> QED BY <3>1, <3>4
  <2>2. ASSUME NEW e \in Conns \ {c} PROVE Owners(e)' = Owners(e) /\ \A x \in Owners(e) : dl'[x] = dl[x]
    <3>1. old \notin Owners(e) /\ new \notin Owners(e)
      BY <1>1, <1>2 DEF Owners
    <3>2. \A x \in Owners(e) : dl'[x] = dl[x]
      BY <1>7, <3>1 DEF Owners
    <3>3. ASSUME NEW x \in Downloads PROVE x \in Owners(e)' <=> x \in Owners(e)
      <4>1. CASE x = new
        BY <1>7, <2>0, <3>1, <4>1 DEF Owners, InProgress
      <4>2. CASE x # new /\ x = old
        BY <1>7, <2>0, <3>1, <4>2 DEF Owners, InProgress
      <4>3. CASE x # new /\ x # old
        BY <1>7, <4>3 DEF Owners, InProgress
      <4> QED BY <4>1, <4>2, <4>3
    <3>4. Owners(e)' \subseteq Downloads /\ Owners(e) \subseteq Downloads
      BY DEF Owners
    <3> QED BY <3>2, <3>3, <3>4
  <2>3. \A e \in OnQueue : e # c =>
          /\ \A q \in 0 .. Cancel - 1 : conn'[e].pri[q] = Cardinality(OwnersOf(e, q)')
          /\ \E q \in Priorities : conn'[e].pri[q] > 0
          /\ conn'[e].detached => Cardinality(Owners(e)') <= 1
    BY <1>4, <2>2, OthersOwned
  <2>4. ASSUME NEW q \in 0 .. Cancel - 1 PROVE conn'[c].pri[q] = Cardinality(OwnersOf(c, q)')
    <3> DEFINE A == OwnersOf(c, q) \ {old}
    <3>0. q \in Priorities /\ conn[c].pri[q] = Cardinality(OwnersOf(c, q))
      BY <1>4, ConnectionAssumption DEF Priorities, Core, OwnInv
    <3>1. /\ Cardinality(A) = conn[c].pri[q] - IF q = dl[old].pri THEN 1 ELSE 0
          /\ IsFiniteSet(A) /\ Cardinality(A) \in Nat /\ conn[c].pri[q] \in Nat
      BY <1>4, <3>0, OwnerGone
    <3>2. conn'[c].pri[q] = (conn[c].pri[q] + IF q = p THEN 1 ELSE 0) - IF q = dl[old].pri THEN 1 ELSE 0
      BY <1>4, <3>0
    <3>3. new \notin A
      BY <2>1 DEF OwnersOf
    <3>4. CASE q = p
      <4>1. OwnersOf(c, q)' = A \cup {new}
        BY <1>7, <2>0, <2>1, <3>4 DEF OwnersOf
      <4>2. Cardinality(A \cup {new}) = Cardinality(A) + 1
        BY <3>1, <3>3, FS_AddElement
      <4> HIDE DEF A
      <4> QED BY <3>1, <3>2, <3>4, <4>1, <4>2
    <3>5. CASE q # p
      <4>1. OwnersOf(c, q)' = A
        BY <1>7, <2>0, <2>1, <3>5 DEF OwnersOf
      <4> HIDE DEF A
      <4> QED BY <3>1, <3>2, <3>5, <4>1
    <3> QED BY <3>4, <3>5
  <2>5. conn'[c].detached => Cardinality(Owners(c)') <= 1
    <3>1. SUFFICES ASSUME conn[c].detached PROVE Cardinality(Owners(c)') <= 1
      BY <1>4
    <3>2. Cardinality(Owners(c)) <= 1 /\ Owners(c) \in SUBSET Owners(c) /\ Owners(c) \ {old} \in SUBSET Owners(c)
      BY <1>4, <3>1 DEF Core, OwnInv
    <3> DEFINE W == Owners(c)
               V == W \ {old}
    <3>3. IsFiniteSet(W) /\ Cardinality(W) \in Nat /\ IsFiniteSet(V) /\ Cardinality(V) \in Nat
      BY <3>2, OwnersFinite
    <3>4. Cardinality(V) = Cardinality(W) - 1 /\ new \notin V
      BY <1>4, <2>1, <3>3, FS_RemoveElement
    <3>5. Cardinality(V \cup {new}) = Cardinality(V) + 1
      BY <3>3, <3>4, FS_AddElement
    <3>6. Owners(c)' = V \cup {new} /\ Cardinality(W) <= 1
      BY <2>1, <3>2
    <3> HIDE DEF V, W
    <3> QED BY <3>3, <3>4, <3>5, <3>6
  <2>6. ASSUME NEW e \in Downloads, InProgress(e)' PROVE dl'[e].conn \in OnQueue' /\ dl'[e].pri \in 0 .. Cancel - 1
    <3>1. CASE e = new
      BY <1>4, <1>7, <2>0, <3>1
    <3>2. CASE e # new
      <4>1. e # old
        BY <1>7, <2>0, <2>6, <3>2 DEF InProgress
      <4>2. dl'[e] = dl[e] /\ InProgress(e)
        BY <1>7, <2>6, <3>2, <4>1 DEF InProgress
      <4> QED BY <1>4, <4>2 DEF Core, OwnInv
    <3> QED BY <3>1, <3>2
  <2>7. ASSUME NEW e \in OnQueue'
        PROVE  /\ \A q \in 0 .. Cancel - 1 : conn'[e].pri[q] = Cardinality(OwnersOf(e, q)')
               /\ \E q \in Priorities : conn'[e].pri[q] > 0
               /\ conn'[e].detached => Cardinality(Owners(e)') <= 1
    <3>1. CASE e = c
      BY <1>4, <2>4, <2>5, <3>1
    <3>2. CASE e # c
      BY <1>4, <2>3, <3>2
    <3> QED BY <3>1, <3>2
  <2> QED BY <2>6, <2>7 DEF OwnInv
<1> QED BY <1>2, <1>4, <1>5, <1>7, <1>8, NewCounters

\* Connections are ended while no protocol handler runs.
LEMMA AbortIdle ==
    ASSUME Core, cur = NoConn, cur' = cur, NEW S \in SUBSET OnQueue,
           NEW r \in {"result", "nomem"}, Abort(S, r)
    PROVE  /\ Core' /\ OnQueue' = OnQueue \ S
           /\ \A c \in OnQueue' : conn'[c] = conn[c]
<1>1. cur' = IF cur \in S THEN NoConn ELSE cur
  OBVIOUS
<1> QED BY <1>1, AbortCore

\* change_connection() when the owner lets go.
LEMMA CancelCore ==
    ASSUME Core, NEW old \in Downloads, NEW interrupt \in BOOLEAN, CancelDownload(old, interrupt)
    PROVE  Core'
<1>1. PICK c : c = dl[old].conn
  OBVIOUS
<1>2. InProgress(old) /\ cur = NoConn /\ cur' = cur /\ c \in OnQueue
  BY <1>1 DEF CancelDownload, User, Core, OwnInv
<1>3. CASE conn[c].detached \/ interrupt
  <2>1. Abort({c}, "result")
    BY <1>1, <1>3 DEF CancelDownload
  <2> QED BY <1>2, <2>1, AbortIdle
<1>4. CASE ~(conn[c].detached \/ interrupt)
  <2>1. /\ conn[c].pri[Cancel] < MaxPri /\ conn' = MovedOwner(c, old, Cancel)
        /\ queue' = SortQueue(conn', queue) /\ dl' = [dl EXCEPT ![old] = Result("result")]
        /\ active' = active /\ hosts' = hosts
    BY <1>1, <1>4 DEF CancelDownload
  <2>2. Cancel \in Priorities
    BY ConnectionAssumption DEF Priorities
  <2>3. /\ c \in OnQueue /\ old \in Owners(c)
        /\ conn' \in [Conns -> ConnType \cup {Free}] /\ OnQueue' = OnQueue
        /\ \A q \in Priorities : conn'[c].pri[q] =
             (conn[c].pri[q] + IF q = Cancel THEN 1 ELSE 0) - IF q = dl[old].pri THEN 1 ELSE 0
        /\ \E q \in Priorities : conn'[c].pri[q] > 0
        /\ conn'[c].detached = conn[c].detached
        /\ \A e \in OnQueue : /\ conn'[e].uri = conn[e].uri /\ conn'[e].running = conn[e].running
                              /\ conn'[e].extra = conn[e].extra /\ conn'[e].state = conn[e].state
        /\ \A e \in Conns : e # c => conn'[e] = conn[e]
    BY <1>1, <1>2, <2>1, <2>2, MovedFacts
  <2>4. queue' \in Seq(Conns) /\ QueueInv'
    <3>1. \A e \in OnQueue : \E q \in Priorities : conn'[e].pri[q] > 0
      BY <2>3, AllOwned
    <3> QED BY <2>1, <2>3, <3>1, SortedQueue
  <2>5. /\ dl' \in [Downloads -> DownloadType] /\ dl'[old] = Result("result")
        /\ \A e \in Downloads : e # old => dl'[e] = dl[e]
    <3>1. Result("result") \in DownloadType
      BY ConnectionAssumption DEF Result, DownloadType, Priorities
    <3> QED BY <2>1, <3>1 DEF Core, CoreOK
  <2>6. OwnInv'
    <3>0. Result("result").state # "progress"
      BY DEF Result
    <3>1. Owners(c)' = Owners(c) \ {old} /\ \A x \in Owners(c) \ {old} : dl'[x] = dl[x]
      BY <2>5, <3>0 DEF Owners, InProgress
    <3>2. ASSUME NEW e \in Conns \ {c} PROVE Owners(e)' = Owners(e) /\ \A x \in Owners(e) : dl'[x] = dl[x]
      BY <1>1, <2>5, <3>0 DEF Owners, InProgress
    <3>3. \A e \in OnQueue : e # c =>
            /\ \A q \in 0 .. Cancel - 1 : conn'[e].pri[q] = Cardinality(OwnersOf(e, q)')
            /\ \E q \in Priorities : conn'[e].pri[q] > 0
            /\ conn'[e].detached => Cardinality(Owners(e)') <= 1
      BY <2>3, <3>2, OthersOwned
    <3>4. ASSUME NEW q \in 0 .. Cancel - 1 PROVE conn'[c].pri[q] = Cardinality(OwnersOf(c, q)')
      <4> DEFINE A == OwnersOf(c, q) \ {old}
      <4>0. q \in Priorities /\ q # Cancel /\ conn[c].pri[q] = Cardinality(OwnersOf(c, q))
        BY <2>3, ConnectionAssumption DEF Priorities, Core, OwnInv
      <4>1. /\ Cardinality(A) = conn[c].pri[q] - IF q = dl[old].pri THEN 1 ELSE 0
            /\ conn[c].pri[q] \in Nat
        BY <2>3, <4>0, OwnerGone
      <4>2. conn'[c].pri[q] = (conn[c].pri[q] + 0) - IF q = dl[old].pri THEN 1 ELSE 0
        BY <2>3, <4>0
      <4>3. OwnersOf(c, q)' = A
        BY <3>1 DEF OwnersOf
      <4> HIDE DEF A
      <4> QED BY <4>1, <4>2, <4>3
    <3>5. ~conn'[c].detached
      BY <1>4, <2>3
    <3>6. ASSUME NEW e \in Downloads, InProgress(e)' PROVE dl'[e].conn \in OnQueue' /\ dl'[e].pri \in 0 .. Cancel - 1
      <4>1. e # old
        BY <2>5, <3>0, <3>6 DEF InProgress
      <4>2. dl'[e] = dl[e] /\ InProgress(e)
        BY <2>5, <3>6, <4>1 DEF InProgress
      <4> QED BY <2>3, <4>2 DEF Core, OwnInv
    <3>7. ASSUME NEW e \in OnQueue'
          PROVE  /\ \A q \in 0 .. Cancel - 1 : conn'[e].pri[q] = Cardinality(OwnersOf(e, q)')
                 /\ \E q \in Priorities : conn'[e].pri[q] > 0
                 /\ conn'[e].detached => Cardinality(Owners(e)') <= 1
      <4>1. CASE e = c
        BY <2>3, <3>4, <3>5, <4>1
      <4>2. CASE e # c
        BY <2>3, <3>3, <4>2
      <4> QED BY <4>1, <4>2
    <3> QED BY <3>6, <3>7 DEF OwnInv
  <2> QED BY <1>2, <2>1, <2>3, <2>4, <2>5, <2>6, NewCounters
<1> QED BY <1>3, <1>4

\* Only a flag or the state of one connection changes.
LEMMA NewRecord ==
    ASSUME Core, NEW c \in OnQueue, NEW r \in ConnType, r.pri = conn[c].pri, r.uri = conn[c].uri,
           conn' = [conn EXCEPT ![c] = r]
    PROVE  /\ conn' \in [Conns -> ConnType \cup {Free}] /\ OnQueue' = OnQueue /\ conn'[c] = r
           /\ \A e \in Conns : e # c => conn'[e] = conn[e]
           /\ \A e \in OnQueue : conn'[e].pri = conn[e].pri /\ conn'[e].uri = conn[e].uri
<1>1. c \in Conns /\ conn \in [Conns -> ConnType \cup {Free}]
  BY DEF Core, CoreOK, OnQueue
<1>2. /\ conn' \in [Conns -> ConnType \cup {Free}] /\ conn'[c] = r
      /\ \A e \in Conns : e # c => conn'[e] = conn[e]
  BY <1>1
<1>3. OnQueue' = OnQueue
  BY <1>2, NotFree DEF OnQueue
<1>4. ASSUME NEW e \in OnQueue PROVE conn'[e].pri = conn[e].pri /\ conn'[e].uri = conn[e].uri
  <2>1. CASE e = c
    BY <1>2, <2>1
  <2>2. CASE e # c
    BY <1>2, <2>2 DEF OnQueue
  <2> QED BY <2>1, <2>2
<1> QED BY <1>2, <1>3, <1>4

\* detach_connection(): the connection has one owner.
LEMMA DetachCore ==
    ASSUME Core, NEW d \in Downloads, DetachConnection(d)
    PROVE  Core'
<1>1. PICK c : c = dl[d].conn
  OBVIOUS
<1>2. /\ InProgress(d) /\ TotalPri(c) = 1 /\ c \in OnQueue
      /\ conn' = [conn EXCEPT ![c].detached = TRUE]
      /\ queue' = queue /\ dl' = dl /\ active' = active /\ hosts' = hosts /\ cur' = cur
  BY <1>1 DEF DetachConnection, Core, OwnInv
<1> DEFINE r == [conn[c] EXCEPT !.detached = TRUE]
<1>3. conn[c] \in ConnType /\ c \in Conns
  BY <1>2, OnQueueFacts
<1>4. /\ r \in ConnType /\ r.pri = conn[c].pri /\ r.uri = conn[c].uri /\ r.state = conn[c].state
      /\ r.running = conn[c].running /\ r.extra = conn[c].extra
  BY <1>3 DEF ConnType
<1>5. conn' = [conn EXCEPT ![c] = r]
  BY <1>2
<1> HIDE DEF r
<1>6. /\ conn' \in [Conns -> ConnType \cup {Free}] /\ OnQueue' = OnQueue /\ conn'[c] = r
      /\ \A e \in Conns : e # c => conn'[e] = conn[e]
      /\ \A e \in OnQueue : conn'[e].pri = conn[e].pri /\ conn'[e].uri = conn[e].uri
  BY <1>2, <1>4, <1>5, NewRecord
<1>7. \A e \in OnQueue : /\ conn'[e].uri = conn[e].uri /\ conn'[e].running = conn[e].running
                         /\ conn'[e].extra = conn[e].extra /\ conn'[e].state = conn[e].state
  <2>1. SUFFICES ASSUME NEW e \in OnQueue
                 PROVE  /\ conn'[e].uri = conn[e].uri /\ conn'[e].running = conn[e].running
                        /\ conn'[e].extra = conn[e].extra /\ conn'[e].state = conn[e].state
    OBVIOUS
  <2>2. CASE e = c
    BY <1>4, <1>6, <2>2
  <2>3. CASE e # c
    BY <1>6, <2>3 DEF OnQueue
  <2> QED BY <2>2, <2>3
<1>8. Cardinality(Owners(c)) = 1
  <2>1. conn[c].pri \in [Priorities -> 0 .. MaxPri]
    BY <1>2, OnQueueFacts
  <2>2. /\ \A p \in 0 .. Cancel - 1 : conn[c].pri[p] = Cardinality(OwnersOf(c, p))
        /\ \A x \in Owners(c) : dl[x].pri \in 0 .. Cancel - 1
    BY <1>2 DEF Core, OwnInv, Owners
  <2> QED BY <1>2, <2>1, <2>2, TotalFacts
<1>9. \A i \in 1 .. Len(queue) : queue[i] \in OnQueue
  BY DEF Core, QueueInv, Elems
<1>10. \A e \in OnQueue : GetPriority(conn'[e]) = GetPriority(conn[e])
  BY <1>6 DEF GetPriority
<1>11. QueueInv' /\ queue' \in Seq(Conns)
  <2>1. OnQueue = Elems(queue) /\ Ranked(conn, queue) /\ queue \in Seq(Conns)
    BY DEF Core, CoreOK, QueueInv
  <2>2. Ranked(conn', queue)
    BY <1>9, <1>10, <2>1 DEF Ranked
  <2>3. Elems(queue)' = Elems(queue) /\ Ranked(conn, queue)'
    BY <1>2, <2>2 DEF Elems
  <2> QED BY <1>2, <1>6, <2>1, <2>3 DEF QueueInv
<1>12. OwnInv'
  <2>1. \A e : Owners(e)' = Owners(e) /\ \A q : OwnersOf(e, q)' = OwnersOf(e, q)
    BY <1>2 DEF Owners, OwnersOf, InProgress
  <2>2. ASSUME NEW e \in OnQueue'
        PROVE  /\ \A q \in 0 .. Cancel - 1 : conn'[e].pri[q] = Cardinality(OwnersOf(e, q)')
               /\ \E q \in Priorities : conn'[e].pri[q] > 0
    BY <1>6, <2>1 DEF Core, OwnInv
  <2>3. ASSUME NEW e \in OnQueue', conn'[e].detached PROVE Cardinality(Owners(e)') <= 1
    <3>1. CASE e = c
      BY <1>8, <2>1, <3>1
    <3>2. CASE e # c
      <4>1. e \in OnQueue /\ conn'[e] = conn[e]
        BY <1>6, <3>2 DEF OnQueue
      <4> QED BY <2>1, <2>3, <4>1 DEF Core, OwnInv
    <3> QED BY <3>1, <3>2
  <2>4. \A e \in Downloads : InProgress(e)' => dl'[e].conn \in OnQueue' /\ dl'[e].pri \in 0 .. Cancel - 1
    BY <1>2, <1>6 DEF Core, OwnInv, InProgress
  <2> QED BY <2>2, <2>3, <2>4 DEF OwnInv
<1>13. dl' \in [Downloads -> DownloadType]
  BY <1>2 DEF Core, CoreOK
<1> QED BY <1>2, <1>6, <1>7, <1>11, <1>12, <1>13, NewCounters

\* Only downloads that have ended change.
LEMMA EndedCore ==
    ASSUME Core, NEW d \in Downloads, NEW x \in DownloadType, ~InProgress(d), x.state # "progress",
           dl' = [dl EXCEPT ![d] = x], UNCHANGED <<queue, conn, active, hosts, cur>>
    PROVE  Core'
<1>1. queue' = queue /\ conn' = conn /\ active' = active /\ hosts' = hosts /\ cur' = cur
  OBVIOUS
<1>2. /\ dl' \in [Downloads -> DownloadType] /\ dl'[d] = x
      /\ \A e \in Downloads : e # d => dl'[e] = dl[e]
  BY DEF Core, CoreOK
<1>3. OnQueue' = OnQueue
  BY <1>1 DEF OnQueue
<1>4. QueueInv' /\ queue' \in Seq(Conns) /\ conn' \in [Conns -> ConnType \cup {Free}]
  BY <1>1, <1>3 DEF Core, CoreOK, QueueInv
<1>5. \A e \in Downloads : (InProgress(e)' <=> InProgress(e)) /\ (InProgress(e) => dl'[e] = dl[e])
  BY <1>2 DEF InProgress
<1>6. \A c : Owners(c)' = Owners(c) /\ \A e \in Owners(c) : dl'[e] = dl[e]
  BY <1>5 DEF Owners
<1>7. \A c, p : OwnersOf(c, p)' = OwnersOf(c, p)
  BY <1>6 DEF OwnersOf
<1>8. OwnInv'
  BY <1>1, <1>3, <1>5, <1>6, <1>7 DEF Core, OwnInv
<1> QED BY <1>1, <1>2, <1>3, <1>4, <1>8, NewCounters

\* run_connection(), where the limits leave a place.
LEMMA RunCore ==
    ASSUME Core, lim \in LimitSet, NEW i \in 1 .. Len(queue), RunConnection(i)
    PROVE  Core'
<1>1. PICK c \in OnQueue : c = queue[i]
  BY DEF Core, QueueInv, Elems
<1>2. /\ Waiting(c) /\ CanRun(c) /\ conn' = [conn EXCEPT ![c].running = TRUE]
      /\ hosts' = AddHost(hosts, conn[c].uri) /\ cur' = c /\ active' = active + 1
      /\ queue' = queue /\ dl' = dl /\ cur = NoConn
  BY <1>1 DEF RunConnection, Chosen, CanTry, Round
<1> DEFINE r == [conn[c] EXCEPT !.running = TRUE]
<1>3. conn[c] \in ConnType /\ c \in Conns /\ conn[c].uri \in Uris /\ c # NoConn
  BY OnQueueFacts
<1>4. /\ r \in ConnType /\ r.pri = conn[c].pri /\ r.uri = conn[c].uri /\ r.state = conn[c].state
      /\ r.running /\ r.extra = conn[c].extra /\ r.detached = conn[c].detached
  BY <1>3 DEF ConnType
<1>5. conn' = [conn EXCEPT ![c] = r]
  BY <1>2
<1> HIDE DEF r
<1>6. /\ conn' \in [Conns -> ConnType \cup {Free}] /\ OnQueue' = OnQueue /\ conn'[c] = r
      /\ \A e \in Conns : e # c => conn'[e] = conn[e]
      /\ \A e \in OnQueue : conn'[e].pri = conn[e].pri /\ conn'[e].uri = conn[e].uri
  BY <1>4, <1>5, NewRecord
<1>7. ~conn[c].running
  BY <1>2, <1>3 DEF Core, StateInv
<1>8. /\ Running(OnQueue)' = Running(OnQueue) \cup {c} /\ c \notin Running(OnQueue)
      /\ \A e \in Running(OnQueue) : conn'[e] = conn[e]
  <2>1. \A e \in OnQueue : e # c => conn'[e] = conn[e]
    BY <1>6 DEF OnQueue
  <2> QED BY <1>4, <1>6, <1>7, <2>1 DEF Running
<1>9. CountInv' /\ active' \in Nat /\ hosts' \in [Hosts -> Nat]
  BY <1>2, <1>3, <1>4, <1>6, <1>8, CountAdd
<1>10. LimitInv'
  <2>1. /\ lim.conns \in Nat /\ lim.conns <= MostConns /\ lim.tohost \in Nat /\ lim.tohost <= MostToHost
        /\ MostConns \in Nat /\ MostToHost \in Nat
    BY MostFacts
  <2>2. active \in Nat /\ active < lim.conns /\ hosts \in [Hosts -> Nat]
    BY <1>2, <2>1 DEF CanRun, AllFull, Core, CoreOK
  <2>3. Cardinality(Counted') <= active'
    <3>1. Running(OnQueue)' \in SUBSET Conns /\ Counted' \in SUBSET Running(OnQueue)'
      BY <1>6 DEF Running, OnQueue, Counted
    <3>2. Cardinality(Counted') <= Cardinality(Running(OnQueue)')
      BY <3>1, QueueFinite
    <3> QED BY <1>9, <3>2 DEF CountInv
  <2>4. Cardinality(Counted') <= MostConns
    <3>1. Cardinality(Counted') \in Nat
      <4>1. Counted' \in SUBSET Conns
        BY <1>6 DEF Running, OnQueue, Counted
      <4> QED BY <4>1, QueueFinite
    <3> QED BY <1>2, <2>1, <2>2, <2>3, <3>1
  <2>5. ASSUME NEW h \in Hosts PROVE Cardinality(CountedTo(h)') <= MostToHost
    <3>0. h # NoHost
      BY DEF Hosts
    <3>1. CASE h = HostName(c)
      <4>1. hosts[h] \in Nat /\ hosts[h] < lim.tohost
        BY <1>2, <2>1, <2>2, <3>1 DEF CanRun, HostFull
      <4>2. hosts'[h] = hosts[h] + 1
        BY <1>2, <2>2, <3>0, <3>1 DEF AddHost, HostName
      <4>3. RunningTo(h)' \in SUBSET Conns /\ CountedTo(h)' \in SUBSET RunningTo(h)'
        BY <1>6 DEF RunningTo, Running, OnQueue, Counted, CountedTo
      <4>4. Cardinality(CountedTo(h)') <= Cardinality(RunningTo(h)') /\ Cardinality(CountedTo(h)') \in Nat
        BY <4>3, QueueFinite
      <4>5. Cardinality(RunningTo(h)') = hosts'[h]
        BY <1>9 DEF CountInv
      <4> QED BY <2>1, <4>1, <4>2, <4>4, <4>5
    <3>2. CASE h # HostName(c)
      <4>1. HostName(c)' = HostName(c)
        BY <1>6 DEF HostName
      <4>2. CountedTo(h)' = CountedTo(h)
        BY <1>8, <3>2, <4>1 DEF CountedTo, Counted, HostName
      <4>3. Cardinality(CountedTo(h)) <= MostToHost
        BY DEF Core, LimitInv
      <4> QED BY <4>2, <4>3
    <3> QED BY <3>1, <3>2
  <2>6. MostConns' = MostConns /\ MostToHost' = MostToHost
    BY DEF MostConns, MostToHost
  <2> QED BY <2>4, <2>5, <2>6 DEF LimitInv
<1>11. StateInv'
  <2>1. SUFFICES ASSUME NEW e \in OnQueue'
                 PROVE  /\ conn'[e].state = "result" => e = cur'
                        /\ e # cur' => (Waiting(e)' <=> ~conn'[e].running)
                        /\ e = cur' => conn'[e].running
    BY DEF StateInv
  <2>2. e \in OnQueue /\ e # NoConn
    BY <1>6, OnQueueFacts
  <2>3. CASE e = c
    BY <1>2, <1>4, <1>6, <2>3
  <2>4. CASE e # c
    <3>1. conn'[e] = conn[e] /\ e # cur /\ e # cur'
      BY <1>2, <1>6, <2>2, <2>4 DEF OnQueue
    <3> QED BY <2>2, <3>1 DEF Core, StateInv, Waiting
  <2> QED BY <2>3, <2>4
<1>12. QueueInv' /\ OwnInv' /\ queue' \in Seq(Conns)
  <2>1. \A e \in OnQueue : conn'[e].pri = conn[e].pri /\ (conn'[e].detached => conn[e].detached)
    <3>1. SUFFICES ASSUME NEW e \in OnQueue
                   PROVE  conn'[e].pri = conn[e].pri /\ (conn'[e].detached => conn[e].detached)
      OBVIOUS
    <3>2. CASE e = c
      BY <1>4, <1>6, <3>2
    <3>3. CASE e # c
      BY <1>6, <3>3 DEF OnQueue
    <3> QED BY <3>2, <3>3
  <2> QED BY <1>2, <1>6, <2>1, SameQueue
<1>13. dl' \in [Downloads -> DownloadType]
  BY <1>2 DEF Core, CoreOK
<1>14. cur' \in Conns \cup {NoConn} /\ (cur' # NoConn => cur' \in OnQueue')
  BY <1>2, <1>3, <1>6
<1> QED BY <1>6, <1>9, <1>10, <1>11, <1>12, <1>13, <1>14 DEF Core, CoreOK

\* The victim of try_to_suspend_connection() runs.
LEMMA VictimFacts ==
    ASSUME Core, cur = NoConn, NEW c, Victims(c) # {}
    PROVE  LET v == queue[Max(Victims(c))] IN
           v \in OnQueue /\ Victim(c, v) /\ conn[v].running
<1> DEFINE V == Victims(c)
           m == Max(V)
<1>1. queue \in Seq(Conns) /\ Len(queue) \in Nat
  BY ElemsFacts DEF Core, CoreOK
<1>2. V \in SUBSET (0 .. Len(queue)) /\ V # {}
  BY <1>1 DEF Victims
<1>3. m \in V
  <2> HIDE DEF V
  <2> QED BY <1>1, <1>2, MaxFacts
<1> HIDE DEF m
<1>4. m \in 1 .. Len(queue) /\ Victim(c, queue[m])
  BY <1>3 DEF Victims, Victim
<1>5. queue[m] \in OnQueue
  BY <1>4 DEF Core, QueueInv, Elems
<1>6. queue[m] # NoConn
  BY <1>5, OnQueueFacts
<1>7. conn[queue[m]].running
  BY <1>4, <1>5, <1>6 DEF Core, StateInv, Victim
<1> QED BY <1>4, <1>5, <1>7 DEF m

\* suspend_connection().
LEMMA SuspendCore ==
    ASSUME Core, NEW i \in 1 .. Len(queue), SuspendConnection(i)
    PROVE  Core'
<1>1. cur = NoConn /\ Victims(queue[i]) # {}
  BY DEF SuspendConnection, Round, Chosen, CanTry
<1>2. PICK v : v = queue[Max(Victims(queue[i]))]
  OBVIOUS
<1>3. v \in OnQueue /\ conn[v].running
  BY <1>1, <1>2, VictimFacts
<1>4. /\ conn' = [conn EXCEPT ![v].running = FALSE, ![v].state = "wait", ![v].extra = FALSE]
      /\ hosts' = DoneHosts({v}) /\ active' = active - 1
      /\ queue' = queue /\ dl' = dl /\ cur' = cur
  BY <1>2 DEF SuspendConnection, SuspendHosts
<1> DEFINE r == [conn[v] EXCEPT !.running = FALSE, !.state = "wait", !.extra = FALSE]
<1>5. conn[v] \in ConnType /\ v \in Conns /\ conn \in [Conns -> ConnType \cup {Free}]
  BY <1>3, OnQueueFacts DEF Core, CoreOK
<1>6. /\ r \in ConnType /\ r.pri = conn[v].pri /\ r.uri = conn[v].uri /\ r.state = "wait"
      /\ r.detached = conn[v].detached
  BY <1>5 DEF ConnType
<1>7. ~r.running
  BY <1>5 DEF ConnType
<1>8. conn' = [conn EXCEPT ![v] = r]
  BY <1>4, <1>5
<1> HIDE DEF r
<1>9. /\ conn' \in [Conns -> ConnType \cup {Free}] /\ OnQueue' = OnQueue /\ conn'[v] = r
      /\ \A e \in Conns : e # v => conn'[e] = conn[e]
      /\ \A e \in OnQueue : conn'[e].pri = conn[e].pri /\ conn'[e].uri = conn[e].uri
  BY <1>3, <1>6, <1>8, NewRecord
<1>10. \A e \in OnQueue : e # v => conn'[e] = conn[e]
  BY <1>9 DEF OnQueue
<1>11. CountInv' /\ LimitInv' /\ active' \in Nat /\ hosts' \in [Hosts -> Nat]
  <2>1. Running(OnQueue)' = Running(OnQueue) \ {v}
    BY <1>7, <1>9, <1>10 DEF Running
  <2>2. \A e \in Running(OnQueue)' : conn'[e].uri = conn[e].uri /\ conn'[e].extra = conn[e].extra
    BY <1>9, <1>10, <2>1 DEF Running
  <2>3. active' = active - Cardinality(Running({v}))
    <3>1. Running({v}) = {v}
      BY <1>3 DEF Running
    <3> QED BY <1>4, <3>1, FS_Singleton
  <2>4. {v} \in SUBSET OnQueue
    BY <1>3
  <2> QED BY <1>4, <2>1, <2>2, <2>3, <2>4, CountDel
<1>12. StateInv'
  <2>1. SUFFICES ASSUME NEW e \in OnQueue'
                 PROVE  /\ conn'[e].state = "result" => e = cur'
                        /\ e # cur' => (Waiting(e)' <=> ~conn'[e].running)
                        /\ e = cur' => conn'[e].running
    BY DEF StateInv
  <2>2. e \in OnQueue /\ e # NoConn /\ e # cur'
    BY <1>1, <1>4, <1>9, OnQueueFacts
  <2>3. CASE e = v
    BY <1>6, <1>7, <1>9, <2>2, <2>3 DEF Waiting
  <2>4. CASE e # v
    BY <1>4, <1>10, <2>2, <2>4 DEF Core, StateInv, Waiting
  <2> QED BY <2>3, <2>4
<1>13. QueueInv' /\ OwnInv' /\ queue' \in Seq(Conns)
  <2>1. \A e \in OnQueue : conn'[e].pri = conn[e].pri /\ (conn'[e].detached => conn[e].detached)
    BY <1>6, <1>9, <1>10
  <2> QED BY <1>4, <1>9, <2>1, SameQueue
<1>14. dl' \in [Downloads -> DownloadType]
  BY <1>4 DEF Core, CoreOK
<1> QED BY <1>1, <1>4, <1>9, <1>11, <1>12, <1>13, <1>14 DEF Core, CoreOK

\* One connection has changed in a way check_queue() does not see.
LEMMA RecordUnmoved ==
    ASSUME Core, NEW c \in OnQueue, NEW r \in ConnType, r.pri = conn[c].pri, r.uri = conn[c].uri,
           r.extra = conn[c].extra, r.state = "wait" <=> conn[c].state = "wait",
           conn' = [conn EXCEPT ![c] = r]
    PROVE  Unmoved
<1>1. /\ OnQueue' = OnQueue /\ conn'[c] = r
      /\ \A e \in Conns : e # c => conn'[e] = conn[e]
      /\ \A e \in OnQueue : conn'[e].pri = conn[e].pri /\ conn'[e].uri = conn[e].uri
  BY NewRecord
<1>2. ASSUME NEW e \in OnQueue
      PROVE  conn'[e].extra = conn[e].extra /\ (conn'[e].state = "wait" <=> conn[e].state = "wait")
  <2>1. CASE e = c
    BY <1>1, <2>1
  <2>2. CASE e # c
    <3>1. conn'[e] = conn[e]
      BY <1>1, <2>2 DEF OnQueue
    <3> QED BY <3>1
  <2> QED BY <2>1, <2>2
<1>3. \A e \in OnQueue : GetPriority(conn'[e]) = GetPriority(conn[e])
  BY <1>1 DEF GetPriority
<1> QED BY <1>1, <1>2, <1>3 DEF Unmoved

\* A connection changes its state and goes on running: the rest stays.
LEMMA StateOnly ==
    ASSUME Core, NEW c \in OnQueue, NEW r \in ConnType, r.pri = conn[c].pri, r.uri = conn[c].uri,
           r.running = conn[c].running, r.extra = conn[c].extra, r.detached = conn[c].detached,
           conn[c].running, cur = NoConn \/ cur = c, conn' = [conn EXCEPT ![c] = r],
           UNCHANGED <<queue, dl, active, hosts>>,
           \/ cur' = c
           \/ cur' = NoConn /\ r.state = "busy"
    PROVE  Core' /\ OnQueue' = OnQueue
<1>1. queue' = queue /\ dl' = dl /\ active' = active /\ hosts' = hosts
  OBVIOUS
<1>2. /\ conn' \in [Conns -> ConnType \cup {Free}] /\ OnQueue' = OnQueue /\ conn'[c] = r
      /\ \A e \in Conns : e # c => conn'[e] = conn[e]
      /\ \A e \in OnQueue : conn'[e].pri = conn[e].pri /\ conn'[e].uri = conn[e].uri
  BY NewRecord
<1>3. \A e \in OnQueue : e # c => conn'[e] = conn[e]
  BY <1>2 DEF OnQueue
<1>4. CountInv' /\ LimitInv' /\ active' \in Nat /\ hosts' \in [Hosts -> Nat]
  <2>1. Running(OnQueue)' = Running(OnQueue)
    BY <1>2, <1>3 DEF Running
  <2>2. \A e \in Running(OnQueue) : conn'[e].uri = conn[e].uri /\ conn'[e].extra = conn[e].extra
    BY <1>2, <1>3 DEF Running
  <2> QED BY <1>1, <2>1, <2>2, CountSame
<1>5. StateInv'
  <2>1. SUFFICES ASSUME NEW e \in OnQueue'
                 PROVE  /\ conn'[e].state = "result" => e = cur'
                        /\ e # cur' => (Waiting(e)' <=> ~conn'[e].running)
                        /\ e = cur' => conn'[e].running
    BY DEF StateInv
  <2>2. e \in OnQueue /\ e # NoConn /\ c # NoConn
    BY <1>2, OnQueueFacts
  <2>3. CASE e = c
    BY <1>2, <2>2, <2>3 DEF Waiting
  <2>4. CASE e # c
    <3>1. conn'[e] = conn[e] /\ e # cur /\ e # cur'
      BY <1>3, <2>2, <2>4
    <3> QED BY <2>2, <3>1 DEF Core, StateInv, Waiting
  <2> QED BY <2>3, <2>4
<1>6. QueueInv' /\ OwnInv' /\ queue' \in Seq(Conns)
  <2>1. \A e \in OnQueue : conn'[e].pri = conn[e].pri /\ (conn'[e].detached => conn[e].detached)
    BY <1>2, <1>3
  <2> QED BY <1>1, <1>2, <2>1, SameQueue
<1>7. dl' \in [Downloads -> DownloadType]
  BY <1>1 DEF Core, CoreOK
<1>8. cur' \in Conns \cup {NoConn} /\ (cur' # NoConn => cur' \in OnQueue')
  BY <1>2 DEF OnQueue
<1> QED BY <1>2, <1>4, <1>5, <1>6, <1>7, <1>8 DEF Core, CoreOK

\* retry_connection().
LEMMA RetryCore ==
    ASSUME Core, NEW c \in OnQueue, conn[c].running, cur = NoConn \/ cur = c,
           NEW t \in {conn[c].tries, -1}, Retry(c, t)
    PROVE  Core'
<1>0. c # NoConn /\ conn[c] \in ConnType /\ c \in Conns
  BY OnQueueFacts
<1>1. ASSUME NEW r \in {"result", "nomem"}, Abort({c}, r), cur' = NoConn PROVE Core'
  <2>1. cur' = IF cur \in {c} THEN NoConn ELSE cur
    BY <1>1
  <2>2. {c} \in SUBSET OnQueue
    OBVIOUS
  <2> QED BY <1>1, <2>1, <2>2, AbortCore
<1>2. CASE /\ conn' = [conn EXCEPT ![c] = Tried(@, t)]
           /\ hosts' = AddHost(DoneHosts({c}), conn[c].uri)
           /\ active' = (active - 1) + 1
           /\ cur' = c
           /\ UNCHANGED <<queue, dl, bh>>
  <2> DEFINE r == Tried(conn[c], t)
  <2>1. /\ r \in ConnType /\ r.pri = conn[c].pri /\ r.uri = conn[c].uri /\ r.running = conn[c].running
        /\ r.extra = conn[c].extra /\ r.detached = conn[c].detached
    <3>1. PICK n \in Nat : n = t + 1
      BY <1>0 DEF ConnType
    <3>2. r = [conn[c] EXCEPT !.tries = n, !.state = "result"]
      BY <3>1 DEF Tried
    <3> HIDE DEF r
    <3> QED BY <1>0, <3>2 DEF ConnType
  <2>2. conn' = [conn EXCEPT ![c] = r]
    BY <1>2
  <2> HIDE DEF r
  <2>3. hosts' = hosts /\ active' = active
    BY <1>2, Recount
  <2>4. Core'
    BY <1>2, <2>1, <2>2, <2>3, StateOnly
  <2> QED BY <2>4
<1>3. CASE RetryOutOfMemory(c, t)
  BY <1>1, <1>3 DEF RetryOutOfMemory
<1> QED BY <1>1, <1>2, <1>3 DEF Retry

\* The protocol has got something new.
LEMMA NewDataFacts ==
    ASSUME Core, NEW c \in Conns, NewData(c)
    PROVE  Core' /\ Unmoved
<1>1. /\ c \in OnQueue /\ conn[c].state = "busy" /\ cur = NoConn /\ cur' = cur
      /\ conn' = [conn EXCEPT ![c].tries = 0] /\ UNCHANGED <<queue, dl, active, hosts>>
  BY DEF NewData, Loop
<1>2. conn[c] \in ConnType /\ c # NoConn
  BY <1>1, OnQueueFacts
<1>3. conn[c].running
  BY <1>1, <1>2 DEF Core, StateInv, Waiting
<1> DEFINE r == [conn[c] EXCEPT !.tries = 0]
<1>4. /\ r \in ConnType /\ r.pri = conn[c].pri /\ r.uri = conn[c].uri /\ r.running = conn[c].running
      /\ r.extra = conn[c].extra /\ r.detached = conn[c].detached /\ r.state = conn[c].state
  BY <1>2 DEF ConnType
<1>5. conn' = [conn EXCEPT ![c] = r]
  BY <1>1
<1> HIDE DEF r
<1>6. Core'
  BY <1>1, <1>3, <1>4, <1>5, StateOnly
<1>7. Unmoved
  BY <1>1, <1>4, <1>5, RecordUnmoved
<1> QED BY <1>6, <1>7

\* A protocol handler starts to connect.
LEMMA StartsCore ==
    ASSUME Core, HandlerStarts
    PROVE  Core'
<1>1. PICK c \in OnQueue : c = cur
  BY DEF HandlerStarts, Core, CoreOK
<1>2. conn[c].running /\ conn[c] \in ConnType
  BY <1>1, OnQueueFacts DEF Core, StateInv
<1>3. conn' = [conn EXCEPT ![c].state = "busy"] /\ cur' = NoConn /\ UNCHANGED <<queue, dl, active, hosts>>
  BY <1>1 DEF HandlerStarts
<1> DEFINE r == [conn[c] EXCEPT !.state = "busy"]
<1>4. /\ r \in ConnType /\ r.pri = conn[c].pri /\ r.uri = conn[c].uri /\ r.running = conn[c].running
      /\ r.extra = conn[c].extra /\ r.detached = conn[c].detached /\ r.state = "busy"
  BY <1>2 DEF ConnType
<1>5. conn' = [conn EXCEPT ![c] = r]
  BY <1>3
<1> HIDE DEF r
<1> QED BY <1>1, <1>2, <1>3, <1>4, <1>5, StateOnly

-----------------------------------------------------------------------------
(* Every step keeps the queue, its counters and its owners consistent.     *)

\* Whatever the browser asks for.
LEMMA RequestCore ==
    ASSUME IInv, Request
    PROVE  Core'
<1>0. Core /\ lim \in LimitSet /\ (User => cur = NoConn)
  BY DEF IInv, RestOK, User
<1>1. ASSUME NEW d \in Downloads, LoadWithoutConnection(d) PROVE Core'
  <2>1. Result("result") \in DownloadType /\ Result("result").state # "progress"
    BY ConnectionAssumption DEF Result, DownloadType, Priorities
  <2>2. /\ ~InProgress(d) /\ dl' = [dl EXCEPT ![d] = Result("result")]
        /\ UNCHANGED <<queue, conn, active, hosts, cur>>
    BY <1>1 DEF LoadWithoutConnection
  <2> QED BY <1>0, <2>1, <2>2, EndedCore
<1>2. ASSUME NEW d \in Downloads, NEW e \in Downloads, ChangeEnded(d, e) PROVE Core'
  <2>1. dl[d] \in DownloadType /\ dl[d].state # "progress"
    BY <1>0, <1>2 DEF Core, CoreOK, ChangeEnded, InProgress
  <2>2. /\ ~InProgress(e) /\ dl' = [dl EXCEPT ![e] = dl[d]]
        /\ UNCHANGED <<queue, conn, active, hosts, cur>>
    BY <1>2 DEF ChangeEnded
  <2> QED BY <1>0, <2>1, <2>2, EndedCore
<1>3. ASSUME NEW d \in Downloads, NEW u \in Uris, NEW p \in 0 .. Cancel - 1,
             LoadJoin(d, u, p) \/ LoadNew(d, u, p)
      PROVE  Core'
  <2>1. cur = NoConn
    BY <1>0, <1>3 DEF LoadJoin, LoadNew
  <2>2. CASE LoadJoin(d, u, p)
    BY <1>0, <2>1, <2>2, LoadJoinCore
  <2>3. CASE LoadNew(d, u, p)
    BY <1>0, <2>1, <2>3, LoadNewCore
  <2> QED BY <1>3, <2>2, <2>3
<1>4. ASSUME NEW d \in Downloads, NEW e \in Downloads, NEW p \in 0 .. Cancel - 1,
             ChangeConnection(d, e, p)
      PROVE  Core'
  BY <1>0, <1>4, ChangeCore
<1>5. ASSUME NEW d \in Downloads, NEW interrupt \in BOOLEAN, CancelDownload(d, interrupt) PROVE Core'
  BY <1>0, <1>5, CancelCore
<1>6. ASSUME NEW d \in Downloads, DetachConnection(d) PROVE Core'
  BY <1>0, <1>6, DetachCore
<1>7. CASE AbortBackground
  <2> DEFINE S == {c \in OnQueue : Priority(c) >= Cancel}
  <2>1. S \in SUBSET OnQueue /\ Abort(S, "result") /\ cur = NoConn /\ cur' = cur
    BY <1>0, <1>7 DEF AbortBackground
  <2> HIDE DEF S
  <2> QED BY <1>0, <2>1, AbortIdle
<1>8. ASSUME NEW l \in LimitSet, SetLimits(l) PROVE Core'
  <2>0. queue' = queue /\ conn' = conn /\ active' = active /\ hosts' = hosts /\ dl' = dl /\ cur' = cur
    BY <1>8 DEF SetLimits
  <2> QED BY <1>0, <2>0, SameCore
<1> QED BY <1>1, <1>2, <1>3, <1>4, <1>5, <1>6, <1>7, <1>8 DEF Request

\* Whatever a socket, check_queue(), a protocol handler or the shutdown does.
LEMMA CoreStep ==
    ASSUME IInv, [Next]_vars
    PROVE  Core'
<1>0. /\ Core /\ lim \in LimitSet /\ keep \in Seq({u \in Uris : HostOf[u] # NoHost})
      /\ (phase \in {"keepalive", "keepalive2"} => cur = NoConn) /\ (Loop => cur = NoConn)
  BY DEF IInv, RestOK, PhaseInv, Loop
<1>1. CASE Request
  BY <1>1, RequestCore
<1>2. ASSUME NEW c \in Conns, Finish(c) \/ AddKeepalive(c) PROVE Core'
  <2>1. {c} \in SUBSET OnQueue /\ Abort({c}, "result") /\ cur = NoConn /\ cur' = cur
    BY <1>0, <1>2 DEF Finish, AddKeepalive, InTransfer
  <2> QED BY <1>0, <2>1, AbortIdle
<1>3. ASSUME NEW c \in Conns, RetryConnection(c) \/ RetryBlacklisted(c) PROVE Core'
  <2>1. PICK t \in {conn[c].tries, -1} :
            c \in OnQueue /\ cur = NoConn /\ Retry(c, t) /\ ~Waiting(c)
    BY <1>0, <1>3 DEF RetryConnection, RetryBlacklisted, InTransfer, Waiting
  <2>2. conn[c].running
    <3>1. c # NoConn
      BY ConnectionAssumption
    <3> QED BY <1>0, <2>1, <3>1 DEF Core, StateInv
  <2> QED BY <1>0, <2>1, <2>2, RetryCore
<1>4. ASSUME NEW i \in 1 .. Len(keep), CheckKeepalive(i) PROVE Core'
  <2>1. cur = NoConn /\ cur' = cur /\ dl' = dl /\ DoneKeepalive(i)
    BY <1>0, <1>4 DEF CheckKeepalive
  <2> QED BY <1>0, <2>1, DoneKeepaliveCore
<1>5. ASSUME NEW i \in 1 .. Len(queue), RunConnection(i) \/ SuspendConnection(i) PROVE Core'
  BY <1>0, <1>5, RunCore, SuspendCore
<1>5a. ASSUME NEW i \in 1 .. Len(queue), RunOutOfMemory(i) PROVE Core'
  <2>1. {queue[i]} \in SUBSET OnQueue
    BY <1>0 DEF Core, QueueInv, Elems
  <2>2. Abort({queue[i]}, "nomem") /\ cur = NoConn /\ cur' = cur
    BY <1>5a DEF RunOutOfMemory, Round
  <2> QED BY <1>0, <2>1, <2>2, AbortIdle
<1>5b. ASSUME NEW i \in 1 .. Len(keep), KeepaliveFails(i) PROVE Core'
  <2>1. queue' = queue /\ conn' = conn /\ active' = active /\ hosts' = hosts /\ dl' = dl /\ cur' = cur
    BY <1>5b DEF KeepaliveFails
  <2> QED BY <1>0, <2>1, SameCore
<1>6. CASE EndCheck
  <2> DEFINE S == {c \in OnQueue : Priority(c) >= Cancel /\ Waiting(c)}
  <2>1. S \in SUBSET OnQueue /\ Abort(S, "result") /\ cur = NoConn /\ cur' = cur
    BY <1>6 DEF EndCheck, Round
  <2> HIDE DEF S
  <2> QED BY <1>0, <2>1, AbortIdle
<1>7. CASE HandlerStarts
  BY <1>0, <1>7, StartsCore
<1>8. CASE HandlerAborts
  <2>1. {cur} \in SUBSET OnQueue /\ Abort({cur}, "result") /\ cur' = IF cur \in {cur} THEN NoConn ELSE cur
    BY <1>0, <1>8 DEF HandlerAborts, Core, CoreOK
  <2> QED BY <1>0, <2>1, AbortCore
<1>9. CASE HandlerRetries
  <2>1. cur \in OnQueue /\ Retry(cur, conn[cur].tries)
    BY <1>0, <1>9 DEF HandlerRetries, Core, CoreOK
  <2>2. conn[cur].running
    BY <1>0, <2>1 DEF Core, StateInv
  <2> QED BY <1>0, <2>1, <2>2, RetryCore
<1>10. CASE Shutdown \/ AbortAgain
  <2>1. Abort(OnQueue, "result") /\ cur = NoConn /\ cur' = cur /\ OnQueue \in SUBSET OnQueue
    BY <1>0, <1>10 DEF Shutdown, AbortAgain, AbortQueue
  <2> QED BY <1>0, <2>1, AbortIdle
<1>11. CASE AbortKeepalive
  <2>1. cur = NoConn /\ cur' = cur /\ dl' = dl /\ DoneKeepalive(1) /\ keep # << >>
    BY <1>0, <1>11 DEF AbortKeepalive
  <2>2. 1 \in 1 .. Len(keep)
    BY <1>0, <2>1
  <2> QED BY <1>0, <2>1, <2>2, DoneKeepaliveCore
<1>12. CASE StartCheck \/ AbortKeepaliveDone \/ Exited \/ UNCHANGED vars
  <2>1. queue' = queue /\ conn' = conn /\ active' = active /\ hosts' = hosts /\ dl' = dl /\ cur' = cur
    BY <1>12 DEF StartCheck, AbortKeepaliveDone, Exited, vars
  <2> QED BY <1>0, <2>1, SameCore
<1>13. CASE \E c \in Conns : Network(c) \/ Afresh(c)
  BY <1>0, <1>2, <1>3, <1>13, NewDataFacts DEF Network, Afresh
<1>14. CASE Check \/ Handler \/ Terminate
  BY <1>5, <1>5a, <1>6, <1>7, <1>8, <1>9, <1>10, <1>11, <1>12, <1>14 DEF Check, Handler, Terminate
<1>15. CASE \E i \in 1 .. Len(keep) : CheckKeepalive(i) \/ KeepaliveFails(i)
  BY <1>4, <1>5b, <1>15
<1> QED BY <1>1, <1>12, <1>13, <1>14, <1>15 DEF Next

-----------------------------------------------------------------------------
(* The kept sockets, the phases and the bottom half.                       *)

\* The list of kept sockets stays one when a socket is taken off it.
LEMMA KeptFacts ==
    ASSUME NEW K, keep \in Seq(K)
    PROVE  /\ \A u : TakeKept(u) \in Seq(K) /\ (keep = << >> => TakeKept(u) = << >>)
           /\ \A i \in 1 .. Len(keep) : RemoveAt(keep, i) \in Seq(K)
<1>1. \A i \in 1 .. Len(keep) : RemoveAt(keep, i) \in Seq(K)
  BY RemoveAtFacts
<1>2. ASSUME NEW u PROVE TakeKept(u) \in Seq(K) /\ (keep = << >> => TakeKept(u) = << >>)
  <2>1. Kept(u) \in SUBSET Nat /\ Kept(u) \subseteq 1 .. Len(keep)
    BY DEF Kept
  <2>2. CASE Kept(u) = {}
    BY <2>2 DEF TakeKept
  <2>3. CASE Kept(u) # {}
    <3>1. PICK m \in Kept(u) : m = Min(Kept(u))
      BY <2>1, <2>3, MinFacts
    <3>2. TakeKept(u) = RemoveAt(keep, m) /\ m \in 1 .. Len(keep)
      BY <2>1, <2>3, <3>1 DEF TakeKept
    <3>3. keep # << >>
      BY <3>2
    <3> QED BY <1>1, <3>2, <3>3
  <2> QED BY <2>2, <2>3
<1> QED BY <1>1, <1>2

\* Whatever the browser asks for, only the options and the bottom half of
\* this part change.
LEMMA RequestRest ==
    ASSUME IInv, Request
    PROVE  /\ keep' = keep /\ lim' = lim /\ checking' = checking /\ cur' = cur /\ phase' = phase
           /\ phase = "run" /\ cur = NoConn
           /\ bh' \in BOOLEAN /\ (bh => bh')
           /\ limits' = limits \/ (limits' \in LimitSet /\ bh')
<1>0. bh \in BOOLEAN
  BY DEF IInv, RestOK
<1>1. ASSUME NEW d \in Downloads, NEW u \in Uris, NEW p \in 0 .. Cancel - 1,
             LoadJoin(d, u, p)
      PROVE  bh' \in BOOLEAN /\ (bh => bh')
  <2>1. PICK b : bh' = (bh \/ b)
    BY <1>1 DEF LoadJoin
  <2> QED BY <1>0, <2>1
<1>2. ASSUME NEW d \in Downloads, NEW u \in Uris, NEW p \in 0 .. Cancel - 1,
             LoadJoin(d, u, p)
      PROVE  /\ keep' = keep /\ lim' = lim /\ checking' = checking /\ cur' = cur /\ phase' = phase
             /\ phase = "run" /\ cur = NoConn /\ limits' = limits
  BY <1>2 DEF LoadJoin, User
<1>3. ASSUME NEW d \in Downloads, LoadWithoutConnection(d)
      PROVE  /\ keep' = keep /\ lim' = lim /\ checking' = checking /\ cur' = cur /\ phase' = phase
             /\ phase = "run" /\ cur = NoConn /\ limits' = limits /\ bh' = bh
  BY <1>3 DEF LoadWithoutConnection, User
<1>4. ASSUME NEW d \in Downloads, NEW e \in Downloads, ChangeEnded(d, e)
      PROVE  /\ keep' = keep /\ lim' = lim /\ checking' = checking /\ cur' = cur /\ phase' = phase
             /\ phase = "run" /\ cur = NoConn /\ limits' = limits /\ bh' = bh
  BY <1>4 DEF ChangeEnded, User
<1>5. ASSUME NEW d \in Downloads, NEW u \in Uris, NEW p \in 0 .. Cancel - 1, LoadNew(d, u, p)
      PROVE  /\ keep' = keep /\ lim' = lim /\ checking' = checking /\ cur' = cur /\ phase' = phase
             /\ phase = "run" /\ cur = NoConn /\ limits' = limits /\ bh' = TRUE
  BY <1>5 DEF LoadNew, User
<1>6. ASSUME NEW d \in Downloads, NEW e \in Downloads, NEW p \in 0 .. Cancel - 1,
             ChangeConnection(d, e, p)
      PROVE  /\ keep' = keep /\ lim' = lim /\ checking' = checking /\ cur' = cur /\ phase' = phase
             /\ phase = "run" /\ cur = NoConn /\ limits' = limits /\ bh' = TRUE
  BY <1>6 DEF ChangeConnection, User
<1>7. ASSUME NEW d \in Downloads, NEW interrupt \in BOOLEAN, CancelDownload(d, interrupt)
      PROVE  /\ keep' = keep /\ lim' = lim /\ checking' = checking /\ cur' = cur /\ phase' = phase
             /\ phase = "run" /\ cur = NoConn /\ limits' = limits /\ bh' = TRUE
  BY <1>7 DEF CancelDownload, User
<1>8. ASSUME NEW d \in Downloads, DetachConnection(d)
      PROVE  /\ keep' = keep /\ lim' = lim /\ checking' = checking /\ cur' = cur /\ phase' = phase
             /\ phase = "run" /\ cur = NoConn /\ limits' = limits /\ bh' = bh
  BY <1>8 DEF DetachConnection, User
<1>9. CASE AbortBackground
  BY <1>9 DEF AbortBackground, User
<1>10. ASSUME NEW l \in LimitSet, SetLimits(l)
       PROVE  /\ keep' = keep /\ lim' = lim /\ checking' = checking /\ cur' = cur /\ phase' = phase
              /\ phase = "run" /\ cur = NoConn /\ limits' \in LimitSet /\ bh' = TRUE
  BY <1>10 DEF SetLimits, User
<1> QED BY <1>0, <1>1, <1>2, <1>3, <1>4, <1>5, <1>6, <1>7, <1>8, <1>9, <1>10 DEF Request

\* retry_connection() registers the bottom half or leaves it.
LEMMA RetryHalf ==
    ASSUME NEW c, NEW t, Retry(c, t), bh \in BOOLEAN
    PROVE  bh' \in BOOLEAN /\ (bh => bh')
<1>1. bh' = TRUE \/ bh' = bh
  BY DEF Retry, RetryOutOfMemory
<1> QED BY <1>1

\* The types of the rest.
LEMMA RestStep ==
    ASSUME IInv, [Next]_vars
    PROVE  RestOK' /\ SeenInv'
<1> DEFINE K == {u \in Uris : HostOf[u] # NoHost}
           Same == lim' = lim /\ limits' = limits /\ bh' \in BOOLEAN /\ (bh => bh')
<1>0. /\ Core /\ keep \in Seq(K) /\ limits \in LimitSet /\ lim \in LimitSet
      /\ bh \in BOOLEAN /\ checking \in BOOLEAN /\ SeenInv
      /\ phase \in {"run", "keepalive", "halves", "keepalive2", "exit", "failed"}
  BY DEF IInv, RestOK
<1> HIDE DEF K
<1>1. SUFFICES /\ keep' \in Seq(K) /\ limits' \in LimitSet /\ lim' \in LimitSet
               /\ bh' \in BOOLEAN /\ checking' \in BOOLEAN
               /\ phase' \in {"run", "keepalive", "halves", "keepalive2", "exit", "failed"}
               /\ ~bh' => lim' = limits'
  BY DEF RestOK, SeenInv, K
<1>2. CASE Request
  BY <1>0, <1>2, RequestRest DEF SeenInv
<1>3. ASSUME NEW c \in Conns, Finish(c) \/ AddKeepalive(c)
      PROVE  keep' \in Seq(K) /\ Same /\ checking' = checking /\ phase' = phase
  <2>1. Same /\ checking' = checking /\ phase' = phase
    BY <1>3 DEF Finish, AddKeepalive
  <2>2. CASE Finish(c)
    BY <1>0, <2>2 DEF Finish
  <2>3. CASE AddKeepalive(c)
    <3>1. c \in OnQueue /\ HostName(c) # NoHost /\ keep' = <<conn[c].uri>> \o keep
      BY <2>3 DEF AddKeepalive, InTransfer
    <3>2. conn[c].uri \in K
      BY <1>0, <3>1, OnQueueFacts DEF HostName, K
    <3> QED BY <1>0, <2>1, <3>1, <3>2
  <2> QED BY <1>3, <2>1, <2>2, <2>3
<1>4. ASSUME NEW c \in Conns, RetryConnection(c) \/ RetryBlacklisted(c)
      PROVE  keep' = keep /\ Same /\ checking' = checking /\ phase' = phase
  <2>1. /\ keep' = keep /\ lim' = lim /\ limits' = limits /\ checking' = checking /\ phase' = phase
        /\ \E t : Retry(c, t)
    BY <1>4 DEF RetryConnection, RetryBlacklisted
  <2> QED BY <1>0, <2>1, RetryHalf
<1>5. ASSUME NEW i \in 1 .. Len(keep), DoneKeepalive(i) PROVE keep' \in Seq(K)
  <2>1. keep' = TakeKept(keep[i]) \/ keep' = RemoveAt(keep, i)
    BY <1>5 DEF DoneKeepalive
  <2> QED BY <1>0, <2>1, KeptFacts
<1>6. ASSUME NEW i \in 1 .. Len(keep), CheckKeepalive(i)
      PROVE  keep' \in Seq(K) /\ Same /\ checking' = checking /\ phase' = phase
  BY <1>0, <1>5, <1>6 DEF CheckKeepalive
<1>6a. ASSUME NEW c \in Conns, NewData(c)
       PROVE  keep' = keep /\ Same /\ checking' = checking /\ phase' = phase
  BY <1>0, <1>6a DEF NewData
<1>6b. ASSUME NEW i \in 1 .. Len(keep), KeepaliveFails(i)
       PROVE  keep' = keep /\ Same /\ checking' = FALSE /\ phase' = "failed"
  BY <1>0, <1>6b DEF KeepaliveFails
<1>7. CASE StartCheck
  BY <1>0, <1>7 DEF StartCheck
<1>8. ASSUME NEW i \in 1 .. Len(queue),
             RunConnection(i) \/ RunOutOfMemory(i) \/ SuspendConnection(i)
      PROVE  keep' = keep /\ Same /\ checking' = checking /\ phase' = phase
  BY <1>0, <1>8 DEF RunConnection, RunOutOfMemory, SuspendConnection
<1>9. ASSUME EndCheck PROVE keep' = keep /\ Same /\ checking' = FALSE /\ phase' = phase
  BY <1>0, <1>9 DEF EndCheck
<1>10. ASSUME HandlerStarts \/ HandlerAborts
       PROVE  keep' \in Seq(K) /\ Same /\ checking' = checking /\ phase' = phase
  <2>1. CASE HandlerStarts
    <3>1. keep' = TakeKept(conn[cur].uri)
      BY <2>1 DEF HandlerStarts
    <3>2. keep' \in Seq(K)
      BY <1>0, <3>1, KeptFacts
    <3> QED BY <1>0, <2>1, <3>2 DEF HandlerStarts
  <2>2. CASE HandlerAborts
    BY <1>0, <2>2 DEF HandlerAborts
  <2> QED BY <1>10, <2>1, <2>2
<1>11. ASSUME HandlerRetries PROVE keep' = keep /\ Same /\ checking' = checking /\ phase' = phase
  <2>1. keep' = keep /\ lim' = lim /\ limits' = limits /\ checking' = checking /\ phase' = phase
        /\ Retry(cur, conn[cur].tries)
    BY <1>11 DEF HandlerRetries
  <2> QED BY <1>0, <2>1, RetryHalf
<1>12. ASSUME Shutdown \/ AbortAgain
       PROVE  keep' = keep /\ Same /\ checking' = checking /\ phase' \in {"keepalive", "keepalive2"}
  <2>1. bh' = (bh \/ queue # << >>)
    BY <1>12 DEF Shutdown, AbortAgain, AbortQueue
  <2>2. /\ keep' = keep /\ lim' = lim /\ limits' = limits /\ checking' = checking
        /\ phase' \in {"keepalive", "keepalive2"}
    BY <1>12 DEF Shutdown, AbortAgain
  <2> QED BY <1>0, <2>1, <2>2
<1>13. ASSUME AbortKeepalive PROVE keep' \in Seq(K) /\ Same /\ checking' = checking /\ phase' = phase
  <2>1. keep # << >> /\ DoneKeepalive(1)
    BY <1>13 DEF AbortKeepalive
  <2>2. 1 \in 1 .. Len(keep)
    BY <1>0, <2>1
  <2> QED BY <1>0, <1>5, <1>13, <2>1, <2>2 DEF AbortKeepalive
<1>14. ASSUME AbortKeepaliveDone \/ Exited \/ UNCHANGED vars
       PROVE  /\ keep' = keep /\ Same /\ checking' = checking
              /\ phase' \in {"run", "keepalive", "halves", "keepalive2", "exit", "failed"}
  BY <1>0, <1>14 DEF AbortKeepaliveDone, Exited, vars
<1>15. CASE \E c \in Conns : Network(c) \/ Afresh(c)
  BY <1>0, <1>3, <1>4, <1>6a, <1>15 DEF Network, Afresh, SeenInv
<1>16. CASE \E i \in 1 .. Len(keep) : CheckKeepalive(i) \/ KeepaliveFails(i)
  BY <1>0, <1>6, <1>6b, <1>16 DEF SeenInv
<1>17. CASE Check
  BY <1>0, <1>7, <1>8, <1>9, <1>17 DEF Check, SeenInv
<1>18. CASE Handler
  BY <1>0, <1>10, <1>11, <1>18 DEF Handler, SeenInv
<1>19. CASE Terminate \/ Exited \/ UNCHANGED vars
  BY <1>0, <1>12, <1>13, <1>14, <1>19 DEF Terminate, SeenInv
<1> QED BY <1>2, <1>15, <1>16, <1>17, <1>18, <1>19 DEF Next

\* Once the queue is aborted nothing is on it.
LEMMA AbortedQueue ==
    ASSUME Core, Core', OnQueue' = {}
    PROVE  queue' = << >>
<1>1. queue' \in Seq(Conns) /\ Elems(queue') = {}
  BY DEF Core, CoreOK, QueueInv
<1>2. Len(queue') \in Nat /\ ~(1 \in 1 .. Len(queue'))
  <2>1. \A i \in 1 .. Len(queue') : queue'[i] \in Elems(queue')
    BY DEF Elems
  <2> QED BY <1>1, <2>1
<1>3. Len(queue') = 0
  BY <1>2
<1> QED BY <1>1, <1>3, EmptySeq

\* The steps of the shutdown come in order, and once the last connections
\* and the last kept sockets are gone no others take their place.
LEMMA PhaseStep ==
    ASSUME IInv, [Next]_vars
    PROVE  PhaseInv'
<1> DEFINE Late == {"keepalive", "keepalive2", "exit", "failed"}
           Phases == phase = "run" \/ phase = "halves"
<1>0. /\ Core /\ keep \in Seq({u \in Uris : HostOf[u] # NoHost})
      /\ phase \in {"run", "keepalive", "halves", "keepalive2", "exit", "failed"}
      /\ phase \in Late => cur = NoConn /\ ~checking
      /\ phase \in {"halves", "keepalive2", "exit"} => keep = << >>
      /\ phase \in {"keepalive2", "exit"} => queue = << >>
  BY DEF IInv, RestOK, PhaseInv
<1>1. ASSUME phase' = "run" PROVE PhaseInv'
  BY <1>1 DEF PhaseInv
<1>2. ASSUME phase = "halves", phase' = phase, keep' = keep PROVE PhaseInv'
  BY <1>0, <1>2 DEF PhaseInv
<1>3. ASSUME phase' = phase, keep' = keep, checking \/ cur # NoConn PROVE PhaseInv'
  <2>1. phase = "run" \/ phase = "halves"
    BY <1>0, <1>3
  <2> QED BY <1>1, <1>2, <1>3, <2>1
<1>4. CASE Request
  BY <1>1, <1>4, RequestRest
<1>5. CASE \E c \in Conns : Network(c) \/ Afresh(c)
  <2>1. phase' = phase /\ Loop
    BY <1>5 DEF Network, Afresh, Finish, AddKeepalive, RetryConnection, RetryBlacklisted, NewData
  <2> QED BY <1>1, <2>1 DEF Loop
<1>6. ASSUME NEW i \in 1 .. Len(keep), CheckKeepalive(i) PROVE PhaseInv'
  <2>1. phase' = phase /\ (phase = "run" \/ checking)
    BY <1>6 DEF CheckKeepalive, Loop
  <2>2. keep # << >>
    BY <1>6
  <2>3. phase = "run"
    BY <1>0, <2>1, <2>2
  <2> QED BY <1>1, <2>1, <2>3
<1>7. CASE StartCheck
  <2>1. (phase = "run" \/ phase = "halves") /\ phase' = phase /\ keep' = keep
    BY <1>7 DEF StartCheck
  <2> QED BY <1>1, <1>2, <2>1
<1>8. CASE \/ EndCheck
           \/ \E i \in 1 .. Len(queue) :
                RunConnection(i) \/ RunOutOfMemory(i) \/ SuspendConnection(i)
  <2>1. phase' = phase /\ keep' = keep /\ checking
    BY <1>8 DEF EndCheck, RunConnection, RunOutOfMemory, SuspendConnection, Round
  <2> QED BY <1>3, <2>1
<1>9. CASE HandlerStarts
  <2>1. phase' = phase /\ cur # NoConn /\ keep' = TakeKept(conn[cur].uri)
    BY <1>9 DEF HandlerStarts
  <2>2. keep = << >> => keep' = << >>
    BY <1>0, <2>1, KeptFacts
  <2>3. phase = "run" \/ phase = "halves"
    BY <1>0, <2>1
  <2>4. CASE phase = "run"
    BY <1>1, <2>1, <2>4
  <2>5. CASE phase = "halves"
    <3>1. keep' = keep
      BY <1>0, <2>2, <2>5
    <3> QED BY <1>2, <2>1, <2>5, <3>1
  <2> QED BY <2>3, <2>4, <2>5
<1>10. CASE HandlerAborts \/ HandlerRetries
  <2>1. phase' = phase /\ keep' = keep /\ cur # NoConn
    BY <1>10 DEF HandlerAborts, HandlerRetries
  <2> QED BY <1>3, <2>1
<1>11. CASE Shutdown
  <2>1. phase' = "keepalive" /\ cur' = NoConn /\ ~checking'
    BY <1>11 DEF Shutdown, Loop
  <2> QED BY <2>1 DEF PhaseInv
<1>12. CASE AbortKeepalive
  <2>1. phase' = phase /\ phase = "keepalive" /\ cur' = cur /\ checking' = checking
    BY <1>0, <1>12 DEF AbortKeepalive
  <2> QED BY <1>0, <2>1 DEF PhaseInv
<1>13. CASE AbortKeepaliveDone
  <2>1. /\ keep = << >> /\ keep' = keep /\ queue' = queue /\ cur' = cur /\ checking' = checking
        /\ \/ phase = "keepalive" /\ phase' = "halves"
           \/ phase = "keepalive2" /\ phase' = "exit"
    BY <1>13 DEF AbortKeepaliveDone
  <2> QED BY <1>0, <2>1 DEF PhaseInv
<1>14. CASE AbortAgain
  <2>1. /\ phase = "halves" /\ phase' = "keepalive2" /\ keep' = keep /\ cur = NoConn /\ cur' = cur
        /\ ~checking /\ checking' = checking /\ Abort(OnQueue, "result")
    BY <1>14 DEF AbortAgain, AbortQueue
  <2>2. OnQueue' = {} /\ Core'
    <3>1. OnQueue \in SUBSET OnQueue
      OBVIOUS
    <3> QED BY <1>0, <2>1, <3>1, AbortIdle
  <2>3. queue' = << >>
    BY <1>0, <2>2, AbortedQueue
  <2> QED BY <1>0, <2>1, <2>3 DEF PhaseInv
<1>15. CASE Exited \/ UNCHANGED vars
  <2>1. phase' = phase /\ keep' = keep /\ queue' = queue /\ cur' = cur /\ checking' = checking
    BY <1>15 DEF Exited, vars
  <2> QED BY <1>0, <2>1 DEF PhaseInv
<1>6a. ASSUME NEW i \in 1 .. Len(keep), KeepaliveFails(i) PROVE PhaseInv'
  <2>1. phase' = "failed" /\ cur' = NoConn /\ ~checking'
    BY <1>0, <1>6a DEF KeepaliveFails, Loop
  <2> QED BY <2>1 DEF PhaseInv
<1>16. CASE \E i \in 1 .. Len(keep) : CheckKeepalive(i) \/ KeepaliveFails(i)
  BY <1>6, <1>6a, <1>16
<1>17. CASE Check \/ Handler \/ Terminate
  BY <1>7, <1>8, <1>9, <1>10, <1>11, <1>12, <1>13, <1>14, <1>17 DEF Check, Handler, Terminate
<1> QED BY <1>4, <1>5, <1>15, <1>16, <1>17 DEF Next

\* A connection that is tried again does not wait.
LEMMA RetryState ==
    ASSUME Core, NEW c \in OnQueue, NEW t, Retry(c, t), cur' # NoConn
    PROVE  /\ cur' = c /\ ~Waiting(c)' /\ bh' = bh
           /\ active' = (active - 1) + 1 /\ hosts' = AddHost(DoneHosts({c}), conn[c].uri)
           /\ conn' = [conn EXCEPT ![c] = Tried(conn[c], t)] /\ ~LastTry(c, t)
<1>1. /\ cur' = c /\ bh' = bh /\ conn' = [conn EXCEPT ![c] = Tried(conn[c], t)]
      /\ active' = (active - 1) + 1 /\ hosts' = AddHost(DoneHosts({c}), conn[c].uri)
      /\ ~LastTry(c, t)
  BY DEF Retry, RetryOutOfMemory
<1>2. Tried(conn[c], t).state = "result"
  <2>1. conn[c] \in ConnType
    BY OnQueueFacts
  <2> QED BY <2>1 DEF Tried, ConnType
<1>3. conn'[c] = Tried(conn[c], t)
  BY <1>1 DEF Core, CoreOK, OnQueue
<1> QED BY <1>1, <1>2, <1>3 DEF Waiting

\* Outside check_queue() a handler runs only after another failed.
LEMMA HandlerStep ==
    ASSUME IInv, [Next]_vars
    PROVE  HandlerInv'
<1>0. /\ Core /\ HandlerInv /\ (phase \in {"keepalive", "keepalive2", "exit"} => cur = NoConn)
  BY DEF IInv, PhaseInv
<1>1. ASSUME cur' = NoConn PROVE HandlerInv'
  BY <1>1 DEF HandlerInv
<1>2. CASE Request
  BY <1>1, <1>2, RequestRest
<1>3. ASSUME NEW c \in OnQueue, NEW t, Retry(c, t) PROVE HandlerInv'
  <2>1. CASE cur' = NoConn
    BY <1>1, <2>1
  <2>2. CASE cur' # NoConn
    <3>1. cur' = c /\ ~Waiting(c)'
      BY <1>0, <1>3, <2>2, RetryState
    <3>2. ~Waiting(cur)'
      BY <3>1 DEF Waiting
    <3> QED BY <3>2 DEF HandlerInv
  <2> QED BY <2>1, <2>2
<1>4. ASSUME NEW c \in Conns, Network(c) \/ Afresh(c) PROVE HandlerInv'
  <2>1. CASE Finish(c) \/ AddKeepalive(c) \/ NewData(c)
    <3>1. cur' = NoConn
      BY <2>1 DEF Finish, AddKeepalive, NewData, Loop
    <3> QED BY <1>1, <3>1
  <2>2. CASE RetryConnection(c) \/ RetryBlacklisted(c)
    <3>1. c \in OnQueue /\ \E t : Retry(c, t)
      BY <2>2 DEF RetryConnection, RetryBlacklisted, InTransfer
    <3> QED BY <1>3, <3>1
  <2> QED BY <1>4, <2>1, <2>2 DEF Network, Afresh
<1>5. CASE \E i \in 1 .. Len(keep) : CheckKeepalive(i) \/ KeepaliveFails(i)
  <2>1. ASSUME NEW i \in 1 .. Len(keep), CheckKeepalive(i) PROVE HandlerInv'
    <3>1. cur' = NoConn
      BY <2>1 DEF CheckKeepalive, Loop
    <3> QED BY <1>1, <3>1
  <2>2. ASSUME NEW i \in 1 .. Len(keep), KeepaliveFails(i) PROVE HandlerInv'
    <3>1. cur' = NoConn
      BY <1>0, <2>2 DEF KeepaliveFails, Loop
    <3> QED BY <1>1, <3>1
  <2> QED BY <1>5, <2>1, <2>2
<1>6. CASE Check
  <2>1. CASE \/ StartCheck
             \/ \E i \in 1 .. Len(queue) :
                  RunConnection(i) \/ RunOutOfMemory(i) \/ SuspendConnection(i)
    <3>1. ASSUME StartCheck PROVE checking' = TRUE
      BY <3>1 DEF StartCheck
    <3>2. ASSUME NEW i \in 1 .. Len(queue),
                 RunConnection(i) \/ RunOutOfMemory(i) \/ SuspendConnection(i)
          PROVE  checking' = checking /\ checking
      BY <3>2 DEF RunConnection, RunOutOfMemory, SuspendConnection, Round
    <3>3. checking'
      BY <2>1, <3>1, <3>2
    <3> QED BY <3>3 DEF HandlerInv
  <2>2. CASE EndCheck
    <3>1. cur' = NoConn
      BY <2>2 DEF EndCheck, Round
    <3> QED BY <1>1, <3>1
  <2> QED BY <1>6, <2>1, <2>2 DEF Check
<1>7. CASE Handler
  <2>1. CASE HandlerStarts \/ HandlerAborts
    <3>1. cur' = NoConn
      BY <2>1 DEF HandlerStarts, HandlerAborts
    <3> QED BY <1>1, <3>1
  <2>2. CASE HandlerRetries
    <3>1. cur \in OnQueue /\ Retry(cur, conn[cur].tries)
      BY <1>0, <2>2 DEF HandlerRetries, Core, CoreOK
    <3> QED BY <1>3, <3>1
  <2> QED BY <1>7, <2>1, <2>2 DEF Handler
<1>8. CASE Terminate
  <2>1. cur' = NoConn
    BY <1>0, <1>8 DEF Terminate, Shutdown, Loop, AbortKeepalive, AbortKeepaliveDone, AbortAgain
  <2> QED BY <1>1, <2>1
<1>9. CASE Exited \/ UNCHANGED vars
  <2>1. cur' = cur /\ checking' = checking /\ conn' = conn
    BY <1>9 DEF Exited, vars
  <2> QED BY <1>0, <2>1 DEF HandlerInv, Waiting
<1> QED BY <1>2, <1>4, <1>5, <1>6, <1>7, <1>8, <1>9 DEF Next

-----------------------------------------------------------------------------
(* Nothing waits that could run.                                           *)

\* What is full stays full when the counters do not go down, and a victim
\* was one before.
LEMMA StillFull ==
    ASSUME Core, lim \in LimitSet, lim' = lim, active' \in Nat, hosts' \in [Hosts -> Nat],
           active' >= active, \A h \in Hosts : hosts'[h] >= hosts[h],
           NEW c \in OnQueue, GetPriority(conn'[c]) = GetPriority(conn[c]), conn'[c].uri = conn[c].uri
    PROVE  /\ CanRun(c)' => CanRun(c)
           /\ \A v \in OnQueue :
                /\ GetPriority(conn'[v]) = GetPriority(conn[v]) /\ conn'[v].uri = conn[v].uri
                /\ conn'[v].state = "wait" <=> conn[v].state = "wait"
                /\ Victim(c, v)'
                => Victim(c, v)
<1>1. /\ lim.conns \in Nat /\ lim.tohost \in Nat /\ active \in Nat /\ hosts \in [Hosts -> Nat]
  BY MostFacts DEF Core, CoreOK
<1>2. HostName(c)' = HostName(c)
  BY DEF HostName
<1>3. HostFull(c) => HostFull(c)'
  <2>1. SUFFICES ASSUME HostFull(c) PROVE HostFull(c)'
    OBVIOUS
  <2>2. PICK h \in Hosts : h = HostName(c) /\ hosts[h] >= lim.tohost
    BY <2>1 DEF HostFull
  <2>3. hosts[h] \in Nat /\ hosts'[h] \in Nat /\ hosts'[h] >= hosts[h]
    BY <1>1
  <2>4. hosts'[h] >= lim.tohost
    BY <1>1, <2>2, <2>3
  <2> QED BY <1>2, <2>2, <2>4 DEF HostFull
<1>4. AllFull => AllFull'
  BY <1>1 DEF AllFull
<1>5. CanRun(c)' => CanRun(c)
  BY <1>3, <1>4 DEF CanRun
<1>6. ASSUME NEW v \in OnQueue, GetPriority(conn'[v]) = GetPriority(conn[v]), conn'[v].uri = conn[v].uri,
             conn'[v].state = "wait" <=> conn[v].state = "wait", Victim(c, v)'
      PROVE  Victim(c, v)
  <2>1. Priority(v)' = Priority(v) /\ Priority(c)' = Priority(c) /\ HostName(v)' = HostName(v)
    BY <1>6 DEF Priority, HostName
  <2>2. Waiting(v)' <=> Waiting(v)
    BY <1>6 DEF Waiting
  <2> QED BY <1>2, <1>3, <1>6, <2>1, <2>2 DEF Victim
<1> QED BY <1>5, <1>6

\* A step that frees no place and moves nothing that waits leaves nothing
\* undone; the goodbye of a kept socket is no victim.
LEMMA WorkKept ==
    ASSUME Core, Core', WorkInv, lim \in LimitSet, lim' = lim, phase' = phase, checking' = checking,
           bh => bh', active' >= active, \A h \in Hosts : hosts'[h] >= hosts[h],
           \A c \in OnQueue' :
             \/ /\ c \in OnQueue
                /\ GetPriority(conn'[c]) = GetPriority(conn[c]) /\ conn'[c].uri = conn[c].uri
                /\ conn'[c].extra = conn[c].extra
                /\ conn'[c].state = "wait" <=> conn[c].state = "wait"
             \/ ~Waiting(c)' /\ conn'[c].extra
    PROVE  WorkInv'
<1>1. SUFFICES ASSUME phase' = "run", ~bh', ~checking', NEW c \in OnQueue', Waiting(c)'
               PROVE  ~CanRun(c)' /\ \A v \in OnQueue' : Victim(c, v)' => conn'[v].extra
  BY DEF WorkInv
<1>2. phase = "run" /\ ~bh /\ ~checking
  BY <1>1
<1>3. /\ c \in OnQueue /\ Waiting(c)
      /\ GetPriority(conn'[c]) = GetPriority(conn[c]) /\ conn'[c].uri = conn[c].uri
  BY <1>1 DEF Waiting
<1>4. ~CanRun(c) /\ \A v \in OnQueue : Victim(c, v) => conn[v].extra
  BY <1>2, <1>3 DEF WorkInv
<1>5. active' \in Nat /\ hosts' \in [Hosts -> Nat]
  BY DEF Core, CoreOK
<1>6. /\ CanRun(c)' => CanRun(c)
      /\ \A v \in OnQueue :
           /\ GetPriority(conn'[v]) = GetPriority(conn[v]) /\ conn'[v].uri = conn[v].uri
           /\ conn'[v].state = "wait" <=> conn[v].state = "wait"
           /\ Victim(c, v)'
           => Victim(c, v)
  BY <1>3, <1>5, StillFull
<1>7. ASSUME NEW v \in OnQueue', Victim(c, v)' PROVE conn'[v].extra
  <2>1. CASE conn'[v].extra
    BY <2>1
  <2>2. CASE ~conn'[v].extra
    <3>1. /\ v \in OnQueue
          /\ GetPriority(conn'[v]) = GetPriority(conn[v]) /\ conn'[v].uri = conn[v].uri
          /\ conn'[v].extra = conn[v].extra
          /\ conn'[v].state = "wait" <=> conn[v].state = "wait"
      BY <2>2
    <3>2. Victim(c, v)
      BY <1>6, <1>7, <3>1
    <3>3. conn[v].extra
      BY <1>4, <3>1, <3>2
    <3> QED BY <2>2, <3>1, <3>3
  <2> QED BY <2>1, <2>2
<1> QED BY <1>4, <1>6, <1>7

\* Nothing that check_queue() looks at has changed.
LEMMA WorkSame ==
    ASSUME Core, Core', WorkInv, lim \in LimitSet, lim' = lim, phase' = phase, checking' = checking,
           bh => bh', active' = active, hosts' = hosts, Unmoved
    PROVE  WorkInv'
<1>1. active \in Nat /\ hosts \in [Hosts -> Nat]
  BY DEF Core, CoreOK
<1>2. active' >= active /\ \A h \in Hosts : hosts'[h] >= hosts[h]
  BY <1>1
<1>3. \A c \in OnQueue' :
        /\ c \in OnQueue
        /\ GetPriority(conn'[c]) = GetPriority(conn[c]) /\ conn'[c].uri = conn[c].uri
        /\ conn'[c].extra = conn[c].extra
        /\ conn'[c].state = "wait" <=> conn[c].state = "wait"
  BY DEF Unmoved
<1> QED BY <1>2, <1>3, WorkKept

\* again2 of check_queue(): nothing can be started, and what is removed did
\* not run.
LEMMA EndCheckWork ==
    ASSUME Core, lim \in LimitSet, EndCheck
    PROVE  WorkInv'
<1> DEFINE S == {c \in OnQueue : Priority(c) >= Cancel /\ Waiting(c)}
<1>1. /\ S \in SUBSET OnQueue /\ Abort(S, "result") /\ cur = NoConn /\ cur' = cur /\ lim' = lim
      /\ \A i \in 1 .. Len(queue) : ~CanTry(queue[i])
  BY DEF EndCheck, Round
<1>2. Running(S) = {}
  <2>1. ASSUME NEW c \in OnQueue, Waiting(c) PROVE ~conn[c].running
    <3>1. c # NoConn
      BY OnQueueFacts
    <3> QED BY <1>1, <2>1, <3>1 DEF Core, StateInv
  <2> QED BY <2>1 DEF Running
<1> HIDE DEF S
<1>3. Core' /\ OnQueue' = OnQueue \ S /\ \A c \in OnQueue' : conn'[c] = conn[c]
  BY <1>1, AbortIdle
<1>4. active' = active /\ hosts' = hosts
  <2>1. active \in Nat /\ hosts \in [Hosts -> Nat]
    BY DEF Core, CoreOK
  <2>2. \A h : {c \in Running(S) : HostName(c) = h} = {}
    BY <1>2
  <2>3. Cardinality({}) = 0
    BY FS_EmptySet
  <2>4. active' = active - 0
    BY <1>1, <1>2, <2>3 DEF Abort
  <2>5. hosts' = [h \in Hosts |-> hosts[h] - 0]
    BY <1>1, <2>2, <2>3 DEF Abort, DoneHosts
  <2> QED BY <2>1, <2>4, <2>5
<1>5. SUFFICES ASSUME NEW c \in OnQueue', Waiting(c)'
               PROVE  ~CanRun(c)' /\ \A v \in OnQueue' : Victim(c, v)' => conn'[v].extra
  BY DEF WorkInv
<1>6. c \in OnQueue /\ conn'[c] = conn[c] /\ Waiting(c)
  BY <1>3, <1>5 DEF Waiting
<1>7. ~CanRun(c) /\ Victims(c) = {}
  <2>1. PICK i \in 1 .. Len(queue) : c = queue[i]
    BY <1>6 DEF Core, QueueInv, Elems
  <2> QED BY <1>1, <1>6, <2>1 DEF CanTry
<1>8. active' \in Nat /\ hosts' \in [Hosts -> Nat] /\ active' >= active /\ \A h \in Hosts : hosts'[h] >= hosts[h]
  BY <1>3, <1>4 DEF Core, CoreOK
<1>9. /\ CanRun(c)' => CanRun(c)
      /\ \A v \in OnQueue :
           /\ GetPriority(conn'[v]) = GetPriority(conn[v]) /\ conn'[v].uri = conn[v].uri
           /\ conn'[v].state = "wait" <=> conn[v].state = "wait"
           /\ Victim(c, v)'
           => Victim(c, v)
  BY <1>1, <1>6, <1>8, StillFull
<1>10. ASSUME NEW v \in OnQueue', Victim(c, v)' PROVE FALSE
  <2>1. v \in OnQueue /\ Victim(c, v)
    BY <1>3, <1>9, <1>10
  <2>2. PICK i \in 1 .. Len(queue) : v = queue[i]
    BY <2>1 DEF Core, QueueInv, Elems
  <2>3. i \in Victims(c)
    BY <2>1, <2>2 DEF Victims, Victim
  <2> QED BY <1>7, <2>3
<1> QED BY <1>7, <1>9, <1>10

\* A retry that has no memory for its host.
NoMemory == \E c \in OnQueue : \E tries \in {conn[c].tries, -1} : RetryOutOfMemory(c, tries)

\* Whatever frees a place, raises a connection or changes an option
\* registers check_queue(), or happens while it runs, with one exception.
LEMMA WorkStep ==
    ASSUME IInv, WorkInv, [Next]_vars, ~NoMemory
    PROVE  WorkInv'
<1>0. /\ Core /\ Core' /\ WorkInv /\ HandlerInv /\ lim \in LimitSet /\ bh \in BOOLEAN
      /\ keep \in Seq({u \in Uris : HostOf[u] # NoHost})
  BY CoreStep DEF IInv, RestOK
<1>1. ASSUME bh' PROVE WorkInv'
  BY <1>1 DEF WorkInv
<1>2. ASSUME checking' PROVE WorkInv'
  BY <1>2 DEF WorkInv
<1>3. ASSUME phase' # "run" PROVE WorkInv'
  BY <1>3 DEF WorkInv
<1>4. ASSUME conn' = conn PROVE Unmoved
  <2>1. OnQueue' = OnQueue
    BY <1>4 DEF OnQueue
  <2> QED BY <1>4, <2>1 DEF Unmoved
<1>5. ASSUME NEW d \in Downloads, LoadWithoutConnection(d) \/ \E e \in Downloads : ChangeEnded(d, e)
      PROVE  WorkInv'
  <2>1. /\ conn' = conn /\ lim' = lim /\ phase' = phase /\ checking' = checking /\ bh' = bh
        /\ active' = active /\ hosts' = hosts
    BY <1>5 DEF LoadWithoutConnection, ChangeEnded
  <2>2. Unmoved
    BY <1>4, <2>1
  <2> QED BY <1>0, <2>1, <2>2, WorkSame
<1>6. ASSUME NEW d \in Downloads, NEW u \in Uris, NEW p \in 0 .. Cancel - 1, LoadJoin(d, u, p)
      PROVE  WorkInv'
  <2>1. /\ lim' = lim /\ phase' = phase /\ checking' = checking
        /\ active' = active /\ hosts' = hosts /\ cur = NoConn
    BY <1>6 DEF LoadJoin, User
  <2>2. CASE bh'
    BY <1>1, <2>2
  <2>3. CASE ~bh'
    <3>1. Unmoved
      BY <1>0, <1>6, <2>1, <2>3, LoadJoinCore
    <3>2. bh => bh'
      <4>1. PICK b : bh' = (bh \/ b)
        BY <1>6 DEF LoadJoin
      <4> QED BY <4>1
    <3> QED BY <1>0, <2>1, <3>1, <3>2, WorkSame
  <2> QED BY <2>2, <2>3
<1>7. ASSUME NEW d \in Downloads, DetachConnection(d) PROVE WorkInv'
  <2>1. /\ lim' = lim /\ phase' = phase /\ checking' = checking /\ bh' = bh
        /\ active' = active /\ hosts' = hosts
    BY <1>7 DEF DetachConnection
  <2>2. PICK c \in OnQueue : c = dl[d].conn
    BY <1>0, <1>7 DEF DetachConnection, Core, OwnInv
  <2> DEFINE r == [conn[c] EXCEPT !.detached = TRUE]
  <2>3. conn[c] \in ConnType
    BY <1>0, OnQueueFacts
  <2>4. /\ r \in ConnType /\ r.pri = conn[c].pri /\ r.uri = conn[c].uri /\ r.state = conn[c].state
        /\ r.extra = conn[c].extra
    BY <2>3 DEF ConnType
  <2>5. conn' = [conn EXCEPT ![c] = r]
    BY <1>7, <2>2 DEF DetachConnection
  <2> HIDE DEF r
  <2>6. Unmoved
    BY <1>0, <2>4, <2>5, RecordUnmoved
  <2> QED BY <1>0, <2>1, <2>6, WorkSame
<1>8. ASSUME NEW d \in Downloads, NEW u \in Uris, NEW p \in 0 .. Cancel - 1, LoadNew(d, u, p)
      PROVE  bh' = TRUE
  BY <1>8 DEF LoadNew
<1>9. ASSUME NEW d \in Downloads, NEW e \in Downloads, NEW p \in 0 .. Cancel - 1,
             ChangeConnection(d, e, p)
      PROVE  bh' = TRUE
  BY <1>9 DEF ChangeConnection
<1>10. ASSUME NEW d \in Downloads, NEW interrupt \in BOOLEAN, CancelDownload(d, interrupt)
       PROVE  bh' = TRUE
  BY <1>10 DEF CancelDownload
<1>11. ASSUME AbortBackground \/ \E l \in LimitSet : SetLimits(l) PROVE bh' = TRUE
  BY <1>11 DEF AbortBackground, SetLimits
<1>12. CASE Request
  BY <1>1, <1>5, <1>6, <1>7, <1>8, <1>9, <1>10, <1>11, <1>12 DEF Request
<1>13. ASSUME NEW c \in OnQueue, NEW t \in {conn[c].tries, -1}, Retry(c, t), ~Waiting(c),
              conn[c].running,
              lim' = lim, phase' = phase, checking' = checking
       PROVE  WorkInv'
  <2>1. CASE cur' = NoConn
    <3>1. c # NoConn
      BY <1>0, OnQueueFacts
    <3>2. bh' = TRUE
      BY <1>13, <2>1, <3>1 DEF Retry, NoMemory
    <3> QED BY <1>1, <3>2
  <2>2. CASE cur' # NoConn
    <3>1. /\ bh' = bh /\ conn' = [conn EXCEPT ![c] = Tried(conn[c], t)]
          /\ active' = (active - 1) + 1 /\ hosts' = AddHost(DoneHosts({c}), conn[c].uri)
      BY <1>0, <1>13, <2>2, RetryState
    <3>2. active' = active /\ hosts' = hosts
      BY <1>0, <1>13, <3>1, Recount
    <3> DEFINE r == Tried(conn[c], t)
    <3>3. conn[c] \in ConnType
      BY <1>0, OnQueueFacts
    <3>4. /\ r \in ConnType /\ r.pri = conn[c].pri /\ r.uri = conn[c].uri /\ r.state = "result"
          /\ r.extra = conn[c].extra
      <4>1. PICK n \in Nat : n = t + 1
        BY <3>3 DEF ConnType
      <4>2. r = [conn[c] EXCEPT !.tries = n, !.state = "result"]
        BY <4>1 DEF Tried
      <4> HIDE DEF r
      <4> QED BY <3>3, <4>2 DEF ConnType
    <3> HIDE DEF r
    <3>5. r.state = "wait" <=> conn[c].state = "wait"
      BY <1>13, <3>4 DEF Waiting
    <3>6. conn' = [conn EXCEPT ![c] = r]
      BY <3>1 DEF r
    <3>7. Unmoved
      BY <1>0, <3>4, <3>5, <3>6, RecordUnmoved
    <3> QED BY <1>0, <1>13, <3>1, <3>2, <3>7, WorkSame
  <2> QED BY <2>1, <2>2
<1>14. ASSUME NEW c \in Conns, Network(c) \/ Afresh(c) PROVE WorkInv'
  <2>1. CASE Finish(c) \/ AddKeepalive(c)
    <3>1. bh' = TRUE
      BY <2>1 DEF Finish, AddKeepalive
    <3> QED BY <1>1, <3>1
  <2>2. CASE RetryConnection(c) \/ RetryBlacklisted(c)
    <3>1. /\ c \in OnQueue /\ ~Waiting(c) /\ cur = NoConn
          /\ \E t \in {conn[c].tries, -1} : Retry(c, t)
          /\ lim' = lim /\ phase' = phase /\ checking' = checking
      BY <2>2 DEF RetryConnection, RetryBlacklisted, InTransfer, Loop, Waiting
    <3>2. c # NoConn
      BY ConnectionAssumption
    <3>3. conn[c].running
      BY <1>0, <3>1, <3>2 DEF Core, StateInv
    <3> QED BY <1>13, <3>1, <3>3
  <2>3. CASE NewData(c)
    <3>1. /\ lim' = lim /\ phase' = phase /\ checking' = checking /\ bh' = bh
          /\ active' = active /\ hosts' = hosts
      BY <2>3 DEF NewData
    <3>2. Unmoved
      BY <1>0, <2>3, NewDataFacts
    <3> QED BY <1>0, <3>1, <3>2, WorkSame
  <2> QED BY <1>14, <2>1, <2>2, <2>3 DEF Network, Afresh
<1>14a. ASSUME NEW i \in 1 .. Len(keep), KeepaliveFails(i) PROVE phase' # "run"
  BY <1>14a DEF KeepaliveFails
<1>15. ASSUME NEW i \in 1 .. Len(keep), CheckKeepalive(i) PROVE WorkInv'
  <2>1. /\ cur = NoConn /\ cur' = cur /\ dl' = dl /\ DoneKeepalive(i)
        /\ lim' = lim /\ phase' = phase /\ checking' = checking /\ bh' = bh
    BY <1>15 DEF CheckKeepalive, Loop
  <2>2. /\ OnQueue \subseteq OnQueue' /\ \A c \in OnQueue : conn'[c] = conn[c]
        /\ \A c \in OnQueue' \ OnQueue : ~Waiting(c)' /\ conn'[c].extra
        /\ active' >= active /\ \A h \in Hosts : hosts'[h] >= hosts[h]
    BY <1>0, <2>1, DoneKeepaliveCore
  <2>3. \A c \in OnQueue' :
          \/ /\ c \in OnQueue
             /\ GetPriority(conn'[c]) = GetPriority(conn[c]) /\ conn'[c].uri = conn[c].uri
             /\ conn'[c].extra = conn[c].extra
             /\ conn'[c].state = "wait" <=> conn[c].state = "wait"
          \/ ~Waiting(c)' /\ conn'[c].extra
    BY <2>2
  <2> QED BY <1>0, <2>1, <2>2, <2>3, WorkKept
<1>16. CASE StartCheck
  <2>1. checking' = TRUE
    BY <1>16 DEF StartCheck
  <2> QED BY <1>2, <2>1
<1>17. ASSUME NEW i \in 1 .. Len(queue),
              RunConnection(i) \/ RunOutOfMemory(i) \/ SuspendConnection(i)
       PROVE  WorkInv'
  <2>1. checking' = checking /\ checking
    BY <1>17 DEF RunConnection, RunOutOfMemory, SuspendConnection, Round
  <2> QED BY <1>2, <2>1
<1>18. CASE EndCheck
  BY <1>0, <1>18, EndCheckWork
<1>19. CASE HandlerStarts
  <2>1. CASE checking
    <3>1. checking' = checking
      BY <1>19 DEF HandlerStarts
    <3> QED BY <1>2, <2>1, <3>1
  <2>2. CASE ~checking
    <3>1. PICK c \in OnQueue : c = cur
      BY <1>0, <1>19 DEF HandlerStarts, Core, CoreOK
    <3>2. /\ lim' = lim /\ phase' = phase /\ checking' = checking /\ bh' = bh
          /\ active' = active /\ hosts' = hosts /\ conn' = [conn EXCEPT ![c].state = "busy"]
      BY <1>19, <3>1 DEF HandlerStarts
    <3>3. conn[c] \in ConnType /\ ~Waiting(c)
      <4>1. cur # NoConn
        BY <1>19 DEF HandlerStarts
      <4>2. ~Waiting(cur)
        BY <1>0, <2>2, <4>1 DEF HandlerInv
      <4> QED BY <1>0, <3>1, <4>2, OnQueueFacts
    <3> DEFINE r == [conn[c] EXCEPT !.state = "busy"]
    <3>4. /\ r \in ConnType /\ r.pri = conn[c].pri /\ r.uri = conn[c].uri /\ r.state = "busy"
          /\ r.extra = conn[c].extra
      BY <3>3 DEF ConnType
    <3>5. conn' = [conn EXCEPT ![c] = r]
      BY <3>2
    <3> HIDE DEF r
    <3>6. r.state = "wait" <=> conn[c].state = "wait"
      BY <3>3, <3>4 DEF Waiting
    <3>7. Unmoved
      BY <1>0, <3>4, <3>5, <3>6, RecordUnmoved
    <3> QED BY <1>0, <3>2, <3>7, WorkSame
  <2> QED BY <2>1, <2>2
<1>20. CASE HandlerAborts
  <2>1. bh' = TRUE
    BY <1>20 DEF HandlerAborts
  <2> QED BY <1>1, <2>1
<1>21. CASE HandlerRetries
  <2>1. /\ cur \in OnQueue /\ Retry(cur, conn[cur].tries) /\ cur # NoConn
        /\ lim' = lim /\ phase' = phase /\ checking' = checking
    BY <1>0, <1>21 DEF HandlerRetries, Core, CoreOK
  <2>2. conn[cur].running
    BY <1>0, <2>1 DEF Core, StateInv
  <2>3. CASE checking
    BY <1>2, <2>1, <2>3
  <2>4. CASE ~checking
    <3>1. ~Waiting(cur)
      BY <1>0, <2>1, <2>4 DEF HandlerInv
    <3> QED BY <1>13, <2>1, <2>2, <3>1
  <2> QED BY <2>3, <2>4
<1>22. CASE Terminate
  <2>1. phase' # "run"
    BY <1>22 DEF Terminate, Shutdown, AbortKeepalive, AbortKeepaliveDone, AbortAgain
  <2> QED BY <1>3, <2>1
<1>23. CASE Exited \/ UNCHANGED vars
  <2>1. /\ conn' = conn /\ lim' = lim /\ phase' = phase /\ checking' = checking /\ bh' = bh
        /\ active' = active /\ hosts' = hosts
    BY <1>23 DEF Exited, vars
  <2>2. Unmoved
    BY <1>4, <2>1
  <2> QED BY <1>0, <2>1, <2>2, WorkSame
<1>24. CASE Check \/ Handler
  BY <1>16, <1>17, <1>18, <1>19, <1>20, <1>21, <1>24 DEF Check, Handler
<1>25. CASE \E c \in Conns : Network(c) \/ Afresh(c)
  BY <1>14, <1>25
<1>26. CASE \E i \in 1 .. Len(keep) : CheckKeepalive(i) \/ KeepaliveFails(i)
  BY <1>3, <1>14a, <1>15, <1>26
<1> QED BY <1>12, <1>22, <1>23, <1>24, <1>25, <1>26 DEF Next

-----------------------------------------------------------------------------
(* The theorems.                                                           *)

\* At the start there are no connections.
LEMMA InitIInv == Init => IInv
<1>1. SUFFICES ASSUME Init PROVE IInv
  OBVIOUS
<1>2. OnQueue = {} /\ Elems(queue) = {} /\ Len(queue) = 0
  <2>1. queue = << >> /\ \A c \in Conns : conn[c] = Free
    BY <1>1 DEF Init
  <2>2. OnQueue = {} /\ Len(queue) = 0
    BY <2>1 DEF OnQueue
  <2> QED BY <2>2 DEF Elems
<1>3. RestOK
  <2>1. keep = << >> /\ limits \in LimitSet /\ lim \in LimitSet /\ phase = "run"
    BY <1>1 DEF Init
  <2>2. bh = FALSE /\ checking = FALSE
    BY <1>1 DEF Init
  <2>3. keep \in Seq({u \in Uris : HostOf[u] # NoHost})
    BY <2>1
  <2> QED BY <2>1, <2>2, <2>3 DEF RestOK
<1>4. CoreOK
  <2>1. Result("result") \in DownloadType
    BY ConnectionAssumption DEF Result, DownloadType, Priorities
  <2> QED BY <1>1, <2>1 DEF Init, CoreOK
<1>5. QueueInv /\ StateInv
  BY <1>2 DEF QueueInv, StateInv, Ranked
<1>6. CountInv /\ LimitInv
  <2>1. Running(OnQueue) = {} /\ Counted = {}
    BY <1>2 DEF Running, Counted
  <2>2. \A h \in Hosts : RunningTo(h) = {} /\ CountedTo(h) = {}
    BY <2>1 DEF RunningTo, CountedTo
  <2>3. active = 0 /\ \A h \in Hosts : hosts[h] = 0
    BY <1>1 DEF Init
  <2>4. Cardinality({}) = 0 /\ MostConns \in Nat /\ MostToHost \in Nat
    BY FS_EmptySet, MostFacts
  <2>5. CountInv
    BY <2>1, <2>2, <2>3, <2>4 DEF CountInv
  <2>6. LimitInv
    BY <2>1, <2>2, <2>4 DEF LimitInv
  <2> QED BY <2>5, <2>6
<1>7. OwnInv
  <2>1. \A d \in Downloads : ~InProgress(d)
    BY <1>1 DEF Init, InProgress, Result
  <2> QED BY <1>2, <2>1 DEF OwnInv
<1>8. PhaseInv /\ SeenInv /\ HandlerInv
  BY <1>1, <1>2 DEF Init, PhaseInv, SeenInv, HandlerInv
<1> QED BY <1>3, <1>4, <1>5, <1>6, <1>7, <1>8 DEF IInv, Core

\* The inductive invariant holds in every state of elinks.
THEOREM Invariance == Spec => []IInv
<1>1. IInv /\ [Next]_vars => IInv'
  BY CoreStep, RestStep, PhaseStep, HandlerStep DEF IInv
<1> QED BY InitIInv, <1>1, PTL DEF Spec

\* What check_queue_bugs() asserts holds at every point, and not only where
\* a debug build looks: the queue is sorted, nothing is on it twice, what
\* has ended is gone, and active_connections is exact.
THEOREM QueueAlwaysConsistent == Spec => []QueueConsistent
<1>1. ASSUME IInv PROVE QueueConsistent
  <2>1. TypeOK
    BY <1>1 DEF IInv, RestOK, Core, CoreOK, TypeOK
  <2>2. OnQueue = {queue[i] : i \in 1 .. Len(queue)} /\ Ranked(conn, queue)
    BY <1>1 DEF IInv, Core, QueueInv, Elems
  <2>3. \A i, j \in 1 .. Len(queue) : i < j =>
          queue[i] # queue[j] /\ Priority(queue[i]) <= Priority(queue[j])
    BY <2>2 DEF Ranked, Priority
  <2>4. /\ active = Cardinality(Running(OnQueue))
        /\ \A c \in OnQueue : conn[c].state = "result" => c = cur
        /\ \A c \in OnQueue : c # cur => (Waiting(c) <=> ~conn[c].running)
    BY <1>1 DEF IInv, Core, CountInv, StateInv
  <2> QED BY <2>1, <2>2, <2>3, <2>4 DEF QueueConsistent
<1> QED BY <1>1, Invariance, PTL

\* The counters of a connection are its owners, however they join, move and
\* leave; no download is left with a connection that is gone.
THEOREM OwnersAlwaysCounted == Spec => []OwnersCounted
<1>1. ASSUME IInv PROVE OwnersCounted
  <2>1. OwnInv
    BY <1>1 DEF IInv, Core
  <2> QED BY <2>1 DEF OwnInv, OwnersCounted, OwnersOf
<1> QED BY <1>1, Invariance, PTL

\* The options bound what runs, in all and per host, and host_connections
\* is exact: no place is lost and none is given twice.
THEOREM AlwaysWithinLimits == Spec => []Limits
<1>1. ASSUME IInv PROVE Limits
  <2>1. CountInv /\ LimitInv
    BY <1>1 DEF IInv, Core
  <2> QED BY <2>1 DEF CountInv, LimitInv, Limits, Counted, CountedTo, RunningTo, MostConns, MostToHost
<1> QED BY <1>1, Invariance, PTL

\* The scheduler of one state: Settled by the places of the queue is WorkInv
\* by its elements.
LEMMA SettledWork ==
    ASSUME IInv
    PROVE  Settled <=> WorkInv
<1>1. SUFFICES ASSUME phase = "run", ~bh, ~checking
               PROVE  Settled <=> WorkInv
  BY DEF Settled, WorkInv
<1>2. lim = limits
  BY <1>1 DEF IInv, SeenInv
<1>3. ASSUME NEW c \in OnQueue
      PROVE  (\A i \in Victims(c) : conn[queue[i]].extra)
               <=> (\A v \in OnQueue : Victim(c, v) => conn[v].extra)
  <2>1. OnQueue = Elems(queue)
    BY DEF IInv, Core, QueueInv
  <2>2. \A i : i \in Victims(c) <=> i \in 1 .. Len(queue) /\ Victim(c, queue[i])
    BY DEF Victims, Victim
  <2>3. ASSUME \A i \in Victims(c) : conn[queue[i]].extra, NEW v \in OnQueue, Victim(c, v)
        PROVE  conn[v].extra
    <3>1. PICK i \in 1 .. Len(queue) : v = queue[i]
      BY <2>1 DEF Elems
    <3> QED BY <2>2, <2>3, <3>1
  <2>4. ASSUME \A v \in OnQueue : Victim(c, v) => conn[v].extra, NEW i \in Victims(c)
        PROVE  conn[queue[i]].extra
    <3>1. queue[i] \in OnQueue /\ Victim(c, queue[i])
      BY <2>1, <2>2 DEF Elems
    <3> QED BY <2>4, <3>1
  <2> QED BY <2>3, <2>4
<1> QED BY <1>1, <1>2, <1>3 DEF Settled, WorkInv

\* When the event loop is about to sleep, nothing waits that could run or
\* take the place of something less urgent, unless a retry ran out of memory.
THEOREM NothingLeftWaiting == Spec => WorkConserving
<1>1. IInv => (Settled <=> WorkInv)
  BY SettledWork
<1>2. IInv /\ [Next]_vars => [WorkInv => WorkInv' \/ NoMemory]_vars
  BY WorkStep
<1>3. [WorkInv => WorkInv' \/ NoMemory]_vars /\ (Settled <=> WorkInv) /\ (Settled <=> WorkInv)'
        => [Settled => \/ Settled'
                      \/ \E c \in OnQueue : \E tries \in {conn[c].tries, -1} :
                           RetryOutOfMemory(c, tries)]_vars
  BY DEF NoMemory
<1> QED BY <1>1, <1>2, <1>3, Invariance, PTL DEF Spec, WorkConserving

\* At exit nothing is left: no connection, no socket, no reference to a
\* host, no download in progress.
THEOREM ShutdownIsClean == Spec => []ShutdownClean
<1>1. ASSUME IInv PROVE ShutdownClean
  <2>1. SUFFICES ASSUME phase = "exit"
                 PROVE  /\ queue = << >> /\ keep = << >> /\ active = 0
                        /\ \A h \in Hosts : hosts[h] = 0
                        /\ \A d \in Downloads : ~InProgress(d)
    BY DEF ShutdownClean
  <2>2. queue = << >> /\ keep = << >> /\ Core
    BY <1>1, <2>1 DEF IInv, PhaseInv
  <2>3. OnQueue = {}
    BY <2>2 DEF Core, QueueInv, Elems
  <2>4. Running(OnQueue) = {} /\ \A h \in Hosts : RunningTo(h) = {}
    BY <2>3 DEF Running, RunningTo
  <2>5. active = 0 /\ \A h \in Hosts : hosts[h] = 0
    BY <2>2, <2>4, FS_EmptySet DEF Core, CountInv
  <2>6. \A d \in Downloads : ~InProgress(d)
    BY <2>2, <2>3 DEF Core, OwnInv
  <2> QED BY <2>2, <2>5, <2>6
<1> QED BY <1>1, Invariance, PTL

\* A connection that somebody waits for goes on as it is, or is ended.
LEMMA PostStep ==
    ASSUME IInv, Next, NEW c \in OnQueue, conn[c].running, conn[c].uri \in Posts,
           Priority(c) < Cancel, c # cur
    PROVE  conn'[c] = Free \/ conn'[c].running
<1> DEFINE Good == conn'[c] = Free \/ conn'[c].running
<1>00. SUFFICES Good
  OBVIOUS
<1>0. Core /\ conn \in [Conns -> ConnType \cup {Free}] /\ c \in Conns /\ conn[c] \in ConnType
  BY OnQueueFacts DEF IInv, Core, CoreOK
<1>1. ASSUME NEW S, NEW r, Abort(S, r) PROVE Good
  BY <1>0, <1>1 DEF Abort
<1>2. ASSUME NEW x, NEW r, x # c, conn' = [conn EXCEPT ![x] = r] PROVE Good
  <2>1. conn'[c] = conn[c]
    BY <1>0, <1>2
  <2> QED BY <2>1
<1>3. ASSUME NEW x, NEW f, conn' = [conn EXCEPT ![x] = [conn[x] EXCEPT !.pri = f]] PROVE Good
  <2>1. CASE x # c
    BY <1>2, <1>3, <2>1
  <2>2. CASE x = c
    <3> DEFINE r == [conn[c] EXCEPT !.pri = f]
    <3>1. r.running = conn[c].running
      BY <1>0 DEF ConnType
    <3>2. conn'[c] = r
      BY <1>0, <1>3, <2>2
    <3> QED BY <3>1, <3>2
  <2> QED BY <2>1, <2>2
<1>4. ASSUME conn' = conn PROVE Good
  BY <1>4
<1>5. ASSUME NEW d \in Downloads, NEW u \in Uris, NEW p \in 0 .. Cancel - 1, LoadJoin(d, u, p) PROVE Good
  <2>1. PICK x : conn' = [conn EXCEPT ![x].pri[p] = @ + 1]
    BY <1>5 DEF LoadJoin
  <2>2. conn' = [conn EXCEPT ![x] = [conn[x] EXCEPT !.pri = [conn[x].pri EXCEPT ![p] = conn[x].pri[p] + 1]]]
    BY <2>1
  <2> QED BY <1>3, <2>2
<1>6. ASSUME NEW d \in Downloads, NEW u \in Uris, NEW p \in 0 .. Cancel - 1, LoadNew(d, u, p) PROVE Good
  <2>1. PICK x \in Conns \ OnQueue : conn' = [conn EXCEPT ![x] = InitConnection(u, p)]
    BY <1>6 DEF LoadNew
  <2> QED BY <1>2, <2>1
<1>7. ASSUME NEW x, NEW d, NEW p, conn' = MovedOwner(x, d, p) PROVE Good
  <2>1. \E f : conn' = [conn EXCEPT ![x] = [conn[x] EXCEPT !.pri = f]]
    BY <1>7 DEF MovedOwner
  <2> QED BY <1>3, <2>1
<1>8. ASSUME NEW d \in Downloads, NEW e \in Downloads, NEW p \in 0 .. Cancel - 1, ChangeConnection(d, e, p)
      PROVE  Good
  BY <1>7, <1>8 DEF ChangeConnection
<1>9. ASSUME NEW d \in Downloads, NEW interrupt \in BOOLEAN, CancelDownload(d, interrupt) PROVE Good
  <2>1. Abort({dl[d].conn}, "result") \/ conn' = MovedOwner(dl[d].conn, d, Cancel)
    BY <1>9 DEF CancelDownload
  <2> QED BY <1>1, <1>7, <2>1
<1>10. ASSUME NEW d \in Downloads, DetachConnection(d) PROVE Good
  <2>1. PICK x : conn' = [conn EXCEPT ![x].detached = TRUE]
    BY <1>10 DEF DetachConnection
  <2>2. CASE x # c
    BY <1>2, <2>1, <2>2
  <2>3. CASE x = c
    <3> DEFINE r == [conn[c] EXCEPT !.detached = TRUE]
    <3>1. r.running = conn[c].running
      BY <1>0 DEF ConnType
    <3>2. conn'[c] = r
      BY <1>0, <2>1, <2>3
    <3> QED BY <3>1, <3>2
  <2> QED BY <2>2, <2>3
<1>11. CASE Request
  <2>1. ASSUME NEW d \in Downloads, LoadWithoutConnection(d) PROVE Good
    BY <1>4, <2>1 DEF LoadWithoutConnection
  <2>2. ASSUME NEW d \in Downloads, NEW e \in Downloads, ChangeEnded(d, e) PROVE Good
    BY <1>4, <2>2 DEF ChangeEnded
  <2>3. CASE AbortBackground
    BY <1>1, <2>3 DEF AbortBackground
  <2>4. ASSUME NEW l \in LimitSet, SetLimits(l) PROVE Good
    BY <1>4, <2>4 DEF SetLimits
  <2> HIDE DEF Good
  <2> QED BY <1>5, <1>6, <1>8, <1>9, <1>10, <1>11, <2>1, <2>2, <2>3, <2>4 DEF Request
<1>12. ASSUME NEW x \in OnQueue, NEW t, Retry(x, t) PROVE Good
  <2>1. CASE Abort({x}, "result") \/ Abort({x}, "nomem")
    BY <1>1, <2>1
  <2>2. CASE ~LastTry(x, t) /\ conn' = [conn EXCEPT ![x] = Tried(@, t)]
    <3>1. x # c
      BY <2>2 DEF LastTry
    <3> QED BY <1>2, <2>2, <3>1
  <2> QED BY <1>12, <2>1, <2>2 DEF Retry, RetryOutOfMemory
<1>13. ASSUME NEW x \in Conns, Network(x) \/ Afresh(x) PROVE Good
  <2>1. CASE Finish(x) \/ AddKeepalive(x)
    BY <1>1, <2>1 DEF Finish, AddKeepalive
  <2>2. CASE RetryConnection(x) \/ RetryBlacklisted(x)
    <3>1. x \in OnQueue /\ \E t : Retry(x, t)
      BY <2>2 DEF RetryConnection, RetryBlacklisted, InTransfer
    <3> QED BY <1>12, <3>1
  <2>3. CASE NewData(x)
    <3>1. conn' = [conn EXCEPT ![x].tries = 0]
      BY <2>3 DEF NewData
    <3>2. CASE x # c
      BY <1>2, <3>1, <3>2
    <3>3. CASE x = c
      <4> DEFINE r == [conn[c] EXCEPT !.tries = 0]
      <4>1. r.running = conn[c].running
        BY <1>0 DEF ConnType
      <4>2. conn'[c] = r
        BY <1>0, <3>1, <3>3
      <4> QED BY <4>1, <4>2
    <3> QED BY <3>2, <3>3
  <2> QED BY <1>13, <2>1, <2>2, <2>3 DEF Network, Afresh
<1>14. ASSUME NEW i, DoneKeepalive(i) PROVE Good
  <2>1. CASE conn' = conn
    BY <1>4, <2>1
  <2>2. ASSUME NEW x \in Conns \ OnQueue, NEW r, conn' = [conn EXCEPT ![x] = r] PROVE Good
    BY <1>2, <2>2
  <2> HIDE DEF Good
  <2> QED BY <1>14, <2>1, <2>2 DEF DoneKeepalive
<1>15. ASSUME NEW i \in 1 .. Len(queue), RunConnection(i) PROVE Good
  <2>1. PICK x : conn' = [conn EXCEPT ![x].running = TRUE]
    BY <1>15 DEF RunConnection
  <2>2. CASE x # c
    BY <1>2, <2>1, <2>2
  <2>3. CASE x = c
    <3> DEFINE r == [conn[c] EXCEPT !.running = TRUE]
    <3>1. r.running = TRUE
      BY <1>0 DEF ConnType
    <3>2. conn'[c] = r
      BY <1>0, <2>1, <2>3
    <3> QED BY <3>1, <3>2
  <2> QED BY <2>2, <2>3
<1>16. ASSUME NEW i \in 1 .. Len(queue), SuspendConnection(i) PROVE Good
  <2>1. cur = NoConn /\ Victims(queue[i]) # {}
    BY <1>16 DEF SuspendConnection, Round, Chosen, CanTry
  <2>2. PICK v : v = queue[Max(Victims(queue[i]))]
    OBVIOUS
  <2>3. v \in OnQueue /\ Victim(queue[i], v)
    BY <1>0, <2>1, <2>2, VictimFacts
  <2>4. v # c
    <3>1. conn[v].uri \notin Posts \/ Priority(v) >= Cancel
      BY <2>3 DEF Victim
    <3>2. Priority(c) \in Nat /\ Cancel \in Nat
      BY <1>0, OnQueueFacts, ConnectionAssumption
    <3> QED BY <3>1, <3>2
  <2>5. \A e \in Conns : e # v => conn'[e] = conn[e]
    <3>1. conn' = [conn EXCEPT ![v].running = FALSE, ![v].state = "wait", ![v].extra = FALSE]
      BY <1>16, <2>2 DEF SuspendConnection
    <3> QED BY <1>0, <3>1
  <2>6. conn'[c] = conn[c]
    BY <1>0, <2>4, <2>5
  <2> QED BY <2>6
<1>17. CASE Check
  <2>1. CASE StartCheck
    BY <1>4, <2>1 DEF StartCheck
  <2>2. CASE EndCheck
    BY <1>1, <2>2 DEF EndCheck
  <2>3. ASSUME NEW i \in 1 .. Len(queue), RunOutOfMemory(i) PROVE Good
    BY <1>1, <2>3 DEF RunOutOfMemory
  <2> HIDE DEF Good
  <2> QED BY <1>15, <1>16, <1>17, <2>1, <2>2, <2>3 DEF Check
<1>18. CASE Handler
  <2>1. CASE HandlerStarts
    <3>1. conn' = [conn EXCEPT ![cur] = [conn[cur] EXCEPT !.state = "busy"]]
      BY <2>1 DEF HandlerStarts
    <3> QED BY <1>2, <3>1
  <2>2. CASE HandlerAborts
    BY <1>1, <2>2 DEF HandlerAborts
  <2>3. CASE HandlerRetries
    <3>1. cur \in OnQueue /\ Retry(cur, conn[cur].tries)
      BY <1>0, <2>3 DEF HandlerRetries, Core, CoreOK
    <3> QED BY <1>12, <3>1
  <2> QED BY <1>18, <2>1, <2>2, <2>3 DEF Handler
<1>19. CASE Terminate \/ Exited
  <2>1. CASE Shutdown \/ AbortAgain
    BY <1>1, <2>1 DEF Shutdown, AbortAgain, AbortQueue
  <2>2. CASE AbortKeepalive
    BY <1>14, <2>2 DEF AbortKeepalive
  <2>3. CASE AbortKeepaliveDone \/ Exited
    BY <1>4, <2>3 DEF AbortKeepaliveDone, Exited, vars
  <2> QED BY <1>19, <2>1, <2>2, <2>3 DEF Terminate
<1>20. CASE \E i \in 1 .. Len(keep) : CheckKeepalive(i) \/ KeepaliveFails(i)
  BY <1>4, <1>14, <1>20 DEF CheckKeepalive, KeepaliveFails
<1> HIDE DEF Good
<1> QED BY <1>11, <1>13, <1>17, <1>18, <1>19, <1>20 DEF Next

\* Its protocol handler is not called again.
LEMMA PostHandled ==
    ASSUME IInv, Next, NEW c \in OnQueue, conn[c].running, conn[c].uri \in Posts, c # cur
    PROVE  cur' # c
<1>0. Core /\ c # NoConn /\ ~Waiting(c)
  BY OnQueueFacts DEF IInv, Core, StateInv
<1>1. ASSUME cur' = NoConn \/ cur' = cur PROVE cur' # c
  BY <1>0, <1>1
<1>2. ASSUME NEW x, NEW t, Retry(x, t) PROVE cur' # c
  BY <1>0, <1>2 DEF Retry, RetryOutOfMemory, LastTry
<1>3. CASE Request
  BY <1>1, <1>3, RequestRest
<1>4. ASSUME NEW x \in Conns, Network(x) \/ Afresh(x) PROVE cur' # c
  <2>1. CASE Finish(x) \/ AddKeepalive(x) \/ NewData(x)
    BY <1>1, <2>1 DEF Finish, AddKeepalive, NewData
  <2>2. CASE RetryConnection(x) \/ RetryBlacklisted(x)
    BY <1>2, <2>2 DEF RetryConnection, RetryBlacklisted
  <2> QED BY <1>4, <2>1, <2>2 DEF Network, Afresh
<1>5. ASSUME NEW i, CheckKeepalive(i) \/ KeepaliveFails(i) PROVE cur' # c
  BY <1>1, <1>5 DEF CheckKeepalive, KeepaliveFails
<1>6. ASSUME NEW i \in 1 .. Len(queue), RunConnection(i) PROVE cur' # c
  BY <1>0, <1>6 DEF RunConnection, Chosen, CanTry
<1>7. CASE Check
  <2>1. CASE StartCheck \/ EndCheck
    BY <1>1, <2>1 DEF StartCheck, EndCheck
  <2>2. ASSUME NEW i \in 1 .. Len(queue), RunOutOfMemory(i) \/ SuspendConnection(i)
        PROVE  cur' # c
    BY <1>1, <2>2 DEF RunOutOfMemory, SuspendConnection
  <2> QED BY <1>6, <1>7, <2>1, <2>2 DEF Check
<1>8. CASE Handler
  BY <1>1, <1>2, <1>8 DEF Handler, HandlerStarts, HandlerAborts, HandlerRetries
<1>9. CASE Terminate \/ Exited
  BY <1>1, <1>9 DEF Terminate, Shutdown, AbortKeepalive, AbortKeepaliveDone, AbortAgain, Exited, vars
<1> QED BY <1>3, <1>4, <1>5, <1>7, <1>8, <1>9 DEF Next

\* A POST that somebody waits for is neither suspended nor sent again.
THEOREM PostsSentOnce == Spec => PostSentOnce
<1>1. IInv /\ [Next]_vars =>
        [\A c \in Conns :
           (/\ c \in OnQueue /\ conn[c].running /\ conn[c].uri \in Posts
            /\ Priority(c) < Cancel /\ c # cur)
           => \/ conn'[c] = Free
              \/ conn'[c].running /\ cur' # c]_vars
  BY PostStep, PostHandled
<1> QED BY <1>1, Invariance, PTL DEF Spec, PostSentOnce

=============================================================================
