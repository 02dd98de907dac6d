---------------------------- MODULE LookupProofs ----------------------------
(***************************************************************************)
(* What holds of Lookup for every value of its constants.  The inductive   *)
(* invariant IInv speaks of one socket (Local) or of one descriptor        *)
(* (CallOK) at a time; a step changes one socket and the descriptors it    *)
(* owns, and the frame lemma keeps the rest.                               *)
(***************************************************************************)
EXTENDS Lookup, ListLemmas

\* A socket with its connect_info; 0 is no descriptor.
SockType ==
    [alive : BOOLEAN, info : BOOLEAN, timer : BOOLEAN,
     h : 0 .. MaxFd, fd : 0 .. MaxFd,
     addrno : 0 .. MaxAddrs, tried : 0 .. MaxAddrs, tries : Nat]

\* A descriptor and what is registered for it.
FdType ==
    [open : BOOLEAN, target : Socks \cup {None},
     calls : {"nothing", "answer", "connected", "io"}]

\* The handlers of socket.c that call one another.
Steps == {"idle", "make", "connect", "try", "complete", "retry", "abort",
          "return"}

\* The types of the variables; a timeout counts up to the last try.
Types ==
    /\ sock \in [Socks -> SockType]
    /\ \A s \in Socks : sock[s].tries < Max({1, MaxTries})
    /\ fds \in [1 .. MaxFd -> FdType]
    /\ cache \in [addrno : 0 .. MaxAddrs, old : BOOLEAN]
    /\ pc \in [on : Socks \cup {None}, step : Steps, then : BOOLEAN]
    /\ pc.on = None <=> pc.step = "idle"
    /\ pc.on = None => ~pc.then

\* A freed socket remembers nothing; one that waits for its helper has no
\* socket yet; and one whose handler does not run has its timer set.
SockOK(s) ==
    /\ ~sock[s].alive => sock[s] = Gone
    /\ sock[s].h # None => sock[s].info /\ sock[s].fd = None
    /\ sock[s].alive /\ pc.on # s => sock[s].timer

\* Between an address that refuses and retry_connection(), csocket->fd is a
\* descriptor that has been closed.
Refused(s) == pc.on = s /\ pc.step = "retry"

\* An open descriptor is remembered by the socket it was opened for, and a
\* socket remembers only its own.
OwnOK(s) ==
    /\ \A f \in 1 .. MaxFd : fds[f].open /\ fds[f].target = s =>
         f \in {sock[s].fd, sock[s].h}
    /\ sock[s].h # None =>
         fds[sock[s].h].open /\ fds[sock[s].h].target = s
    /\ sock[s].fd # None =>
         \/ fds[sock[s].fd].open /\ fds[sock[s].fd].target = s
         \/ ~fds[sock[s].fd].open /\ Refused(s)

\* The handler of a descriptor is the one its socket waits for.
CallOK(f) ==
    LET s == fds[f].target
    IN  /\ ~fds[f].open => fds[f] = Closed
        /\ fds[f].open => s \in Socks
        /\ fds[f].calls = "answer" => sock[s].h = f
        /\ fds[f].calls = "connected" =>
             sock[s].fd = f /\ sock[s].info /\ sock[s].h = None
        /\ fds[f].calls = "io" => sock[s].fd = f /\ ~sock[s].info

\* What the handler that runs relies on.
StepOK(s) ==
    pc.on = s =>
        LET r == sock[s]
        IN  /\ pc.step # "return" => r.alive
            /\ pc.step = "make" => r.fd = None /\ r.h = None /\ ~r.info
            /\ pc.step \in {"connect", "try", "complete"} =>
                 r.info /\ r.h = None /\ (r.timer \/ pc.then)
            /\ pc.step = "try" => r.fd = None
            /\ pc.step = "complete" => r.fd # None
            /\ pc.step = "return" /\ r.alive =>
                 r.timer \/ (pc.then /\ r.info)

\* What holds of each socket.
Local(s) == SockOK(s) /\ OwnOK(s) /\ StepOK(s)

\* The inductive invariant.
IInv ==
    /\ Types
    /\ \A s \in Socks : Local(s)
    /\ \A f \in 1 .. MaxFd : CallOK(f)

-----------------------------------------------------------------------------
(* The frame of a step.                                                    *)

\* None is neither a socket nor a descriptor.
LEMMA NotNone == None \notin Socks /\ None \notin 1 .. MaxFd
BY LookupAssumption DEF None

\* A handler of s changes s, the descriptors of s and descriptors that are
\* free: the invariant has to be shown for these alone.
LEMMA Frame ==
    ASSUME IInv, NEW s \in Socks, Types',
           pc.on \in {None, s}, pc'.on \in {None, s},
           \A t \in Socks : t # s => sock'[t] = sock[t],
           \A f \in 1 .. MaxFd :
               \/ fds'[f] = fds[f]
               \/ /\ fds[f].target \in {None, s} /\ fds'[f].target \in {None, s}
                  /\ CallOK(f)',
           \A f \in 1 .. MaxFd : fds'[f] = fds[f] /\ fds[f].target = s => CallOK(f)',
           Local(s)'
    PROVE  IInv'
<1>0. s # None /\ None \notin Socks
  BY NotNone
<1>1. ASSUME NEW t \in Socks, t # s PROVE Local(t)'
  <2>1. sock'[t] = sock[t] /\ Local(t) /\ pc.on # t /\ pc'.on # t
    BY <1>0, <1>1 DEF IInv
  <2>2. SockOK(t)' /\ StepOK(t)'
    BY <2>1 DEF Local, SockOK, StepOK
  <2>3. \A f \in 1 .. MaxFd :
          (fds'[f].target = t \/ fds[f].target = t) => fds'[f] = fds[f]
    BY <1>0, <1>1
  <2>4. sock[t].fd \in 0 .. MaxFd /\ sock[t].h \in 0 .. MaxFd
    BY DEF IInv, Types, SockType
  <2>5. \A f \in 0 .. MaxFd : f # None => f \in 1 .. MaxFd
    BY LookupAssumption DEF None
  <2>6. OwnOK(t)'
    BY <2>1, <2>3, <2>4, <2>5 DEF Local, OwnOK, Refused
  <2> QED BY <2>2, <2>6 DEF Local
<1>2. ASSUME NEW f \in 1 .. MaxFd PROVE CallOK(f)'
  <2>1. CallOK(f)
    BY DEF IInv
  <2>2. CASE fds'[f] = fds[f] /\ fds[f].target # s
    <3>1. CASE fds[f].target \in Socks
      <4>1. sock'[fds[f].target] = sock[fds[f].target]
        BY <2>2, <3>1
      <4> QED BY <2>1, <2>2, <4>1 DEF CallOK
    <3>2. CASE fds[f].target \notin Socks
      <4>1. fds[f] = Closed /\ ~fds[f].open
        <5>1. fds[f].open \in BOOLEAN
          BY DEF IInv, Types, FdType
        <5> QED BY <2>1, <3>2, <5>1 DEF CallOK
      <4> QED BY <2>2, <4>1 DEF CallOK, Closed
    <3> QED BY <3>1, <3>2
  <2>3. CASE ~(fds'[f] = fds[f] /\ fds[f].target # s)
    BY <2>3
  <2> QED BY <2>2, <2>3
<1> QED BY <1>1, <1>2 DEF IInv

\* There is always a free descriptor, and it is one that nobody remembers
\* and that calls nothing.
LEMMA FreeFdFacts ==
    ASSUME IInv
    PROVE  /\ FreeFd \in 1 .. MaxFd /\ FreeFd # None
           /\ ~fds[FreeFd].open /\ fds[FreeFd] = Closed
           /\ \A s \in Socks : sock[s].h # FreeFd
           /\ \A s \in Socks : sock[s].fd = FreeFd => Refused(s)
<1> DEFINE F == {f \in 1 .. MaxFd : ~fds[f].open}
           g == [f \in 1 .. MaxFd |-> fds[f].target]
<1>1. F # {}
  <2> SUFFICES ASSUME \A f \in 1 .. MaxFd : fds[f].open PROVE FALSE
    OBVIOUS
  <2>1. \A f \in 1 .. MaxFd : fds[f].target \in Socks /\ f \in {sock[fds[f].target].fd, sock[fds[f].target].h}
    BY DEF IInv, CallOK, Local, OwnOK
  <2>2. ASSUME NEW f \in 1 .. MaxFd, NEW e \in 1 .. MaxFd, fds[f].target = fds[e].target PROVE f = e
    <3> DEFINE s == fds[f].target
    <3>1. s \in Socks /\ {f, e} \subseteq {sock[s].fd, sock[s].h} /\ SockOK(s)
      BY <2>1, <2>2 DEF IInv, Local
    <3>2. f # None /\ e # None
      BY NotNone
    <3> HIDE DEF s
    <3> QED BY <3>1, <3>2 DEF SockOK
  <2>3. g \in Injection(1 .. MaxFd, Socks)
    BY <2>1, <2>2 DEF Injection, IsInjective
  <2>4. IsFiniteSet(1 .. MaxFd) /\ Cardinality(1 .. MaxFd) = MaxFd
    BY LookupAssumption, CountUpTo
  <2>5. IsFiniteSet(Socks)
    BY LookupAssumption
  <2> HIDE DEF g
  <2>6. Cardinality(1 .. MaxFd) <= Cardinality(Socks)
    BY <2>3, <2>5, FS_Injection DEF ExistsInjection
  <2>7. MaxFd \in Nat /\ Cardinality(Socks) \in Nat /\ MaxFd > Cardinality(Socks)
    BY <2>5, FS_CardinalityType, LookupAssumption
  <2> QED BY <2>4, <2>6, <2>7
<1>2. F \in SUBSET Nat
  BY LookupAssumption
<1>3. FreeFd = Min(F)
  BY DEF FreeFd
<1> HIDE DEF F
<1>4. Min(F) \in F
  BY <1>1, <1>2, MinFacts
<1>5. FreeFd \in 1 .. MaxFd /\ ~fds[FreeFd].open
  BY <1>3, <1>4 DEF F
<1>6. FreeFd # None
  BY <1>5, NotNone
<1>7. fds[FreeFd] = Closed
  BY <1>5 DEF IInv, CallOK
<1> QED BY <1>5, <1>6, <1>7 DEF IInv, Local, OwnOK

-----------------------------------------------------------------------------

\* Nothing is open and nothing runs.
LEMMA InitIInv == Init => IInv
<1> SUFFICES ASSUME Init PROVE IInv
  OBVIOUS
<1>1. MaxFd \in Nat /\ MaxAddrs \in Nat /\ MaxTries \in Nat
  BY LookupAssumption
<1>2. 0 < Max({1, MaxTries})
  BY <1>1, MaxOfTwo
<1>3. Types
  <2>1. Gone \in SockType /\ Gone.tries = 0
    BY <1>1 DEF Gone, SockType, None
  <2>2. Closed \in FdType
    BY DEF Closed, FdType, None
  <2>3. Empty \in [addrno : 0 .. MaxAddrs, old : BOOLEAN]
    BY <1>1 DEF Empty
  <2>4. pc \in [on : Socks \cup {None}, step : Steps, then : BOOLEAN] /\ pc.on = None /\ pc.step = "idle" /\ ~pc.then
    BY DEF Init, Idle, Steps
  <2> QED BY <1>2, <2>1, <2>2, <2>3, <2>4 DEF Init, Types
<1>4. ASSUME NEW s \in Socks PROVE Local(s)
  BY NotNone DEF Init, Local, SockOK, OwnOK, StepOK, Gone, Closed, Idle
<1>5. ASSUME NEW f \in 1 .. MaxFd PROVE CallOK(f)
  BY DEF Init, CallOK, Closed
<1> QED BY <1>3, <1>4, <1>5 DEF IInv

-----------------------------------------------------------------------------
(* One handler after another.                                              *)

\* What a step that writes the socket s and goes on with st leaves behind.
LEMMA Written ==
    ASSUME Types, NEW s \in Socks, NEW r \in SockType, r.tries < Max({1, MaxTries}),
           sock' = [sock EXCEPT ![s] = r],
           NEW st \in Steps \ {"idle"}, Run(s, st),
           fds' \in [1 .. MaxFd -> FdType],
           cache' \in [addrno : 0 .. MaxAddrs, old : BOOLEAN]
    PROVE  /\ Types'
           /\ sock'[s] = r /\ \A t \in Socks : t # s => sock'[t] = sock[t]
           /\ pc'.on = s /\ pc'.step = st /\ pc'.then = pc.then
<1>1. pc' \in [on : Socks \cup {None}, step : Steps, then : BOOLEAN]
  BY DEF Types, Run
<1>2. pc'.on = s /\ pc'.step = st /\ pc'.then = pc.then
  BY DEF Types, Run
<1>3. sock' \in [Socks -> SockType] /\ sock'[s] = r /\ \A t \in Socks : t # s => sock'[t] = sock[t]
  BY DEF Types
<1>4. \A t \in Socks : sock'[t].tries < Max({1, MaxTries})
  BY <1>3 DEF Types
<1>5. s # None /\ st # "idle"
  BY NotNone
<1> QED BY <1>1, <1>2, <1>3, <1>4, <1>5 DEF Types

\* Closing descriptors leaves a table of descriptors.
LEMMA ClosedType ==
    ASSUME Types, NEW F
    PROVE  [g \in 1 .. MaxFd |-> IF g \in F THEN Closed ELSE fds[g]] \in [1 .. MaxFd -> FdType]
<1>1. Closed \in FdType
  BY DEF Closed, FdType
<1> QED BY <1>1 DEF Types

\* An open descriptor of s is its pipe or its socket; a closed one has no
\* handler.
LEMMA OwnFds ==
    ASSUME IInv, NEW s \in Socks, NEW f \in 1 .. MaxFd
    PROVE  /\ fds[f].target = s => fds[f].open /\ f \in {sock[s].fd, sock[s].h}
           /\ fds[f].calls # "nothing" => fds[f].open /\ fds[f].target \in Socks
           /\ f \in {sock[s].fd, sock[s].h} => fds[f].target = s \/ (fds[f] = Closed /\ Refused(s))
<1>1. CallOK(f) /\ OwnOK(s) /\ f # None /\ s # None
  BY NotNone DEF IInv, Local
<1>2. Closed.target = None /\ Closed.calls = "nothing"
  BY DEF Closed
<1>3. fds[f].open \in BOOLEAN
  BY DEF IInv, Types, FdType
<1> QED BY <1>1, <1>2, <1>3 DEF CallOK, OwnOK

\* dns_found(), when s has no socket and its lookup is over: s goes on to
\* connect, or is aborted.
LEMMA FoundIInv ==
    ASSUME IInv, NEW s \in Socks, NEW r \in SockType, NEW n \in 0 .. MaxAddrs,
           pc.on \in {None, s},
           r.tries < Max({1, MaxTries}), r.alive, r.info, r.timer,
           r.h = None, r.fd = None,
           Found(s, r, n),
           fds' \in [1 .. MaxFd -> FdType],
           cache' \in [addrno : 0 .. MaxAddrs, old : BOOLEAN],
           \A f \in 1 .. MaxFd :
               \/ fds'[f] = fds[f] /\ fds[f].target # s
               \/ fds'[f] = Closed /\ fds[f].target \in {None, s}
    PROVE  IInv'
<1> DEFINE q == [r EXCEPT !.addrno = n]
<1>1. /\ q \in SockType /\ q.tries = r.tries /\ q.alive /\ q.info /\ q.timer
      /\ q.h = None /\ q.fd = None
  BY DEF SockType
<1>2. PICK p \in {q, r}, st \in {"connect", "abort"} : sock' = [sock EXCEPT ![s] = p] /\ Run(s, st)
  BY DEF Found
<1>3. p \in SockType /\ p.tries = r.tries /\ p.alive /\ p.info /\ p.timer /\ p.h = None /\ p.fd = None
  BY <1>1, <1>2
<1> HIDE DEF q
<1>4. st \in Steps \ {"idle"}
  BY DEF Steps
<1>5. /\ Types' /\ sock'[s] = p /\ \A t \in Socks : t # s => sock'[t] = sock[t]
      /\ pc'.on = s /\ pc'.step = st
  BY <1>2, <1>3, <1>4, Written DEF IInv
<1>6. \A f \in 1 .. MaxFd : fds'[f].target # s
  BY NotNone DEF Closed
<1>7. Local(s)'
  BY <1>3, <1>5, <1>6 DEF Local, SockOK, OwnOK, StepOK
<1>8. \A f \in 1 .. MaxFd : fds'[f] = Closed => CallOK(f)' /\ fds'[f].target = None
  BY DEF CallOK, Closed
<1> QED BY <1>5, <1>6, <1>7, <1>8, Frame

\* done_dns_lookup(): the same, with the name put into the cache.
LEMMA DoneLookupIInv ==
    ASSUME IInv, NEW s \in Socks, NEW r \in SockType, NEW n \in 0 .. MaxAddrs,
           pc.on \in {None, s},
           r.tries < Max({1, MaxTries}), r.alive, r.info, r.timer,
           r.h = None, r.fd = None,
           DoneLookup(s, r, n),
           fds' \in [1 .. MaxFd -> FdType],
           \A f \in 1 .. MaxFd :
               \/ fds'[f] = fds[f] /\ fds[f].target # s
               \/ fds'[f] = Closed /\ fds[f].target \in {None, s}
    PROVE  IInv'
<1>1. cache \in [addrno : 0 .. MaxAddrs, old : BOOLEAN] /\ cache.addrno \in 0 .. MaxAddrs
  BY DEF IInv, Types
<1>2. cache' \in [addrno : 0 .. MaxAddrs, old : BOOLEAN]
  <2>1. cache' = [addrno |-> n, old |-> FALSE] \/ cache' = cache
    BY DEF DoneLookup
  <2>2. [addrno |-> n, old |-> FALSE] \in [addrno : 0 .. MaxAddrs, old : BOOLEAN]
    OBVIOUS
  <2> QED BY <1>1, <2>1, <2>2
<1>3. \E k \in 0 .. MaxAddrs : Found(s, r, k)
  BY <1>1 DEF DoneLookup
<1> QED BY <1>2, <1>3, FoundIInv

\* make_connection()
LEMMA MakeConnectionIInv ==
    ASSUME IInv, NEW s \in Socks, MakeConnection(s) PROVE IInv'
<1> DEFINE r == [sock[s] EXCEPT !.info = TRUE, !.timer = TRUE, !.addrno = 0, !.tried = 0]
<1>0. /\ pc.on = s /\ pc.step = "make" /\ Local(s) /\ sock[s] \in SockType
      /\ fds \in [1 .. MaxFd -> FdType] /\ cache \in [addrno : 0 .. MaxAddrs, old : BOOLEAN]
      /\ sock[s].tries < Max({1, MaxTries}) /\ cache.addrno \in 0 .. MaxAddrs
  BY DEF IInv, Types, MakeConnection, At
<1>1. sock[s].alive /\ sock[s].fd = None /\ sock[s].h = None /\ ~sock[s].info
  BY <1>0 DEF Local, StepOK
<1>2. /\ r \in SockType /\ r.tries = sock[s].tries /\ r.alive /\ r.info /\ r.timer
      /\ r.h = None /\ r.fd = None
  <2>1. 0 \in 0 .. MaxAddrs
    BY LookupAssumption
  <2>2. r \in SockType
    BY <1>0, <2>1 DEF SockType
  <2>3. r.info /\ r.timer /\ r.tries = sock[s].tries /\ r.alive = sock[s].alive
    BY <1>0 DEF SockType
  <2>4. r.h = sock[s].h /\ r.fd = sock[s].fd
    BY <1>0 DEF SockType
  <2> HIDE DEF r
  <2> QED BY <1>1, <2>2, <2>3, <2>4
<1>3. \A f \in 1 .. MaxFd : fds[f].target # s
  BY <1>1, OwnFds, NotNone
<1>4. CASE CacheHit /\ Found(s, r, cache.addrno) /\ UNCHANGED <<fds, cache>>
  <2> HIDE DEF r
  <2>1. fds' = fds /\ cache' = cache
    BY <1>4
  <2> QED BY <1>0, <1>2, <1>3, <1>4, <2>1, FoundIInv
<1>5. CASE (\E n \in 0 .. MaxAddrs : DoneLookup(s, r, n)) /\ UNCHANGED fds
  <2> HIDE DEF r
  <2>1. fds' = fds
    BY <1>5
  <2> QED BY <1>0, <1>2, <1>3, <1>5, <2>1, DoneLookupIInv
<1>6. CASE /\ sock' = [sock EXCEPT ![s].timer = TRUE]
           /\ Run(s, "retry")
           /\ UNCHANGED <<fds, cache>>
  <2> DEFINE q == [sock[s] EXCEPT !.timer = TRUE]
  <2>1. sock' = [sock EXCEPT ![s] = q] /\ fds' = fds /\ cache' = cache
    BY <1>6 DEF IInv, Types
  <2>2. q \in SockType /\ q.tries = sock[s].tries /\ q.alive /\ q.fd = None /\ q.h = None
    BY <1>0, <1>1 DEF SockType
  <2> HIDE DEF q
  <2>3. "retry" \in Steps \ {"idle"}
    BY DEF Steps
  <2>4. /\ Types' /\ sock'[s] = q /\ \A t \in Socks : t # s => sock'[t] = sock[t]
        /\ pc'.on = s /\ pc'.step = "retry"
    <3>1. Types /\ Run(s, "retry") /\ q.tries < Max({1, MaxTries}) /\ fds' \in [1 .. MaxFd -> FdType]
          /\ cache' \in [addrno : 0 .. MaxAddrs, old : BOOLEAN]
      BY <1>0, <1>6, <2>1, <2>2 DEF IInv
    <3> QED BY <2>1, <2>2, <2>3, <3>1, Written
  <2>5. Local(s)'
    BY <1>3, <2>1, <2>2, <2>4 DEF Local, SockOK, OwnOK, StepOK
  <2> QED BY <1>0, <1>3, <2>1, <2>4, <2>5, Frame
<1>7. CASE /\ sock' = [sock EXCEPT ![s] = [r EXCEPT !.h = FreeFd]]
           /\ fds' = [fds EXCEPT ![FreeFd] = Opened(s, "answer")]
           /\ Run(s, "return")
           /\ UNCHANGED cache
  <2>1. PICK y \in 1 .. MaxFd : y = FreeFd /\ y # None /\ fds[y] = Closed
    BY FreeFdFacts
  <2> DEFINE q == [r EXCEPT !.h = y]
  <2>2. q \in SockType /\ q.tries = sock[s].tries /\ q.alive /\ q.info /\ q.timer /\ q.fd = None /\ q.h = y
    <3> HIDE DEF r
    <3>1. y \in 0 .. MaxFd
      BY <2>1, LookupAssumption
    <3>2. q \in SockType /\ q.h = y
      BY <1>2, <3>1 DEF SockType
    <3>3. q.tries = r.tries /\ q.alive = r.alive /\ q.info = r.info /\ q.timer = r.timer /\ q.fd = r.fd
      BY <1>2 DEF SockType
    <3> HIDE DEF q
    <3> QED BY <1>2, <3>2, <3>3
  <2> HIDE DEF q
  <2>3. Opened(s, "answer") \in FdType /\ Opened(s, "answer").open /\ Opened(s, "answer").target = s /\ Opened(s, "answer").calls = "answer"
    BY DEF Opened, FdType
  <2>4. /\ fds' \in [1 .. MaxFd -> FdType] /\ fds'[y] = Opened(s, "answer")
        /\ \A f \in 1 .. MaxFd : f # y => fds'[f] = fds[f]
    BY <1>0, <1>7, <2>1, <2>3
  <2>5. "return" \in Steps \ {"idle"}
    BY DEF Steps
  <2>6. /\ Types' /\ sock'[s] = q /\ \A t \in Socks : t # s => sock'[t] = sock[t]
        /\ pc'.on = s /\ pc'.step = "return"
    <3>1. Types /\ Run(s, "return") /\ q.tries < Max({1, MaxTries}) /\ sock' = [sock EXCEPT ![s] = q]
          /\ cache' \in [addrno : 0 .. MaxAddrs, old : BOOLEAN]
      BY <1>0, <1>7, <2>1, <2>2 DEF IInv, q
    <3> QED BY <2>2, <2>4, <2>5, <3>1, Written
  <2>7. Local(s)'
    BY <1>3, <2>1, <2>2, <2>3, <2>4, <2>6 DEF Local, SockOK, OwnOK, StepOK
  <2>8. CallOK(y)'
    BY <2>1, <2>2, <2>3, <2>4, <2>6 DEF CallOK
  <2>9. fds[y].target = None /\ fds'[y].target = s
    BY <2>1, <2>3, <2>4 DEF Closed
  <2>10. \A f \in 1 .. MaxFd : fds'[f] # fds[f] =>
            fds[f].target \in {None, s} /\ fds'[f].target \in {None, s} /\ CallOK(f)'
    <3> SUFFICES ASSUME NEW f \in 1 .. MaxFd, fds'[f] # fds[f]
                 PROVE  fds[f].target \in {None, s} /\ fds'[f].target \in {None, s} /\ CallOK(f)'
      OBVIOUS
    <3>1. f = y
      BY <2>4
    <3> QED BY <2>8, <2>9, <3>1
  <2> QED BY <1>0, <1>3, <2>6, <2>7, <2>10, Frame
<1> QED BY <1>4, <1>5, <1>6, <1>7 DEF MakeConnection

\* async_dns_reader() and async_dns_error()
LEMMA AnswerIInv ==
    ASSUME IInv, NEW s \in Socks, NEW n \in 0 .. MaxAddrs, Answer(s, n) PROVE IInv'
<1> DEFINE r == [sock[s] EXCEPT !.h = None]
<1>1. PICK f \in 1 .. MaxFd : fds[f].calls = "answer" /\ fds[f].target = s /\ fds' = CloseFd(f)
  BY DEF Answer
<1>2. DoneLookup(s, r, n) /\ pc.on = None
  BY DEF Answer, Idle
<1>3. sock[s].h = f /\ f # None /\ s # None
  BY <1>1, NotNone DEF IInv, CallOK
<1>4. sock[s] \in SockType /\ sock[s].tries < Max({1, MaxTries}) /\ SockOK(s) /\ fds \in [1 .. MaxFd -> FdType]
  BY DEF IInv, Types, Local
<1>5. Gone.h = None
  BY DEF Gone
<1>6. sock[s].info /\ sock[s].fd = None /\ sock[s].alive /\ sock[s].timer
  <2>1. sock[s].alive
    BY <1>3, <1>4, <1>5 DEF SockOK
  <2> QED BY <1>2, <1>3, <1>4, <2>1 DEF SockOK
<1>7. /\ r \in SockType /\ r.tries = sock[s].tries /\ r.alive /\ r.info /\ r.timer
      /\ r.h = None /\ r.fd = None
  BY <1>4, <1>6, LookupAssumption DEF SockType, None
<1>8. fds' = [g \in 1 .. MaxFd |-> IF g \in {f} THEN Closed ELSE fds[g]]
  BY <1>1 DEF CloseFd
<1>9. fds' \in [1 .. MaxFd -> FdType]
  BY <1>8, ClosedType DEF IInv
<1>10. \A g \in 1 .. MaxFd : g # f => fds'[g] = fds[g] /\ fds[g].target # s
  <2>1. \A g \in 1 .. MaxFd : fds[g].target = s => g \in {None, f}
    BY <1>3, <1>6, OwnFds
  <2> QED BY <1>8, <2>1, NotNone
<1>11. fds'[f] = Closed
  BY <1>8
<1> HIDE DEF r
<1> QED BY <1>1, <1>2, <1>4, <1>7, <1>9, <1>10, <1>11, DoneLookupIInv

\* A step of s that leaves the descriptors alone.
LEMMA Quiet ==
    ASSUME IInv, NEW s \in Socks, Types', ~Refused(s),
           pc.on \in {None, s}, pc'.on \in {None, s}, fds' = fds,
           \A t \in Socks : t # s => sock'[t] = sock[t],
           sock'[s].fd = sock[s].fd, sock'[s].h = sock[s].h, sock'[s].info = sock[s].info,
           SockOK(s)', StepOK(s)'
    PROVE  IInv'
<1>1. OwnOK(s)'
  BY DEF IInv, Local, OwnOK
<1>2. ASSUME NEW f \in 1 .. MaxFd, fds[f].target = s PROVE CallOK(f)'
  <2>1. CallOK(f)
    BY DEF IInv
  <2> QED BY <1>2, <2>1 DEF CallOK
<1>3. Local(s)'
  BY <1>1 DEF Local
<1> QED BY <1>2, <1>3, Frame

\* A step of s that closes all that s has opened.
LEMMA Freed ==
    ASSUME IInv, NEW s \in Socks, Types',
           pc.on \in {None, s}, pc'.on \in {None, s},
           \A f \in 1 .. MaxFd :
               fds'[f] = IF f \in {sock[s].fd, sock[s].h} THEN Closed ELSE fds[f],
           \A t \in Socks : t # s => sock'[t] = sock[t],
           sock'[s].fd = None, sock'[s].h = None,
           SockOK(s)', StepOK(s)'
    PROVE  IInv'
<1>1. \A f \in 1 .. MaxFd : fds'[f].target # s
  BY OwnFds, NotNone DEF Closed
<1>2. Local(s)'
  BY <1>1 DEF Local, OwnOK
<1>3. ASSUME NEW f \in 1 .. MaxFd, fds'[f] # fds[f]
      PROVE  fds[f].target \in {None, s} /\ fds'[f].target \in {None, s} /\ CallOK(f)'
  <2>1. f \in {sock[s].fd, sock[s].h} /\ fds'[f] = Closed
    BY <1>3
  <2>2. fds[f].target \in {None, s}
    BY <2>1, OwnFds DEF Closed
  <2> QED BY <2>1, <2>2 DEF Closed, CallOK
<1> QED BY <1>1, <1>2, <1>3, Frame

\* What the descriptors are when a handler of s runs.
LEMMA Running ==
    ASSUME IInv, NEW s \in Socks
    PROVE  /\ sock[s] \in SockType /\ sock[s].tries < Max({1, MaxTries})
           /\ fds \in [1 .. MaxFd -> FdType]
           /\ cache \in [addrno : 0 .. MaxAddrs, old : BOOLEAN]
           /\ pc \in [on : Socks \cup {None}, step : Steps, then : BOOLEAN]
           /\ SockOK(s) /\ OwnOK(s) /\ StepOK(s) /\ Types /\ s # None
BY NotNone DEF IInv, Types, Local

\* A step that changes neither sockets nor descriptors nor the handler.
LEMMA Untouched ==
    ASSUME IInv, sock' = sock, fds' = fds, pc' = pc,
           cache' \in [addrno : 0 .. MaxAddrs, old : BOOLEAN]
    PROVE  IInv'
<1>1. Types'
  BY DEF IInv, Types
<1>2. \A s \in Socks : Local(s)'
  BY DEF IInv, Local, SockOK, OwnOK, StepOK, Refused
<1>3. \A f \in 1 .. MaxFd : CallOK(f)'
  BY DEF IInv, CallOK
<1> QED BY <1>1, <1>2, <1>3 DEF IInv

\* connect_socket() closes the socket of the attempt before.
LEMMA CloseLastIInv ==
    ASSUME IInv, NEW s \in Socks, CloseLast(s) PROVE IInv'
<1>0. pc.on = s /\ pc.step = "connect" /\ cache' = cache
  BY DEF CloseLast, At
<1>1. CASE UNCHANGED <<sock, fds, pc>>
  BY <1>0, <1>1, Untouched, Running
<1>2. CASE fds' = CloseSocket(s) /\ sock' = [sock EXCEPT ![s].fd = None] /\ Run(s, "try")
  <2> DEFINE r == [sock[s] EXCEPT !.fd = None]
  <2>1. sock' = [sock EXCEPT ![s] = r]
    BY <1>2 DEF IInv, Types
  <2>2. sock[s].info /\ sock[s].h = None /\ (sock[s].timer \/ pc.then) /\ sock[s].alive
    BY <1>0, Running DEF StepOK
  <2>3. r \in SockType /\ r.fd = None
    BY Running, LookupAssumption DEF SockType, None
  <2>4. r.info = sock[s].info /\ r.h = sock[s].h /\ r.timer = sock[s].timer /\ r.alive = sock[s].alive /\ r.tries = sock[s].tries
    BY Running DEF SockType
  <2> HIDE DEF r
  <2>5. fds' = [g \in 1 .. MaxFd |-> IF g \in {sock[s].fd, sock[s].h} THEN Closed ELSE fds[g]]
    <3>1. CASE sock[s].fd = None
      <4>1. fds' = fds
        BY <1>2, <3>1 DEF CloseSocket
      <4>2. fds = [g \in 1 .. MaxFd |-> fds[g]]
        BY Running
      <4> QED BY <2>2, <3>1, <4>1, <4>2, NotNone
    <3>2. CASE sock[s].fd # None
      <4>1. fds' = [g \in 1 .. MaxFd |-> IF g = sock[s].fd THEN Closed ELSE fds[g]]
        BY <1>2, <3>2 DEF CloseSocket, CloseFd
      <4>2. \A g \in 1 .. MaxFd : g \in {sock[s].fd, sock[s].h} <=> g = sock[s].fd
        BY <2>2, NotNone
      <4> QED BY <4>1, <4>2
    <3> QED BY <3>1, <3>2
  <2>6. "try" \in Steps \ {"idle"}
    BY DEF Steps
  <2>7. /\ Types' /\ sock'[s] = r /\ \A t \in Socks : t # s => sock'[t] = sock[t]
        /\ pc'.on = s /\ pc'.step = "try" /\ pc'.then = pc.then
    <3>1. fds' \in [1 .. MaxFd -> FdType] /\ cache' \in [addrno : 0 .. MaxAddrs, old : BOOLEAN]
      BY <1>0, <2>5, ClosedType, Running
    <3>2. r.tries < Max({1, MaxTries}) /\ Types /\ Run(s, "try")
      BY <1>2, <2>4, Running
    <3> QED BY <2>1, <2>3, <2>6, <3>1, <3>2, Written
  <2>8. SockOK(s)' /\ StepOK(s)'
    BY <2>2, <2>3, <2>4, <2>7 DEF SockOK, StepOK
  <2>9. sock'[s].fd = None /\ sock'[s].h = None
    BY <2>2, <2>3, <2>4, <2>7
  <2>10. \A f \in 1 .. MaxFd : fds'[f] = IF f \in {sock[s].fd, sock[s].h} THEN Closed ELSE fds[f]
    BY <2>5
  <2> QED BY <1>0, <2>7, <2>8, <2>9, <2>10, Freed
<1> QED BY <1>1, <1>2 DEF CloseLast

\* connect_socket() tries the addresses that are left.
LEMMA ConnectSocketIInv ==
    ASSUME IInv, NEW s \in Socks, ConnectSocket(s) PROVE IInv'
<1>0. pc.on = s /\ pc.step = "try" /\ cache' = cache
  BY DEF ConnectSocket, At
<1>1. sock[s].info /\ sock[s].h = None /\ (sock[s].timer \/ pc.then) /\ sock[s].alive /\ sock[s].fd = None
  BY <1>0, Running DEF StepOK
<1>2. \A f \in 1 .. MaxFd : fds[f].target # s
  BY <1>1, OwnFds, NotNone
<1>3. PICK y \in 1 .. MaxFd : y = FreeFd /\ y # None /\ fds[y] = Closed
  BY FreeFdFacts
<1>4. y \in 0 .. MaxFd
  BY LookupAssumption
<1>5. sock[s].addrno \in 0 .. MaxAddrs
  BY Running DEF SockType
<1>6. ASSUME NEW j \in 1 .. MaxAddrs, TryAddress(s, j) PROVE IInv'
  <2> DEFINE r == [sock[s] EXCEPT !.tried = j, !.fd = y]
  <2>1. sock' = [sock EXCEPT ![s] = r]
    BY <1>3, <1>6 DEF IInv, Types, TryAddress
  <2>2. PICK c \in {"connected", "nothing"}, st \in {"return", "complete"} :
           fds' = [fds EXCEPT ![y] = Opened(s, c)] /\ Run(s, st)
    BY <1>3, <1>6 DEF TryAddress
  <2>3. j \in 0 .. MaxAddrs
    BY LookupAssumption
  <2>4. r \in SockType /\ r.fd = y
    BY Running, <1>4, <2>3 DEF SockType
  <2>5. r.info = sock[s].info /\ r.h = sock[s].h /\ r.timer = sock[s].timer /\ r.alive = sock[s].alive /\ r.tries = sock[s].tries
    BY Running DEF SockType
  <2> HIDE DEF r
  <2>6. Opened(s, c) \in FdType /\ Opened(s, c).open /\ Opened(s, c).target = s /\ Opened(s, c).calls = c
    BY <2>2 DEF Opened, FdType
  <2>7. /\ fds' \in [1 .. MaxFd -> FdType] /\ fds'[y] = Opened(s, c)
        /\ \A f \in 1 .. MaxFd : f # y => fds'[f] = fds[f]
    BY <2>2, <2>6, Running
  <2>8. st \in Steps \ {"idle"}
    BY <2>2 DEF Steps
  <2>9. /\ Types' /\ sock'[s] = r /\ \A t \in Socks : t # s => sock'[t] = sock[t]
        /\ pc'.on = s /\ pc'.step = st /\ pc'.then = pc.then
    <3>1. cache' \in [addrno : 0 .. MaxAddrs, old : BOOLEAN] /\ r.tries < Max({1, MaxTries}) /\ Types /\ Run(s, st)
      BY <1>0, <2>2, <2>5, Running
    <3> QED BY <2>1, <2>4, <2>7, <2>8, <3>1, Written
  <2>10. Local(s)'
    <3>1. SockOK(s)'
      BY <1>1, <2>5, <2>9 DEF SockOK
    <3>2. StepOK(s)'
      BY <1>1, <1>3, <2>2, <2>4, <2>5, <2>9 DEF StepOK
    <3>3. OwnOK(s)'
      BY <1>1, <1>2, <2>4, <2>5, <2>6, <2>7, <2>9 DEF OwnOK
    <3> QED BY <3>1, <3>2, <3>3 DEF Local
  <2>11. ASSUME NEW f \in 1 .. MaxFd, fds'[f] # fds[f]
         PROVE  fds[f].target \in {None, s} /\ fds'[f].target \in {None, s} /\ CallOK(f)'
    <3>1. f = y
      BY <2>7, <2>11
    <3>2. fds[y].target = None /\ fds'[y].target = s
      BY <1>3, <2>6, <2>7 DEF Closed
    <3>3. CallOK(y)'
      BY <1>1, <2>2, <2>4, <2>5, <2>6, <2>7, <2>9 DEF CallOK
    <3> QED BY <3>1, <3>2, <3>3
  <2> QED BY <1>0, <1>2, <2>9, <2>10, <2>11, Frame
<1>7. CASE NoAddressLeft(s)
  <2>1. PICK z \in {sock[s].fd, y}, st \in {"retry", "abort"} :
          /\ z = y => st = "retry"
          /\ sock' = [sock EXCEPT ![s] = [sock[s] EXCEPT !.tried = sock[s].addrno, !.fd = z]]
          /\ Run(s, st) /\ fds' = fds
    <3>1. sock[s] = [sock[s] EXCEPT !.fd = sock[s].fd]
      BY Running DEF SockType
    <3>2. CASE /\ sock' = [sock EXCEPT ![s].tried = sock[s].addrno] /\ (Run(s, "retry") \/ Run(s, "abort"))
               /\ fds' = fds
      <4>1. sock' = [sock EXCEPT ![s] = [sock[s] EXCEPT !.tried = sock[s].addrno, !.fd = sock[s].fd]]
        BY <3>2, Running DEF IInv, Types, SockType
      <4> QED BY <1>1, <1>3, <3>2, <4>1
    <3>3. CASE sock' = [sock EXCEPT ![s].tried = sock[s].addrno, ![s].fd = FreeFd] /\ Run(s, "retry") /\ fds' = fds
      <4>1. sock' = [sock EXCEPT ![s] = [sock[s] EXCEPT !.tried = sock[s].addrno, !.fd = y]]
        BY <1>3, <3>3 DEF IInv, Types
      <4> QED BY <3>3, <4>1
    <3> QED BY <1>7, <3>2, <3>3 DEF NoAddressLeft
  <2> DEFINE r == [sock[s] EXCEPT !.tried = sock[s].addrno, !.fd = z]
  <2>2. z \in 0 .. MaxFd
    BY <1>4, Running DEF SockType
  <2>3. r \in SockType /\ r.fd = z
    BY Running, <1>5, <2>2 DEF SockType
  <2>4. r.info = sock[s].info /\ r.h = sock[s].h /\ r.timer = sock[s].timer /\ r.alive = sock[s].alive /\ r.tries = sock[s].tries
    BY Running DEF SockType
  <2>5. sock' = [sock EXCEPT ![s] = r]
    BY <2>1
  <2> HIDE DEF r
  <2>6. st \in Steps \ {"idle"}
    BY <2>1 DEF Steps
  <2>7. /\ Types' /\ sock'[s] = r /\ \A t \in Socks : t # s => sock'[t] = sock[t]
        /\ pc'.on = s /\ pc'.step = st /\ pc'.then = pc.then
    <3>1. /\ fds' \in [1 .. MaxFd -> FdType] /\ cache' \in [addrno : 0 .. MaxAddrs, old : BOOLEAN]
          /\ r.tries < Max({1, MaxTries}) /\ Types /\ Run(s, st)
      BY <1>0, <2>1, <2>4, Running
    <3> QED BY <2>3, <2>5, <2>6, <3>1, Written
  <2>8. Local(s)'
    <3>1. SockOK(s)' /\ StepOK(s)'
      BY <1>1, <2>1, <2>4, <2>7 DEF SockOK, StepOK
    <3>2. fds'[y] = fds[y] /\ ~Closed.open
      BY <2>1 DEF Closed
    <3>3. OwnOK(s)'
      BY <1>1, <1>2, <1>3, <2>1, <2>3, <2>4, <2>7, <3>2 DEF OwnOK, Refused
    <3> QED BY <3>1, <3>3 DEF Local
  <2> QED BY <1>0, <1>2, <2>1, <2>7, <2>8, Frame
<1> QED BY <1>6, <1>7 DEF ConnectSocket

\* complete_connect_socket()
LEMMA CompleteIInv ==
    ASSUME IInv, NEW s \in Socks, CompleteConnectSocket(s) PROVE IInv'
<1>0. pc.on = s /\ pc.step = "complete" /\ cache' = cache
  BY DEF CompleteConnectSocket, At
<1>1. CASE UNCHANGED <<sock, fds, pc>>
  BY <1>0, <1>1, Untouched, Running
<1>2. CASE /\ sock' = [sock EXCEPT ![s].info = FALSE, ![s].timer = TRUE,
                                   ![s].addrno = 0, ![s].tried = 0]
           /\ fds' = [fds EXCEPT ![sock[s].fd].calls = "io"]
           /\ Run(s, "return")
  <2> DEFINE r == [sock[s] EXCEPT !.info = FALSE, !.timer = TRUE, !.addrno = 0, !.tried = 0]
             y == sock[s].fd
  <2>1. sock[s].info /\ sock[s].h = None /\ sock[s].alive /\ y # None
    BY <1>0, Running DEF StepOK
  <2>2. y \in 1 .. MaxFd /\ y \in 0 .. MaxFd
    <3>1. y \in 0 .. MaxFd
      BY Running DEF SockType
    <3> QED BY <2>1, <3>1, LookupAssumption DEF None
  <2>3. fds[y].open /\ fds[y].target = s
    BY <1>0, <2>1, Running DEF OwnOK, Refused
  <2>4. sock' = [sock EXCEPT ![s] = r]
    BY <1>2 DEF IInv, Types
  <2>5. r \in SockType /\ ~r.info /\ r.timer
    <3>1. 0 \in 0 .. MaxAddrs
      BY LookupAssumption
    <3> QED BY <3>1, Running DEF SockType
  <2>6. r.fd = y /\ r.h = sock[s].h /\ r.alive = sock[s].alive /\ r.tries = sock[s].tries
    BY Running DEF SockType
  <2> HIDE DEF r
  <2>7. /\ fds' \in [1 .. MaxFd -> FdType]
        /\ fds'[y].calls = "io" /\ fds'[y].open = fds[y].open /\ fds'[y].target = fds[y].target
        /\ \A f \in 1 .. MaxFd : f # y => fds'[f] = fds[f]
    <3> HIDE DEF y
    <3>0. fds' = [fds EXCEPT ![y].calls = "io"]
      BY <1>2 DEF y
    <3>1. fds[y] \in FdType /\ fds \in [1 .. MaxFd -> FdType]
      BY <2>2, Running
    <3>2. [fds[y] EXCEPT !.calls = "io"] \in FdType
      BY <3>1 DEF FdType
    <3>3. fds'[y] = [fds[y] EXCEPT !.calls = "io"] /\ \A f \in 1 .. MaxFd : f # y => fds'[f] = fds[f]
      BY <2>2, <3>0, <3>1
    <3>4. fds' \in [1 .. MaxFd -> FdType]
      BY <2>2, <3>0, <3>1, <3>2
    <3> QED BY <3>1, <3>3, <3>4 DEF FdType
  <2>8. "return" \in Steps \ {"idle"}
    BY DEF Steps
  <2>9. /\ Types' /\ sock'[s] = r /\ \A t \in Socks : t # s => sock'[t] = sock[t]
        /\ pc'.on = s /\ pc'.step = "return"
    <3>1. cache' \in [addrno : 0 .. MaxAddrs, old : BOOLEAN] /\ r.tries < Max({1, MaxTries}) /\ Types /\ Run(s, "return")
      BY <1>0, <1>2, <2>6, Running
    <3> QED BY <2>4, <2>5, <2>7, <2>8, <3>1, Written
  <2> HIDE DEF y
  <2>10. \A f \in 1 .. MaxFd : f # y => fds[f].target # s
    BY <2>1, OwnFds, NotNone DEF y
  <2>11. Local(s)'
    <3>1. SockOK(s)' /\ StepOK(s)'
      BY <2>1, <2>5, <2>6, <2>9 DEF SockOK, StepOK
    <3>2. OwnOK(s)'
      BY <2>1, <2>3, <2>6, <2>7, <2>9, <2>10 DEF OwnOK
    <3> QED BY <3>1, <3>2 DEF Local
  <2>12. CallOK(y)'
    <3>1. fds'[y].target = s /\ sock'[s].fd = y /\ ~sock'[s].info /\ fds'[y].open
      BY <2>3, <2>5, <2>6, <2>7, <2>9
    <3> QED BY <2>7, <3>1 DEF CallOK, y
  <2>13. ASSUME NEW f \in 1 .. MaxFd, f = y
         PROVE  fds[f].target \in {None, s} /\ fds'[f].target \in {None, s} /\ CallOK(f)'
    <3>1. fds'[f].target = s /\ sock'[s].fd = f /\ ~sock'[s].info /\ fds'[f].open /\ fds'[f].calls = "io"
      BY <2>3, <2>5, <2>6, <2>7, <2>9, <2>13
    <3>2. CallOK(f)'
      BY <3>1 DEF CallOK
    <3> QED BY <2>3, <2>13, <3>1, <3>2
  <2> QED BY <1>0, <2>7, <2>9, <2>10, <2>11, <2>13, Frame
<1> QED BY <1>1, <1>2 DEF CompleteConnectSocket

\* A socket that is given up, and begins anew or not.
LEMMA ReleasedIInv ==
    ASSUME IInv, NEW s \in Socks, NEW r \in SockType, NEW st \in {"make", "return"},
           r.fd = None, r.h = None, ~r.info, r.tries < Max({1, MaxTries}),
           (st = "make" /\ r.alive) \/ (st = "return" /\ r = Gone),
           pc.on = s, fds' = Released(s), cache' = cache, Run(s, st),
           sock' = [sock EXCEPT ![s] = r]
    PROVE  IInv'
<1>1. ~Gone.alive
  BY DEF Gone
<1>2. st \in Steps \ {"idle"}
  BY DEF Steps
<1>3. fds' = [f \in 1 .. MaxFd |-> IF f \in {sock[s].fd, sock[s].h} THEN Closed ELSE fds[f]]
  BY DEF Released
<1>4. fds' \in [1 .. MaxFd -> FdType]
  BY <1>3, ClosedType, Running
<1>5. Types /\ cache' \in [addrno : 0 .. MaxAddrs, old : BOOLEAN]
  BY Running
<1>6. /\ Types' /\ sock'[s] = r /\ \A t \in Socks : t # s => sock'[t] = sock[t]
      /\ pc'.on = s /\ pc'.step = st
  BY <1>2, <1>4, <1>5, Written, ZenonT(20)
<1>7. SockOK(s)' /\ StepOK(s)'
  <2>1. CASE st = "make" /\ r.alive
    BY <1>6, <2>1 DEF SockOK, StepOK
  <2>2. CASE st = "return" /\ r = Gone
    BY <1>1, <1>6, <2>2 DEF SockOK, StepOK
  <2> QED BY <2>1, <2>2
<1>8. sock'[s].fd = None /\ sock'[s].h = None
  BY <1>6
<1>9. \A f \in 1 .. MaxFd : fds'[f] = IF f \in {sock[s].fd, sock[s].h} THEN Closed ELSE fds[f]
  BY <1>3
<1> QED BY <1>6, <1>7, <1>8, <1>9, Freed

\* What a socket is that has been freed.
LEMMA GoneFacts ==
    /\ Gone \in SockType /\ ~Gone.alive /\ Gone.tries = 0
    /\ Gone.fd = None /\ Gone.h = None /\ ~Gone.info /\ Gone.tries < Max({1, MaxTries})
<1>1. Gone \in SockType /\ ~Gone.alive /\ Gone.tries = 0 /\ Gone.fd = None /\ Gone.h = None /\ ~Gone.info
  BY LookupAssumption DEF Gone, SockType, None
<1>2. 0 < Max({1, MaxTries})
  BY MaxOfTwo, LookupAssumption
<1> QED BY <1>1, <1>2

\* retry_connection()
LEMMA RetryIInv ==
    ASSUME IInv, NEW s \in Socks, RetryConnection(s) PROVE IInv'
<1> DEFINE n == sock[s].tries + 1
<1>1. sock[s].tries \in Nat /\ n \in Nat
  BY Running DEF SockType
<1>2. pc.on = s /\ fds' = Released(s) /\ cache' = cache
  BY DEF RetryConnection, At
<1>3. CASE n < MaxTries
  <2> DEFINE r == [Gone EXCEPT !.alive = TRUE, !.tries = n]
  <2>1. n < Max({1, MaxTries})
    BY <1>1, <1>3, MaxOfTwo, LookupAssumption
  <2>2. sock' = [sock EXCEPT ![s] = r] /\ Run(s, "make")
    BY <1>3 DEF RetryConnection
  <2> HIDE DEF n
  <2>3. r \in SockType /\ r.alive /\ r.tries = n
    BY <1>1, GoneFacts DEF SockType
  <2>4. r.fd = Gone.fd /\ r.h = Gone.h /\ r.info = Gone.info
    BY GoneFacts DEF SockType
  <2> HIDE DEF r
  <2>5. r.fd = None /\ r.h = None /\ ~r.info /\ r.tries < Max({1, MaxTries})
    BY <2>1, <2>3, <2>4, GoneFacts
  <2> QED BY <1>2, <2>2, <2>3, <2>5, ReleasedIInv
<1>4. CASE ~(n < MaxTries)
  <2>1. sock' = [sock EXCEPT ![s] = Gone] /\ Run(s, "return")
    BY <1>4 DEF RetryConnection
  <2> QED BY <1>2, <2>1, GoneFacts, ReleasedIInv
<1> QED BY <1>3, <1>4

\* abort_connection()
LEMMA AbortIInv ==
    ASSUME IInv, NEW s \in Socks, AbortConnection(s) PROVE IInv'
<1>1. sock' = [sock EXCEPT ![s] = Gone] /\ Run(s, "return") /\ pc.on = s /\ fds' = Released(s) /\ cache' = cache
  BY DEF AbortConnection, At
<1> QED BY <1>1, GoneFacts, ReleasedIInv

\* The handler returns.
LEMMA ReturnIInv ==
    ASSUME IInv, NEW s \in Socks, Return(s) PROVE IInv'
<1>0. pc.on = s /\ pc.step = "return" /\ pc' = Idle /\ fds' = fds /\ cache' = cache
  BY DEF Return, At
<1>1. PICK b \in BOOLEAN : /\ b <=> (pc.then /\ sock[s].info)
                           /\ sock' = IF b THEN [sock EXCEPT ![s].timer = TRUE] ELSE sock
  <2>1. pc.then \in BOOLEAN /\ sock[s].info \in BOOLEAN
    BY Running DEF SockType
  <2> QED BY <2>1 DEF Return
<1> DEFINE r == IF b THEN [sock[s] EXCEPT !.timer = TRUE] ELSE sock[s]
<1>2. sock' = [sock EXCEPT ![s] = r]
  BY <1>1 DEF IInv, Types
<1>3. r \in SockType /\ (b => r.timer)
  BY Running DEF SockType
<1>4. r.fd = sock[s].fd /\ r.h = sock[s].h /\ r.alive = sock[s].alive /\ r.tries = sock[s].tries /\ r.info = sock[s].info
  BY Running DEF SockType
<1>5. ~b => r = sock[s]
  OBVIOUS
<1> HIDE DEF r
<1>6. sock'[s] = r /\ (\A t \in Socks : t # s => sock'[t] = sock[t]) /\ sock' \in [Socks -> SockType]
  BY <1>2, <1>3 DEF IInv, Types
<1>7. pc'.on = None /\ pc'.step = "idle" /\ ~pc'.then /\ pc' \in [on : Socks \cup {None}, step : Steps, then : BOOLEAN]
  BY <1>0 DEF Idle, Steps
<1>8. Types'
  <2>1. \A t \in Socks : sock'[t].tries < Max({1, MaxTries})
    BY <1>4, <1>6 DEF IInv, Types
  <2> QED BY <1>0, <1>6, <1>7, <2>1, Running DEF Types
<1>9. b => sock[s].info
  BY <1>1
<1>10. SockOK(s)'
  <2>1. ~r.alive => r = Gone
    <3>1. Gone.info = FALSE
      BY DEF Gone
    <3>2. SUFFICES ASSUME ~r.alive PROVE r = Gone
      OBVIOUS
    <3>3. sock[s] = Gone
      BY <1>4, <3>2, Running DEF SockOK
    <3> QED BY <1>5, <1>9, <3>1, <3>3
  <2>2. r.alive => r.timer
    <3>1. SUFFICES ASSUME r.alive PROVE r.timer
      OBVIOUS
    <3>2. sock[s].timer \/ (pc.then /\ sock[s].info)
      BY <1>0, <1>4, <3>1, Running DEF StepOK
    <3> QED BY <1>1, <1>3, <1>5, <3>2
  <2>3. r.h # None => r.info /\ r.fd = None
    BY <1>4, Running DEF SockOK
  <2> QED BY <1>6, <2>1, <2>2, <2>3 DEF SockOK
<1>11. StepOK(s)'
  BY <1>7, NotNone DEF StepOK
<1>12. ~Refused(s)
  BY <1>0 DEF Refused
<1> QED BY <1>0, <1>4, <1>6, <1>7, <1>8, <1>10, <1>11, <1>12, Quiet

\* An event that changes only the socket s, and starts a handler for it.
LEMMA StartedIInv ==
    ASSUME IInv, NEW s \in Socks, pc = Idle, NEW r \in SockType, r.tries < Max({1, MaxTries}),
           sock' = [sock EXCEPT ![s] = r], fds' = fds, cache' = cache,
           NEW st \in Steps \ {"idle"}, NEW th \in BOOLEAN,
           pc' = [on |-> s, step |-> st, then |-> th],
           r.fd = sock[s].fd, r.h = sock[s].h, r.info = sock[s].info, r.alive,
           st = "make" => r.fd = None /\ r.h = None /\ ~r.info,
           st \in {"connect", "complete"} => r.info /\ r.h = None /\ (r.timer \/ th),
           st = "complete" => r.fd # None,
           st \notin {"try", "return"}
    PROVE  IInv'
<1>1. pc.on = None /\ s # None /\ ~Refused(s)
  BY NotNone DEF Idle, Refused
<1>2. sock'[s] = r /\ (\A t \in Socks : t # s => sock'[t] = sock[t]) /\ sock' \in [Socks -> SockType]
  BY DEF IInv, Types
<1>3. /\ pc'.on = s /\ pc'.step = st /\ pc'.then = th
      /\ pc' \in [on : Socks \cup {None}, step : Steps, then : BOOLEAN]
  OBVIOUS
<1>4. Types'
  <2>1. \A t \in Socks : sock'[t].tries < Max({1, MaxTries})
    BY <1>2 DEF IInv, Types
  <2> QED BY <1>1, <1>2, <1>3, <2>1, Running DEF Types
<1>5. SockOK(s)'
  BY <1>2, <1>3, Running DEF SockOK
<1>6. StepOK(s)'
  BY <1>2, <1>3 DEF StepOK
<1> QED BY <1>1, <1>2, <1>3, <1>4, <1>5, <1>6, Quiet

\* Running a handler from the main loop.
LEMMA RunFromIdle ==
    ASSUME pc = Idle, NEW s, NEW st
    PROVE  Run(s, st) => pc' = [on |-> s, step |-> st, then |-> FALSE]
BY DEF Run, Idle

\* A descriptor that has a handler belongs to a socket that is alive and
\* whose timer runs, when no handler runs.
LEMMA Waiting ==
    ASSUME IInv, NEW s \in Socks, pc = Idle,
           sock[s].fd # None \/ sock[s].h # None \/ sock[s].timer \/ sock[s].alive
    PROVE  sock[s].alive /\ sock[s].timer
<1>1. Gone.fd = None /\ Gone.h = None /\ Gone.timer = FALSE /\ Gone.alive = FALSE
  BY DEF Gone
<1>2. sock[s].alive
  BY <1>1, Running DEF SockOK
<1>3. pc.on # s
  BY NotNone DEF Idle
<1> QED BY <1>2, <1>3, Running DEF SockOK

\* A socket written back as it is.
LEMMA SameSock ==
    ASSUME Types, NEW s \in Socks PROVE sock = [sock EXCEPT ![s] = sock[s]]
BY DEF Types

\* The events of the main loop.
LEMMA EventIInv ==
    ASSUME IInv, NEW s \in Socks, Event(s) PROVE IInv'
<1>1. CASE Start(s)
  <2>0. pc = Idle /\ ~sock[s].alive /\ sock' = [sock EXCEPT ![s].alive = TRUE] /\ fds' = fds /\ cache' = cache
    BY <1>1 DEF Start
  <2> DEFINE r == [sock[s] EXCEPT !.alive = TRUE]
  <2>1. sock' = [sock EXCEPT ![s] = r]
    BY <2>0 DEF IInv, Types
  <2>2. r \in SockType /\ r.alive
    BY Running DEF SockType
  <2>3. r.fd = sock[s].fd /\ r.h = sock[s].h /\ r.info = sock[s].info /\ r.tries = sock[s].tries
    BY Running DEF SockType
  <2> HIDE DEF r
  <2>4. sock[s].fd = None /\ sock[s].h = None /\ sock[s].info = FALSE
    BY <2>0, Running DEF SockOK, Gone
  <2>5. pc' = [on |-> s, step |-> "make", then |-> FALSE] /\ "make" \in Steps \ {"idle"}
    BY <1>1, <2>0, RunFromIdle DEF Start, Steps
  <2>6. r.tries < Max({1, MaxTries})
    BY <2>3, Running
  <2>7. r.fd = None /\ r.h = None /\ ~r.info
    BY <2>3, <2>4
  <2>8. PICK st \in Steps \ {"idle"} : st = "make" /\ st \notin {"try", "return", "connect", "complete"}
    BY <2>5
  <2>9. pc' = [on |-> s, step |-> st, then |-> FALSE]
    BY <2>5, <2>8
  <2> QED BY <2>0, <2>1, <2>2, <2>3, <2>6, <2>7, <2>8, <2>9, StartedIInv
<1>2. CASE Connected(s)
  <2>0. pc = Idle /\ sock' = sock /\ fds' = fds /\ cache' = cache
    BY <1>2 DEF Connected
  <2>1. PICK f \in 1 .. MaxFd : fds[f].calls = "connected" /\ fds[f].target = s
    BY <1>2 DEF Connected
  <2>2. sock[s].fd = f /\ sock[s].info /\ sock[s].h = None /\ f # None
    BY <2>1, NotNone DEF IInv, CallOK
  <2>3. sock[s].alive /\ sock[s].timer
    BY <2>0, <2>2, Waiting
  <2>4. PICK st \in {"complete", "connect"} : pc' = [on |-> s, step |-> st, then |-> FALSE]
    BY <1>2, <2>0, RunFromIdle DEF Connected
  <2>5. st \in Steps \ {"idle"} /\ st \notin {"make", "try", "return"}
    BY <2>4 DEF Steps
  <2>6. sock' = [sock EXCEPT ![s] = sock[s]]
    BY <2>0, SameSock, Running
  <2> QED BY <2>0, <2>2, <2>3, <2>4, <2>5, <2>6, StartedIInv, Running
<1>3. CASE Transfer(s)
  <2>0. pc = Idle /\ fds' = fds /\ cache' = cache
    BY <1>3 DEF Transfer
  <2>1. PICK f \in 1 .. MaxFd : fds[f].calls = "io" /\ fds[f].target = s
    BY <1>3 DEF Transfer
  <2>2. sock[s].fd = f /\ f # None
    BY <2>1, NotNone DEF IInv, CallOK
  <2>3. sock[s].alive /\ sock[s].timer
    BY <2>0, <2>2, Waiting
  <2>4. CASE sock' = [sock EXCEPT ![s].timer = TRUE, ![s].tries = 0] /\ UNCHANGED pc
    <3> DEFINE r == [sock[s] EXCEPT !.timer = TRUE, !.tries = 0]
    <3>1. sock' = [sock EXCEPT ![s] = r]
      BY <2>4 DEF IInv, Types
    <3>2. r \in SockType /\ r.timer /\ r.tries = 0
      BY Running DEF SockType
    <3>3. r.fd = sock[s].fd /\ r.h = sock[s].h /\ r.info = sock[s].info /\ r.alive = sock[s].alive
      BY Running DEF SockType
    <3> HIDE DEF r
    <3>4. sock'[s] = r /\ (\A t \in Socks : t # s => sock'[t] = sock[t]) /\ sock' \in [Socks -> SockType]
      BY <3>1, <3>2 DEF IInv, Types
    <3>5. 0 < Max({1, MaxTries})
      BY MaxOfTwo, LookupAssumption
    <3>6. Types'
      <4>1. \A t \in Socks : sock'[t].tries < Max({1, MaxTries})
        BY <3>2, <3>4, <3>5 DEF IInv, Types
      <4> QED BY <2>0, <2>4, <3>4, <4>1 DEF IInv, Types
    <3>7. SockOK(s)'
      BY <2>3, <3>2, <3>3, <3>4, Running DEF SockOK
    <3>8. pc.on = None /\ pc'.on = None /\ ~Refused(s) /\ s # None
      BY <2>0, <2>4, NotNone DEF Idle, Refused
    <3>9. StepOK(s)'
      BY <3>8 DEF StepOK
    <3> QED BY <2>0, <3>3, <3>4, <3>6, <3>7, <3>8, <3>9, Quiet
  <2>5. CASE (Run(s, "retry") \/ Run(s, "abort")) /\ UNCHANGED sock
    <3>1. PICK st \in {"retry", "abort"} : pc' = [on |-> s, step |-> st, then |-> FALSE]
      BY <2>0, <2>5, RunFromIdle
    <3>2. st \in Steps \ {"idle"} /\ st \notin {"make", "connect", "complete", "try", "return"}
      BY <3>1 DEF Steps
    <3>3. sock' = [sock EXCEPT ![s] = sock[s]]
      BY <2>5, SameSock, Running
    <3> QED BY <2>0, <2>3, <3>1, <3>2, <3>3, StartedIInv, Running
  <2> QED BY <1>3, <2>4, <2>5 DEF Transfer
<1>4. CASE Timeout(s)
  <2>0. pc = Idle /\ sock[s].timer /\ sock' = [sock EXCEPT ![s].timer = FALSE] /\ fds' = fds /\ cache' = cache
    BY <1>4 DEF Timeout
  <2> DEFINE r == [sock[s] EXCEPT !.timer = FALSE]
  <2>1. sock' = [sock EXCEPT ![s] = r]
    BY <2>0 DEF IInv, Types
  <2>2. r \in SockType
    BY Running DEF SockType
  <2>3. r.fd = sock[s].fd /\ r.h = sock[s].h /\ r.info = sock[s].info /\ r.tries = sock[s].tries /\ r.alive = sock[s].alive
    BY Running DEF SockType
  <2> HIDE DEF r
  <2>4. sock[s].alive
    BY <2>0, Waiting
  <2>5. r.tries < Max({1, MaxTries})
    BY <2>3, Running
  <2>6. PICK st \in {"retry", "abort", "connect"}, th \in BOOLEAN :
          /\ pc' = [on |-> s, step |-> st, then |-> th]
          /\ st = "connect" => th /\ sock[s].info /\ sock[s].h = None
    BY <1>4, <2>0, RunFromIdle DEF Timeout
  <2>7. st \in Steps \ {"idle"} /\ st \notin {"make", "complete", "try", "return"}
    BY <2>6 DEF Steps
  <2> QED BY <2>0, <2>1, <2>2, <2>3, <2>4, <2>5, <2>6, <2>7, StartedIInv
<1>5. CASE Cancel(s)
  <2>0. pc = Idle /\ sock[s].alive /\ sock' = sock /\ fds' = fds /\ cache' = cache
    BY <1>5 DEF Cancel
  <2>1. pc' = [on |-> s, step |-> "abort", then |-> FALSE] /\ "abort" \in Steps \ {"idle"}
    BY <1>5, <2>0, RunFromIdle DEF Cancel, Steps
  <2>2. sock' = [sock EXCEPT ![s] = sock[s]]
    BY <2>0, SameSock, Running
  <2> QED BY <2>0, <2>1, <2>2, StartedIInv, Running
<1>6. CASE \E n \in 0 .. MaxAddrs : Answer(s, n)
  BY <1>6, AnswerIInv
<1> QED BY <1>1, <1>2, <1>3, <1>4, <1>5, <1>6 DEF Event

\* Every step keeps the invariant.
LEMMA NextIInv == IInv /\ [Next]_vars => IInv'
<1> SUFFICES ASSUME IInv, [Next]_vars PROVE IInv'
  OBVIOUS
<1>0. cache \in [addrno : 0 .. MaxAddrs, old : BOOLEAN]
  BY DEF IInv, Types
<1>1. ASSUME NEW s \in Socks, Step(s) PROVE IInv'
  BY <1>1, MakeConnectionIInv, CloseLastIInv, ConnectSocketIInv, CompleteIInv, RetryIInv, AbortIInv,
     ReturnIInv DEF Step
<1>2. ASSUME NEW s \in Socks, Event(s) PROVE IInv'
  BY <1>2, EventIInv
<1>3. CASE Age
  <2>1. cache' \in [addrno : 0 .. MaxAddrs, old : BOOLEAN]
    BY <1>0, <1>3 DEF Age
  <2> QED BY <1>3, <2>1, Untouched DEF Age
<1>4. ASSUME NEW whole \in BOOLEAN, ShrinkDnsCache(whole) PROVE IInv'
  <2>1. cache' \in [addrno : 0 .. MaxAddrs, old : BOOLEAN]
    BY <1>4, LookupAssumption DEF ShrinkDnsCache, Empty
  <2> QED BY <1>4, <2>1, Untouched DEF ShrinkDnsCache
<1>5. CASE UNCHANGED vars
  BY <1>0, <1>5, Untouched DEF vars
<1> QED BY <1>1, <1>2, <1>3, <1>4, <1>5 DEF Next

-----------------------------------------------------------------------------
(* The theorems.                                                           *)

\* The inductive invariant holds in every state, for any number of sockets,
\* addresses and tries.
THEOREM Invariance == Spec => []IInv
BY InitIInv, NextIInv, PTL DEF Spec

\* No descriptor leaks or is closed twice: between handlers, sockets remember
\* just the descriptors that are open for them, though connect_socket()
\* leaves a closed one in csocket->fd when an address refuses.
THEOREM NoLeak == Spec => []FdsOwned
<1>1. ASSUME IInv PROVE FdsOwned
  <2>1. TypeOK
    BY <1>1 DEF IInv, Types, TypeOK, SockType, FdType
  <2>2. ASSUME pc = Idle, NEW f \in 1 .. MaxFd, NEW s \in Socks
        PROVE  Remembers(s, f) <=> fds[f].open /\ fds[f].target = s
    <3>0. f # None /\ pc.on # s
      BY <2>2, NotNone DEF Idle
    <3>1. ASSUME Remembers(s, f) PROVE fds[f].open /\ fds[f].target = s
      BY <1>1, <3>0, <3>1, Running DEF Remembers, OwnOK, Refused
    <3>2. ASSUME fds[f].open, fds[f].target = s PROVE Remembers(s, f)
      <4>1. f \in {sock[s].fd, sock[s].h}
        BY <1>1, <3>2, Running DEF OwnOK
      <4>2. sock[s].alive
        BY <1>1, <2>2, <3>0, <4>1, Waiting
      <4> QED BY <4>1, <4>2 DEF Remembers
    <3> QED BY <3>1, <3>2
  <2> QED BY <2>1, <2>2 DEF FdsOwned
<1> QED BY <1>1, Invariance, PTL

\* The handler of a descriptor finds a socket that waits for just that: no
\* answer of a helper and no connection comes for a connect_info that is
\* gone.
THEOREM HandlersFindSockets == Spec => []HandlersMatch
<1>1. ASSUME IInv PROVE HandlersMatch
  <2>1. ASSUME NEW f \in 1 .. MaxFd, NEW s \in Socks, fds[f].target = s, fds[f].calls # "nothing"
        PROVE  /\ fds[f].open
               /\ CASE fds[f].calls = "answer" -> sock[s].info /\ sock[s].h = f
                    [] fds[f].calls = "connected" -> sock[s].info /\ sock[s].fd = f /\ sock[s].h = None
                    [] OTHER -> ~sock[s].info /\ sock[s].fd = f
    <3>1. fds[f].open /\ CallOK(f) /\ SockOK(s) /\ f # None
      BY <1>1, <2>1, OwnFds, Running, NotNone DEF IInv
    <3>2. fds[f].calls \in {"answer", "connected", "io"}
      BY <1>1, <2>1 DEF IInv, Types, FdType
    <3>3. CASE fds[f].calls = "answer"
      BY <2>1, <3>1, <3>3 DEF CallOK, SockOK
    <3>4. CASE fds[f].calls = "connected"
      BY <2>1, <3>1, <3>4 DEF CallOK
    <3>5. CASE fds[f].calls = "io"
      BY <2>1, <3>1, <3>5 DEF CallOK
    <3> QED BY <3>2, <3>3, <3>4, <3>5
  <2>2. \A f \in 1 .. MaxFd : fds[f].calls # "nothing" => fds[f].target \in Socks
    <3>1. ASSUME NEW f \in 1 .. MaxFd, fds[f].calls # "nothing" PROVE fds[f].target \in Socks
      <4>1. CallOK(f) /\ fds[f].open \in BOOLEAN
        BY <1>1 DEF IInv, Types, FdType
      <4> QED BY <3>1, <4>1 DEF CallOK, Closed
    <3> QED BY <3>1
  <2> QED BY <2>1, <2>2 DEF HandlersMatch
<1> QED BY <1>1, Invariance, PTL

\* Between handlers every socket that is alive has its timer running: nothing
\* waits forever for a helper, an address or data.
THEOREM AlwaysTimed == Spec => []TimerArmed
<1>1. ASSUME IInv PROVE TimerArmed
  BY <1>1, Waiting DEF TimerArmed
<1> QED BY <1>1, Invariance, PTL

=============================================================================
