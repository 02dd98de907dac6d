------------------------------- MODULE Lookup -------------------------------
(***************************************************************************)
(* How a connection of elinks gets connected: network/socket.c on top of   *)
(* network/dns.c.  A name is looked up by a helper process that answers    *)
(* through a pipe, or found in the name cache; the addresses are tried one *)
(* after another; a timer (network/connection.c) watches every wait; what  *)
(* fails is tried again until the tries are used up.                       *)
(*                                                                         *)
(* elinks has one thread: a handler runs to its end before the next event. *)
(* Handlers call one another, though, through retry_connection() back to   *)
(* make_connection(), and through callbacks that may cancel the download.  *)
(* The variable pc is the handler that is running: nothing else can happen *)
(* until it has returned.  All sockets ask for the same name.              *)
(***************************************************************************)
EXTENDS Naturals, FiniteSets, FiniteSetsExt

CONSTANTS
    Socks,         \* the sockets of the connections
    MaxFd,         \* bound: the file descriptors
    MaxAddrs,      \* bound: the addresses of the name
    MaxTries       \* connection.retries

ASSUME LookupAssumption ==
    /\ MaxAddrs \in Nat \ {0} /\ MaxTries \in Nat
    /\ IsFiniteSet(Socks) /\ 0 \notin Socks
    /\ MaxFd \in Nat /\ MaxFd > Cardinality(Socks)

VARIABLES
    sock,          \* struct socket, its connect_info, timer and tries
    fds,           \* the table of file descriptors and their handlers
    cache,         \* dns_cache, for the name
    pc,            \* the handler that is running
    dangling       \* a handler has used a socket that was freed

vars == <<sock, fds, cache, pc, dangling>>

-----------------------------------------------------------------------------

None == 0

\* alive: it has been allocated.  info: there is a connect_info.  h: the pipe
\* of its dnsquery.  addrno, tried: of connect_info; addresses 1 .. tried
\* have been tried.
Gone == [alive |-> FALSE, info |-> FALSE, h |-> None, fd |-> None,
         addrno |-> 0, tried |-> 0, timer |-> FALSE, tries |-> 0]

\* calls: which handler is registered, for which socket.
Closed == [open |-> FALSE, calls |-> "nothing", target |-> None]

\* No name: addrno is 0.  old: beyond DNS_CACHE_TIMEOUT.
Empty == [addrno |-> 0, old |-> FALSE]

\* then: timeout_socket() waits for connect_socket() to return.
Idle == [on |-> None, step |-> "idle", then |-> FALSE]

Init ==
    /\ sock = [s \in Socks |-> Gone]
    /\ fds = [f \in 1 .. MaxFd |-> Closed]
    /\ cache = Empty
    /\ pc = Idle
    /\ dangling = FALSE

\* socket() and pipe() return the lowest descriptor that is free.
FreeFd == Min({f \in 1 .. MaxFd : ~fds[f].open})

\* The handler for s goes on, or the main loop calls one.
Run(s, step) == pc' = [pc EXCEPT !.on = s, !.step = step]

At(s, step) == pc.on = s /\ pc.step = step

Opened(s, calls) == [open |-> TRUE, calls |-> calls, target |-> s]

\* close() and clear_handlers(), whosever the descriptor is now.
CloseFd(f) == [g \in 1 .. MaxFd |-> IF g = f THEN Closed ELSE fds[g]]

-----------------------------------------------------------------------------
(***************************************************************************)
(* Names.                                                                  *)
(***************************************************************************)

\* find_host(): the name is in the cache and not too old.
CacheHit == cache.addrno > 0 /\ ~cache.old

\* dns_found(): the addresses are copied, if there are any and memory.
Found(s, rec, n) ==
    \/ /\ n > 0
       /\ sock' = [sock EXCEPT ![s] = [rec EXCEPT !.addrno = n]]
       /\ Run(s, "connect")
    \/ /\ sock' = [sock EXCEPT ![s] = rec]
       /\ Run(s, "abort")

\* done_dns_lookup(), when the lookup finds n addresses: they replace the name
\* in the cache.  When it finds none, an old name is better than nothing.
DoneLookup(s, rec, n) ==
    \/ /\ n > 0
       /\ cache' = [addrno |-> n, old |-> FALSE]
       /\ Found(s, rec, n)
    \/ /\ n = 0
       /\ UNCHANGED cache
       /\ Found(s, rec, cache.addrno)

\* make_connection(): the timer is set, and the answer is in the cache, or
\* comes at once (without a helper, the lookup blocks), or will come later;
\* or there is no memory.  A reload does not ask the cache.
MakeConnection(s) ==
    LET rec == [sock[s] EXCEPT !.info = TRUE, !.timer = TRUE,
                               !.addrno = 0, !.tried = 0]
    IN  /\ At(s, "make")
        /\ \/ /\ CacheHit
              /\ Found(s, rec, cache.addrno)
              /\ UNCHANGED <<fds, cache>>
           \/ /\ \E n \in 0 .. MaxAddrs : DoneLookup(s, rec, n)
              /\ UNCHANGED fds
           \/ /\ sock' = [sock EXCEPT ![s].timer = TRUE]
              /\ Run(s, "retry")
              /\ UNCHANGED <<fds, cache>>
           \/ /\ sock' = [sock EXCEPT ![s] = [rec EXCEPT !.h = FreeFd]]
              /\ fds' = [fds EXCEPT ![FreeFd] = Opened(s, "answer")]
              /\ Run(s, "return")
              /\ UNCHANGED cache
        /\ UNCHANGED dangling

\* async_dns_reader() and async_dns_error(): the helper has answered, or has
\* died.  The pipe is closed first.
Answer(s, n) ==
    /\ pc = Idle
    /\ \E f \in 1 .. MaxFd :
        /\ fds[f].calls = "answer" /\ fds[f].target = s
        /\ fds' = CloseFd(f)
    /\ DoneLookup(s, [sock[s] EXCEPT !.h = None], n)
    /\ UNCHANGED dangling

\* The name in the cache gets old, and is deleted (shrink_dns_cache()): an
\* old one always may be, another one when all of memory is flushed.
Age ==
    /\ pc = Idle
    /\ CacheHit
    /\ cache' = [cache EXCEPT !.old = TRUE]
    /\ UNCHANGED <<sock, fds, pc, dangling>>

ShrinkDnsCache(whole) ==
    /\ pc = Idle
    /\ cache.addrno > 0 /\ (whole \/ cache.old)
    /\ cache' = Empty
    /\ UNCHANGED <<sock, fds, pc, dangling>>

-----------------------------------------------------------------------------
(***************************************************************************)
(* Connecting.                                                             *)
(***************************************************************************)

\* Mutant of CloseSocket: the descriptor is forgotten.
CloseSocketNot(s) == fds

\* close_socket()
CloseSocket(s) ==
    IF sock[s].fd = None THEN fds ELSE CloseFd(sock[s].fd)

\* The loop of connect_socket() over the addresses that are left.  One that
\* is not wanted or for which no socket can be had is passed over; one that
\* refuses at once has its socket closed, but csocket->fd is not reset.
\* Address j is connected at once, or will be later.
TryAddress(s, j) ==
    LET f == FreeFd
    IN  /\ j \in sock[s].tried + 1 .. sock[s].addrno
        /\ sock' = [sock EXCEPT ![s].tried = j, ![s].fd = f]
        /\ \/ /\ fds' = [fds EXCEPT ![f] = Opened(s, "connected")]
              /\ Run(s, "return")
           \/ /\ fds' = [fds EXCEPT ![f] = Opened(s, "nothing")]
              /\ Run(s, "complete")

NoAddressLeft(s) ==
    LET last == sock[s].addrno
    IN  /\ \/ /\ sock' = [sock EXCEPT ![s].tried = last]
              /\ Run(s, "retry") \/ Run(s, "abort")
           \/ /\ sock[s].tried < last
              /\ sock' = [sock EXCEPT ![s].tried = last, ![s].fd = FreeFd]
              /\ Run(s, "retry")
        /\ UNCHANGED fds

\* connect_socket() starts by closing the socket of the attempt before.  If
\* it was called by dns_found(), a callback may have cancelled the download.
CloseLast(s) ==
    /\ At(s, "connect")
    /\ \/ /\ fds' = CloseSocket(s)
          /\ sock' = [sock EXCEPT ![s].fd = None]
          /\ Run(s, "try")
          /\ UNCHANGED dangling
       \/ /\ sock[s].tried = 0
          /\ dangling' = TRUE
          /\ UNCHANGED <<sock, fds, pc>>
    /\ UNCHANGED cache

ConnectSocket(s) ==
    /\ At(s, "try")
    /\ \/ \E j \in 1 .. MaxAddrs : TryAddress(s, j)
       \/ NoAddressLeft(s)
    /\ UNCHANGED <<cache, dangling>>

\* Mutant of CompleteConnectSocket: the handler stays as it is.
CompleteQuietly(s) ==
    /\ At(s, "complete")
    /\ sock' = [sock EXCEPT ![s].info = FALSE, ![s].timer = TRUE,
                            ![s].addrno = 0, ![s].tried = 0]
    /\ Run(s, "return")
    /\ UNCHANGED <<fds, cache, dangling>>

\* complete_connect_socket(): connect_info->done() sends the request, and may
\* find no memory or a callback that cancels the download.
CompleteConnectSocket(s) ==
    /\ At(s, "complete")
    /\ \/ /\ sock' = [sock EXCEPT ![s].info = FALSE, ![s].timer = TRUE,
                                  ![s].addrno = 0, ![s].tried = 0]
          /\ fds' = [fds EXCEPT ![sock[s].fd].calls = "io"]
          /\ Run(s, "return")
          /\ UNCHANGED dangling
       \/ /\ dangling' = TRUE
          /\ UNCHANGED <<sock, fds, pc>>
    /\ UNCHANGED cache

\* done_socket(): the descriptor is closed, the lookup killed.
Released(s) ==
    [f \in 1 .. MaxFd |->
        IF f \in {sock[s].fd, sock[s].h} THEN Closed ELSE fds[f]]

\* Mutant of RetryConnection: tries are not counted.
RetryForever(s) ==
    /\ At(s, "retry")
    /\ fds' = Released(s)
    /\ sock' = [sock EXCEPT ![s] = [Gone EXCEPT !.alive = TRUE]]
    /\ Run(s, "make")
    /\ UNCHANGED <<cache, dangling>>

\* retry_connection()
RetryConnection(s) ==
    LET again == sock[s].tries + 1 < MaxTries
    IN  /\ At(s, "retry")
        /\ fds' = Released(s)
        /\ sock' = [sock EXCEPT ![s] =
                       IF again
                       THEN [Gone EXCEPT !.alive = TRUE,
                                         !.tries = sock[s].tries + 1]
                       ELSE Gone]
        /\ Run(s, IF again THEN "make" ELSE "return")
        /\ UNCHANGED <<cache, dangling>>

\* abort_connection()
AbortConnection(s) ==
    /\ At(s, "abort")
    /\ fds' = Released(s)
    /\ sock' = [sock EXCEPT ![s] = Gone]
    /\ Run(s, "return")
    /\ UNCHANGED <<cache, dangling>>

\* Mutant of Return: the timer is not set again.
ReturnAtOnce(s) ==
    /\ At(s, "return")
    /\ pc' = Idle
    /\ UNCHANGED <<sock, fds, cache, dangling>>

\* The handler returns.  timeout_socket() looks at the socket once more: if
\* another attempt has been started, it gets its own time.
Return(s) ==
    /\ At(s, "return")
    /\ pc' = Idle
    /\ dangling' = (pc.then /\ ~sock[s].alive)
    /\ sock' = IF pc.then /\ sock[s].info
               THEN [sock EXCEPT ![s].timer = TRUE] ELSE sock
    /\ UNCHANGED <<fds, cache>>

-----------------------------------------------------------------------------
(***************************************************************************)
(* Events.                                                                 *)
(***************************************************************************)

\* The scheduler runs a connection.
Start(s) ==
    /\ pc = Idle
    /\ ~sock[s].alive
    /\ sock' = [sock EXCEPT ![s].alive = TRUE]
    /\ Run(s, "make")
    /\ UNCHANGED <<fds, cache, dangling>>

\* connected() and dns_exception(), connected to or not.
Connected(s) ==
    /\ pc = Idle
    /\ \E f \in 1 .. MaxFd :
        fds[f].calls = "connected" /\ fds[f].target = s
    /\ Run(s, "complete") \/ Run(s, "connect")
    /\ UNCHANGED <<sock, fds, cache, dangling>>

\* write_select() and read_select(): data gets through, the timer is set and
\* the tries are counted anew; or there is an error, or all is done.
Transfer(s) ==
    /\ pc = Idle
    /\ \E f \in 1 .. MaxFd : fds[f].calls = "io" /\ fds[f].target = s
    /\ \/ /\ sock' = [sock EXCEPT ![s].timer = TRUE, ![s].tries = 0]
          /\ UNCHANGED pc
       \/ /\ Run(s, "retry") \/ Run(s, "abort")
          /\ UNCHANGED sock
    /\ UNCHANGED <<fds, cache, dangling>>

\* connection_timeout() and timeout_socket(): the next address gets a chance,
\* but a name that cannot be found in time ends it all.
Timeout(s) ==
    /\ pc = Idle
    /\ sock[s].timer
    /\ sock' = [sock EXCEPT ![s].timer = FALSE]
    /\ \/ ~sock[s].info /\ Run(s, "retry")
       \/ sock[s].info /\ sock[s].h # None /\ Run(s, "abort")
       \/ /\ sock[s].info /\ sock[s].h = None
          /\ pc' = [on |-> s, step |-> "connect", then |-> TRUE]
    /\ UNCHANGED <<fds, cache, dangling>>

\* The user, or the scheduler, ends a connection.
Cancel(s) ==
    /\ pc = Idle
    /\ sock[s].alive
    /\ Run(s, "abort")
    /\ UNCHANGED <<sock, fds, cache, dangling>>

\* The handler that is running.
Step(s) ==
    \/ MakeConnection(s) \/ CloseLast(s) \/ ConnectSocket(s)
    \/ CompleteConnectSocket(s) \/ RetryConnection(s) \/ AbortConnection(s)
    \/ Return(s)

Event(s) ==
    \/ Start(s) \/ Connected(s) \/ Transfer(s) \/ Timeout(s) \/ Cancel(s)
    \/ \E n \in 0 .. MaxAddrs : Answer(s, n)

\* What follows the use of a freed socket is undefined.
Next ==
    /\ ~dangling
    /\ \/ \E s \in Socks : Step(s) \/ Event(s)
       \/ Age
       \/ \E whole \in BOOLEAN : ShrinkDnsCache(whole)

Spec == Init /\ [][Next]_vars

\* Handlers return, and a timer that runs goes off, whatever else happens.
\* Helpers may hang and addresses be silent.
FairSpec ==
    /\ Spec
    /\ \A s \in Socks :
          WF_vars(~dangling /\ Step(s)) /\ SF_vars(~dangling /\ Timeout(s))

-----------------------------------------------------------------------------
(***************************************************************************)
(* Properties.                                                             *)
(***************************************************************************)

\* The variables have their types, and the tries never exceed what the user
\* allows.
TypeOK ==
    /\ sock \in [Socks -> [alive : BOOLEAN, info : BOOLEAN, timer : BOOLEAN,
                           h : 0 .. MaxFd, fd : 0 .. MaxFd,
                           addrno : 0 .. MaxAddrs, tried : 0 .. MaxAddrs,
                           tries : Nat]]
    /\ \A s \in Socks : sock[s].tries < Max({1, MaxTries})
    /\ fds \in [1 .. MaxFd -> [open : BOOLEAN, target : Socks \cup {None},
                               calls : {"nothing", "answer", "connected",
                                        "io"}]]
    /\ cache \in [addrno : 0 .. MaxAddrs, old : BOOLEAN]
    /\ pc.on \in Socks \cup {None}

Remembers(s, f) == sock[s].alive /\ f \in {sock[s].fd, sock[s].h}

\* No descriptor leaks or is closed twice: when no handler runs, every open
\* one is remembered by the socket it was opened for and by no other, and a
\* socket remembers no closed one, though connect_socket() leaves one behind
\* when an address refuses.
FdsOwned ==
    /\ TypeOK
    /\ pc = Idle /\ ~dangling =>
        \A f \in 1 .. MaxFd, s \in Socks :
            Remembers(s, f) <=> fds[f].open /\ fds[f].target = s

\* A handler is called for a socket that waits for just that: a late answer
\* of a helper or a late connection finds no handler ("Lost connect_info!").
HandlersMatch ==
    \A f \in 1 .. MaxFd :
        LET s == fds[f].target
        IN  fds[f].calls # "nothing" /\ pc.on # s =>
                /\ fds[f].open
                /\ CASE fds[f].calls = "answer" ->
                          sock[s].info /\ sock[s].h = f
                     [] fds[f].calls = "connected" ->
                          sock[s].info /\ sock[s].fd = f /\ sock[s].h = None
                     [] OTHER -> ~sock[s].info /\ sock[s].fd = f

\* Whoever waits for a helper, an address or data has a timer running: the
\* one that went off is set again with each new attempt.
TimerArmed ==
    pc = Idle /\ ~dangling =>
        \A s \in Socks : sock[s].alive => sock[s].timer

\* Every connection that is started gets connected or ends, though helpers
\* may never answer and addresses stay silent.
AttemptEnds ==
    \A s \in Socks :
        sock[s].alive ~>
            \/ ~sock[s].alive \/ dangling
            \/ sock[s].fd # None /\ ~sock[s].info

\* The socket that timeout_socket() looks at after connect_socket() has
\* returned (socket.c:209) still exists.  socket.c has weak references "for
\* detecting whether a struct socket has been deleted while a function was
\* using it", but timeout_socket() uses none.
TimeoutFindsSocket ==
    \A s \in Socks : At(s, "return") /\ pc.then => sock[s].alive
=============================================================================
