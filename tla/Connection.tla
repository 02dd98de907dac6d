----------------------------- MODULE Connection -----------------------------
(***************************************************************************)
(* The connection queue of elinks, network/connection.c: load_uri(),       *)
(* change_connection(), detach_connection(), the life of a connection      *)
(* (run, suspend, retry, abort), the pool of keep-alive sockets, the       *)
(* scheduler check_queue() and the shutdown of main/main.c.                *)
(*                                                                         *)
(* elinks is one thread.  What interleaves are the handlers of its event   *)
(* loop and the callbacks they make: the owners of downloads load, change  *)
(* and detach from the loop or from a callback in the middle of            *)
(* check_queue(); sockets and timers report one event at a time; and       *)
(* check_queue() runs as a bottom half when something registered it.       *)
(***************************************************************************)
EXTENDS Integers, Sequences, FiniteSets, FiniteSetsExt, SequencesExt

CONSTANTS
    Conns,         \* bound: struct connections that fit in memory
    NoConn,        \* a download without connection, no handler running
    Downloads,     \* the struct downloads of the browser
    Uris,          \* what can be loaded
    HostOf,        \* the host of a URI, NoHost for file:// and the like
    NoHost,
    SiteOf,        \* what compare_uri(URI_KEEPALIVE) compares
    Posts,         \* the URIs with a POST body
    Quits,         \* sites whose protocol says goodbye (nntp_quit)
    Cancel,        \* PRI_CANCEL, the lowest priority; 6 in the code
    MaxPri,        \* bound: a priority counter
    MaxTries,      \* connection.retries
    LimitSet,      \* values of the options [conns, tohost]
    MaxKeepalive   \* MAX_KEEPALIVE_CONNECTIONS, 30 in the code

Hosts == {HostOf[u] : u \in Uris} \ {NoHost}

Priorities == 0 .. Cancel

\* The ranges of max_connections and max_connections_to_host.
Limit == [conns : 1 .. 16, tohost : 1 .. 8]

ASSUME ConnectionAssumption ==
    /\ NoConn \notin Conns
    /\ IsFiniteSet(Conns) /\ IsFiniteSet(Downloads)
    /\ Cancel \in Nat \ {0}
    /\ MaxPri \in Nat \ {0} /\ MaxTries \in Nat /\ MaxKeepalive \in Nat
    /\ LimitSet # {} /\ LimitSet \subseteq Limit
    /\ Posts \subseteq Uris
    /\ \A u, v \in Uris : SiteOf[u] = SiteOf[v] => HostOf[u] = HostOf[v]

VARIABLES
    queue,     \* connection_queue
    conn,      \* the connections; a slot that is not on the queue is Free
    dl,        \* the downloads
    active,    \* active_connections
    hosts,     \* host_connections: the references to each host
    keep,      \* keepalive_connections, the URI that left each socket
    limits,    \* the options max_connections and max_connections_to_host
    lim,       \* check_queue's copy of them
    bh,        \* check_queue is registered as a bottom half
    checking,  \* check_queue is running
    cur,       \* the connection whose protocol handler is running
    phase      \* "run", then the steps of terminate_all_subsystems; "failed"
               \* when an assertion has ended the program

vars == <<queue, conn, dl, active, hosts, keep, limits, lim, bh, checking,
          cur, phase>>

-----------------------------------------------------------------------------
(***************************************************************************)
(* Connections and downloads.                                              *)
(***************************************************************************)

\* What the scheduler distinguishes of enum connection_state: S_WAIT, the
\* other states in progress ("quit" is a connection that only says goodbye
\* for a kept socket) and the results.  "extra" is a ghost: the connection
\* was started by the keep-alive code, which does not look at the limits.
ConnType ==
    [uri : Uris, pri : [Priorities -> 0 .. MaxPri], running : BOOLEAN,
     state : {"wait", "busy", "quit", "result"}, tries : Nat,
     detached : BOOLEAN, extra : BOOLEAN]

Free == [state |-> "free"]

\* init_connection()
InitConnection(u, p) ==
    [uri |-> u, pri |-> [q \in Priorities |-> IF q = p THEN 1 ELSE 0],
     running |-> FALSE, state |-> "wait", tries |-> 0, detached |-> FALSE,
     extra |-> FALSE]

\* A download in progress is on the list of its connection and has the
\* state of that connection.  Of the results only S_OUT_OF_MEM of
\* run_connection() is told from the others.
DownloadType ==
    [state : {"progress", "result", "nomem"}, conn : Conns \cup {NoConn},
     pri : Priorities]

Result(r) == [state |-> r, conn |-> NoConn, pri |-> 0]

Attached(c, p) == [state |-> "progress", conn |-> c, pri |-> p]

InProgress(d) == dl[d].state = "progress"

\* The connections of connection_queue; QueueConsistent says that these are
\* the elements of the sequence queue.
OnQueue == {c \in Conns : conn[c] # Free}

GetPriority(r) ==
    CHOOSE p \in Priorities : /\ r.pri[p] > 0
                              /\ \A q \in Priorities : q < p => r.pri[q] = 0

Priority(c) == GetPriority(conn[c])

HostName(c) == HostOf[conn[c].uri]

Waiting(c) == conn[c].state = "wait"

\* add_to_queue(): before the first connection of a lower priority.  cs are
\* the connections as they will be.
AddToQueue(cs, q, c) ==
    LET ahead == {n \in 0 .. Len(q) : \A i \in 1 .. n :
                    GetPriority(cs[q[i]]) <= GetPriority(cs[c])}
    IN  InsertAt(q, Max(ahead) + 1, c)

\* del_from_list(), for the connections of S.
DelFromList(q, S) ==
    LET kept[n \in 0 .. Len(q)] ==
            IF n = 0 THEN << >>
            ELSE IF q[n] \in S THEN kept[n - 1] ELSE Append(kept[n - 1], q[n])
    IN  kept[Len(q)]

SortQueueNever(cs, q) == q

\* sort_queue(): a bubble sort, which keeps the order of equals.  Inserting
\* the connections one after another gives the same queue.
SortQueue(cs, q) ==
    LET sorted[n \in 0 .. Len(q)] ==
            IF n = 0 THEN << >> ELSE AddToQueue(cs, sorted[n - 1], q[n])
    IN  sorted[Len(q)]

Running(S) == {c \in S : conn[c].running}

\* done_host_connection() for the running connections of S.
DoneHosts(S) ==
    [h \in Hosts |->
        hosts[h] - Cardinality({c \in Running(S) : HostName(c) = h})]

\* add_host_connection(): a new host takes memory, which may be missing.
MayLackMemory(hs, u) == HostOf[u] # NoHost /\ hs[HostOf[u]] = 0

AddHost(hs, u) ==
    IF HostOf[u] = NoHost THEN hs ELSE [hs EXCEPT ![HostOf[u]] = @ + 1]

\* set_connection_state(): every download of the connections gets the result.
EndDownloads(S, r) ==
    [d \in Downloads |->
        IF InProgress(d) /\ dl[d].conn \in S THEN Result(r) ELSE dl[d]]

\* set_connection_state(result), free_connection_data() where the connection
\* is running, and done_connection(), for the connections of S.
Abort(S, r) ==
    /\ dl' = EndDownloads(S, r)
    /\ active' = active - Cardinality(Running(S))
    /\ hosts' = DoneHosts(S)
    /\ queue' = DelFromList(queue, S)
    /\ conn' = [c \in Conns |-> IF c \in S THEN Free ELSE conn[c]]

Init ==
    /\ queue = << >>
    /\ conn = [c \in Conns |-> Free]
    /\ dl = [d \in Downloads |-> Result("result")]
    /\ active = 0
    /\ hosts = [h \in Hosts |-> 0]
    /\ keep = << >>
    /\ limits \in LimitSet
    /\ lim = limits
    /\ bh = FALSE
    /\ checking = FALSE
    /\ cur = NoConn
    /\ phase = "run"

-----------------------------------------------------------------------------
(***************************************************************************)
(* Requests of the browser.  They come from a handler of the event loop or *)
(* from a download's callback, which runs inside check_queue() whenever a  *)
(* connection changes its state there.                                     *)
(***************************************************************************)

User == phase = "run" /\ cur = NoConn

\* load_uri() answered by the cache, by a bad URL or by lack of memory.
LoadWithoutConnection(d) ==
    /\ User
    /\ ~InProgress(d)
    /\ dl' = [dl EXCEPT ![d] = Result("result")]
    /\ UNCHANGED <<queue, conn, active, hosts, keep, limits, lim, bh,
                   checking, cur, phase>>

Joinable(c, u) == conn[c].uri = u /\ ~conn[c].detached

\* load_uri() of something a connection on the queue already fetches.
LoadJoin(d, u, p) ==
    /\ User
    /\ ~InProgress(d)
    /\ \E i \in 1 .. Len(queue) :
        LET c == queue[i]
            joined == [conn EXCEPT ![c].pri[p] = @ + 1]
            raised == Priority(c) > p
        IN  /\ Joinable(c, u)
            /\ \A j \in 1 .. i - 1 : ~Joinable(queue[j], u)
            /\ conn[c].pri[p] < MaxPri
            /\ conn' = joined
            /\ queue' = IF raised
                        THEN AddToQueue(joined, DelFromList(queue, {c}), c)
                        ELSE queue
            /\ bh' = (bh \/ raised)
            /\ dl' = [dl EXCEPT ![d] = Attached(c, p)]
    /\ UNCHANGED <<active, hosts, keep, limits, lim, checking, cur, phase>>

\* load_uri() of something new.
LoadNew(d, u, p) ==
    /\ User
    /\ ~InProgress(d)
    /\ \A c \in OnQueue : ~Joinable(c, u)
    /\ \E c \in Conns \ OnQueue :
        /\ conn' = [conn EXCEPT ![c] = InitConnection(u, p)]
        /\ queue' = AddToQueue(conn', queue, c)
        /\ dl' = [dl EXCEPT ![d] = Attached(c, p)]
    /\ bh' = TRUE
    /\ UNCHANGED <<active, hosts, keep, limits, lim, checking, cur, phase>>

\* change_connection() of a download that has already ended.
ChangeEnded(old, new) ==
    /\ User
    /\ ~InProgress(old) /\ ~InProgress(new)
    /\ dl' = [dl EXCEPT ![new] = dl[old]]
    /\ UNCHANGED <<queue, conn, active, hosts, keep, limits, lim, bh,
                   checking, cur, phase>>

MovedOwnerKept(c, old, p) == [conn EXCEPT ![c].pri[p] = @ + 1]

\* conn->pri[old->pri]--, conn->pri[newpri]++
MovedOwner(c, old, p) ==
    [conn EXCEPT ![c].pri = [q \in Priorities |->
        (@[q] + IF q = p THEN 1 ELSE 0) - IF q = dl[old].pri THEN 1 ELSE 0]]

\* change_connection(old, new, newpri): the connection gets a new owner, or
\* the same one with another priority.
ChangeConnection(old, new, p) ==
    /\ User
    /\ InProgress(old)
    /\ new = old \/ ~InProgress(new)
    /\ LET c == dl[old].conn
       IN  /\ conn[c].pri[p] < MaxPri
           /\ conn' = MovedOwner(c, old, p)
           /\ queue' = SortQueue(conn', queue)
           /\ dl' = [[dl EXCEPT ![old] = Result("result")]
                        EXCEPT ![new] = Attached(c, p)]
    /\ bh' = TRUE
    /\ UNCHANGED <<active, hosts, keep, limits, lim, checking, cur, phase>>

\* change_connection(old, NULL, PRI_CANCEL, interrupt): the owner lets go.
\* The connection is aborted, or goes on at PRI_CANCEL to fill the cache.
CancelDownload(old, interrupt) ==
    /\ User
    /\ InProgress(old)
    /\ LET c == dl[old].conn
           moved == MovedOwner(c, old, Cancel)
       IN  IF conn[c].detached \/ interrupt
           THEN Abort({c}, "result")
           ELSE /\ conn[c].pri[Cancel] < MaxPri
                /\ conn' = moved
                /\ queue' = SortQueue(moved, queue)
                /\ dl' = [dl EXCEPT ![old] = Result("result")]
                /\ UNCHANGED <<active, hosts>>
    /\ bh' = TRUE
    /\ UNCHANGED <<keep, limits, lim, checking, cur, phase>>

\* The owners of a connection: sum of pri[] below PRI_CANCEL.
TotalPri(c) ==
    LET total[n \in 0 .. Cancel] ==
            IF n = 0 THEN 0 ELSE total[n - 1] + conn[c].pri[n - 1]
    IN  total[Cancel]

\* detach_connection(): the only owner of a large document takes its cache
\* entry for itself.  That it is large and unused elsewhere is not modelled:
\* either way is possible.
DetachConnection(d) ==
    /\ User
    /\ InProgress(d)
    /\ ~conn[dl[d].conn].detached
    /\ TotalPri(dl[d].conn) = 1
    /\ conn' = [conn EXCEPT ![dl[d].conn].detached = TRUE]
    /\ UNCHANGED <<queue, dl, active, hosts, keep, limits, lim, bh, checking,
                   cur, phase>>

\* abort_background_connections().  Connections of PRI_CANCEL have no
\* downloads, so no callback runs between two of them.
AbortBackground ==
    /\ User
    /\ \E c \in OnQueue : Priority(c) >= Cancel
    /\ Abort({c \in OnQueue : Priority(c) >= Cancel}, "result")
    /\ bh' = TRUE
    /\ UNCHANGED <<keep, limits, lim, checking, cur, phase>>

\* The user sets an option of the connection tree: change_hook_connection().
SetLimits(l) ==
    /\ User
    /\ l # limits
    /\ limits' = l
    /\ bh' = TRUE
    /\ UNCHANGED <<queue, conn, dl, active, hosts, keep, lim, checking, cur,
                   phase>>

-----------------------------------------------------------------------------
(***************************************************************************)
(* What becomes of a running connection.  Sockets and timers report from   *)
(* the event loop, which runs the bottom halves after every handler.       *)
(***************************************************************************)

Loop == phase = "run" /\ cur = NoConn /\ ~checking /\ ~bh

InTransfer(c) == c \in OnQueue /\ conn[c].state \in {"busy", "quit"}

\* abort_connection() by the protocol: the document is complete or failed.
Finish(c) ==
    /\ Loop
    /\ InTransfer(c)
    /\ Abort({c}, "result")
    /\ bh' = TRUE
    /\ UNCHANGED <<keep, limits, lim, checking, cur, phase>>

AddKeepaliveSilently(c) ==
    /\ Loop
    /\ InTransfer(c) /\ conn[c].state # "quit" /\ HostName(c) # NoHost
    /\ keep' = <<conn[c].uri>> \o keep
    /\ Abort({c}, "result")
    /\ UNCHANGED <<limits, lim, bh, checking, cur, phase>>

\* add_keepalive_connection(): complete, and the socket is kept.
AddKeepalive(c) ==
    /\ Loop
    /\ InTransfer(c) /\ conn[c].state # "quit" /\ HostName(c) # NoHost
    /\ keep' = <<conn[c].uri>> \o keep
    /\ Abort({c}, "result")
    /\ bh' = TRUE
    /\ UNCHANGED <<limits, lim, checking, cur, phase>>

LastTryPost(c, tries) == MaxTries = 0 \/ tries + 1 >= MaxTries

LastTry(c, tries) ==
    conn[c].uri \in Posts \/ MaxTries = 0 \/ tries + 1 >= MaxTries

TriedUncounted(r, tries) == [r EXCEPT !.state = "result"]

Tried(r, tries) == [r EXCEPT !.tries = tries + 1, !.state = "result"]

\* retry_connection() lets go of the last reference to the host, and
\* run_connection() has no memory for a new one: it ends the connection, and
\* nobody registers check_queue.
RetryOutOfMemory(c, tries) ==
    /\ ~LastTry(c, tries)
    /\ MayLackMemory(DoneHosts({c}), conn[c].uri)
    /\ Abort({c}, "nomem")
    /\ cur' = NoConn
    /\ UNCHANGED bh

\* retry_connection() with this value of conn->tries: the connection gives up,
\* or lets go of its host and its place and runs again at once.
Retry(c, tries) ==
    \/ /\ LastTry(c, tries)
       /\ Abort({c}, "result")
       /\ bh' = TRUE
       /\ cur' = NoConn
    \/ /\ ~LastTry(c, tries)
       /\ conn' = [conn EXCEPT ![c] = Tried(@, tries)]
       /\ hosts' = AddHost(DoneHosts({c}), conn[c].uri)
       /\ active' = (active - 1) + 1
       /\ cur' = c
       /\ UNCHANGED <<queue, dl, bh>>
    \/ RetryOutOfMemory(c, tries)

\* A socket fails or connection_timeout() fires.
RetryConnection(c) ==
    /\ Loop
    /\ InTransfer(c)
    /\ Retry(c, conn[c].tries)
    /\ UNCHANGED <<keep, limits, lim, checking, phase>>

\* The server closes the socket without an answer to the first request:
\* http_got_header() blacklists it and does not count this try.  That the
\* entry makes the next one count is not modelled.
RetryBlacklisted(c) ==
    /\ Loop
    /\ c \in OnQueue /\ conn[c].state = "busy" /\ conn[c].tries = 0
    /\ HostName(c) # NoHost
    /\ Retry(c, -1)
    /\ UNCHANGED <<keep, limits, lim, checking, phase>>

\* The protocol has got something new (add_fragment() returned 1): the tries
\* are counted afresh.
NewData(c) ==
    /\ Loop
    /\ c \in OnQueue /\ conn[c].state = "busy" /\ conn[c].tries > 0
    /\ conn' = [conn EXCEPT ![c].tries = 0]
    /\ UNCHANGED <<queue, dl, active, hosts, keep, limits, lim, bh, checking,
                   cur, phase>>

-----------------------------------------------------------------------------
(***************************************************************************)
(* Kept sockets.                                                           *)
(***************************************************************************)

\* The first kept socket a URI can use: get_keepalive_connection().
Kept(u) == {i \in 1 .. Len(keep) : SiteOf[keep[i]] = SiteOf[u]}

\* has_keepalive_connection(): the first such socket leaves the list.
TakeKept(u) ==
    IF Kept(u) = {} THEN keep ELSE RemoveAt(keep, Min(Kept(u)))

\* done_keepalive_connection(), through do_keepalive_connection_callback()
\* where the protocol has to say goodbye: that takes a new connection at
\* PRI_CANCEL, started whatever the limits are, and the socket it takes is
\* the first one of the site.
DoneKeepalive(i) ==
    \/ /\ SiteOf[keep[i]] \in Quits
       /\ \E c \in Conns \ OnQueue :
            LET quit == [InitConnection(keep[i], Cancel) EXCEPT
                            !.state = "quit", !.running = TRUE, !.extra = TRUE]
            IN  /\ conn' = [conn EXCEPT ![c] = quit]
                /\ queue' = AddToQueue(conn', queue, c)
       /\ hosts' = AddHost(hosts, keep[i])
       /\ active' = active + 1
       /\ keep' = TakeKept(keep[i])
    \/ /\ SiteOf[keep[i]] \notin Quits \/ Conns = OnQueue
       /\ keep' = RemoveAt(keep, i)
       /\ UNCHANGED <<queue, conn, active, hosts>>

\* do_keepalive_connection_callback() without memory for the host: it frees a
\* connection that does not run, and the assertion "connection already
\* suspended" fails.  (Without CONFIG_DEBUG elinks goes on with a counter that
\* is one too small and a kept socket that is freed twice.)
KeepaliveFails(i) ==
    /\ \/ Loop \/ (checking /\ cur = NoConn)
       \/ phase \in {"keepalive", "keepalive2"} /\ i = 1
    /\ i \in 1 .. Len(keep)
    /\ SiteOf[keep[i]] \in Quits /\ Conns # OnQueue
    /\ MayLackMemory(hosts, keep[i])
    /\ phase' = "failed" /\ checking' = FALSE
    /\ UNCHANGED <<queue, conn, dl, active, hosts, keep, limits, lim, bh, cur>>

\* check_keepalive_connections(), from check_queue() or from its own timer:
\* a socket has been closed by its server or has expired, or the list is too
\* long and the oldest goes.
CheckKeepalive(i) ==
    /\ Loop \/ (checking /\ cur = NoConn)
    /\ i \in 1 .. Len(keep)
    /\ DoneKeepalive(i)
    /\ UNCHANGED <<dl, limits, lim, bh, checking, cur, phase>>

-----------------------------------------------------------------------------
(***************************************************************************)
(* check_queue().                                                          *)
(***************************************************************************)

\* check_bottom_halves() takes check_queue off its list and calls it.
StartCheck ==
    /\ bh /\ ~checking /\ cur = NoConn
    /\ phase \in {"run", "halves"}
    /\ bh' = FALSE
    /\ checking' = TRUE
    /\ lim' = limits
    /\ UNCHANGED <<queue, conn, dl, active, hosts, keep, limits, cur, phase>>

HostFullLoose(c) ==
    HostName(c) \in Hosts /\ hosts[HostName(c)] > lim.tohost

HostFull(c) == HostName(c) \in Hosts /\ hosts[HostName(c)] >= lim.tohost

AllFull == active >= lim.conns

\* The connections try_to_suspend_connection() may take for c, of its host
\* or of any: those of a lower priority that are not waiting and are not a
\* POST somebody still wants.
Victims(c) ==
    {i \in 1 .. Len(queue) :
        /\ Priority(queue[i]) > Priority(c)
        /\ ~Waiting(queue[i])
        /\ conn[queue[i]].uri \notin Posts \/ Priority(queue[i]) >= Cancel
        /\ HostFull(c) => HostName(queue[i]) = HostName(c)}

CanRun(c) == ~HostFull(c) /\ ~AllFull

\* try_connection() does something for c.
CanTry(c) == Waiting(c) /\ (CanRun(c) \/ Victims(c) # {})

\* The order of check_queue's loops: by priority; within a priority those
\* with a kept socket first; then by place.
Earlier(i, j) ==
    LET c == queue[i]
        e == queue[j]
        unkept(x) == Kept(conn[x].uri) = {}
    IN  \/ Priority(c) < Priority(e)
        \/ Priority(c) = Priority(e) /\ ~unkept(c) /\ unkept(e)
        \/ Priority(c) = Priority(e) /\ (unkept(c) <=> unkept(e)) /\ i <= j

\* The connection check_queue() will do something for.
Chosen(i) ==
    /\ i \in 1 .. Len(queue)
    /\ CanTry(queue[i])
    /\ \A j \in 1 .. Len(queue) : CanTry(queue[j]) => Earlier(i, j)

Round == checking /\ cur = NoConn /\ Len(keep) <= MaxKeepalive

\* run_connection(): the protocol handler is called.
RunConnection(i) ==
    /\ Round
    /\ Chosen(i)
    /\ LET c == queue[i]
       IN  /\ CanRun(c)
           /\ conn' = [conn EXCEPT ![c].running = TRUE]
           /\ hosts' = AddHost(hosts, conn[c].uri)
           /\ cur' = c
    /\ active' = active + 1
    /\ UNCHANGED <<queue, dl, keep, limits, lim, bh, checking, phase>>

\* run_connection() without memory for the host: the connection ends.
RunOutOfMemory(i) ==
    /\ Round
    /\ Chosen(i) /\ CanRun(queue[i])
    /\ MayLackMemory(hosts, conn[queue[i]].uri)
    /\ Abort({queue[i]}, "nomem")
    /\ UNCHANGED <<keep, limits, lim, bh, checking, cur, phase>>

\* free_connection_data() lets go of the host while the state is not yet
\* S_WAIT.
SuspendHosts(c) == DoneHosts({c})

\* suspend_connection() of the last victim on the queue.
SuspendConnection(i) ==
    /\ Round
    /\ Chosen(i)
    /\ ~CanRun(queue[i])
    /\ LET v == queue[Max(Victims(queue[i]))]
       IN  /\ conn' = [conn EXCEPT ![v].running = FALSE, ![v].state = "wait",
                                   ![v].extra = FALSE]
           /\ hosts' = SuspendHosts(v)
    /\ active' = active - 1
    /\ UNCHANGED <<queue, dl, keep, limits, lim, bh, checking, cur, phase>>

\* again2: nothing can be started.  Waiting connections nobody wants are
\* removed (they have no downloads: no callback runs) and check_queue ends.
EndCheck ==
    /\ Round
    /\ \A i \in 1 .. Len(queue) : ~CanTry(queue[i])
    /\ Abort({c \in OnQueue : Priority(c) >= Cancel /\ Waiting(c)}, "result")
    /\ checking' = FALSE
    /\ UNCHANGED <<keep, limits, lim, bh, cur, phase>>

-----------------------------------------------------------------------------
(***************************************************************************)
(* The protocol handlers, external to connection.c: they use a kept socket *)
(* or start to connect, or end the connection before they return.          *)
(***************************************************************************)

HandlerStarts ==
    /\ cur # NoConn
    /\ conn' = [conn EXCEPT ![cur].state = "busy"]
    /\ keep' = TakeKept(conn[cur].uri)
    /\ cur' = NoConn
    /\ UNCHANGED <<queue, dl, active, hosts, limits, lim, bh, checking, phase>>

HandlerAborts ==
    /\ cur # NoConn
    /\ Abort({cur}, "result")
    /\ bh' = TRUE
    /\ cur' = NoConn
    /\ UNCHANGED <<keep, limits, lim, checking, phase>>

HandlerRetries ==
    /\ cur # NoConn
    /\ Retry(cur, conn[cur].tries)
    /\ UNCHANGED <<keep, limits, lim, checking, phase>>

Handler == HandlerStarts \/ HandlerAborts \/ HandlerRetries

-----------------------------------------------------------------------------
(***************************************************************************)
(* terminate_all_subsystems(): abort_all_connections(), the bottom halves, *)
(* abort_all_connections().  By then the terminals and the downloads are   *)
(* gone: callbacks do not load anything new.                               *)
(***************************************************************************)

AbortQueue == Abort(OnQueue, "result") /\ bh' = (bh \/ queue # << >>)

Shutdown ==
    /\ Loop
    /\ AbortQueue
    /\ phase' = "keepalive"
    /\ UNCHANGED <<keep, limits, lim, checking, cur>>

\* abort_all_keepalive_connections()
AbortKeepalive ==
    /\ phase \in {"keepalive", "keepalive2"}
    /\ keep # << >>
    /\ DoneKeepalive(1)
    /\ UNCHANGED <<dl, limits, lim, bh, checking, cur, phase>>

AbortKeepaliveDone ==
    /\ keep = << >>
    /\ \/ phase = "keepalive" /\ phase' = "halves"
       \/ phase = "keepalive2" /\ phase' = "exit"
    /\ UNCHANGED <<queue, conn, dl, active, hosts, keep, limits, lim, bh,
                   checking, cur>>

\* The second abort_all_connections(), after the bottom halves.
AbortOnce ==
    /\ phase = "halves"
    /\ ~bh /\ ~checking /\ cur = NoConn
    /\ phase' = "keepalive2"
    /\ UNCHANGED <<queue, conn, dl, active, hosts, keep, limits, lim, bh,
                   checking, cur>>

AbortAgain ==
    /\ phase = "halves"
    /\ ~bh /\ ~checking /\ cur = NoConn
    /\ AbortQueue
    /\ phase' = "keepalive2"
    /\ UNCHANGED <<keep, limits, lim, checking, cur>>

-----------------------------------------------------------------------------

Request ==
    \/ \E d \in Downloads :
        \/ LoadWithoutConnection(d)
        \/ \E u \in Uris, p \in 0 .. Cancel - 1 :
            LoadJoin(d, u, p) \/ LoadNew(d, u, p)
        \/ \E e \in Downloads :
            \/ ChangeEnded(d, e)
            \/ \E p \in 0 .. Cancel - 1 : ChangeConnection(d, e, p)
        \/ \E interrupt \in BOOLEAN : CancelDownload(d, interrupt)
        \/ DetachConnection(d)
    \/ AbortBackground
    \/ \E l \in LimitSet : SetLimits(l)

Network(c) == Finish(c) \/ AddKeepalive(c) \/ RetryConnection(c)

\* What gives a connection more tries than MaxTries.
Afresh(c) == RetryBlacklisted(c) \/ NewData(c)

Check ==
    \/ StartCheck
    \/ \E i \in 1 .. Len(queue) :
        RunConnection(i) \/ RunOutOfMemory(i) \/ SuspendConnection(i)
    \/ EndCheck

Terminate ==
    Shutdown \/ AbortKeepalive \/ AbortKeepaliveDone \/ AbortAgain

Exited == phase \in {"exit", "failed"} /\ UNCHANGED vars

Next ==
    \/ Request
    \/ \E c \in Conns : Network(c) \/ Afresh(c)
    \/ \E i \in 1 .. Len(keep) : CheckKeepalive(i) \/ KeepaliveFails(i)
    \/ Check
    \/ Handler
    \/ Terminate
    \/ Exited

Spec == Init /\ [][Next]_vars

-----------------------------------------------------------------------------
(***************************************************************************)
(* Properties.                                                             *)
(***************************************************************************)

TypeOK ==
    /\ conn \in [Conns -> ConnType \cup {Free}]
    /\ queue \in Seq(Conns)
    /\ dl \in [Downloads -> DownloadType]
    /\ active \in Nat
    /\ hosts \in [Hosts -> Nat]
    /\ keep \in Seq({u \in Uris : HostOf[u] # NoHost})
    /\ limits \in LimitSet /\ lim \in LimitSet
    /\ bh \in BOOLEAN /\ checking \in BOOLEAN
    /\ cur \in Conns \cup {NoConn} /\ (cur # NoConn => cur \in OnQueue)
    /\ phase \in {"run", "keepalive", "halves", "keepalive2", "exit", "failed"}

\* What check_queue_bugs() asserts of the queue (a debug build only checks it
\* at a few points): it is sorted by priority however connections were
\* joined, moved and cancelled, nothing on it has ended, and
\* active_connections is the number of running connections.  Outside a
\* protocol handler the connections that wait are exactly those that do not
\* run ("connection already suspended", "connection already running").
QueueConsistent ==
    /\ TypeOK
    /\ OnQueue = {queue[i] : i \in 1 .. Len(queue)}
    /\ \A i, j \in 1 .. Len(queue) : i < j =>
          queue[i] # queue[j] /\ Priority(queue[i]) <= Priority(queue[j])
    /\ \A c \in OnQueue : conn[c].state = "result" => c = cur
    /\ active = Cardinality(Running(OnQueue))
    /\ \A c \in OnQueue : c # cur => (Waiting(c) <=> ~conn[c].running)

Owners(c) == {d \in Downloads : InProgress(d) /\ dl[d].conn = c}

\* "sum of values in all fields of @pri is also kinda refcount of the
\* connection": whatever is joined, moved, cancelled or aborted, each counter
\* below PRI_CANCEL is the number of downloads of that priority attached to
\* the connection, a connection without downloads is on the queue at
\* PRI_CANCEL (get_priority() always finds an owner), and no download is left
\* attached to a connection that is gone.  A detached connection strips its
\* cache entry while it loads, so it has one download and nobody joins it.
OwnersCounted ==
    /\ \A c \in OnQueue :
        /\ \A p \in 0 .. Cancel - 1 :
             conn[c].pri[p] = Cardinality({d \in Owners(c) : dl[d].pri = p})
        /\ \E p \in Priorities : conn[c].pri[p] > 0
        /\ conn[c].detached => Cardinality(Owners(c)) <= 1
    /\ \A d \in Downloads : InProgress(d) => dl[d].conn \in OnQueue

\* The options bound what runs, in all and per host, the goodbyes of kept
\* sockets apart (they are started without looking at the limits).  Every
\* reference to a host belongs to a running connection to it: after any
\* sequence of runs, suspensions, retries and goodbyes none is left over (the
\* host would be full for ever) and none is missing.
Limits ==
    LET to(h, S) == Cardinality({c \in S : HostName(c) = h})
        counted == {c \in Running(OnQueue) : ~conn[c].extra}
    IN  /\ Cardinality(counted) <= Max({l.conns : l \in LimitSet})
        /\ \A h \in Hosts :
             /\ to(h, counted) <= Max({l.tohost : l \in LimitSet})
             /\ hosts[h] = to(h, Running(OnQueue))

\* check_queue is neither registered nor running, and nothing waits that could
\* run: no waiting connection has a free place under the current options, nor
\* a connection of a lower priority it could take one from.
Settled ==
    (phase = "run" /\ ~bh /\ ~checking) =>
        /\ lim = limits
        /\ \A c \in OnQueue : Waiting(c) =>
             /\ ~CanRun(c)
             /\ \A i \in Victims(c) : conn[queue[i]].extra

\* Nothing waits that could run when the event loop is about to sleep:
\* whatever freed a place, raised a priority or changed an option had
\* check_queue run afterwards.  There is one exception, and only one:
\* retry_connection() that runs out of memory frees a place and registers
\* nothing, so that what waits stays until something else registers it.
WorkConserving ==
    [][Settled => \/ Settled'
                  \/ \E c \in OnQueue : \E tries \in {conn[c].tries, -1} :
                       RetryOutOfMemory(c, tries)]_vars

\* A POST somebody waits for is sent once: while it runs it is neither
\* suspended in favour of another connection nor handed to its protocol again.
PostSentOnce ==
    [][\A c \in Conns :
        (/\ c \in OnQueue /\ conn[c].running /\ conn[c].uri \in Posts
         /\ Priority(c) < Cancel /\ c # cur)
        => \/ conn'[c] = Free
           \/ conn'[c].running /\ cur' # c]_vars

\* "This means we need to abort_all_connections() twice" (main.c): at exit
\* no connection, kept socket or host reference is left, though the goodbyes
\* of kept sockets start new connections during the first abort.
ShutdownClean ==
    phase = "exit" =>
        /\ queue = << >> /\ keep = << >> /\ active = 0
        /\ \A h \in Hosts : hosts[h] = 0
        /\ \A d \in Downloads : ~InProgress(d)

=============================================================================
