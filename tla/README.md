# Verification of the KCN tools

TLA+ models of the network clients in this repository, TLC configurations that
check them on small instances, and TLAPS proofs of what holds of them for every
value of their parameters.

## 1. The system and its parts

The repository collects network clients with hooks for KCN, a keyword-based
naming service. They are separate processes and share no code. Each asks
libkcn (not part of the repository) once, at start-up, to turn keywords into a
host name or a URL, and then does what it always did.

| part | source | state | hard behaviour | module |
|---|---|---|---|---|
| ping | `ping/ping.c` | counters, `rcvd_tbl`, the schedule, round trip sums, the SIGINT handler | signal handlers between any two statements; lost, duplicated, late and reordered replies; a process that runs late; `poll` with a negative timeout | `Ping` |
| traceroute | `traceroute/traceroute.c` | ttl, probe number, `seq`, packet length, `mtuptr`, per-hop flags | answers to earlier probes; keys that wrap; a hop that starts over; waits that foreign traffic interrupts | `Traceroute` |
| elinks: connection queue | `elinks/src/network/connection.c` | `connection_queue`, priorities as reference counts, `active_connections`, host references, kept sockets | callbacks that load and cancel in the middle of the scheduler; preemption; retries; shutdown that starts connections | `Connection` |
| elinks: sockets and names | `network/socket.c`, `network/dns.c` | a socket's descriptor, addresses, lookup, timer and tries; the name cache | handlers that call each other and free what their caller uses; late answers of helpers; silent addresses | `Lookup` |
| elinks: contents of a cache entry | `cache/cache.c` | the list of fragments, its length and size account, the id | writes in any order, over other editions, without memory | `Document`, `Fragments` |
| elinks: document cache | `cache/cache.c`, `document/document.c`, `cache/dialogs.c`, `bfu/hierbox.c` | entries with locks, formatted documents, the connections' references, a dialog | collection in the middle of loading; references by URI and by address; deletion by the user | `Cache` |
| elinks: event loop | `main/select.c`, `main/timer.c`, `osdep/signals.c` | handlers, timers, bottom halves, signal marks, the alarm | signals between the last look and `select`; handlers replaced while they are ready | `EventLoop` |
| elinks: the rest | sessions, rendering, protocols | | | requests of `Connection` |
| w3m | `w3m/` | | third-party, synchronous | not modelled |

`PROJECT.json` lists every component with its status, the hazards of the code
with the line where each one bites, and the correspondence of definitions to
source lines.

What makes the modelled parts correct:

- **ping**: the loss percentage is right whatever the network does; no more
  requests than `-c`/`-l` allow, no faster than one an interval; statistics of
  one set of round trips; it ends.
- **traceroute**: an answer is attributed to the probe it answers; no hop and
  no probe is skipped or repeated; the search for the path MTU does not come back
  to a packet that was refused; no probe is given up early; it ends.
- **elinks' queue**: the queue is sorted and its counters say what is on it; no
  connection is without owner, no download without connection; the limits
  hold, yet nothing waits that could run (one path without memory apart); a POST is
  sent once; the shutdown leaves nothing behind.
- **sockets and names**: no descriptor leaks or is closed twice; a handler finds
  the socket it was registered for in the state it expects; every wait has a
  timer, and every attempt to connect ends.
- **contents of an entry**: fragments are sorted and disjoint; a reader gets a
  beginning of the document in which the last write wins and no other edition
  is known to follow; the id changes when a byte is new.
- **document cache**: one valid entry per document; locks balance; nothing in use
  is collected; the collection reaches its goal.
- **event loop**: it sleeps only with nothing to do, loses no signal, calls every
  handler that is ready and none for what its predecessor was ready for.

How the parts of elinks interact: the event loop calls everything else, and runs
the bottom halves, among them `check_queue`, after each handler. The queue runs
a connection, whose protocol calls `make_connection`; sockets report back through
`retry_connection` and `abort_connection`. The protocol gets an entry of the
cache for the connection and writes fragments to it; downloads' callbacks let the
session format a document from it, which locks the entry.

## 2. Modules

    Ping       <- MCPing                             Ping       <- PingProofs
    Traceroute <- MCTraceroute                       Traceroute <- TracerouteProofs
    Connection <- MCConnection  <- MCConnectionLive  Connection <- ConnectionProofs
    Lookup     <- MCLookup                           Lookup     <- LookupProofs
    EventLoop  <- MCEventLoop                        EventLoop  <- EventLoopProofs
    Cache      <- MCCache                            Cache      <- CacheProofs
    Fragments  <- MCFragments   -> Document          MCFragments <- FragmentsProofs

`X <- Y` means that Y extends X; `MCFragments -> Document` is an `INSTANCE Document
WITH` the bytes, the length, the id and the call of `MCFragments`, for the
refinement. `ListLemmas`, which every module of proofs extends, has the lemmas about
lists, least and greatest elements, counting and remainders that the proofs share.
`Ping` and `Traceroute` are processes of their own. The modules of elinks cut one
thread at the interfaces of its components, and each leaves to its environment, as
free choices, what another one determines: `Lookup` takes runs and cancellations
from `Connection`, `Cache` takes the sizes from `Fragments` and the connections from
`Connection`, `Connection` takes from `EventLoop` that a registered bottom half runs
before the loop sleeps (`SleepsWithNothingToDo`) and once (`TypeOK` of the loop, in
`WMaxExact`). They are not composed into one: the product is beyond TLC. In each,
definitions whose name is that of another one with an addition and that nothing uses
(`SortQueueNever` before `SortQueue`) are deliberately wrong variants, the mutants
of `PROJECT.json`: with the variant in place TLC finds the named property violated.

### Ping

The main loop is sequential with program counter `pc`: `preload` (main's
`-l` loop), `top` (the head of `doit`'s loop: send, wait, or last wait),
`pinger` / `sent` / `marked` (sendto, the duplicate bit, `ntransmitted++` and
the schedule, three steps because a signal may come between them), `poll`,
`pack` / `counted` (`nreceived++` and the duplicate test, two steps for the same
reason), `cond` (the loop's condition), `finish`. `SigPrefinish`, `SigFinish`
and `SigInfo` may run between any two. The network keeps every request for
ever and may answer it any number of times, at any time (`Arrive`), or deliver
ICMP errors and foreign datagrams. Time passes in `poll` (`PollTick`) and, up to
`MaxStall`, elsewhere (`StallTick`). `why`, `cut`, `answered` and `late` are
history variables.

Contents of packets, sizes, checksums, printing and the flood display are left out,
and with the printing `summary` itself: its percentage and its average are covered
through the counters that it divides. `pr_icmph` is modelled as far as it clears the
cached route.

### Traceroute

`pc` runs through `probe` (a new probe gets its `seq`), `sendto`, `wait`
(`wait_for_reply`), `check` (the datagram is compared with the probe), `hop`
and `done`. `log` records the probes and their outcome and is read only by
properties and by the network, which answers any probe of the log at any time:
late, duplicated, reordered, with an MTU that is honest, zero or bogus, for a
packet of any length. `until` is when `poll` returns: `wait_for_reply` rounds what
is left of the wait down to milliseconds (`MsTicks` of the clock), again after
every datagram that is ignored.
`Key` is the 16-bit port or ICMP sequence number that is all `packet_ok` has
to recognise a probe by; `TooLate` is the test that compares whole seconds.
Headers, gateways, names, AS numbers, MPLS and printing are left out.

### Connection

elinks is one thread, so a handler is one action, with three exceptions where
the code gives control away and its caller's state matters: the protocol
handler that `run_connection` calls (`cur` is the connection in it; no other
step is possible until it starts, aborts or retries), the rounds of
`check_queue` (`checking`), and the shutdown (`phase`). `bh` says that
`check_queue` is registered as a bottom half. Between two rounds of `check_queue`
the callbacks of downloads may run, so every request of the browser (`Request`)
is possible there as well as from the event loop. Socket events and timers
(`Network`, `CheckKeepalive`) come from the event loop, which runs the bottom
halves after every handler.

| actions | code |
|---|---|
| `LoadWithoutConnection`, `LoadJoin`, `LoadNew` | `load_uri`: cached or failed, joined, new |
| `ChangeEnded`, `ChangeConnection`, `CancelDownload` | `change_connection`: early return, new owner or priority, no new owner |
| `DetachConnection`, `AbortBackground`, `SetLimits` | `detach_connection`, `abort_background_connections`, the option hook |
| `Finish`, `AddKeepalive`, `RetryConnection` | `abort_connection`, `add_keepalive_connection`, `retry_connection` |
| `RetryOutOfMemory`, `RetryBlacklisted`, `NewData` | `run_connection` without memory for the host, called from `retry_connection`; http's `tries = -1` and `tries = 0` |
| `CheckKeepalive`, `KeepaliveFails` | `check_keepalive_connections`, one socket at a time; `do_keepalive_connection_callback` without memory for the host |
| `StartCheck`, `RunConnection`, `RunOutOfMemory`, `SuspendConnection`, `EndCheck` | `check_queue`, a round each |
| `HandlerStarts`, `HandlerAborts`, `HandlerRetries` | what a protocol handler does before it returns |
| `Shutdown`, `AbortKeepalive`, `AbortKeepaliveDone`, `AbortAgain` | `terminate_all_subsystems`, `abort_all_connections` |

Connections are slots of `Conns`; a slot off the queue is `Free`, and running
out of slots is running out of memory, which the code handles. Memory for the
record of a host (`add_host_connection`) may be missing whenever the host has no
other connection: the connection then ends. From `check_queue` that is followed
up; from `retry_connection` a place becomes free and nobody registers
`check_queue`, and for the goodbye of a kept socket the assertion "connection
already suspended" fails, where the model stops (`phase` is `failed`). A download in
progress is on the list of its connection and has that connection's state, so
the list is not a variable of its own. `extra` is a ghost that marks connections
the keep-alive code started without looking at the limits. Whether a document is
large enough to be detached, and when a kept socket expires, are free choices.
`EndCheck`, `AbortBackground` and the aborts of the shutdown remove several
connections in one step: these have no downloads any more (or nobody left to
call back), so no callback can run in between.

### Lookup

A socket (`sock`) has its `connect_info`, the pipe of its lookup, its descriptor,
timer and tries; `fds` is the table of descriptors with the handlers registered
for them. `pc` is the handler that runs: `make` (`make_connection`), `connect` and
`try` (`connect_socket`), `complete`, `retry`, `abort`, and `return`. They call one
another as in the code, and nothing else happens meanwhile. `then` says that
`timeout_socket` is waiting for `connect_socket` to come back. Callbacks that free
the socket under a handler end the behaviour (`dangling`), since what follows is
undefined. All sockets ask for one name; helpers (`Answer`) may die, be late or
never answer. The choice of addresses by family and locality is the choice of
which addresses `TryAddress` passes over. SSL, passive sockets and the read and
write buffers are left out.

### Fragments and Document

`Document` is what `cache.h` promises: bytes by offset, a length and an id; a write
replaces bytes, and the document ends behind them unless the old bytes that the
code compares (`Compared`) were the same, a cut and a strip lose what they name,
a read returns every byte up to the first gap (a part of that without memory), and
whoever finds the same id finds no byte that is new or different. (The comment at
`cache.h:45`, "Change each time entry is modified", is stronger than the code:
`normalize_cache_entry` and `free_entry_to` cut bytes and leave the id.) Not all
bytes that are replaced are compared: what the new data overwrites of the fragment
in front of it (`cache.c:418`) is not, and what could not be appended for lack of
memory is lost.
`Fragments` is `add_fragment` and its helpers with their list, padded memory
(`real_length`) and size account, and lack of memory at each allocation that can
leave something half done (`frag_realloc` to a smaller size always succeeds).
A byte is the edition of the document that it is from. `MCFragments` adds two
history variables, the bytes and the last call, and shows each step of
`Fragments` to be the step of `Document` with the same arguments.

### Cache

Entries and documents are sequences, the most recently used first, since the
order decides what is collected. An entry has an address, because connections
refer to it by that, while documents look for it by URI. Operations are the
code's, each with the moves in the list that its `find_in_cache` calls make:
`Load`/`Reload` (`load_uri` and `get_validated_cache_entry`), `Header` (a protocol
gets the entry, also again after a retry), `Data`, `Finish`, `Abort`, `Detach`,
`Strip`, `Render`, `ReleaseDocument`, `OpenDialog`, `AnswerYes`, `AnswerNo`,
`DeleteItem` and `Flush`. `GarbageCollection` is the four passes; what it and
`shrink_format_cache` do entry after entry or document after document are
recursive functions over the numbers of the elements. Expiry and redirects are a
choice in `Load`. A document has the options it was formatted with, and several
documents of one entry may be up to date: `Render` takes any of those of its
options as ready, since `get_cached_document` also looks at the style sheets
(`check_document_css_magic`) and at `no_cache`. `DeleteItem` is `delete_marked`, the way
to delete several entries at once. After a failed assertion (`broken`) the model
stops. So does elinks if it was built with `CONFIG_DEBUG`; otherwise it sleeps a
second and goes on with what it has freed (`util/error.c:105-123`), which is not
modelled. Others who lock entries, the queries about a type and further dialogs,
are left out.

### EventLoop

`pc` is the place in `select_loop`, `phase` which of the three looks at signals
and two checks of timers it is in. A handler is what it can do to the loop, up to
`MaxOps` things per turn; bottom halves follow each. Signals arrive between any
two steps; `critical` and `alarm` are the two halves of the protection against the
race with `select`. Handlers of kind read, write and error are pairs with their
descriptor. `elapsed` is the time since `last_time`; a signal takes no time from
`select`. `renewed` is history.

## 3. Runs

| run | what it shows |
|---|---|
| `ping_count` | `NoOvercount`, `LossExact`: loss is counted exactly with duplicates, reordering and late answers while `icmp_seq` and `rcvd_tbl` wrap; `SendBudget`: what a SIGINT at any statement can do to the number of requests; `LastRcvdExact`: `lastrcvd`, on which SIGINT and floods rely, is about the last request |
| `ping_timed` | `ScheduleWindow`, `RateLimit`: a late process catches up without bursts; `StatsBounds` for min/avg/max; `Termination` |
| `tr_hops` | `Attribution`, `PortNotZero`, `TraceComplete`, `HopComplete`, `StopsAtDestination`, `SearchAdvances` with two-bit keys and bogus MTUs; `StarAfterWait` and `Termination` under unending foreign traffic |
| `tr_big` | violation, see section 6 |
| `conn` | `QueueConsistent` (the assertions of `check_queue_bugs`, checked everywhere), `OwnersCounted` (priorities are reference counts, no download without connection, detached connections are not shared), `Limits` (and host references balance), `WorkConserving` (only `RetryOutOfMemory` may leave something waiting with a free place), `ShutdownClean`, `PostSentOnce`, with retries, new data, missing memory, goodbyes and changing options |
| `conn_live` | `EveryDownloadEnds`: no download waits, is suspended or tried for ever, and `check_queue` returns, unless the step that `WorkConserving` excepts was taken or the assertion about kept sockets has failed |
| `lookup` | `FdsOwned`, `HandlersMatch`, `TimerArmed`; `AttemptEnds` although helpers hang and addresses are silent |
| `lookup_freed` | violation, see section 6 |
| `frag` | `WellFormed`: the list and its size account; `ImplementsDocument`, the refinement |
| `cache` | `OneValid`, `LocksExact` (and documents find their entry), `LoadingKept`, `CollectionFits` |
| `cache_delete` | violation, see section 6 |
| `loop` | `SleepsWithNothingToDo`, `WMaxExact`, `NoStaleReady`, `AllServed`; `SignalHandled` |

In the modules of elinks the type invariant is the first conjunct of a structural
invariant (`QueueConsistent`, `FdsOwned`, `WellFormed`, `OneValid`, `WMaxExact`).

**Bounds.** ping: up to 3 requests and 2 to 3 deliveries; when counting, a table of
2 bits and sequence numbers of one bit, so that the third request has both the bit
and the `icmp_seq` of the first and an answer can be late by a whole table (a table
smaller than the sequence numbers is left to the proofs); stalls of up to twice the
interval. traceroute: keys of 2 bits from port 2, so that port 0 is met and keys
repeat; up to 3 hops and up to 3 probes for each; a table of MTUs with entries above
and below the interface's, and reported MTUs of 0, between two entries (above the
packet after a restart) and below the smallest one. A second has three ticks and
`poll` counts in twos, so that its timeout, from the first wait on, and the test on
whole seconds both round something away. Connection: 3 connections, 2 downloads,
places for 2 connections and 1 per host, priorities wanted, less wanted and
cancelled: enough for a full host, a full table, a victim that is a POST, two
documents sharing a kept socket, a keep-alive list that overflows by one, and a
goodbye above the limits. `conn` has a document and a POST, one kept socket, 2
tries, two settings of the options and counters up to 2; `conn_live` has two
documents of one host and a local file, no goodbyes, counters up to 1 (the owners of
a connection have different priorities), and one try that does not count
(`MaxAfresh`). `conn` does not bound the number of requests: its state space is
finite and explored completely. Connections and downloads are interchangeable and
used as symmetry sets in the safety run. Lookup: 2 sockets that compete for 3
descriptors, up to 3 addresses and 3 tries, so that a descriptor that was closed is
taken by the other socket and an address in the middle of the list can fail.
Fragments: documents of up to 4 bytes of two editions, enough for three fragments
with gaps, one write that touches all of them and memory that does or does not
suffice (padding to 1 byte gives spare memory of one byte); the editions are
interchangeable, and the view leaves out the last call, which nothing depends on.
Cache: 2 URIs, 2 connections, 2 entries, empty or two thirds of the cache in size,
and 2 documents of 2 kinds of options, in one view each and none kept without a
view, so that a detached entry and its successor exist side by side and a collection
has to choose (`CollectionFits` then looks at all sizes up to that of the cache);
the view numbers entries by place instead of address, which matters only for telling
them apart. EventLoop: 2 descriptors with read and write handlers, 1 bottom half, 2
timers with delays of 1 or 2, 1 signal and 2 changes by handlers in a turn, which is
what closing and opening a descriptor again takes.

**Fairness.** ping: the loop is weakly fair (the process is scheduled); `PollTick`
is strongly fair, because signals and datagrams interrupt `poll` again and again but
do not stop the clock. traceroute: weak fairness of the program and of the clock.
Connection: weak fairness of the bottom halves, of trimming the kept sockets and of
returning from a protocol handler; strong fairness of each connection's events,
since `select` and the timers serve every connection in turn though the bottom
halves come first, and a transfer that stands still is ended by its receive timeout.
`MCConnectionLive` also bounds the number of requests (an owner that keeps loading
at a high priority does starve the rest, by design) and of tries that do not count:
a document has an end, and a server that fails after some new data each time is
retried as long as there is any. Lookup: weak fairness of the running handler,
strong fairness of each timer (the event loop checks the timers in every turn,
whatever else is ready); none of helpers and addresses. EventLoop: weak fairness of
the loop's own steps, of the timeout of `select` when there is a timer, and of the
alarm; none of descriptors.

**Deadlock** is not checked in three runs, where the system may stop: `cache`
(the model stops after a failed assertion), `lookup` (after the use of a freed
socket) and `loop` (the loop exits).

## 4. Proofs

All proofs are of safety properties, from the assumptions on the constants
stated in the modules, for every value of the constants.

Each module of proofs has one inductive invariant or a few that build on each
other; each was also checked by TLC, as one more invariant on the instance of the
module's run (they are not kept as runs of their own). There is a lemma for
every action (or for every conjunct, where the actions are many and each touches
little), and facts about the operators of a module are lemmas that the actions
share.

**PingProofs.** `TypeCorrect` needs that `pr_pack` takes back only what it counted
(`PcFacts`). `SendBudgetHolds` rests on `SendInv`: where the loop stands between the
limit test and `ntransmitted++` decides how far `ntransmitted` may be from
`npackets`, before and after a SIGINT. `ScheduleWindowHolds` rests on `SchedInv` and
on a lemma about what the catching up in `pinger` returns. `NoOvercountHolds` rests
on `CountInv`: `nreceived` plus the number of open slots of `rcvd_tbl` never exceeds
what was sent, with a slot open while a request using it has been sent and not
answered; `NetInv` says that only requests that were sent are answered.
`LossExactHolds` rests on `LossInv`: while no answer has been a whole table late,
the bits of the table are exact for the requests of the window, no two of which
share a slot (`SlotsDiffer`, which needs that the size of the table divides that of
the sequence numbers, as 16384 divides 65536), and `nreceived` is the number of
requests answered. `LastRcvdExactHolds` adds that an accepted answer sets `lastrcvd`
exactly if its number is that of the last request, which sequence numbers that wrap
say only for answers of the window. `StatsBoundsHolds` rests on `StampInv` (no
datagram carries a time that is yet to come) and `TripInv` (before the first answer
the sums are as `main` left them). `RateLimitHolds` rests on `RateInv`: `next_tx` is
at least as many intervals after the first transmission as requests were sent since
the preload.

**TracerouteProofs.** The type invariant and the attribution of answers are proved
together (`TInv`): that `mtuptr` stays inside the table depends on no packet shorter
than an IP header being sent and on fragmentation errors being about the current
probe, and that depends on no datagram being older than one cycle of the keys
(`ModInjective`: keys of probes less than a cycle apart differ). On it rest
`AttributionHolds`; `PortNotZeroHolds` (`PortInv`); `SearchAdvancesHolds` (what
`frag_err` and `send_probe` do with any MTU: further down in the table, or a smaller
packet at the same entry); `HopCompleteHolds` and `StopsAtDestinationHolds`
(`HopInv`: the probes of the current round, the results counted so far, and the
first arrival at the destination); `StarAfterWaitHolds` (`TooLateIsLate`: arithmetic
of the test that drops fractions of a second, and what `poll`'s rounding leaves);
`TraceCompleteHolds` (`EndInv`: hops behind the current one have all their probes,
`unreachable` counts no more than the log does, and `got_there` has a probe of this
hop in the log that arrived). Assumed of the network: it keeps no datagram for a
whole cycle of keys.

**EventLoopProofs.** `IInv` is the conjunction of the types (`PosOK`, `SigOK`,
`DataOK`, with timers and bottom halves listed once and the timers in order),
`ControlInv` (which of the shared loop variables mean something where),
`SleepInv` (in the critical section a new mark starts the alarm, and what was
checked before it still holds), `ServeInv` and `NoStaleReady`. `ServeInv` is the
argument for the countdown: `n` is never less than the number of descriptors
still to be taken off it, because there are at least as many bits as descriptors
(`SelectedCount`) and handlers only clear bits. `WMaxAlwaysExact`,
`NeverSleepsOnWork`, `NeverStale` and `EveryoneServed` follow.

**LookupProofs.** `IInv` speaks of one socket (`Local`: its fields, the
descriptors opened for it, what the handler that runs for it relies on) or of one
descriptor (`CallOK`: the handler registered is the one its socket waits for) at a
time. A step changes one socket and descriptors that are that socket's or were
closed, so that a frame lemma keeps the rest and the proof of an action is about
one socket only. The exception of the code is in the invariant: between an address
that refuses and `retry_connection`, `csocket->fd` names a closed descriptor
(`Refused`). `NoLeak`, `HandlersFindSockets` and `AlwaysTimed` follow, for any
finite number of sockets and any number of descriptors, addresses and tries.

**ConnectionProofs.** `IInv` has the types, `Core`, `PhaseInv` (the order of the
shutdown), `SeenInv` and `HandlerInv`. `Core` is what the operations on connections
preserve together: the queue lists the connections there are, sorted (`QueueInv`); a
connection waits or runs (`StateInv`); the counters are the cardinalities of what
they count (`CountInv`, `OwnInv`); what was started under the limits stays within
them (`LimitInv`). None of its parts is inductive alone: that `active_connections`
is decremented once depends on the state, and that a connection that loses its last
owner leaves the queue, or stays on it at `PRI_CANCEL`, on the counters of owners.
`WorkInv` says in every state but those left by `RetryOutOfMemory` what `Settled`
says where `check_queue` is neither registered nor running; `NothingLeftWaiting`
takes it step by step, since after the exception nothing repairs it until
`check_queue` runs again. The main argument is that `check_queue` ends only at a
waiting connection that can neither run nor find a victim, and that those behind it
on the sorted queue cannot either. `QueueAlwaysConsistent`, `OwnersAlwaysCounted`,
`AlwaysWithinLimits`, `ShutdownIsClean` and the action properties
`NothingLeftWaiting` and `PostsSentOnce` follow, for any finite sets of connections
and downloads, any hosts and any set of settings within the ranges of the options (1
to 16 connections, 1 to 8 to a host). What the sorting and the removal from lists
compute is proved although they are recursive: they are recursive functions over
numbers, and `CountInduction` and `StepByStep` of `ListLemmas` provide induction for
a set in place of a predicate.

**FragmentsProofs.** `WellFormed` is inductive as it stands, and it is what the
operations need of the list: that it is sorted and without overlaps makes the
fragment in which a byte lies the only one (`Has`), and that no fragment is longer
than its memory makes the join in place (`remove_overlaps` of the one behind)
keep within it. For the refinement `MCInv` adds that the history variable is
`BytesOf(frag)`. Every operation is taken apart into its effect on the list:
`Kept` (bytes outside of a range are as they were, or lost behind it), `Filled`
(the range holds the new edition) and `Written` (the list between the copying and
the joining, in which only the fragment written to may overlap those behind it).
`WriteFacts` shows that `RemoveOverlaps` and `Truncate` turn a `Written` list into
a good one, for each of the two ways to get there (`IntoFacts`, `NewFacts`) and
whether memory runs out or not; `ReadFacts` shows that the joining in
`get_cache_fragment` changes no byte and that the first fragment then ends at the
first gap. `WriteStep`, `FailsStep`, `CutStep`, `StripStep`, `ReadStep` and
`DeleteStep` put these together, one for each action of `Document`, and
`Refinement` combines them. The account and the joining add up over the list as
recursive functions, and the induction is `StepByStep` of `ListLemmas`
(`TotalSums`, `TotalSmaller`, `TotalMerged`). Nothing is assumed beyond
`FragmentsAssumption`: any document, any number of editions, any size of page.

**CacheProofs.** `IInv` has the types; `Balanced`; and, until an assertion fails,
that every connection with an entry finds it in the cache under its own URI
(`Loads`). `Balanced` is the argument: no two entries share an address, no two
valid ones a URI; the locks of each entry are the documents made from it plus the
dialog about it; every document finds, by its URI, the entry it was made from. The
three have to be proved together: a lock is given back to the right entry only
because the one that is found is the one that was locked, which holds because
there is one valid entry for a URI, because `detach_connection` makes an entry
invalid only when its locks are 0, and an entry without locks has no documents.
`Balanced` speaks of the set of entries (`Listed`), so that the moves in the list
do not matter, and of the documents with certain numbers of a list, so that it
holds in the middle of a loop: `shrink_format_cache` gives back the lock of a
document before the next one is looked at. A document goes with its lock
(`UnlockedBalanced`, `SeenBalanced`, `DoneBalanced`), and the list that is left is
the old one renumbered (`WithoutRenumbers`, `RenumberedBalanced`). An action that
changes locks is an instance of `ReplacedBalanced`, one that changes anything else
of an entry of `AlteredFacts`, one that frees an entry of `RemovedBalanced`.
`CollectionsFit` needs of the invariant only that what a collection frees is
unused; the rest is about `GarbageCollection` for any list: the entries that pass #2
keeps fit (`OldestFacts`), pass #3 adds to them only as long as they do
(`SparedFits`), and what is unused in the list that is left is among these
(`UnusedWithout`, `SizeOfLess`). `NeverTwoEditions`, `LocksAreExact`,
`LoadingEntriesKept` and `CollectionsFit` follow for any finite list of entries and
documents; that an address is free for a new entry is the one use of `MaxEntries`
(`FreeFacts`). The loops are recursive functions, and the induction is
`StepByStep` and `CountInduction` of `ListLemmas`.

**Only model-checked.** Liveness and fairness are outside the prover's reach:
`Termination` of ping and traceroute, `EveryDownloadEnds`, `AttemptEnds` and
`SignalHandled` stay with TLC. Every invariant and action property of a passing
run, and the refinement, is a theorem.

## 5. Not modelled

Rendering, dialogs, scripting, cookies, bookmarks, BitTorrent and the parsers of
elinks; w3m; AS lookups and interface lists of traceroute; libkcn and its calls
(stateless, at start-up); printing everywhere. Two thirds of the repository are
w3m, a synchronous browser that the project only hooks into, and elinks' rendering,
translation and user interface code: data conversion and layout, of which a model
would be a copy. The map therefore covers a small share of all lines, and most of
the lines of the components that carry the protocols (`connection.c`, `cache.c`,
`select.c`, `timer.c`; about half of `socket.c`, `ping.c`).

Memory itself is not modelled (only that there may be none): a pointer kept across a
callback (`foreachsafe` in `notify_connection_callbacks`, the check of a freed
connection's id in `connection_disappeared`) is listed as a hazard only. Lookup and
Cache mark the use of what was freed and stop there. Clocks only move forward; ping
uses the monotonic one, traceroute does not. Options that change which proxy a kept
socket belongs to, another way into the error path of
`do_keepalive_connection_callback`, are left out, and so is that the first failure
of a blacklisted server makes the next one count. The capping of ping's waits by
`-w` and its cached route are in the model, without a property of their own.

## 6. Disagreements found

- `tr_big`: without `-P`, a `packetlen` argument above the interface's MTU is
  replaced by the first entry of the table, which may be larger than the packet;
  the comment says the size is decreased.
- `cache_delete`: the cache manager deletes an entry that a connection is loading
  into, because it asks only whether the entry is locked, and connections do not
  lock theirs. `done_cache_entry` asserts that it never happens ("deleting loading
  cache entry").
- `lookup_freed`: when the last address runs into the timeout of the last try,
  `timeout_socket` reads `socket->connect_info` of a socket that `connect_socket`,
  through `retry_connection`, has freed. `socket.c` has weak references "for
  detecting whether a struct socket has been deleted while a function was using
  it", but not here.

Seen while modelling, without a run of their own: a SIGINT between the limit test
and `ntransmitted++` makes ping stop with one request outstanding and count it as
lost, where the manual says that outstanding packets are waited for (in these
states `LastRcvdExact` is about the request being sent);
`connection.retries = 0` ends a connection at its first failure where its
description says "Zero means try forever."; the third pass of
`garbage_collection` adds the sizes of used entries to the goal though its comment
says that they are not counted, so that it frees more than it has to; a fragment
cut at `cache.c:418` is not taken off `data_size`, "the actual size of all
fragments" (`WellFormed` says that the error is on the safe side); a timer
installed by a slow handler goes off early by the time that the handler took;
a retried connection that was detached is given the entry of another connection
and strips that. `-c` with `-l` sends their sum;
an answer a whole `rcvd_tbl` late is counted for another request; the wait after
SIGINT is the larger of twice the longest round trip and ten intervals;
`traceroute -z` falls through into `-P` (656-663); an answer may come up to a
second after `-w` seconds, since the test at 1052 compares whole seconds, and a
`*` be printed almost a millisecond before them, since `poll`'s timeout is rounded
down (1186); a retry that finds no memory for its host leaves other connections
waiting with a free place until something else registers `check_queue`
(`connection.c:708-712`, called from 751); without memory the goodbye of a kept
socket frees the data of a connection that never ran (492);
unreachables received before a hop starts over count towards giving up; the
manual of ping says 56 data bytes where the code sends 64; `interrupt` in
`change_connection` aborts the connection for its other owners too.

## 7. Plan

The modelling is complete as far as it is planned, and all safety properties of the
passing runs are proved, for every component and the refinement. Open is the
hazard that no property covers yet, the callback that removes the next download of
the connection being notified (`connection.c:424`): it would take a model of the
list of downloads with the pointer that `foreachsafe` keeps.

Runs are kept to a dozen: a new question joins the run of its module.
