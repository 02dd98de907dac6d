-------------------------- MODULE MCConnectionLive --------------------------
(***************************************************************************)
(* Connection with a bounded number of requests of the browser (an owner   *)
(* that keeps loading at a high priority starves the rest, by design) and  *)
(* of tries that do not count: a document is finite, but http retries for  *)
(* as long as every try brings something new.                              *)
(***************************************************************************)
EXTENDS MCConnection

CONSTANTS
    MaxRequests,  \* bound: requests of the browser
    MaxAfresh     \* bound: tries not counted and counters reset by new data

VARIABLES requests, afresh

bounds == <<requests, afresh>>
liveVars == <<vars, bounds>>

LiveInit == Init /\ requests = 0 /\ afresh = 0

BoundedRequest ==
    /\ requests < MaxRequests
    /\ Request
    /\ requests' = requests + 1
    /\ UNCHANGED afresh

BoundedAfresh ==
    /\ afresh < MaxAfresh
    /\ \E c \in Conns : Afresh(c)
    /\ afresh' = afresh + 1
    /\ UNCHANGED requests

Program ==
    \/ \E c \in Conns : Network(c)
    \/ \E i \in 1 .. Len(keep) : CheckKeepalive(i) \/ KeepaliveFails(i)
    \/ Check
    \/ Handler
    \/ Terminate
    \/ Exited

LiveNext == BoundedRequest \/ BoundedAfresh \/ (Program /\ UNCHANGED bounds)

Trim == Len(keep) > MaxKeepalive /\ CheckKeepalive(Len(keep))

\* The event loop runs the bottom halves and returns from handlers; select()
\* and the timers serve every connection in turn, and a transfer that makes
\* no progress is ended by its receive timeout.
LiveSpec ==
    /\ LiveInit
    /\ [][LiveNext]_liveVars
    /\ WF_liveVars(Check /\ UNCHANGED bounds)
    /\ WF_liveVars(Trim /\ UNCHANGED bounds)
    /\ WF_liveVars(Handler /\ UNCHANGED bounds)
    /\ \A c \in Conns : SF_liveVars(Network(c) /\ UNCHANGED bounds)

\* Every download that has been started gets a result: no connection waits
\* for ever for a place, is suspended for ever, or is tried for ever, and
\* check_queue(), which restarts after every connection it runs or suspends
\* ("goto again"), does not keep the event loop for ever.  Two things may
\* prevent it: a retry without memory leaves something waiting that could run
\* (WorkConserving), or the assertion of KeepaliveFails ends the program.
EveryDownloadEnds ==
    \A d \in Downloads :
        InProgress(d) ~> \/ ~InProgress(d)
                         \/ ~Settled
                         \/ phase = "failed"
=============================================================================
