---------------------------- MODULE ServerProcess ----------------------------
(***************************************************************************)
(* The life of the server process: the boot of main.ts, the scheduler       *)
(* (wiring/jobs.ts), requests, and the ways out: a signal, each with a      *)
(* shutdown of its own, or Slack that cannot be reached.  Every `await` of  *)
(* main.ts is a point where the others run.                                 *)
(***************************************************************************)
EXTENDS FiniteSets

CONSTANTS
    Jobs, Requests,
    Signals,        \* SIGINT, SIGTERM; the handlers do not know of one another
    SlackEnabled,
    SlackFails,     \* the first connection to Slack may fail
    EarlySignals    \* a signal may arrive before the boot has ended

VARIABLES
    main,       \* where the boot waits: "listen", "metrics", "slack", "closing"
                \* (the failure of Slack), or "up"
    scheduler,  \* "none", "ticking", "stopped"
    running,    \* inFlight
    stop,       \* signal -> where its shutdown waits
    awaited,    \* signal -> the runs its Promise.all waits for
    serving,    \* requests are accepted
    inflight,   \* requests accepted and not answered
    connection, \* "open", "closed"
    exited

vars == <<main, scheduler, running, stop, awaited, serving, inflight, connection, exited>>

Init ==
    /\ main = "listen"
    /\ scheduler = "none" /\ running = {}
    /\ stop = [s \in Signals |-> "none"]
    /\ awaited = [s \in Signals |-> {}]
    /\ serving = FALSE /\ inflight = {}
    /\ connection = "open"
    /\ exited = FALSE

Booting == UNCHANGED <<running, stop, awaited, inflight, connection>>

Listen ==
    /\ main = "listen"
    /\ main' = "metrics"
    /\ serving' = \A s \in Signals : stop[s] # "closing"
    /\ UNCHANGED <<scheduler, exited>> /\ Booting

\* Either listener fails: exit without further ado.
ListenFails ==
    /\ main \in {"listen", "metrics"}
    /\ exited' = TRUE
    /\ UNCHANGED <<main, scheduler, serving>> /\ Booting

\* scheduleJobs, and the first await of Slack's start.
Schedule ==
    /\ main = "metrics"
    /\ scheduler' = "ticking"
    /\ main' = IF SlackEnabled THEN "slack" ELSE "up"
    /\ UNCHANGED <<serving, exited>> /\ Booting

SlackStarts ==
    /\ main = "slack"
    /\ main' = "up"
    /\ UNCHANGED <<scheduler, serving, exited>> /\ Booting

\* The catch: app.close() is begun, the scheduler is left as it is.
SlackUnreachable ==
    /\ main = "slack" /\ SlackFails
    /\ main' = "closing" /\ serving' = FALSE
    /\ UNCHANGED <<scheduler, exited>> /\ Booting

(***************************************************************************)
(* Jobs and requests                                                       *)
(***************************************************************************)

\* `protect`: no second run of a job.
Tick(j) == j \notin running /\ scheduler = "ticking"

RunBegins(j) ==
    /\ Tick(j)
    /\ running' = running \cup {j}
    /\ UNCHANGED <<main, scheduler, stop, awaited, serving, inflight, connection, exited>>

\* wrapped() never rejects; `finally` takes the run out of inFlight.
RunEnds(j) ==
    /\ j \in running
    /\ running' = running \ {j}
    /\ awaited' = [s \in Signals |-> awaited[s] \ {j}]
    /\ UNCHANGED <<main, scheduler, stop, serving, inflight, connection, exited>>

Arrive(r) ==
    /\ serving /\ r \notin inflight
    /\ inflight' = inflight \cup {r}
    /\ UNCHANGED <<main, scheduler, running, stop, awaited, serving, connection, exited>>

Answer(r) ==
    /\ r \in inflight
    /\ inflight' = inflight \ {r}
    /\ UNCHANGED <<main, scheduler, running, stop, awaited, serving, connection, exited>>

(***************************************************************************)
(* The ways out                                                            *)
(***************************************************************************)

\* The runs in flight when stop() is called.
Drain == running

\* jobs?.stop(): before scheduleJobs there is nothing to stop.
Signal(s) ==
    /\ stop[s] = "none"
    /\ EarlySignals \/ main = "up"
    /\ stop' = [stop EXCEPT ![s] = "draining"]
    /\ IF scheduler = "none" THEN UNCHANGED <<scheduler, awaited>>
       ELSE /\ scheduler' = "stopped"
            /\ awaited' = [awaited EXCEPT ![s] = Drain]
    /\ UNCHANGED <<main, running, serving, inflight, connection, exited>>

\* Slack's socket and the metrics listener are closed (no await when they are
\* not there), then app.close() is begun.
Drained(s) ==
    /\ stop[s] = "draining" /\ awaited[s] = {}
    /\ stop' = [stop EXCEPT ![s] = "closing"]
    /\ serving' = FALSE
    /\ UNCHANGED <<main, scheduler, running, awaited, inflight, connection, exited>>

AppClosedAtOnce == ~serving
\* app.close() ends when every request is answered.
AppClosed == ~serving /\ inflight = {}

\* wired.close(); a pool of Postgres is awaited, so the exit is a step of its own.
Close ==
    /\ main = "closing" \/ \E s \in Signals : stop[s] = "closing"
    /\ AppClosed
    /\ connection' = "closed"
    /\ UNCHANGED <<main, scheduler, running, stop, awaited, serving, inflight, exited>>

Exit ==
    /\ connection = "closed"
    /\ exited' = TRUE
    /\ UNCHANGED <<main, scheduler, running, stop, awaited, serving, inflight, connection>>

Alive ==
    \/ Listen \/ ListenFails \/ Schedule \/ SlackStarts \/ SlackUnreachable
    \/ \E j \in Jobs : RunBegins(j) \/ RunEnds(j)
    \/ \E r \in Requests : Arrive(r) \/ Answer(r)
    \/ \E s \in Signals : Signal(s) \/ Drained(s)
    \/ Close \/ Exit

Next == ~exited /\ Alive

\* Runs and requests end, and what is resolved goes on.
Fairness ==
    /\ \A j \in Jobs : WF_vars(~exited /\ RunEnds(j))
    /\ \A r \in Requests : WF_vars(~exited /\ Answer(r))
    /\ \A s \in Signals : WF_vars(~exited /\ Drained(s))
    /\ WF_vars(~exited /\ Close) /\ WF_vars(~exited /\ Exit)

Spec == Init /\ [][Next]_vars /\ Fairness

-----------------------------------------------------------------------------

ProcessTypeOK ==
    /\ main \in {"listen", "metrics", "slack", "closing", "up"}
    /\ scheduler \in {"none", "ticking", "stopped"}
    /\ \A s \in Signals : awaited[s] \subseteq running
    /\ connection \in {"open", "closed"}
    /\ scheduler = "none" => running = {} /\ main \in {"listen", "metrics"}

\* jobs.ts: "main.ts must not close the SQLite connection under a job
\* mid-transaction": whichever signals come, and however the boot goes.
RunsEndFirst == connection = "closed" => running = {}

\* main.ts closes the app before the database: no request loses it.
RequestsEndFirst == connection = "closed" => inflight = {}

\* A signal ends the process: no run, no request and no second signal keeps
\* it (main.ts, shutdown).
SignalsEnd == \A s \in Signals : stop[s] # "none" ~> exited
=============================================================================
