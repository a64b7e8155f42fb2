---------------------------- MODULE Orchestrator ----------------------------
(***************************************************************************)
(* The API's task creation (internal/task/controller.go and service.go,    *)
(* cmd/api/main.go) composed with the worker pool.  POST /tasks inserts    *)
(* the row in a transaction of its own, then opens a channel and publishes *)
(* the payload, then answers; the database and the broker are written one  *)
(* after the other, with nothing that makes the two atomic.                *)
(*                                                                         *)
(* Each task stands for one request, so requests run concurrently.         *)
(***************************************************************************)
EXTENDS WorkerPool

CONSTANT FreshBroker   \* TRUE: task_queue does not exist before a worker starts

ASSUME FreshBrokerAssumption == FreshBroker \in BOOLEAN

VARIABLES
    apiUp,     \* the API process runs
    apiConn,   \* its one AMQP connection, never opened again, is open
    req        \* req[t]: the state of the request that creates t

apiVars == <<apiUp, apiConn, req>>
vars == <<poolVars, apiVars>>

\* "inserted" and "published" are requests in progress; "created" is a 201,
\* "error" a 500, "aborted" a request whose server went away.
Requests == {"none", "inserted", "published", "created", "error", "aborted"}

InProgress(t) == req[t] \in {"inserted", "published"}

Answer(t, state) == req' = [req EXCEPT ![t] = state]

-----------------------------------------------------------------------------
(* POST /tasks *)

\* Mutant: the error of WithTransaction is dropped.
InsertTaskUnchecked(t) ==
    /\ apiUp /\ req[t] = "none"
    /\ \E outcome \in TxOutcomes :
          /\ Transaction(outcome, "create_rollback", "create_unknown")
          /\ tasks' = WithTransaction(outcome, tasks, Create(tasks, t))
          /\ Answer(t, "inserted")
    /\ UNCHANGED <<ready, published, declared, conn, pc, msg, runs, apiUp, apiConn>>

\* The INSERT and its commit.
InsertTask(t) ==
    /\ apiUp /\ req[t] = "none"
    /\ \E outcome \in TxOutcomes :
          /\ Transaction(outcome, "create_rollback", "create_unknown")
          /\ tasks' = WithTransaction(outcome, tasks, Create(tasks, t))
          /\ Answer(t, IF TxFailed(outcome) THEN "error" ELSE "inserted")
    /\ UNCHANGED <<ready, published, declared, conn, pc, msg, runs, apiUp, apiConn>>

\* Publish is not mandatory: without a queue the broker drops the message.
PublishTask(t) ==
    /\ req[t] = "inserted" /\ apiConn
    /\ IF declared
       THEN /\ ready' = ready \cup {NewMessage(t, 0)}
            /\ published' = [published EXCEPT ![t] = @ + 1]
       ELSE UNCHANGED <<ready, published>>
    /\ Answer(t, "published")
    /\ UNCHANGED <<tasks, declared, conn, pc, msg, runs, faults, apiUp, apiConn>>

\* Publish waits for no confirmation: written to a connection that is already
\* lost, the message is gone and no error is returned.
PublishLost(t) ==
    /\ req[t] = "inserted" /\ apiConn
    /\ Fault("publish_lost")
    /\ apiConn' = FALSE
    /\ Answer(t, "published")
    /\ UNCHANGED <<tasks, ready, published, declared, conn, pc, msg, runs, apiUp>>

\* No channel can be opened: the request fails, the committed row stays.
PublishRefused(t) ==
    /\ req[t] = "inserted" /\ ~apiConn
    /\ Answer(t, "error")
    /\ UNCHANGED <<poolVars, apiUp, apiConn>>

\* Mutant: the error of closing the channel fails the request.
RespondAfterClose(t) ==
    /\ req[t] = "published"
    /\ Answer(t, IF apiConn THEN "created" ELSE "error")
    /\ UNCHANGED <<poolVars, apiUp, apiConn>>

Respond(t) ==
    /\ req[t] = "published"
    /\ Answer(t, "created")
    /\ UNCHANGED <<poolVars, apiUp, apiConn>>

-----------------------------------------------------------------------------
(* The API process *)

\* Mutant: the connection outlives the process that opened it.
ApiCrashOpen ==
    /\ apiUp
    /\ Fault("api_crash")
    /\ apiUp' = FALSE
    /\ req' = [t \in Tasks |-> IF InProgress(t) THEN "aborted" ELSE req[t]]
    /\ UNCHANGED <<tasks, ready, published, declared, conn, pc, msg, runs, apiConn>>

\* A crash, or SIGTERM: main returns without waiting for open requests.
ApiCrash ==
    /\ apiUp
    /\ Fault("api_crash")
    /\ apiUp' = FALSE /\ apiConn' = FALSE
    /\ req' = [t \in Tasks |-> IF InProgress(t) THEN "aborted" ELSE req[t]]
    /\ UNCHANGED <<tasks, ready, published, declared, conn, pc, msg, runs>>

ApiStart ==
    /\ ~apiUp
    /\ apiUp' = TRUE /\ apiConn' = TRUE
    /\ UNCHANGED <<poolVars, req>>

ApiDisconnect ==
    /\ apiConn
    /\ Fault("api_disconnect")
    /\ apiConn' = FALSE
    /\ UNCHANGED <<tasks, ready, published, declared, conn, pc, msg, runs, apiUp, req>>

-----------------------------------------------------------------------------
Init ==
    /\ tasks = [t \in Tasks |-> Absent]
    /\ published = [t \in Tasks |-> 0]
    /\ ready = {}
    /\ declared = ~FreshBroker
    /\ conn = {}
    /\ pc = [w \in Workers |-> "down"]
    /\ msg = [w \in Workers |-> NoMsg]
    /\ runs = [t \in Tasks |-> 0]
    /\ faults = 0
    /\ apiUp = FALSE
    /\ apiConn = FALSE
    /\ req = [t \in Tasks |-> "none"]

RequestStep(t) == \/ PublishTask(t)
                  \/ PublishRefused(t)
                  \/ Respond(t)

Next ==
    \/ \E t \in Tasks : InsertTask(t) \/ PublishLost(t) \/ RequestStep(t)
    \/ ApiStart \/ ApiCrash \/ ApiDisconnect
    \/ \E w \in Workers : WorkerStep(w) /\ UNCHANGED apiVars
    \/ \E p \in Procs : ProcessStep(p) /\ UNCHANGED apiVars
    \/ BrokerRestart /\ apiConn' = FALSE /\ UNCHANGED <<apiUp, req>>

Spec == Init /\ [][Next]_vars

(***************************************************************************)
(* Fairness.  docker-compose restarts a process that ended (restart:       *)
(* always); a goroutine that can go on does, and the broker delivers to an *)
(* idle consumer; a request in progress is carried on.  Nothing obliges a  *)
(* client to send a request, and no fault has to happen.                   *)
(***************************************************************************)
Fairness ==
    /\ WF_vars(ApiStart)
    /\ \A t \in Tasks : WF_vars(RequestStep(t))
    /\ \A p \in Procs : WF_vars(StartProcess(p) /\ UNCHANGED apiVars)
    /\ \A w \in Workers : WF_vars(WorkerStep(w) /\ UNCHANGED apiVars)

FairSpec == Spec /\ Fairness

-----------------------------------------------------------------------------
\* The types of the composition's variables.
OrchestratorTypeOK ==
    /\ TypeOK
    /\ apiUp \in BOOLEAN
    /\ apiConn \in BOOLEAN
    /\ apiConn => apiUp
    /\ req \in [Tasks -> Requests]

\* A 500 means the task never runs (service.go:53,59): a client may send the
\* request again without the work being done twice.  What it may leave behind
\* is a row that stays PENDING.
ErrorMeansNotRun ==
    \A t \in Tasks : req[t] = "error" =>
        /\ runs[t] = 0
        /\ tasks[t].status \in {"ABSENT", "PENDING"}
        /\ ~Covered(t)

\* A 201 is kept (controller.go:45-54): unless a message can be lost after it
\* was sent, an accepted task whose payload parses is finished or covered.
AcceptedNotLost ==
    /\ Faults \cap (LossyFaults \cup {"publish_lost"}) = {}
    /\ ~FreshBroker
    => \A t \in Tasks :
          req[t] = "created" /\ Parses(t) => Terminal(tasks, t) \/ Covered(t)

\* What a client has been answered; "none" while the request is open.
Replied == [t \in Tasks |-> IF InProgress(t) THEN "none" ELSE req[t]]

\* The contract of POST /tasks (controller.go:30-54, service.go:45-75) with any
\* faults of API, workers and broker: no work without a committed row, no work
\* after a 500, one answer, and no 201 before there is a row.
Service == INSTANCE TaskService
           WITH status <- [t \in Tasks |-> tasks[t].status], reply <- Replied

KeepsContract == Service!ServiceSpec

\* An accepted task is finished in the end, and stays finished, although workers
\* and API crash, transactions fail and messages are redelivered.
AcceptedEventuallyFinal ==
    \A t \in Tasks : req[t] = "created" /\ Parses(t) ~> [](Terminal(tasks, t))

\* The queue is empty in the end: redelivered and republished copies, and those
\* whose payload does not parse, are all consumed.
QueueDrains == <>[](ready = {})
=============================================================================
