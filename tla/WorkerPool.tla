----------------------------- MODULE WorkerPool -----------------------------
(***************************************************************************)
(* The consumers of "task_queue" (internal/worker, cmd/worker/main.go) and *)
(* the part of RabbitMQ they use.                                          *)
(*                                                                         *)
(* A worker process opens one AMQP connection, declares the queue and      *)
(* starts its goroutines; each goroutine opens a channel with a prefetch   *)
(* of one and loops: receive, transaction 1 (PROCESSING), handleTask,      *)
(* transaction 2 (SUCCESS or FAILED), acknowledge.  When transaction 2     *)
(* fails the message is published again with x-retry-count + 1 and the     *)
(* old copy is acknowledged, until MaxRetries is reached.                  *)
(*                                                                         *)
(* Every step another actor can come between is an action of its own.      *)
(***************************************************************************)
EXTENDS TaskRepository, Integers, FiniteSets

CONSTANTS
    Workers,          \* goroutines that run StartWorker
    Procs,            \* worker processes (containers)
    ProcOf,           \* ProcOf[w] is the process of goroutine w
    TypeOf,           \* TypeOf[t] is the task_type the user asked for
    UnquotableTypes,  \* types whose Go %q form is not a JSON string ("\a", "\x7f")
    MaxRetries,       \* 3 in worker.go
    Faults,           \* the kinds of fault that may happen
    MaxFaults,        \* bound: how many faults a behaviour may have
    NoMsg             \* no message held

ASSUME PoolAssumption ==
    /\ ProcOf \in [Workers -> Procs]
    /\ MaxRetries \in Nat
    /\ MaxFaults \in Nat
    /\ TypeOf \in [Tasks -> STRING]

\* Copies are told apart by seq, the number of the publication they come
\* from: a redelivered message keeps its seq, a republished one gets a new one.
Messages == [task : Tasks, seq : Nat, retry : Nat]

ASSUME NoMsgAssumption == NoMsg \notin Messages

VARIABLES
    tasks,       \* the tasks table
    ready,       \* messages in task_queue that no consumer holds
    published,   \* published[t]: publications of task t so far
    declared,    \* does the durable queue task_queue exist?
    conn,        \* processes whose AMQP connection is open
    pc,          \* pc[w]: where goroutine w stands in StartWorker
    msg,         \* msg[w]: the delivery goroutine w works on
    runs,        \* runs[t]: calls of handleTask for t (history)
    faults       \* faults so far (bounded by MaxFaults)

poolVars == <<tasks, ready, published, declared, conn, pc, msg, runs, faults>>

-----------------------------------------------------------------------------
\* pc values of a goroutine that holds a delivery.
BeforeRun == {"received", "requeue", "handling"}
AfterRun  == {"handled", "retrying", "giving_up"}
Settling  == {"dropping", "acking"}

Active  == BeforeRun \cup AfterRun       \* may still write the task's row
Holding == Active \cup Settling

Location == {"down", "starting", "idle", "exited"} \cup Holding

\* The goroutine's channel is open: what it settles reaches the broker.
Connected(w) == ProcOf[w] \in conn

WorkersOf(p) == {w \in Workers : ProcOf[w] = p}

\* Deliveries of process p the broker has not seen settled.
Unacked(p) == {msg[w] : w \in {v \in WorkersOf(p) : pc[v] \in Holding}}

\* A fault of kind k happens in this step.
Fault(k) == /\ k \in Faults
            /\ faults < MaxFaults
            /\ faults' = faults + 1

NoFault == UNCHANGED faults

Transaction(outcome, rollback, unknown) ==
    \/ outcome = "committed"   /\ NoFault
    \/ outcome = "rolled_back" /\ Fault(rollback)
    \/ outcome = "unknown"     /\ Fault(unknown)

\* handleTask: the four handlers only sleep and return nil.
HandledTypes == {"send_email", "generate_report", "resize_image", "cleanup_temp"}

HandlerFails(t) == TypeOf[t] \notin HandledTypes

Parses(t) == TypeOf[t] \notin UnquotableTypes

\* Mutants: the comparison of worker.go:117 is off by one, either way.
RetriesExhaustedTooSoon(m) == m.retry + 1 >= MaxRetries
RetriesExhaustedTooLate(m) == m.retry > MaxRetries

RetriesExhausted(m) == m.retry >= MaxRetries

NewMessage(t, retry) == [task |-> t, seq |-> published[t] + 1, retry |-> retry]

\* The loop `for msg := range msgs' after an iteration: the next delivery, or
\* the end of the goroutine when its channel is closed.
NextIteration(w) ==
    /\ pc'  = [pc  EXCEPT ![w] = IF Connected(w) THEN "idle" ELSE "exited"]
    /\ msg' = [msg EXCEPT ![w] = NoMsg]

GoTo(w, label) == pc' = [pc EXCEPT ![w] = label] /\ UNCHANGED msg

-----------------------------------------------------------------------------
(* Start-up *)

\* main: connect, declare the queue, start the goroutines.
StartProcess(p) ==
    /\ \A w \in WorkersOf(p) : pc[w] = "down"
    /\ conn' = conn \cup {p}
    /\ declared' = TRUE
    /\ pc' = [w \in Workers |-> IF ProcOf[w] = p THEN "starting" ELSE pc[w]]
    /\ UNCHANGED <<tasks, ready, published, msg, runs, faults>>

\* Mutant: Consume with autoAck, so that a crash gives nothing back.
ExitAutoAck(p) ==
    /\ conn' = conn \ {p}
    /\ pc'  = [w \in Workers |-> IF ProcOf[w] = p THEN "down" ELSE pc[w]]
    /\ msg' = [w \in Workers |-> IF ProcOf[w] = p THEN NoMsg ELSE msg[w]]
    /\ UNCHANGED <<tasks, ready, published, declared, runs>>

\* The end of process p: what it had not acknowledged is ready again.
Exit(p) ==
    /\ ready' = IF p \in conn THEN ready \cup Unacked(p) ELSE ready
    /\ conn' = conn \ {p}
    /\ pc'  = [w \in Workers |-> IF ProcOf[w] = p THEN "down" ELSE pc[w]]
    /\ msg' = [w \in Workers |-> IF ProcOf[w] = p THEN NoMsg ELSE msg[w]]
    /\ UNCHANGED <<tasks, published, declared, runs>>

\* Channel, Qos and Consume succeed.
StartWorker(w) ==
    /\ pc[w] = "starting"
    /\ Connected(w)
    /\ GoTo(w, "idle")
    /\ UNCHANGED <<tasks, ready, published, declared, conn, runs, faults>>

\* They fail: logrus.Fatalf ends the process, its other goroutines included.
StartWorkerFatal(w) ==
    /\ pc[w] = "starting"
    /\ ~Connected(w)
    /\ Exit(ProcOf[w])
    /\ NoFault

-----------------------------------------------------------------------------
(* One iteration of the consumer loop *)

\* The broker hands a ready message to a consumer that holds none (Qos 1).
Deliver(w) ==
    /\ pc[w] = "idle"
    /\ \E m \in ready :
          /\ ready' = ready \ {m}
          /\ msg' = [msg EXCEPT ![w] = m]
    /\ pc' = [pc EXCEPT ![w] = "received"]
    /\ UNCHANGED <<tasks, published, declared, conn, runs, faults>>

\* Mutant: Nack with requeue.
RejectPayloadRequeued(w) ==
    /\ pc[w] = "received"
    /\ ~Parses(msg[w].task)
    /\ ready' = IF Connected(w) THEN ready \cup {msg[w]} ELSE ready
    /\ NextIteration(w)
    /\ UNCHANGED <<tasks, published, declared, conn, runs, faults>>

\* json.Unmarshal fails: Nack without requeue, the row is not looked at.
RejectPayload(w) ==
    /\ pc[w] = "received"
    /\ ~Parses(msg[w].task)
    /\ NextIteration(w)
    /\ UNCHANGED <<tasks, ready, published, declared, conn, runs, faults>>

\* Mutant: the error of transaction 1 is logged, and the task is run all the same.
BeginTaskUnchecked(w) ==
    /\ pc[w] = "received"
    /\ Parses(msg[w].task)
    /\ \E outcome \in TxOutcomes :
          /\ Transaction(outcome, "mark_rollback", "mark_unknown")
          /\ tasks' = WithTransaction(outcome, tasks, MarkProcessing(tasks, msg[w].task))
    /\ GoTo(w, "handling")
    /\ UNCHANGED <<ready, published, declared, conn, runs>>

\* Transaction 1.
BeginTask(w) ==
    /\ pc[w] = "received"
    /\ Parses(msg[w].task)
    /\ \E outcome \in TxOutcomes :
          /\ Transaction(outcome, "mark_rollback", "mark_unknown")
          /\ tasks' = WithTransaction(outcome, tasks, MarkProcessing(tasks, msg[w].task))
          /\ GoTo(w, IF TxFailed(outcome) THEN "requeue" ELSE "handling")
    /\ UNCHANGED <<ready, published, declared, conn, runs>>

\* Mutant: Nack without requeue.
RequeueDropped(w) ==
    /\ pc[w] = "requeue"
    /\ NextIteration(w)
    /\ UNCHANGED <<tasks, ready, published, declared, conn, runs, faults>>

\* Mutant: no `continue' after the Nack.
RequeueContinuing(w) ==
    /\ pc[w] = "requeue"
    /\ ready' = IF Connected(w) THEN ready \cup {msg[w]} ELSE ready
    /\ GoTo(w, "handling")
    /\ UNCHANGED <<tasks, published, declared, conn, runs, faults>>

\* Nack with requeue; on a closed channel it has no effect.
Requeue(w) ==
    /\ pc[w] = "requeue"
    /\ ready' = IF Connected(w) THEN ready \cup {msg[w]} ELSE ready
    /\ NextIteration(w)
    /\ UNCHANGED <<tasks, published, declared, conn, runs, faults>>

HandleTask(w) ==
    /\ pc[w] = "handling"
    /\ runs' = [runs EXCEPT ![msg[w].task] = @ + 1]
    /\ GoTo(w, "handled")
    /\ UNCHANGED <<tasks, ready, published, declared, conn, faults>>

\* Transaction 2, and where its error leads.
CompleteTask(w) ==
    LET t   == msg[w].task
        new == IF HandlerFails(t) THEN MarkFailed(tasks, t, "unknown task type")
                                  ELSE MarkSuccess(tasks, t)
    IN  /\ pc[w] = "handled"
        /\ \E outcome \in TxOutcomes :
              /\ Transaction(outcome, "update_rollback", "update_unknown")
              /\ tasks' = WithTransaction(outcome, tasks, new)
              /\ GoTo(w, CASE ~TxFailed(outcome)       -> "acking"
                           [] TxFailed(outcome) /\ RetriesExhausted(msg[w]) -> "giving_up"
                           [] OTHER                    -> "retrying")
        /\ UNCHANGED <<ready, published, declared, conn, runs>>

\* Mutant: no third transaction.
GiveUpUnmarked(w) ==
    /\ pc[w] = "giving_up"
    /\ GoTo(w, "dropping")
    /\ UNCHANGED <<tasks, ready, published, declared, conn, runs, faults>>

\* The third transaction; its error is only logged.
GiveUp(w) ==
    /\ pc[w] = "giving_up"
    /\ \E outcome \in TxOutcomes :
          /\ Transaction(outcome, "giveup_rollback", "giveup_unknown")
          /\ tasks' = WithTransaction(outcome, tasks,
                                      MarkFailed(tasks, msg[w].task, "max retries reached"))
    /\ GoTo(w, "dropping")
    /\ UNCHANGED <<ready, published, declared, conn, runs>>

\* Mutant: the old copy is requeued, not acknowledged, after the publication.
RepublishRequeued(w) ==
    /\ pc[w] = "retrying"
    /\ Connected(w)
    /\ LET m == NewMessage(msg[w].task, msg[w].retry + 1)
       IN  /\ ready' = ready \cup {m}
           /\ published' = [published EXCEPT ![m.task] = m.seq]
    /\ GoTo(w, "requeue")
    /\ UNCHANGED <<tasks, declared, conn, runs, faults>>

\* republishWithRetry to the queue the delivery came from.
Republish(w) ==
    /\ pc[w] = "retrying"
    /\ Connected(w)
    /\ LET m == NewMessage(msg[w].task, msg[w].retry + 1)
       IN  /\ ready' = ready \cup {m}
           /\ published' = [published EXCEPT ![m.task] = m.seq]
    /\ GoTo(w, "acking")
    /\ UNCHANGED <<tasks, declared, conn, runs, faults>>

\* It returns an error: the channel is closed, or the publication failed.
RepublishError(w) ==
    /\ pc[w] = "retrying"
    /\ IF Connected(w) THEN Fault("republish_error") ELSE NoFault
    /\ GoTo(w, "dropping")
    /\ UNCHANGED <<tasks, ready, published, declared, conn, runs>>

\* Mutant: the two Nacks that drop a message requeue it.
SettleRequeued(w) ==
    /\ pc[w] \in Settling
    /\ ready' = IF pc[w] = "dropping" /\ Connected(w) THEN ready \cup {msg[w]} ELSE ready
    /\ NextIteration(w)
    /\ UNCHANGED <<tasks, published, declared, conn, runs, faults>>

\* Ack, or Nack without requeue: for the broker the delivery is done.  On a
\* closed channel it has no effect.
Settle(w) ==
    /\ pc[w] \in Settling
    /\ NextIteration(w)
    /\ UNCHANGED <<tasks, ready, published, declared, conn, runs, faults>>

-----------------------------------------------------------------------------
(* Faults *)

ProcessCrash(p) ==
    /\ \E w \in WorkersOf(p) : pc[w] # "down"
    /\ Fault("worker_crash")
    /\ Exit(p)

\* Mutant: the goroutines return at once, in the middle of an iteration.
CloseConnectionsAtOnce(ps) ==
    /\ conn' = conn \ ps
    /\ pc' = [w \in Workers |-> IF ProcOf[w] \in ps /\ pc[w] # "down" THEN "exited" ELSE pc[w]]

\* The connections of the processes in ps are lost.  A goroutine that waits for
\* a delivery sees the channel closed and returns; one in the middle of an
\* iteration goes on, and notices nothing before it settles or republishes.
CloseConnections(ps) ==
    /\ conn' = conn \ ps
    /\ pc' = [w \in Workers |-> IF ProcOf[w] \in ps /\ pc[w] = "idle" THEN "exited" ELSE pc[w]]

\* Every goroutine has returned and main waits in `select {}': the Go runtime
\* reports "all goroutines are asleep" and ends the process, when it notices.
AllAsleep(p) ==
    /\ p \notin conn
    /\ \A w \in WorkersOf(p) : pc[w] = "exited"
    /\ Exit(p)
    /\ NoFault

Disconnect(p) ==
    /\ p \in conn
    /\ Fault("worker_disconnect")
    /\ ready' = ready \cup Unacked(p)
    /\ CloseConnections({p})
    /\ UNCHANGED <<tasks, published, declared, msg, runs>>

\* Messages are published without a delivery mode: they do not survive a
\* restart of the broker; the queue itself does.
BrokerRestart ==
    /\ Fault("broker_restart")
    /\ ready' = {}
    /\ CloseConnections(Procs)
    /\ UNCHANGED <<tasks, published, declared, msg, runs>>

-----------------------------------------------------------------------------
WorkerStep(w) ==
    \/ StartWorker(w) \/ StartWorkerFatal(w)
    \/ Deliver(w) \/ RejectPayload(w)
    \/ BeginTask(w) \/ Requeue(w)
    \/ HandleTask(w) \/ CompleteTask(w)
    \/ GiveUp(w) \/ Republish(w) \/ RepublishError(w) \/ Settle(w)

ProcessStep(p) ==
    StartProcess(p) \/ AllAsleep(p) \/ ProcessCrash(p) \/ Disconnect(p)

PoolNext ==
    \/ \E w \in Workers : WorkerStep(w)
    \/ \E p \in Procs : ProcessStep(p)
    \/ BrokerRestart

(***************************************************************************)
(* The pool on its own: every task has been inserted and published once,   *)
(* the state the API leaves behind, and no process has started.            *)
(***************************************************************************)
PoolInit ==
    /\ tasks = [t \in Tasks |-> Pending]
    /\ published = [t \in Tasks |-> 1]
    /\ ready = {[task |-> t, seq |-> 1, retry |-> 0] : t \in Tasks}
    /\ declared = TRUE
    /\ conn = {}
    /\ pc = [w \in Workers |-> "down"]
    /\ msg = [w \in Workers |-> NoMsg]
    /\ runs = [t \in Tasks |-> 0]
    /\ faults = 0

PoolSpec == PoolInit /\ [][PoolNext]_poolVars

-----------------------------------------------------------------------------
\* The types of the variables: a goroutine holds a message exactly while it is
\* inside an iteration of the consumer loop.
TypeOK ==
    /\ tasks \in [Tasks -> Rows]
    /\ ready \subseteq Messages
    /\ published \in [Tasks -> Nat]
    /\ declared \in BOOLEAN
    /\ conn \subseteq Procs
    /\ pc \in [Workers -> Location]
    /\ msg \in [Workers -> Messages \cup {NoMsg}]
    /\ \A w \in Workers : pc[w] \in Holding <=> msg[w] # NoMsg
    /\ runs \in [Tasks -> Nat]
    /\ faults \in 0 .. MaxFaults

\* A terminal row was earned (worker.go:106-127): the handler ran before the
\* row became SUCCESS or FAILED, a row blames the retries only after more
\* failed attempts than MaxRetries, whatever crashes, disconnections and
\* duplicates happened, and a type without a handler never succeeds.
OutcomeEarned ==
    \A t \in Tasks :
        /\ Terminal(tasks, t) => runs[t] >= 1
        /\ tasks[t].error = "max retries reached" => runs[t] > MaxRetries
        /\ tasks[t].status = "SUCCESS" => ~HandlerFails(t) /\ tasks[t].result # "NULL"
        /\ tasks[t].status = "FAILED" /\ ~HandlerFails(t)
              => tasks[t].error = "max retries reached"

\* No message without its row (service.go:45-62): whatever is ready or held by
\* a worker names a task whose INSERT is committed, so none of the UPDATEs of
\* the workers, which do not look at the number of rows, is lost on a missing row.
MessagesHaveRows ==
    /\ \A m \in ready : Exists(tasks, m.task)
    /\ \A w \in Workers : msg[w] # NoMsg => Exists(tasks, msg[w].task)

-----------------------------------------------------------------------------
\* Somebody will still work on t: a copy of its message is ready, or held by a
\* goroutine that has a channel to settle it on and has not decided yet.
CoveredBy(w, t) == pc[w] \in Active /\ msg[w].task = t /\ Connected(w)

Covered(t) == \/ \E m \in ready : m.task = t
              \/ \E w \in Workers : CoveredBy(w, t)

\* Faults that can take a task out of the system before its row is terminal.
\* worker_crash is not one of them, nor an error of the other transactions.
LossyFaults == {"broker_restart", "worker_disconnect", "republish_error", "giveup_rollback"}

\* No task is lost: without the faults above, a task that was published and
\* whose payload parses is finished or still covered, through crashes at every
\* step, requeues and republications (worker.go:67-148).
NoTaskLost ==
    Faults \cap LossyFaults = {} =>
        \A t \in Tasks :
            published[t] > 0 /\ Parses(t) => Terminal(tasks, t) \/ Covered(t)

-----------------------------------------------------------------------------
\* The faults after which the broker delivers a message a second time.
RedeliveryFaults == {"worker_crash", "worker_disconnect"}

Live(w, t) == pc[w] \in Active /\ msg[w].task = t

\* At most one copy of a task is at work: while a goroutine may write the row
\* of t no other goroutine may, and no copy waits to be delivered.  The old copy
\* of a republished message (worker.go:131-139) is only acknowledged.
OneWriter ==
    Faults \cap RedeliveryFaults = {} =>
        \A t \in Tasks :
            /\ \A v, w \in Workers : Live(v, t) /\ Live(w, t) => v = w
            /\ \A m, n \in ready : m.task = t /\ n.task = t => m = n
            /\ \A w \in Workers, m \in ready : Live(w, t) => m.task # t

\* A task is attempted at most MaxRetries + 1 times (worker.go:117) when
\* nothing is redelivered.
AttemptsBounded ==
    Faults \cap RedeliveryFaults = {} =>
        \A t \in Tasks : runs[t] <= MaxRetries + 1

\* The pool keeps the documented status flow (worker.go:92-147): every step
\* creates a row, starts it, finishes it once, or leaves every status alone.
\* It holds when nothing is delivered twice and no transaction 2 that reported
\* an error has taken effect.
Flow == INSTANCE TaskFlow WITH status <- [t \in Tasks |-> tasks[t].status]

FlowBreakingFaults == RedeliveryFaults \cup {"update_unknown"}

FollowsStatusFlow == Flow!FlowSpec

\* Whatever is delivered twice, crashes or fails (worker.go:92-147): no task is
\* un-created, goes back to PENDING, or gets an outcome before transaction 1
\* marked it PROCESSING; all a second delivery can do is to start it again or to
\* replace one outcome by another.
FollowsRedeliveryFlow == Flow!RedeliverySpec

-----------------------------------------------------------------------------
SameCopy(m, n) == m.task = n.task /\ m.seq = n.seq

\* The broker waits for w to settle its delivery.
Owes(w) == pc[w] \in Holding /\ Connected(w)

\* A delivery is settled once (the Acks, Nacks and continues of worker.go:67-148):
\* with every fault, the broker has one place for each publication, the queue or
\* one consumer that still owes the answer.  A second copy at work is always
\* one that its goroutine can no longer give back.
CopiesApart ==
    /\ \A m, n \in ready : SameCopy(m, n) => m = n
    /\ \A w \in Workers : Owes(w) => \A m \in ready : ~SameCopy(msg[w], m)
    /\ \A v, w \in Workers : Owes(v) /\ Owes(w) /\ SameCopy(msg[v], msg[w]) => v = w
=============================================================================
