-------------------------- MODULE WorkerPoolProofs --------------------------
(***************************************************************************)
(* Theorems about WorkerPool, for every number of goroutines, processes    *)
(* and tasks, every retry limit and every bound on the faults.             *)
(*                                                                         *)
(* Each step lemma is stated for one action and cited by the theorem of    *)
(* the invariant; the invariants build on each other in the order below.   *)
(***************************************************************************)
EXTENDS WorkerPool, TLAPS

\* What every proof about a step unfolds, beside the action itself.
USE PoolAssumption, NoMsgAssumption DEF PoolAssumption, NoMsgAssumption

-----------------------------------------------------------------------------
(* The rows *)

\* The statements of repository.go keep the table a table.
LEMMA RowsTyped ==
    ASSUME NEW rows \in [Tasks -> Rows], NEW t \in Tasks, NEW e \in Errors
    PROVE  /\ Create(rows, t) \in [Tasks -> Rows]
           /\ MarkProcessing(rows, t) \in [Tasks -> Rows]
           /\ MarkSuccess(rows, t) \in [Tasks -> Rows]
           /\ MarkFailed(rows, t, e) \in [Tasks -> Rows]
<1>1. Pending \in Rows
  BY DEF Pending, Rows, Statuses, Results, Errors
<1>2. /\ [rows[t] EXCEPT !.status = "PROCESSING"] \in Rows
      /\ [rows[t] EXCEPT !.status = "SUCCESS", !.result = "result.txt"] \in Rows
      /\ [rows[t] EXCEPT !.status = "FAILED", !.error = e] \in Rows
  BY DEF Rows, Statuses, Results
<1> QED
  BY <1>1, <1>2 DEF Create, MarkProcessing, MarkSuccess, MarkFailed, Update

-----------------------------------------------------------------------------
(* Type correctness *)

\* The labels, as one set.
LEMMA Labels ==
    /\ Location = {"down", "starting", "idle", "exited", "received", "requeue",
                   "handling", "handled", "retrying", "giving_up", "dropping", "acking"}
    /\ Holding = {"received", "requeue", "handling", "handled", "retrying",
                  "giving_up", "dropping", "acking"}
    /\ Active = {"received", "requeue", "handling", "handled", "retrying", "giving_up"}
  BY DEF Location, Holding, Active, BeforeRun, AfterRun, Settling

\* A goroutine in an iteration holds a message.
LEMMA HoldsMessage ==
    ASSUME TypeOK, NEW w \in Workers, pc[w] \in Holding
    PROVE  msg[w] \in Messages /\ msg[w].task \in Tasks
  BY DEF TypeOK, Messages

\* What is unacknowledged is a set of messages.
LEMMA UnackedTyped ==
    ASSUME TypeOK, NEW p \in Procs
    PROVE  Unacked(p) \subseteq Messages
<1>1. \A w \in Workers : pc[w] \in Holding => msg[w] \in Messages
  BY HoldsMessage
<1> QED
  BY <1>1 DEF Unacked, WorkersOf

\* The fault counter stays within its bound.
LEMMA FaultsTyped ==
    ASSUME TypeOK, NEW k, NoFault \/ Fault(k)
    PROVE  faults' \in 0 .. MaxFaults
<1>1. faults \in Nat /\ faults <= MaxFaults
  BY DEF TypeOK
<1> QED
  BY <1>1 DEF NoFault, Fault

LEMMA ExitTyped ==
    ASSUME TypeOK, NEW p \in Procs, Exit(p), faults' \in 0 .. MaxFaults
    PROVE  TypeOK'
<1>1. ready' \subseteq Messages
  BY UnackedTyped DEF TypeOK, Exit
<1>2. pc' \in [Workers -> Location] /\ msg' \in [Workers -> Messages \cup {NoMsg}]
  BY Labels DEF TypeOK, Exit
<1>3. \A w \in Workers : pc'[w] \in Holding <=> msg'[w] # NoMsg
  BY Labels DEF TypeOK, Exit
<1>4. conn' \subseteq Procs
  BY DEF TypeOK, Exit
<1> QED
  BY <1>1, <1>2, <1>3, <1>4 DEF TypeOK, Exit

LEMMA CloseConnectionsTyped ==
    ASSUME TypeOK, NEW ps \in SUBSET Procs, CloseConnections(ps), msg' = msg
    PROVE  /\ conn' \subseteq Procs
           /\ pc' \in [Workers -> Location]
           /\ \A w \in Workers : pc'[w] \in Holding <=> msg'[w] # NoMsg
  BY Labels DEF TypeOK, CloseConnections

\* Going to a label inside the iteration.
LEMMA GoToTyped ==
    ASSUME TypeOK, NEW w \in Workers, NEW label \in Location, GoTo(w, label),
           label \in Holding <=> pc[w] \in Holding
    PROVE  /\ pc' \in [Workers -> Location]
           /\ msg' \in [Workers -> Messages \cup {NoMsg}]
           /\ \A v \in Workers : pc'[v] \in Holding <=> msg'[v] # NoMsg
  BY DEF TypeOK, GoTo

LEMMA NextIterationTyped ==
    ASSUME TypeOK, NEW w \in Workers, NextIteration(w)
    PROVE  /\ pc' \in [Workers -> Location]
           /\ msg' \in [Workers -> Messages \cup {NoMsg}]
           /\ \A v \in Workers : pc'[v] \in Holding <=> msg'[v] # NoMsg
  BY Labels DEF TypeOK, NextIteration

LEMMA StepTyped ==
    ASSUME TypeOK, [PoolNext]_poolVars
    PROVE  TypeOK'
<1> USE DEF TypeOK
<1>0. CASE UNCHANGED poolVars
  BY <1>0 DEF poolVars
<1>1. ASSUME NEW w \in Workers, StartWorker(w) PROVE TypeOK'
  BY <1>1, GoToTyped, Labels DEF StartWorker
<1>2. ASSUME NEW w \in Workers, StartWorkerFatal(w) PROVE TypeOK'
  BY <1>2, ExitTyped, FaultsTyped DEF StartWorkerFatal
<1>3. ASSUME NEW w \in Workers, Deliver(w) PROVE TypeOK'
  BY <1>3, Labels DEF Deliver
<1>4. ASSUME NEW w \in Workers, RejectPayload(w) PROVE TypeOK'
  BY <1>4, NextIterationTyped DEF RejectPayload
<1>5. ASSUME NEW w \in Workers, BeginTask(w) PROVE TypeOK'
  <2>1. PICK outcome \in TxOutcomes :
           /\ Transaction(outcome, "mark_rollback", "mark_unknown")
           /\ tasks' = WithTransaction(outcome, tasks, MarkProcessing(tasks, msg[w].task))
           /\ GoTo(w, IF TxFailed(outcome) THEN "requeue" ELSE "handling")
    BY <1>5 DEF BeginTask
  <2>2. pc[w] = "received" /\ msg[w].task \in Tasks
    BY <1>5, HoldsMessage, Labels DEF BeginTask
  <2>3. tasks' \in [Tasks -> Rows]
    BY <2>1, <2>2, RowsTyped DEF WithTransaction, Errors
  <2>4. faults' \in 0 .. MaxFaults
    BY <2>1, FaultsTyped DEF Transaction
  <2>5. /\ pc' \in [Workers -> Location]
        /\ msg' \in [Workers -> Messages \cup {NoMsg}]
        /\ \A v \in Workers : pc'[v] \in Holding <=> msg'[v] # NoMsg
    BY <2>1, <2>2, GoToTyped, Labels
  <2> QED
    BY <1>5, <2>3, <2>4, <2>5 DEF BeginTask
<1>6. ASSUME NEW w \in Workers, Requeue(w) PROVE TypeOK'
  BY <1>6, NextIterationTyped, HoldsMessage, Labels DEF Requeue
<1>7. ASSUME NEW w \in Workers, HandleTask(w) PROVE TypeOK'
  BY <1>7, GoToTyped, HoldsMessage, Labels DEF HandleTask
<1>8. ASSUME NEW w \in Workers, CompleteTask(w) PROVE TypeOK'
  <2>1. pc[w] = "handled" /\ msg[w].task \in Tasks
    BY <1>8, HoldsMessage, Labels DEF CompleteTask
  <2> DEFINE new == IF HandlerFails(msg[w].task)
                      THEN MarkFailed(tasks, msg[w].task, "unknown task type")
                      ELSE MarkSuccess(tasks, msg[w].task)
             label(o) == CASE ~TxFailed(o) -> "acking"
                           [] TxFailed(o) /\ RetriesExhausted(msg[w]) -> "giving_up"
                           [] OTHER -> "retrying"
  <2>2. PICK outcome \in TxOutcomes :
           /\ Transaction(outcome, "update_rollback", "update_unknown")
           /\ tasks' = WithTransaction(outcome, tasks, new)
           /\ GoTo(w, label(outcome))
    BY <1>8 DEF CompleteTask
  <2>3. new \in [Tasks -> Rows]
    BY <2>1, RowsTyped DEF Errors
  <2>4. tasks' \in [Tasks -> Rows]
    BY <2>2, <2>3 DEF WithTransaction
  <2>5. faults' \in 0 .. MaxFaults
    BY <2>2, FaultsTyped DEF Transaction
  <2>6. label(outcome) \in {"acking", "giving_up", "retrying"}
    OBVIOUS
  <2> HIDE DEF new, label
  <2>7. /\ pc' \in [Workers -> Location]
        /\ msg' \in [Workers -> Messages \cup {NoMsg}]
        /\ \A v \in Workers : pc'[v] \in Holding <=> msg'[v] # NoMsg
    BY <2>1, <2>2, <2>6, GoToTyped, Labels
  <2> QED
    BY <1>8, <2>4, <2>5, <2>7 DEF CompleteTask
<1>9. ASSUME NEW w \in Workers, GiveUp(w) PROVE TypeOK'
  <2>1. pc[w] = "giving_up" /\ msg[w].task \in Tasks
    BY <1>9, HoldsMessage, Labels DEF GiveUp
  <2>2. PICK outcome \in TxOutcomes :
           /\ Transaction(outcome, "giveup_rollback", "giveup_unknown")
           /\ tasks' = WithTransaction(outcome, tasks,
                         MarkFailed(tasks, msg[w].task, "max retries reached"))
    BY <1>9 DEF GiveUp
  <2>3. MarkFailed(tasks, msg[w].task, "max retries reached") \in [Tasks -> Rows]
    BY <2>1, RowsTyped DEF Errors
  <2>4. tasks' \in [Tasks -> Rows]
    BY <2>2, <2>3 DEF WithTransaction
  <2>5. faults' \in 0 .. MaxFaults
    BY <2>2, FaultsTyped DEF Transaction
  <2>6. /\ pc' \in [Workers -> Location]
        /\ msg' \in [Workers -> Messages \cup {NoMsg}]
        /\ \A v \in Workers : pc'[v] \in Holding <=> msg'[v] # NoMsg
    BY <1>9, <2>1, GoToTyped, Labels DEF GiveUp
  <2> QED
    BY <1>9, <2>4, <2>5, <2>6 DEF GiveUp
<1>10. ASSUME NEW w \in Workers, Republish(w) PROVE TypeOK'
  <2>1. pc[w] = "retrying" /\ msg[w] \in Messages
    BY <1>10, HoldsMessage, Labels DEF Republish
  <2>2. NewMessage(msg[w].task, msg[w].retry + 1) \in Messages
    BY <2>1 DEF NewMessage, Messages
  <2>3. ready' \subseteq Messages /\ published' \in [Tasks -> Nat]
    BY <1>10, <2>2 DEF Republish, Messages
  <2> QED
    BY <1>10, <2>1, <2>3, GoToTyped, Labels DEF Republish
<1>11. ASSUME NEW w \in Workers, RepublishError(w) PROVE TypeOK'
  BY <1>11, GoToTyped, FaultsTyped, Labels DEF RepublishError
<1>12. ASSUME NEW w \in Workers, Settle(w) PROVE TypeOK'
  BY <1>12, NextIterationTyped DEF Settle
<1>13. ASSUME NEW p \in Procs, StartProcess(p) PROVE TypeOK'
  BY <1>13, Labels DEF StartProcess, WorkersOf
<1>14. ASSUME NEW p \in Procs, ProcessCrash(p) PROVE TypeOK'
  BY <1>14, ExitTyped, FaultsTyped DEF ProcessCrash
<1>15. ASSUME NEW p \in Procs, Disconnect(p) PROVE TypeOK'
  BY <1>15, CloseConnectionsTyped, UnackedTyped, FaultsTyped DEF Disconnect
<1>16. CASE BrokerRestart
  BY <1>16, CloseConnectionsTyped, FaultsTyped DEF BrokerRestart
<1>17. ASSUME NEW p \in Procs, AllAsleep(p) PROVE TypeOK'
  BY <1>17, ExitTyped, FaultsTyped DEF AllAsleep
<1> QED
  BY <1>0, <1>1, <1>2, <1>3, <1>4, <1>5, <1>6, <1>7, <1>8, <1>9, <1>10, <1>11, <1>12,
     <1>13, <1>14, <1>15, <1>16, <1>17 DEF PoolNext, WorkerStep, ProcessStep

\* The variables keep their types, and a goroutine holds a message exactly in
\* the middle of an iteration of worker.go:67-148.
THEOREM TypeCorrect == PoolSpec => []TypeOK
<1>1. ASSUME PoolInit PROVE TypeOK
  <2>1. tasks \in [Tasks -> Rows]
    BY <1>1 DEF PoolInit, Rows, Pending, Statuses, Results, Errors
  <2>2. ready \subseteq Messages
    BY <1>1 DEF PoolInit, Messages
  <2>3. /\ pc \in [Workers -> Location]
        /\ msg \in [Workers -> Messages \cup {NoMsg}]
        /\ \A w \in Workers : pc[w] \in Holding <=> msg[w] # NoMsg
    BY <1>1, Labels DEF PoolInit
  <2> QED
    BY <1>1, <2>1, <2>2, <2>3 DEF PoolInit, TypeOK
<1> QED
  BY <1>1, StepTyped, PTL DEF PoolSpec

-----------------------------------------------------------------------------
(* Outcomes are earned *)

\* A message that was retried r times stands for r runs of its task, one more
\* once its own run is over; a goroutine gives up only after the last retry.
RunsTracked ==
    /\ \A m \in ready : runs[m.task] >= m.retry
    /\ \A w \in Workers :
          /\ pc[w] \in Holding  => runs[msg[w].task] >= msg[w].retry
          /\ pc[w] \in AfterRun => runs[msg[w].task] >= msg[w].retry + 1
          /\ pc[w] = "giving_up" => RetriesExhausted(msg[w])

LEMMA ExitTracked ==
    ASSUME TypeOK, RunsTracked, NEW p \in Procs, Exit(p)
    PROVE  RunsTracked'
<1>1. runs' = runs
  BY DEF Exit
<1>2. \A m \in Unacked(p) : runs[m.task] >= m.retry
  BY DEF Unacked, WorkersOf, RunsTracked
<1>3. \A w \in Workers : pc'[w] \in Holding => pc'[w] = pc[w] /\ msg'[w] = msg[w]
  BY Labels DEF Exit, TypeOK
<1> QED
  BY <1>1, <1>2, <1>3, Labels DEF Exit, RunsTracked, AfterRun, RetriesExhausted

LEMMA StepTracked ==
    ASSUME TypeOK, RunsTracked, [PoolNext]_poolVars
    PROVE  RunsTracked'
<1> USE Labels DEF AfterRun, RetriesExhausted
<1>0. CASE UNCHANGED poolVars
  BY <1>0 DEF poolVars, RunsTracked
<1>1. ASSUME NEW w \in Workers, StartWorker(w) PROVE RunsTracked'
  BY <1>1 DEF StartWorker, GoTo, RunsTracked, TypeOK
<1>2. ASSUME NEW w \in Workers, StartWorkerFatal(w) PROVE RunsTracked'
  BY <1>2, ExitTracked DEF StartWorkerFatal
<1>3. ASSUME NEW w \in Workers, Deliver(w) PROVE RunsTracked'
  BY <1>3 DEF Deliver, RunsTracked, TypeOK
<1>4. ASSUME NEW w \in Workers, RejectPayload(w) PROVE RunsTracked'
  BY <1>4 DEF RejectPayload, NextIteration, RunsTracked, TypeOK
<1>5. ASSUME NEW w \in Workers, BeginTask(w) PROVE RunsTracked'
  BY <1>5 DEF BeginTask, GoTo, RunsTracked, TypeOK
<1>6. ASSUME NEW w \in Workers, Requeue(w) PROVE RunsTracked'
  BY <1>6 DEF Requeue, NextIteration, RunsTracked, TypeOK
<1>7. ASSUME NEW w \in Workers, HandleTask(w) PROVE RunsTracked'
  <2>1. msg[w] \in Messages /\ pc[w] = "handling"
    BY <1>7, HoldsMessage DEF HandleTask
  <2>2. /\ runs' \in [Tasks -> Nat]
        /\ \A t \in Tasks : runs'[t] >= runs[t]
        /\ runs'[msg[w].task] = runs[msg[w].task] + 1
    BY <1>7, <2>1 DEF HandleTask, TypeOK, Messages
  <2>3. \A m \in ready : runs'[m.task] >= m.retry
    BY <2>2 DEF RunsTracked, TypeOK, Messages
  <2>4. \A v \in Workers : pc[v] \in Holding => msg[v] \in Messages
    BY HoldsMessage
  <2>5. ASSUME NEW v \in Workers
        PROVE  /\ pc'[v] \in Holding  => runs'[msg'[v].task] >= msg'[v].retry
               /\ pc'[v] \in AfterRun => runs'[msg'[v].task] >= msg'[v].retry + 1
               /\ pc'[v] = "giving_up" => RetriesExhausted(msg'[v])
    <3>1. CASE v = w
      BY <1>7, <2>1, <2>2, <3>1 DEF HandleTask, GoTo, RunsTracked, TypeOK, Messages
    <3>2. CASE v # w
      BY <1>7, <2>2, <2>4, <3>2 DEF HandleTask, GoTo, RunsTracked, TypeOK, Messages
    <3> QED
      BY <3>1, <3>2
  <2> QED
    BY <1>7, <2>3, <2>5 DEF HandleTask, RunsTracked
<1>8. ASSUME NEW w \in Workers, CompleteTask(w) PROVE RunsTracked'
  BY <1>8 DEF CompleteTask, GoTo, RunsTracked, TypeOK
<1>9. ASSUME NEW w \in Workers, GiveUp(w) PROVE RunsTracked'
  BY <1>9 DEF GiveUp, GoTo, RunsTracked, TypeOK
<1>10. ASSUME NEW w \in Workers, Republish(w) PROVE RunsTracked'
  BY <1>10, HoldsMessage DEF Republish, GoTo, NewMessage, RunsTracked, TypeOK, Messages
<1>11. ASSUME NEW w \in Workers, RepublishError(w) PROVE RunsTracked'
  BY <1>11 DEF RepublishError, GoTo, RunsTracked, TypeOK
<1>12. ASSUME NEW w \in Workers, Settle(w) PROVE RunsTracked'
  BY <1>12 DEF Settle, NextIteration, RunsTracked, TypeOK
<1>13. ASSUME NEW p \in Procs, StartProcess(p) PROVE RunsTracked'
  BY <1>13 DEF StartProcess, WorkersOf, RunsTracked, TypeOK
<1>14. ASSUME NEW p \in Procs, ProcessCrash(p) PROVE RunsTracked'
  BY <1>14, ExitTracked DEF ProcessCrash
<1>15. ASSUME NEW p \in Procs, Disconnect(p) PROVE RunsTracked'
  BY <1>15 DEF Disconnect, CloseConnections, Unacked, WorkersOf, RunsTracked, TypeOK
<1>16. CASE BrokerRestart
  BY <1>16 DEF BrokerRestart, CloseConnections, RunsTracked, TypeOK
<1>17. ASSUME NEW p \in Procs, AllAsleep(p) PROVE RunsTracked'
  BY <1>17, ExitTracked DEF AllAsleep
<1> QED
  BY <1>0, <1>1, <1>2, <1>3, <1>4, <1>5, <1>6, <1>7, <1>8, <1>9, <1>10, <1>11, <1>12,
     <1>13, <1>14, <1>15, <1>16, <1>17 DEF PoolNext, WorkerStep, ProcessStep

\* The rows are written by three actions: transaction 1, transaction 2 and the
\* one that gives up.  Each writes the row of the goroutine's message or nothing.
LEMMA BeginTaskWrites ==
    ASSUME TypeOK, NEW w \in Workers, BeginTask(w), NEW s \in Tasks
    PROVE  \/ tasks'[s] = tasks[s]
           \/ /\ s = msg[w].task /\ Exists(tasks, s)
              /\ tasks'[s].status = "PROCESSING"
              /\ tasks'[s].result = tasks[s].result /\ tasks'[s].error = tasks[s].error
<1>1. tasks[msg[w].task] \in Rows /\ tasks \in [Tasks -> Rows]
  BY HoldsMessage, Labels DEF BeginTask, TypeOK
<1> QED
  BY <1>1, HoldsMessage, Labels DEF BeginTask, WithTransaction, MarkProcessing, Update, Exists, Rows

LEMMA CompleteTaskWrites ==
    ASSUME TypeOK, NEW w \in Workers, CompleteTask(w), NEW s \in Tasks
    PROVE  \/ tasks'[s] = tasks[s]
           \/ /\ s = msg[w].task /\ Exists(tasks, s) /\ HandlerFails(msg[w].task)
              /\ tasks'[s].status = "FAILED" /\ tasks'[s].error = "unknown task type"
           \/ /\ s = msg[w].task /\ Exists(tasks, s) /\ ~HandlerFails(msg[w].task)
              /\ tasks'[s].status = "SUCCESS" /\ tasks'[s].result = "result.txt"
              /\ tasks'[s].error = tasks[s].error
<1>1. tasks[msg[w].task] \in Rows /\ tasks \in [Tasks -> Rows] /\ msg[w].task \in Tasks
  BY HoldsMessage, Labels DEF CompleteTask, TypeOK
<1>2. CASE HandlerFails(msg[w].task)
  <2>1. PICK outcome \in TxOutcomes :
           tasks' = WithTransaction(outcome, tasks,
                      MarkFailed(tasks, msg[w].task, "unknown task type"))
    BY <1>2 DEF CompleteTask
  <2> QED
    BY <1>1, <1>2, <2>1 DEF WithTransaction, MarkFailed, Update, Exists, Rows
<1>3. CASE ~HandlerFails(msg[w].task)
  <2>1. PICK outcome \in TxOutcomes :
           tasks' = WithTransaction(outcome, tasks, MarkSuccess(tasks, msg[w].task))
    BY <1>3 DEF CompleteTask
  <2> QED
    BY <1>1, <1>3, <2>1 DEF WithTransaction, MarkSuccess, Update, Exists, Rows
<1> QED
  BY <1>2, <1>3

LEMMA GiveUpWrites ==
    ASSUME TypeOK, NEW w \in Workers, GiveUp(w), NEW s \in Tasks
    PROVE  \/ tasks'[s] = tasks[s]
           \/ /\ s = msg[w].task /\ Exists(tasks, s)
              /\ tasks'[s].status = "FAILED" /\ tasks'[s].error = "max retries reached"
<1>1. tasks[msg[w].task] \in Rows /\ tasks \in [Tasks -> Rows] /\ msg[w].task \in Tasks
  BY HoldsMessage, Labels DEF GiveUp, TypeOK
<1>2. PICK outcome \in TxOutcomes :
         tasks' = WithTransaction(outcome, tasks,
                    MarkFailed(tasks, msg[w].task, "max retries reached"))
  BY DEF GiveUp
<1> QED
  BY <1>1, <1>2 DEF WithTransaction, MarkFailed, Update, Exists, Rows

\* Each writes what OutcomeEarned allows.
LEMMA StepEarned ==
    ASSUME TypeOK, RunsTracked, OutcomeEarned, [PoolNext]_poolVars
    PROVE  OutcomeEarned'
<1>0. ASSUME UNCHANGED <<tasks, runs>> PROVE OutcomeEarned'
  BY <1>0 DEF OutcomeEarned, Terminal
<1>1. ASSUME NEW w \in Workers, BeginTask(w) PROVE OutcomeEarned'
  <2>1. runs' = runs
    BY <1>1 DEF BeginTask
  <2> QED
    BY <1>1, <2>1, BeginTaskWrites DEF OutcomeEarned, Terminal, TypeOK
<1>2. ASSUME NEW w \in Workers, CompleteTask(w) PROVE OutcomeEarned'
  <2>1. msg[w] \in Messages /\ pc[w] \in AfterRun /\ runs' = runs
    BY <1>2, HoldsMessage, Labels DEF CompleteTask, AfterRun
  <2>2. runs[msg[w].task] >= 1
    BY <2>1 DEF RunsTracked, TypeOK, Messages
  <2> QED
    BY <1>2, <2>1, <2>2, CompleteTaskWrites DEF OutcomeEarned, Terminal, TypeOK
<1>3. ASSUME NEW w \in Workers, GiveUp(w) PROVE OutcomeEarned'
  <2>1. msg[w] \in Messages /\ pc[w] = "giving_up" /\ pc[w] \in AfterRun /\ runs' = runs
    BY <1>3, HoldsMessage, Labels DEF GiveUp, AfterRun
  <2>2. runs[msg[w].task] > MaxRetries /\ runs[msg[w].task] >= 1
    BY <2>1 DEF RunsTracked, RetriesExhausted, TypeOK, Messages
  <2> QED
    BY <1>3, <2>1, <2>2, GiveUpWrites DEF OutcomeEarned, Terminal, TypeOK
<1>4. ASSUME NEW w \in Workers, HandleTask(w) PROVE OutcomeEarned'
  <2>1. msg[w].task \in Tasks
    BY <1>4, HoldsMessage, Labels DEF HandleTask
  <2>2. \A t \in Tasks : runs'[t] \in Nat /\ runs'[t] >= runs[t]
    BY <1>4, <2>1 DEF HandleTask, TypeOK
  <2>3. tasks' = tasks
    BY <1>4 DEF HandleTask
  <2>4. ASSUME NEW t \in Tasks
        PROVE  /\ Terminal(tasks, t) => runs'[t] >= 1
               /\ tasks[t].error = "max retries reached" => runs'[t] > MaxRetries
    <3>1. /\ Terminal(tasks, t) => runs[t] >= 1
          /\ tasks[t].error = "max retries reached" => runs[t] > MaxRetries
      BY DEF OutcomeEarned
    <3>2. runs[t] \in Nat /\ runs'[t] \in Nat /\ runs'[t] >= runs[t]
      BY <2>2 DEF TypeOK
    <3>3. runs[t] >= 1 => runs'[t] >= 1
      BY <3>2
    <3>4. MaxRetries \in Nat /\ (runs[t] > MaxRetries => runs'[t] > MaxRetries)
      BY <3>2
    <3> QED
      BY <3>1, <3>3, <3>4
  <2> QED
    BY <2>3, <2>4 DEF OutcomeEarned, Terminal
<1> QED
  BY <1>0, <1>1, <1>2, <1>3, <1>4
  DEF PoolNext, WorkerStep, ProcessStep, poolVars, StartWorker, StartWorkerFatal, Deliver,
      RejectPayload, Requeue, Republish, RepublishError, Settle, StartProcess, AllAsleep, ProcessCrash,
      Disconnect, BrokerRestart, Exit

\* A row is SUCCESS, FAILED or out of retries only if the handler ran as often as
\* that says (worker.go:104-127), whatever crashes and duplicates come between.
THEOREM OutcomesAreEarned == PoolSpec => []OutcomeEarned
<1>1. ASSUME PoolInit PROVE RunsTracked
  BY <1>1, Labels DEF PoolInit, RunsTracked, AfterRun
<1>2. ASSUME PoolInit PROVE OutcomeEarned
  BY <1>2 DEF PoolInit, OutcomeEarned, Terminal, Pending
<1> QED
  BY <1>1, <1>2, TypeCorrect, StepTracked, StepEarned, PTL DEF PoolSpec

-----------------------------------------------------------------------------
(* Messages have rows *)

\* No row ever disappears.
LEMMA RowsStay ==
    ASSUME TypeOK, [PoolNext]_poolVars, NEW t \in Tasks, Exists(tasks, t)
    PROVE  Exists(tasks', t)
<1>1. ASSUME NEW w \in Workers, BeginTask(w) PROVE Exists(tasks', t)
  BY <1>1, BeginTaskWrites DEF Exists
<1>2. ASSUME NEW w \in Workers, CompleteTask(w) PROVE Exists(tasks', t)
  BY <1>2, CompleteTaskWrites DEF Exists
<1>3. ASSUME NEW w \in Workers, GiveUp(w) PROVE Exists(tasks', t)
  BY <1>3, GiveUpWrites DEF Exists
<1> QED
  BY <1>1, <1>2, <1>3
  DEF PoolNext, WorkerStep, ProcessStep, poolVars, StartWorker, StartWorkerFatal, Deliver,
      RejectPayload, Requeue, HandleTask, Republish, RepublishError, Settle, StartProcess,
      ProcessCrash, AllAsleep, Disconnect, BrokerRestart, Exit

LEMMA StepHaveRows ==
    ASSUME TypeOK, MessagesHaveRows, [PoolNext]_poolVars
    PROVE  MessagesHaveRows'
<1> USE Labels
<1>1. SUFFICES /\ \A m \in ready' : Exists(tasks', m.task)
               /\ \A w \in Workers : msg'[w] # NoMsg => Exists(tasks', msg'[w].task)
  BY DEF MessagesHaveRows, Exists
<1>2. \A m \in ready : Exists(tasks', m.task)
  BY RowsStay DEF MessagesHaveRows, TypeOK, Messages
<1>3. \A w \in Workers : pc[w] \in Holding => msg[w] # NoMsg /\ Exists(tasks', msg[w].task)
  BY HoldsMessage, RowsStay DEF MessagesHaveRows, TypeOK
<1>4. \A w \in Workers : msg[w] # NoMsg => Exists(tasks', msg[w].task)
  BY <1>3 DEF TypeOK
<1>5. CASE UNCHANGED poolVars
  BY <1>2, <1>4, <1>5 DEF poolVars
<1>6. ASSUME NEW w \in Workers, WorkerStep(w), ~Deliver(w), ~Republish(w), ~StartWorkerFatal(w)
      PROVE  /\ ready' \subseteq ready \cup {msg[v] : v \in {u \in Workers : pc[u] \in Holding}}
             /\ \A v \in Workers : msg'[v] \in {msg[v], NoMsg}
  BY <1>6 DEF WorkerStep, StartWorker, RejectPayload, BeginTask, Requeue, HandleTask,
              CompleteTask, GiveUp, RepublishError, Settle, NextIteration, GoTo, TypeOK
<1>7. ASSUME \/ \E p \in Procs : ProcessStep(p) \/ Exit(p)
             \/ BrokerRestart
      PROVE  /\ ready' \subseteq ready \cup {msg[v] : v \in {u \in Workers : pc[u] \in Holding}}
             /\ \A v \in Workers : msg'[v] \in {msg[v], NoMsg}
  <2>1. ASSUME NEW p \in Procs, ready' \subseteq ready \cup Unacked(p)
        PROVE  ready' \subseteq ready \cup {msg[v] : v \in {u \in Workers : pc[u] \in Holding}}
    BY <2>1 DEF Unacked, WorkersOf
  <2>2. ASSUME NEW p \in Procs, Exit(p)
        PROVE  /\ ready' \subseteq ready \cup Unacked(p)
               /\ \A v \in Workers : msg'[v] \in {msg[v], NoMsg}
    BY <2>2 DEF Exit
  <2>3. ASSUME NEW p \in Procs, StartProcess(p) \/ Disconnect(p)
        PROVE  ready' \subseteq ready \cup Unacked(p) /\ msg' = msg
    BY <2>3 DEF StartProcess, Disconnect
  <2> QED
    BY <1>7, <2>1, <2>2, <2>3 DEF ProcessStep, ProcessCrash, AllAsleep, BrokerRestart
<1>8. ASSUME NEW w \in Workers, Deliver(w)
      PROVE  /\ ready' \subseteq ready
             /\ \A v \in Workers : msg'[v] \in ready \/ msg'[v] = msg[v]
  BY <1>8 DEF Deliver, TypeOK
<1>9. ASSUME NEW w \in Workers, Republish(w)
      PROVE  /\ \A m \in ready' : m \in ready \/ m.task = msg[w].task
             /\ pc[w] \in Holding /\ msg' = msg
  BY <1>9 DEF Republish, NewMessage, GoTo
<1>10. ASSUME /\ ready' \subseteq ready \cup {msg[v] : v \in {u \in Workers : pc[u] \in Holding}}
              /\ \A v \in Workers : msg'[v] \in {msg[v], NoMsg}
       PROVE  /\ \A m \in ready' : Exists(tasks', m.task)
              /\ \A w \in Workers : msg'[w] # NoMsg => Exists(tasks', msg'[w].task)
  BY <1>2, <1>3, <1>4, <1>10
<1>11. CASE \E w \in Workers : WorkerStep(w)
  <2>1. PICK w \in Workers : WorkerStep(w)
    BY <1>11
  <2>2. CASE Deliver(w)
    BY <1>2, <1>4, <1>8, <2>2
  <2>3. CASE Republish(w)
    BY <1>2, <1>3, <1>4, <1>9, <2>3
  <2>4. CASE StartWorkerFatal(w)
    BY <1>7, <1>10, <2>4 DEF StartWorkerFatal
  <2> QED
    BY <1>6, <1>10, <2>1, <2>2, <2>3, <2>4
<1> QED
  BY <1>5, <1>7, <1>10, <1>11 DEF PoolNext

\* The workers never update a row that is not there (repository.go:138-182).
THEOREM RowsBeforeMessages == PoolSpec => []MessagesHaveRows
<1>1. PoolInit => MessagesHaveRows
  BY DEF PoolInit, MessagesHaveRows, Exists, Pending
<1> QED
  BY <1>1, TypeCorrect, StepHaveRows, PTL DEF PoolSpec

-----------------------------------------------------------------------------
(* No task is lost *)

\* While no connection is lost, a goroutine that runs has its channel.
NoGhosts ==
    Faults \cap {"worker_disconnect", "broker_restart"} = {} =>
        \A w \in Workers : pc[w] \notin {"down", "exited"} => Connected(w)

LEMMA StepNoGhosts ==
    ASSUME TypeOK, NoGhosts, [PoolNext]_poolVars
    PROVE  NoGhosts'
<1> SUFFICES ASSUME Faults \cap {"worker_disconnect", "broker_restart"} = {}
             PROVE  \A w \in Workers : pc'[w] \notin {"down", "exited"} => ProcOf[w] \in conn'
  BY DEF NoGhosts, Connected
<1>1. \A w \in Workers : pc[w] \notin {"down", "exited"} => ProcOf[w] \in conn
  BY DEF NoGhosts, Connected
<1>2. CASE UNCHANGED poolVars
  BY <1>1, <1>2 DEF poolVars
<1>3. ASSUME NEW w \in Workers, WorkerStep(w), ~StartWorkerFatal(w)
      PROVE  \A v \in Workers : pc'[v] \notin {"down", "exited"} => ProcOf[v] \in conn'
  <2>1. conn' = conn /\ pc[w] \notin {"down", "exited"}
    BY <1>3 DEF WorkerStep, StartWorker, Deliver, RejectPayload, BeginTask, Requeue, HandleTask,
                CompleteTask, GiveUp, Republish, RepublishError, Settle, Settling
  <2>2. \A v \in Workers : v # w => pc'[v] = pc[v]
    BY <1>3 DEF WorkerStep, StartWorker, Deliver, RejectPayload, BeginTask, Requeue, HandleTask,
                CompleteTask, GiveUp, Republish, RepublishError, Settle, NextIteration, GoTo, TypeOK
  <2> QED
    BY <1>1, <2>1, <2>2
<1>4. ASSUME NEW p \in Procs, Exit(p)
      PROVE  \A v \in Workers : pc'[v] \notin {"down", "exited"} => ProcOf[v] \in conn'
  BY <1>1, <1>4 DEF Exit
<1>5. ASSUME NEW p \in Procs, StartProcess(p)
      PROVE  \A v \in Workers : pc'[v] \notin {"down", "exited"} => ProcOf[v] \in conn'
  BY <1>1, <1>5 DEF StartProcess
<1>6. ASSUME NEW p \in Procs PROVE ~Disconnect(p) /\ ~BrokerRestart
  BY DEF Disconnect, BrokerRestart, Fault
<1> QED
  BY <1>2, <1>3, <1>4, <1>5, <1>6 DEF PoolNext, ProcessStep, StartWorkerFatal, ProcessCrash, AllAsleep,
     BrokerRestart, Fault

\* The part of NoTaskLost that does not depend on the faults.
TasksCovered ==
    \A t \in Tasks : published[t] > 0 /\ Parses(t) => Terminal(tasks, t) \/ Covered(t)

\* A step of w takes from a task no cover but w's own.
LEMMA OthersCover ==
    ASSUME NEW w \in Workers, NEW t \in Tasks, Covered(t), ~CoveredBy(w, t),
           ready \subseteq ready', conn' = conn,
           \A v \in Workers : v # w => pc'[v] = pc[v] /\ msg'[v] = msg[v]
    PROVE  Covered(t)'
<1>1. CASE \E m \in ready : m.task = t
  BY <1>1 DEF Covered
<1>2. CASE \E v \in Workers : CoveredBy(v, t)
  <2>1. PICK v \in Workers : CoveredBy(v, t)
    BY <1>2
  <2>2. v # w /\ pc'[v] = pc[v] /\ msg'[v] = msg[v]
    BY <2>1
  <2>3. CoveredBy(v, t)'
    BY <2>1, <2>2 DEF CoveredBy, Connected
  <2> QED
    BY <2>3 DEF Covered
<1> QED
  BY <1>1, <1>2 DEF Covered

\* What a goroutine still works on, it covers.
LEMMA HolderCovers ==
    ASSUME NEW w \in Workers, NEW t \in Tasks,
           pc'[w] \in Active, msg'[w].task = t, ProcOf[w] \in conn'
    PROVE  Covered(t)'
  BY DEF Covered, CoveredBy, Connected

\* Every step leaves a parsing task terminal or covered.
LEMMA StepCovered ==
    ASSUME TypeOK, MessagesHaveRows, NoGhosts, TasksCovered,
           Faults \cap LossyFaults = {}, [PoolNext]_poolVars
    PROVE  TasksCovered'
<1> USE Labels
<1>1. SUFFICES ASSUME NEW t \in Tasks, published'[t] > 0, Parses(t)
               PROVE  Terminal(tasks', t) \/ Covered(t)'
  BY DEF TasksCovered, Parses, Terminal
<1>2. published[t] > 0 => Terminal(tasks, t) \/ Covered(t)
  BY <1>1 DEF TasksCovered
<1>3. \A w \in Workers : pc[w] \in Holding => ProcOf[w] \in conn
  BY DEF NoGhosts, LossyFaults, Connected
<1>4. CASE UNCHANGED poolVars
  BY <1>1, <1>2, <1>4 DEF poolVars, Covered, CoveredBy, Connected, Terminal
<1>5. ASSUME NEW w \in Workers, conn' = conn, ready \subseteq ready', published' = published,
             tasks'[t] = tasks[t], ~CoveredBy(w, t),
             \A v \in Workers : v # w => pc'[v] = pc[v] /\ msg'[v] = msg[v]
      PROVE  Terminal(tasks', t) \/ Covered(t)'
  BY <1>1, <1>2, <1>5, OthersCover DEF Terminal
<1>6. ASSUME NEW w \in Workers, BeginTask(w) PROVE Terminal(tasks', t) \/ Covered(t)'
  <2>1. /\ pc[w] = "received" /\ pc'[w] \in Active /\ msg' = msg /\ conn' = conn
        /\ \A v \in Workers : v # w => pc'[v] = pc[v]
        /\ ready' = ready /\ published' = published
    BY <1>6 DEF BeginTask, GoTo, TypeOK
  <2>2. CASE msg[w].task = t
    BY <1>3, <2>1, <2>2, HolderCovers
  <2>3. CASE msg[w].task # t
    BY <1>5, <1>6, <2>1, <2>3, BeginTaskWrites DEF CoveredBy
  <2> QED
    BY <2>2, <2>3
<1>7. ASSUME NEW w \in Workers, CompleteTask(w) PROVE Terminal(tasks', t) \/ Covered(t)'
  <2>1. /\ pc[w] = "handled" /\ msg' = msg /\ conn' = conn
        /\ \A v \in Workers : v # w => pc'[v] = pc[v]
        /\ ready' = ready /\ published' = published
    BY <1>7 DEF CompleteTask, GoTo, TypeOK
  <2>2. CASE msg[w].task = t
    <3>1. Exists(tasks, t) /\ tasks \in [Tasks -> Rows]
      BY <2>1, <2>2 DEF MessagesHaveRows, TypeOK
    <3>2. \/ pc'[w] \in {"retrying", "giving_up"}
          \/ tasks' = MarkFailed(tasks, t, "unknown task type")
          \/ tasks' = MarkSuccess(tasks, t)
      BY <1>7, <2>1, <2>2 DEF CompleteTask, GoTo, TypeOK, Transaction, TxFailed, WithTransaction
    <3>3. CASE pc'[w] \in {"retrying", "giving_up"}
      BY <1>3, <2>1, <2>2, <3>3, HolderCovers
    <3>4. CASE tasks' = MarkFailed(tasks, t, "unknown task type")
      BY <3>1, <3>4 DEF MarkFailed, Update, Terminal, Rows
    <3>5. CASE tasks' = MarkSuccess(tasks, t)
      BY <3>1, <3>5 DEF MarkSuccess, Update, Terminal, Rows
    <3> QED
      BY <3>2, <3>3, <3>4, <3>5
  <2>3. CASE msg[w].task # t
    BY <1>5, <1>7, <2>1, <2>3, CompleteTaskWrites DEF CoveredBy
  <2> QED
    BY <2>2, <2>3
<1>8. ASSUME NEW w \in Workers, GiveUp(w) PROVE Terminal(tasks', t) \/ Covered(t)'
  <2>1. /\ pc[w] = "giving_up" /\ msg' = msg /\ conn' = conn
        /\ \A v \in Workers : v # w => pc'[v] = pc[v]
        /\ ready' = ready /\ published' = published
    BY <1>8 DEF GiveUp, GoTo, TypeOK
  <2>2. CASE msg[w].task = t
    <3>1. Exists(tasks, t) /\ tasks \in [Tasks -> Rows]
      BY <2>1, <2>2 DEF MessagesHaveRows, TypeOK
    <3>2. tasks' = MarkFailed(tasks, t, "max retries reached")
      BY <1>8, <2>2 DEF GiveUp, Transaction, WithTransaction, Fault, LossyFaults
    <3> QED
      BY <3>1, <3>2 DEF MarkFailed, Update, Terminal, Rows
  <2>3. CASE msg[w].task # t
    BY <1>5, <1>8, <2>1, <2>3, GiveUpWrites DEF CoveredBy
  <2> QED
    BY <2>2, <2>3
<1>9. ASSUME NEW w \in Workers, StartWorker(w) \/ Settle(w)
      PROVE  Terminal(tasks', t) \/ Covered(t)'
  BY <1>5, <1>9 DEF StartWorker, Settle, Settling, GoTo, NextIteration, TypeOK, CoveredBy
<1>10. ASSUME NEW w \in Workers, HandleTask(w) PROVE Terminal(tasks', t) \/ Covered(t)'
  <2>1. CASE msg[w].task = t
    BY <1>3, <1>10, <2>1, HolderCovers DEF HandleTask, GoTo, TypeOK
  <2>2. CASE msg[w].task # t
    BY <1>5, <1>10, <2>2 DEF HandleTask, GoTo, TypeOK, CoveredBy
  <2> QED
    BY <2>1, <2>2
<1>11. ASSUME NEW w \in Workers, RejectPayload(w) PROVE Terminal(tasks', t) \/ Covered(t)'
  BY <1>1, <1>5, <1>11 DEF RejectPayload, NextIteration, TypeOK, CoveredBy, Parses
<1>12. ASSUME NEW w \in Workers, Requeue(w) PROVE Terminal(tasks', t) \/ Covered(t)'
  <2>1. CASE msg[w].task = t
    BY <1>3, <1>12, <2>1 DEF Requeue, Covered, Connected
  <2>2. CASE msg[w].task # t
    BY <1>5, <1>12, <2>2 DEF Requeue, NextIteration, TypeOK, CoveredBy
  <2> QED
    BY <2>1, <2>2
<1>13. ASSUME NEW w \in Workers, Republish(w) PROVE Terminal(tasks', t) \/ Covered(t)'
  <2>1. CASE msg[w].task = t
    <3> DEFINE m == NewMessage(msg[w].task, msg[w].retry + 1)
    <3>1. m \in ready' /\ m.task = t
      BY <1>13, <2>1 DEF Republish, NewMessage
    <3> QED
      BY <3>1 DEF Covered
  <2>2. CASE msg[w].task # t
    <3>1. published'[t] = published[t]
      BY <1>13, <2>2, HoldsMessage DEF Republish, NewMessage, TypeOK
    <3>2. Terminal(tasks, t) \/ Covered(t)
      BY <1>1, <1>2, <3>1
    <3> QED
      BY <1>13, <2>2, <3>2, OthersCover DEF Republish, GoTo, TypeOK, CoveredBy, Terminal
  <2> QED
    BY <2>1, <2>2
<1>14. ASSUME NEW w \in Workers, Deliver(w) PROVE Terminal(tasks', t) \/ Covered(t)'
  <2>1. PICK m \in ready : ready' = ready \ {m} /\ msg' = [msg EXCEPT ![w] = m]
    BY <1>14 DEF Deliver
  <2>2. CASE m.task = t
    BY <1>14, <2>1, <2>2, HolderCovers DEF Deliver, TypeOK, NoGhosts, LossyFaults, Connected
  <2>3. CASE m.task # t
    <3>1. /\ published' = published /\ tasks' = tasks /\ conn' = conn /\ pc[w] = "idle"
          /\ \A v \in Workers : v # w => pc'[v] = pc[v] /\ msg'[v] = msg[v]
      BY <1>14, <2>1 DEF Deliver, TypeOK
    <3>2. CASE \E n \in ready : n.task = t
      BY <2>1, <2>3, <3>2 DEF Covered
    <3>3. CASE \E v \in Workers : CoveredBy(v, t)
      BY <3>1, <3>3 DEF Covered, CoveredBy, Connected
    <3> QED
      BY <1>1, <1>2, <3>1, <3>2, <3>3 DEF Covered, Terminal
  <2> QED
    BY <2>2, <2>3
<1>15. ASSUME NEW w \in Workers PROVE ~RepublishError(w)
  BY <1>3 DEF RepublishError, Connected, Fault, LossyFaults
<1>16. ASSUME NEW p \in Procs, Exit(p) PROVE Terminal(tasks', t) \/ Covered(t)'
  <2>1. published' = published /\ tasks' = tasks
    BY <1>16 DEF Exit
  <2>2. CASE \E m \in ready : m.task = t
    BY <1>16, <2>2 DEF Exit, Covered
  <2>3. ASSUME NEW v \in Workers, CoveredBy(v, t) PROVE Covered(t)'
    <3>1. CASE ProcOf[v] = p
      <4>1. msg[v] \in ready' /\ msg[v].task = t
        BY <1>16, <2>3, <3>1 DEF Exit, Unacked, WorkersOf, CoveredBy, Connected
      <4> QED
        BY <4>1 DEF Covered
    <3>2. CASE ProcOf[v] # p
      BY <1>16, <2>3, <3>2 DEF Exit, Covered, CoveredBy, Connected
    <3> QED
      BY <3>1, <3>2
  <2> QED
    BY <1>1, <1>2, <2>1, <2>2, <2>3 DEF Covered, Terminal
<1>17. ASSUME NEW p \in Procs, StartProcess(p) PROVE Terminal(tasks', t) \/ Covered(t)'
  <2>1. published' = published /\ tasks' = tasks /\ ready' = ready
    BY <1>17 DEF StartProcess
  <2>2. ASSUME NEW v \in Workers, CoveredBy(v, t) PROVE CoveredBy(v, t)'
    BY <1>17, <2>2 DEF StartProcess, WorkersOf, CoveredBy, Connected
  <2> QED
    BY <1>1, <1>2, <2>1, <2>2 DEF Covered, Terminal
<1>18. ~BrokerRestart /\ \A p \in Procs : ~Disconnect(p)
  BY DEF Disconnect, BrokerRestart, Fault, LossyFaults
<1>19. \A w \in Workers : ProcOf[w] \in Procs
  OBVIOUS
<1> QED
  BY <1>4, <1>6, <1>7, <1>8, <1>9, <1>10, <1>11, <1>12, <1>13, <1>14, <1>15, <1>16, <1>17,
     <1>18, <1>19
  DEF PoolNext, WorkerStep, ProcessStep, StartWorkerFatal, ProcessCrash, AllAsleep

\* No task is lost (worker.go:67-148), for any number of crashes, requeues and
\* republications, while none of LossyFaults happens.
THEOREM TasksAreNotLost == PoolSpec => []NoTaskLost
<1>1. CASE Faults \cap LossyFaults = {}
  <2>1. PoolInit => NoGhosts /\ MessagesHaveRows
    BY DEF PoolInit, NoGhosts, MessagesHaveRows, Exists, Pending
  <2>2. PoolInit => TasksCovered
    <3>1. ASSUME PoolInit, NEW t \in Tasks PROVE Covered(t)
      <4>1. [task |-> t, seq |-> 1, retry |-> 0] \in ready
        BY <3>1 DEF PoolInit
      <4> QED
        BY <4>1 DEF Covered
    <3> QED
      BY <3>1 DEF TasksCovered
  <2>3. TasksCovered => NoTaskLost
    BY DEF TasksCovered, NoTaskLost
  <2>4. /\ TypeOK /\ MessagesHaveRows /\ NoGhosts /\ TasksCovered /\ [PoolNext]_poolVars
        => TasksCovered'
    BY <1>1, StepCovered
  <2> QED
    BY <2>1, <2>2, <2>3, <2>4, TypeCorrect, RowsBeforeMessages, StepNoGhosts, PTL DEF PoolSpec
<1>2. CASE Faults \cap LossyFaults # {}
  <2>1. NoTaskLost
    BY <1>2 DEF NoTaskLost
  <2> QED
    BY <2>1, PTL
<1> QED
  BY <1>1, <1>2

-----------------------------------------------------------------------------
(* One writer *)

\* The part of OneWriter that does not depend on the faults.
SingleCopy ==
    \A t \in Tasks :
        /\ \A v, w \in Workers : Live(v, t) /\ Live(w, t) => v = w
        /\ \A m, n \in ready : m.task = t /\ n.task = t => m = n
        /\ \A w \in Workers, m \in ready : Live(w, t) => m.task # t

\* A step that makes no goroutine live and no message ready keeps copies single.
LEMMA FewerCopies ==
    ASSUME SingleCopy, ready' \subseteq ready,
           \A w \in Workers : pc'[w] \in Active => pc[w] \in Active /\ msg'[w] = msg[w]
    PROVE  SingleCopy'
  BY DEF SingleCopy, Live

LEMMA StepSingleCopy ==
    ASSUME TypeOK, SingleCopy, Faults \cap RedeliveryFaults = {}, [PoolNext]_poolVars
    PROVE  SingleCopy'
<1> USE Labels
<1>1. CASE UNCHANGED poolVars
  BY <1>1, FewerCopies DEF poolVars
<1>2. ASSUME NEW w \in Workers, WorkerStep(w),
             ~Deliver(w), ~Requeue(w), ~Republish(w), ~StartWorkerFatal(w)
      PROVE  SingleCopy'
  <2>1. /\ ready' = ready
        /\ \A v \in Workers : pc'[v] \in Active => pc[v] \in Active /\ msg'[v] = msg[v]
    BY <1>2 DEF WorkerStep, StartWorker, RejectPayload, BeginTask, HandleTask,
                CompleteTask, GiveUp, RepublishError, Settle, NextIteration, GoTo, TypeOK
  <2> QED
    BY <2>1, FewerCopies
<1>3. ASSUME NEW p \in Procs, p \notin conn, Exit(p) PROVE SingleCopy'
  BY <1>3, FewerCopies DEF Exit, TypeOK
<1>4. ASSUME NEW p \in Procs, StartProcess(p) PROVE SingleCopy'
  BY <1>4, FewerCopies DEF StartProcess, TypeOK
<1>5. CASE BrokerRestart
  BY <1>5, FewerCopies DEF BrokerRestart, CloseConnections, TypeOK
<1>6. ASSUME NEW w \in Workers, Deliver(w) PROVE SingleCopy'
  <2>1. PICK m \in ready : ready' = ready \ {m} /\ msg' = [msg EXCEPT ![w] = m]
    BY <1>6 DEF Deliver
  <2>2. /\ pc[w] \notin Active /\ msg'[w] = m
        /\ \A v \in Workers : v # w => pc'[v] = pc[v] /\ msg'[v] = msg[v]
    BY <1>6, <2>1 DEF Deliver, TypeOK
  <2> QED
    BY <2>1, <2>2 DEF SingleCopy, Live, TypeOK, Messages
<1>7. ASSUME NEW w \in Workers, Requeue(w) PROVE SingleCopy'
  <2>1. /\ pc[w] \in Active /\ pc'[w] \notin Active
        /\ ready' \subseteq ready \cup {msg[w]}
        /\ \A v \in Workers : v # w => pc'[v] = pc[v] /\ msg'[v] = msg[v]
    BY <1>7 DEF Requeue, NextIteration, TypeOK
  <2> QED
    BY <2>1 DEF SingleCopy, Live, TypeOK, Messages
<1>8. ASSUME NEW w \in Workers, Republish(w) PROVE SingleCopy'
  <2> DEFINE n == NewMessage(msg[w].task, msg[w].retry + 1)
  <2>1. /\ pc[w] \in Active /\ pc'[w] \notin Active /\ msg' = msg
        /\ ready' = ready \cup {n}
        /\ n.task = msg[w].task
        /\ \A v \in Workers : v # w => pc'[v] = pc[v]
    BY <1>8 DEF Republish, NewMessage, GoTo, TypeOK
  <2> QED
    BY <2>1 DEF SingleCopy, Live, TypeOK, Messages
<1>9. \A p \in Procs : ~ProcessCrash(p) /\ ~Disconnect(p)
  BY DEF ProcessCrash, Disconnect, Fault, RedeliveryFaults
<1>10. \A w \in Workers : ProcOf[w] \in Procs
  OBVIOUS
<1> QED
  BY <1>1, <1>2, <1>3, <1>4, <1>5, <1>6, <1>7, <1>8, <1>9, <1>10
  DEF PoolNext, WorkerStep, ProcessStep, StartWorkerFatal, AllAsleep, Connected

LEMMA CopiesAreSingle ==
    ASSUME Faults \cap RedeliveryFaults = {}
    PROVE  PoolSpec => []SingleCopy
<1>1. ASSUME PoolInit PROVE SingleCopy
  <2>1. \A t \in Tasks, w \in Workers : ~Live(w, t)
    BY <1>1, Labels DEF PoolInit, Live
  <2>2. ASSUME NEW m \in ready PROVE m = [task |-> m.task, seq |-> 1, retry |-> 0]
    BY <1>1 DEF PoolInit
  <2> QED
    BY <2>1, <2>2 DEF SingleCopy
<1>2. TypeOK /\ SingleCopy /\ [PoolNext]_poolVars => SingleCopy'
  BY StepSingleCopy
<1> QED
  BY <1>1, <1>2, TypeCorrect, PTL DEF PoolSpec

\* While nothing is redelivered, one goroutine at a time may write the row of a
\* task (worker.go:92-147).
THEOREM WritersAreAlone == PoolSpec => []OneWriter
<1>1. CASE Faults \cap RedeliveryFaults = {}
  <2>1. SingleCopy => OneWriter
    BY DEF SingleCopy, OneWriter
  <2> QED
    BY <1>1, <2>1, CopiesAreSingle, PTL
<1>2. CASE Faults \cap RedeliveryFaults # {}
  <2>1. OneWriter
    BY <1>2 DEF OneWriter
  <2> QED
    BY <2>1, PTL
<1> QED
  BY <1>1, <1>2

-----------------------------------------------------------------------------
(* Attempts are bounded *)

\* The retry count of a task's only copy counts its runs.
RunsExact ==
    /\ \A m \in ready : runs[m.task] = m.retry /\ m.retry <= MaxRetries
    /\ \A w \in Workers :
          /\ pc[w] \in BeforeRun =>
                runs[msg[w].task] = msg[w].retry /\ msg[w].retry <= MaxRetries
          /\ pc[w] \in AfterRun =>
                runs[msg[w].task] = msg[w].retry + 1 /\ msg[w].retry <= MaxRetries
          /\ pc[w] = "retrying" => msg[w].retry < MaxRetries
    /\ \A t \in Tasks : runs[t] <= MaxRetries + 1

LEMMA StepRunsExact ==
    ASSUME TypeOK, SingleCopy, RunsExact, Faults \cap RedeliveryFaults = {},
           [PoolNext]_poolVars
    PROVE  RunsExact'
<1> USE Labels DEF BeforeRun, AfterRun
<1>1. CASE UNCHANGED poolVars
  BY <1>1 DEF poolVars, RunsExact
<1>2. ASSUME NEW w \in Workers,
             StartWorker(w) \/ RejectPayload(w) \/ BeginTask(w) \/ GiveUp(w)
               \/ RepublishError(w) \/ Settle(w)
      PROVE  RunsExact'
  <2>1. /\ ready' = ready /\ runs' = runs
        /\ \A v \in Workers :
              /\ pc'[v] \in BeforeRun => pc[v] \in BeforeRun /\ msg'[v] = msg[v]
              /\ pc'[v] \in AfterRun => pc'[v] = pc[v] /\ msg'[v] = msg[v]
    BY <1>2 DEF StartWorker, RejectPayload, BeginTask, GiveUp, RepublishError, Settle,
                NextIteration, GoTo, TypeOK
  <2> QED
    BY <2>1 DEF RunsExact
<1>3. ASSUME NEW w \in Workers, CompleteTask(w) PROVE RunsExact'
  <2>1. /\ ready' = ready /\ runs' = runs /\ msg' = msg /\ pc[w] = "handled"
        /\ pc'[w] \in {"acking", "giving_up", "retrying"}
        /\ pc'[w] = "retrying" => ~RetriesExhausted(msg[w])
        /\ \A v \in Workers : v # w => pc'[v] = pc[v]
    BY <1>3 DEF CompleteTask, GoTo, TypeOK
  <2>2. pc'[w] = "retrying" => msg[w].retry < MaxRetries
    BY <2>1, HoldsMessage DEF RetriesExhausted, Messages
  <2> QED
    BY <2>1, <2>2 DEF RunsExact
<1>4. ASSUME NEW w \in Workers, HandleTask(w) PROVE RunsExact'
  <2> DEFINE t == msg[w].task
  <2>1. /\ pc[w] = "handling" /\ pc'[w] = "handled" /\ t \in Tasks /\ msg[w] \in Messages
        /\ ready' = ready /\ msg' = msg
        /\ \A v \in Workers : v # w => pc'[v] = pc[v]
        /\ runs'[t] = runs[t] + 1
        /\ \A s \in Tasks : s # t => runs'[s] = runs[s]
    BY <1>4, HoldsMessage DEF HandleTask, GoTo, TypeOK
  <2>2. /\ \A m \in ready : m.task # t
        /\ \A v \in Workers : v # w /\ pc[v] \in Active => msg[v].task # t
    BY <2>1 DEF SingleCopy, Live
  <2>3. \A m \in ready : runs'[m.task] = m.retry /\ m.retry <= MaxRetries
    BY <2>1, <2>2 DEF RunsExact, TypeOK, Messages
  <2>4. runs[t] = msg[w].retry /\ msg[w].retry <= MaxRetries /\ msg[w].retry \in Nat
    BY <2>1 DEF RunsExact, Messages
  <2>5. \A s \in Tasks : runs'[s] <= MaxRetries + 1
    BY <2>1, <2>4 DEF RunsExact
  <2>6. ASSUME NEW v \in Workers, v # w, pc[v] \in Active
        PROVE  runs'[msg[v].task] = runs[msg[v].task]
    BY <2>1, <2>2, <2>6, HoldsMessage
  <2>7. ASSUME NEW v \in Workers
        PROVE  /\ pc'[v] \in BeforeRun =>
                     runs'[msg'[v].task] = msg'[v].retry /\ msg'[v].retry <= MaxRetries
               /\ pc'[v] \in AfterRun =>
                     runs'[msg'[v].task] = msg'[v].retry + 1 /\ msg'[v].retry <= MaxRetries
               /\ pc'[v] = "retrying" => msg'[v].retry < MaxRetries
    <3>1. CASE v = w
      BY <2>1, <2>4, <3>1
    <3>2. CASE v # w
      BY <2>1, <2>6, <3>2 DEF RunsExact
    <3> QED
      BY <3>1, <3>2
  <2> QED
    BY <2>1, <2>3, <2>5, <2>7 DEF RunsExact
<1>5. ASSUME NEW w \in Workers, Republish(w) PROVE RunsExact'
  <2> DEFINE n == NewMessage(msg[w].task, msg[w].retry + 1)
  <2>1. /\ pc[w] = "retrying" /\ pc'[w] = "acking" /\ msg[w] \in Messages
        /\ ready' = ready \cup {n} /\ msg' = msg /\ runs' = runs
        /\ n.task = msg[w].task /\ n.retry = msg[w].retry + 1
        /\ \A v \in Workers : v # w => pc'[v] = pc[v]
    BY <1>5, HoldsMessage DEF Republish, NewMessage, GoTo, TypeOK
  <2>2. runs[n.task] = n.retry /\ n.retry <= MaxRetries
    BY <2>1 DEF RunsExact, Messages
  <2> HIDE DEF n
  <2> QED
    BY <2>1, <2>2 DEF RunsExact
<1>10. ASSUME NEW w \in Workers, Requeue(w) PROVE RunsExact'
  BY <1>10 DEF Requeue, NextIteration, RunsExact, TypeOK
<1>11. ASSUME NEW w \in Workers, Deliver(w) PROVE RunsExact'
  BY <1>11 DEF Deliver, RunsExact, TypeOK
<1>6. ASSUME NEW p \in Procs, StartProcess(p) \/ (Exit(p) /\ p \notin conn) PROVE RunsExact'
  BY <1>6 DEF StartProcess, Exit, RunsExact, TypeOK
<1>7. CASE BrokerRestart
  BY <1>7 DEF BrokerRestart, CloseConnections, RunsExact, TypeOK
<1>8. \A p \in Procs : ~ProcessCrash(p) /\ ~Disconnect(p)
  BY DEF ProcessCrash, Disconnect, Fault, RedeliveryFaults
<1>9. \A w \in Workers : ProcOf[w] \in Procs
  OBVIOUS
<1> QED
  BY <1>1, <1>2, <1>3, <1>4, <1>5, <1>6, <1>7, <1>8, <1>9, <1>10, <1>11
  DEF PoolNext, WorkerStep, ProcessStep, StartWorkerFatal, AllAsleep, Connected

\* A task runs at most MaxRetries + 1 times (worker.go:117) while nothing is
\* redelivered.
THEOREM AttemptsAreBounded == PoolSpec => []AttemptsBounded
<1>1. CASE Faults \cap RedeliveryFaults = {}
  <2>1. PoolInit => RunsExact
    BY DEF PoolInit, RunsExact, BeforeRun, AfterRun
  <2>2. TypeOK /\ SingleCopy /\ RunsExact /\ [PoolNext]_poolVars => RunsExact'
    BY <1>1, StepRunsExact
  <2>3. RunsExact => AttemptsBounded
    BY DEF RunsExact, AttemptsBounded
  <2> QED
    BY <1>1, <2>1, <2>2, <2>3, CopiesAreSingle, TypeCorrect, PTL DEF PoolSpec
<1>2. CASE Faults \cap RedeliveryFaults # {}
  <2>1. AttemptsBounded
    BY <1>2 DEF AttemptsBounded
  <2> QED
    BY <2>1, PTL
<1> QED
  BY <1>1, <1>2

-----------------------------------------------------------------------------
(* Copies stay apart *)

\* The number of a copy is that of a publication that has happened.
CopiesNumbered ==
    /\ \A m \in ready : m.seq <= published[m.task]
    /\ \A w \in Workers : pc[w] \in Holding => msg[w].seq <= published[msg[w].task]

CopiesInv == CopiesNumbered /\ CopiesApart

\* Nobody takes a delivery, and those who owe an answer already owed it.
LEMMA CopiesKept ==
    ASSUME CopiesInv, ready' \subseteq ready, published' = published,
           \A w \in Workers : pc'[w] \in Holding => pc[w] \in Holding /\ msg'[w] = msg[w],
           \A w \in Workers : Owes(w)' => Owes(w)
    PROVE  CopiesInv'
<1>1. CopiesNumbered'
  BY DEF CopiesInv, CopiesNumbered
<1>2. \A w \in Workers : Owes(w)' => Owes(w) /\ msg'[w] = msg[w]
  BY DEF Owes
<1>3. CopiesApart'
  BY <1>2 DEF CopiesInv, CopiesApart, SameCopy
<1> QED
  BY <1>1, <1>3 DEF CopiesInv

\* The connection of p is closed: the broker has its deliveries again, and
\* nobody at p owes anything.
LEMMA CopiesReturned ==
    ASSUME CopiesInv, NEW p \in Procs, p \in conn, conn' = conn \ {p},
           ready' = ready \cup Unacked(p), published' = published,
           \A w \in Workers : pc'[w] \in Holding => pc[w] \in Holding /\ msg'[w] = msg[w]
    PROVE  CopiesInv'
<1>1. \A m \in ready' : m \in ready \/ \E v \in Workers : Owes(v) /\ ProcOf[v] = p /\ m = msg[v]
  BY DEF Unacked, WorkersOf, Owes, Connected
<1>2. \A w \in Workers : Owes(w)' => Owes(w) /\ ProcOf[w] # p /\ msg'[w] = msg[w]
  BY DEF Owes, Connected
<1>3. CopiesNumbered'
  BY <1>1 DEF CopiesInv, CopiesNumbered, Owes
<1>4. ASSUME NEW m \in ready', NEW n \in ready', SameCopy(m, n) PROVE m = n
  BY <1>1, <1>4 DEF CopiesInv, CopiesApart, SameCopy
<1>5. ASSUME NEW w \in Workers, Owes(w)', NEW m \in ready' PROVE ~SameCopy(msg'[w], m)
  <2>1. Owes(w) /\ ProcOf[w] # p /\ msg'[w] = msg[w]
    BY <1>2, <1>5
  <2> QED
    BY <1>1, <2>1 DEF CopiesInv, CopiesApart, SameCopy
<1>6. ASSUME NEW v \in Workers, NEW w \in Workers, Owes(v)', Owes(w)',
             SameCopy(msg'[v], msg'[w])
      PROVE  v = w
  BY <1>2, <1>6 DEF CopiesInv, CopiesApart
<1> QED
  BY <1>3, <1>4, <1>5, <1>6 DEF CopiesInv, CopiesApart, SameCopy

LEMMA ExitCopies ==
    ASSUME TypeOK, CopiesInv, NEW p \in Procs, Exit(p)
    PROVE  CopiesInv'
<1>1. \A w \in Workers : pc'[w] \in Holding => pc[w] \in Holding /\ msg'[w] = msg[w]
  BY Labels DEF Exit, TypeOK
<1>2. published' = published /\ conn' = conn \ {p}
  BY DEF Exit
<1>3. CASE p \in conn
  BY <1>1, <1>2, <1>3, CopiesReturned DEF Exit
<1>4. CASE p \notin conn
  <2>1. \A w \in Workers : Owes(w)' => Owes(w)
    BY <1>1, <1>2 DEF Owes, Connected
  <2> QED
    BY <1>1, <1>2, <1>4, <2>1, CopiesKept DEF Exit
<1> QED
  BY <1>3, <1>4

\* A delivery leaves the queue for one goroutine.
LEMMA DeliverCopies ==
    ASSUME TypeOK, CopiesInv, NEW w \in Workers, Deliver(w)
    PROVE  CopiesInv'
<1>1. PICK m \in ready : ready' = ready \ {m} /\ msg' = [msg EXCEPT ![w] = m]
  BY DEF Deliver
<1>2. /\ published' = published /\ conn' = conn
      /\ msg'[w] = m /\ pc'[w] = "received"
      /\ \A v \in Workers : v # w => pc'[v] = pc[v] /\ msg'[v] = msg[v]
  BY <1>1 DEF Deliver, TypeOK
<1>3. \A v \in Workers : v # w /\ Owes(v)' => Owes(v) /\ msg'[v] = msg[v]
  BY <1>2 DEF Owes, Connected
<1>4. \A n \in ready' : n \in ready /\ ~SameCopy(m, n)
  BY <1>1 DEF CopiesInv, CopiesApart
<1>5. \A v \in Workers : v # w /\ Owes(v)' => ~SameCopy(msg'[v], m)
  BY <1>3 DEF CopiesInv, CopiesApart
<1>6. CopiesNumbered'
  BY <1>1, <1>2 DEF CopiesInv, CopiesNumbered
<1>7. CopiesApart'
  BY <1>2, <1>3, <1>4, <1>5 DEF CopiesInv, CopiesApart, SameCopy
<1> QED
  BY <1>6, <1>7 DEF CopiesInv

\* A Nack with requeue gives the delivery back and ends the iteration.
LEMMA RequeueCopies ==
    ASSUME TypeOK, CopiesInv, NEW w \in Workers, Requeue(w)
    PROVE  CopiesInv'
<1>1. /\ published' = published /\ conn' = conn /\ pc[w] = "requeue"
      /\ pc'[w] \notin Holding
      /\ \A v \in Workers : v # w => pc'[v] = pc[v] /\ msg'[v] = msg[v]
  BY Labels DEF Requeue, NextIteration, TypeOK
<1>2. \A v \in Workers : Owes(v)' => v # w /\ Owes(v) /\ msg'[v] = msg[v]
  BY <1>1 DEF Owes, Connected
<1>3. \A n \in ready' : n \in ready \/ (Owes(w) /\ n = msg[w])
  BY <1>1, Labels DEF Requeue, Owes
<1>4. CopiesNumbered'
  BY <1>1, <1>3, Labels DEF CopiesInv, CopiesNumbered
<1>5. CopiesApart'
  BY <1>2, <1>3 DEF CopiesInv, CopiesApart, SameCopy
<1> QED
  BY <1>4, <1>5 DEF CopiesInv

\* A publication has a number that no copy has.
LEMMA PublishCopies ==
    ASSUME TypeOK, CopiesInv, NEW t \in Tasks, NEW retry \in Nat,
           ready' = ready \cup {NewMessage(t, retry)},
           published' = [published EXCEPT ![t] = @ + 1],
           conn' = conn, msg' = msg,
           \A w \in Workers : pc'[w] \in Holding <=> pc[w] \in Holding
    PROVE  CopiesInv'
<1> DEFINE new == NewMessage(t, retry)
<1>1. new.task = t /\ new.seq = published[t] + 1
  BY DEF NewMessage
<1>2. published[t] \in Nat /\ published'[t] = published[t] + 1
      /\ \A s \in Tasks : published[s] \in Nat /\ published'[s] >= published[s]
  BY DEF TypeOK
<1>3. /\ \A m \in ready : m \in Messages /\ m.task \in Tasks /\ m.seq \in Nat
      /\ \A w \in Workers : pc[w] \in Holding =>
            msg[w] \in Messages /\ msg[w].task \in Tasks /\ msg[w].seq \in Nat
  BY HoldsMessage DEF TypeOK, Messages
<1>4. /\ \A m \in ready : ~SameCopy(m, new)
      /\ \A w \in Workers : pc[w] \in Holding => ~SameCopy(msg[w], new)
  BY <1>1, <1>2, <1>3 DEF CopiesInv, CopiesNumbered, SameCopy
<1>5. CopiesNumbered'
  BY <1>1, <1>2, <1>3 DEF CopiesInv, CopiesNumbered
<1>6. \A w \in Workers : Owes(w)' => Owes(w) /\ pc[w] \in Holding
  BY DEF Owes, Connected
<1> HIDE DEF new
<1>7. CopiesApart'
  BY <1>4, <1>6 DEF CopiesInv, CopiesApart, SameCopy, new
<1> QED
  BY <1>5, <1>7 DEF CopiesInv

LEMMA StepCopies ==
    ASSUME TypeOK, CopiesInv, [PoolNext]_poolVars
    PROVE  CopiesInv'
<1> USE Labels
<1>1. CASE UNCHANGED poolVars
  BY <1>1, CopiesKept DEF poolVars, Owes, Connected
<1>2. ASSUME NEW w \in Workers,
             StartWorker(w) \/ RejectPayload(w) \/ BeginTask(w) \/ HandleTask(w)
               \/ CompleteTask(w) \/ GiveUp(w) \/ RepublishError(w) \/ Settle(w)
      PROVE  CopiesInv'
  <2>1. /\ ready' = ready /\ published' = published /\ conn' = conn
        /\ \A v \in Workers :
              pc'[v] \in Holding => pc[v] \in Holding /\ msg'[v] = msg[v]
    BY <1>2 DEF StartWorker, RejectPayload, BeginTask, HandleTask, CompleteTask, GiveUp,
                RepublishError, Settle, NextIteration, GoTo, TypeOK
  <2>2. \A v \in Workers : Owes(v)' => Owes(v)
    BY <2>1 DEF Owes, Connected
  <2> QED
    BY <2>1, <2>2, CopiesKept
<1>3. ASSUME NEW w \in Workers, Republish(w) PROVE CopiesInv'
  <2>1. msg[w].task \in Tasks /\ msg[w].retry + 1 \in Nat
    BY <1>3, HoldsMessage DEF Republish, Messages
  <2>2. \A v \in Workers : pc'[v] \in Holding <=> pc[v] \in Holding
    BY <1>3 DEF Republish, GoTo, TypeOK
  <2>3. /\ published' = [published EXCEPT ![msg[w].task] = @ + 1]
        /\ ready' = ready \cup {NewMessage(msg[w].task, msg[w].retry + 1)}
        /\ conn' = conn /\ msg' = msg
    BY <1>3 DEF Republish, NewMessage, GoTo
  <2> QED
    BY <2>1, <2>2, <2>3, PublishCopies
<1>4. ASSUME NEW p \in Procs, StartProcess(p) PROVE CopiesInv'
  <2>1. /\ ready' = ready /\ published' = published /\ conn' = conn \cup {p}
        /\ \A w \in Workers : pc'[w] \in Holding =>
              ProcOf[w] # p /\ pc[w] \in Holding /\ msg'[w] = msg[w]
    BY <1>4 DEF StartProcess, TypeOK
  <2>2. \A w \in Workers : Owes(w)' => Owes(w)
    BY <2>1 DEF Owes, Connected
  <2> QED
    BY <2>1, <2>2, CopiesKept
<1>5. ASSUME NEW p \in Procs, Disconnect(p) PROVE CopiesInv'
  <2>1. \A w \in Workers : pc'[w] \in Holding => pc[w] \in Holding /\ msg'[w] = msg[w]
    BY <1>5 DEF Disconnect, CloseConnections, TypeOK
  <2>2. /\ p \in conn /\ conn' = conn \ {p} /\ ready' = ready \cup Unacked(p)
        /\ published' = published
    BY <1>5 DEF Disconnect, CloseConnections
  <2> QED
    BY <2>1, <2>2, CopiesReturned
<1>6. CASE BrokerRestart
  <2>1. /\ ready' \subseteq ready /\ published' = published /\ conn' = conn \ Procs
        /\ \A w \in Workers : pc'[w] \in Holding => pc[w] \in Holding /\ msg'[w] = msg[w]
    BY <1>6 DEF BrokerRestart, CloseConnections, TypeOK
  <2>2. \A w \in Workers : Owes(w)' => Owes(w)
    BY <2>1 DEF Owes, Connected
  <2> QED
    BY <2>1, <2>2, CopiesKept
<1>7. \A w \in Workers : ProcOf[w] \in Procs
  OBVIOUS
<1> QED
  BY <1>1, <1>2, <1>3, <1>4, <1>5, <1>6, <1>7, ExitCopies, DeliverCopies, RequeueCopies
  DEF PoolNext, WorkerStep, ProcessStep, StartWorkerFatal, AllAsleep, ProcessCrash

LEMMA CopiesAreNumbered == PoolSpec => []CopiesInv
<1>1. ASSUME PoolInit PROVE CopiesInv
  <2>1. \A w \in Workers : pc[w] \notin Holding
    BY <1>1, Labels DEF PoolInit
  <2>2. ASSUME NEW m \in ready PROVE m = [task |-> m.task, seq |-> 1, retry |-> 0] /\ m.task \in Tasks
    BY <1>1 DEF PoolInit
  <2>3. CopiesNumbered
    BY <1>1, <2>1, <2>2 DEF PoolInit, CopiesNumbered
  <2>4. CopiesApart
    BY <2>1, <2>2 DEF CopiesApart, SameCopy, Owes
  <2> QED
    BY <2>3, <2>4 DEF CopiesInv
<1> QED
  BY <1>1, StepCopies, TypeCorrect, PTL DEF PoolSpec

\* Each delivery is settled once (worker.go:67-148): with any faults, the broker
\* has at most one place for each publication.
THEOREM CopiesStayApart == PoolSpec => []CopiesApart
<1>1. CopiesInv => CopiesApart
  BY DEF CopiesInv
<1> QED
  BY <1>1, CopiesAreNumbered, PTL

-----------------------------------------------------------------------------
(* The status flow *)

\* The row of a copy at work is PENDING or PROCESSING, and PROCESSING from
\* transaction 1 on.
RowFollows ==
    /\ \A m \in ready : tasks[m.task].status \in {"PENDING", "PROCESSING"}
    /\ \A w \in Workers :
          /\ pc[w] \in Active => tasks[msg[w].task].status \in {"PENDING", "PROCESSING"}
          /\ pc[w] \in {"handling"} \cup AfterRun => tasks[msg[w].task].status = "PROCESSING"

LEMMA StepRowFollows ==
    ASSUME TypeOK, SingleCopy, MessagesHaveRows, RowFollows,
           Faults \cap FlowBreakingFaults = {}, [PoolNext]_poolVars
    PROVE  RowFollows'
<1> USE Labels DEF AfterRun
<1>1. CASE UNCHANGED poolVars
  BY <1>1 DEF poolVars, RowFollows
<1>2. ASSUME NEW w \in Workers,
             StartWorker(w) \/ RejectPayload(w) \/ HandleTask(w) \/ RepublishError(w) \/ Settle(w)
      PROVE  RowFollows'
  BY <1>2 DEF StartWorker, RejectPayload, HandleTask, RepublishError, Settle,
              NextIteration, GoTo, RowFollows, TypeOK
<1>3. ASSUME NEW w \in Workers, Deliver(w) PROVE RowFollows'
  BY <1>3 DEF Deliver, RowFollows, TypeOK
<1>4. ASSUME NEW w \in Workers, Requeue(w) PROVE RowFollows'
  BY <1>4 DEF Requeue, NextIteration, RowFollows, TypeOK
<1>5. ASSUME NEW w \in Workers, Republish(w) PROVE RowFollows'
  BY <1>5 DEF Republish, NewMessage, GoTo, RowFollows, TypeOK
<1>6. ASSUME NEW w \in Workers, BeginTask(w) PROVE RowFollows'
  <2> DEFINE t == msg[w].task
  <2>1. /\ pc[w] = "received" /\ t \in Tasks /\ ready' = ready /\ msg' = msg
        /\ pc'[w] \in {"requeue", "handling"}
        /\ \A v \in Workers : v # w => pc'[v] = pc[v]
    BY <1>6, HoldsMessage DEF BeginTask, GoTo, TypeOK
  <2>2. \A s \in Tasks : s # t => tasks'[s] = tasks[s]
    BY <1>6, BeginTaskWrites
  <2>3. tasks'[t].status \in {"PENDING", "PROCESSING"}
    BY <1>6, <2>1, BeginTaskWrites DEF RowFollows
  <2>4. ASSUME pc'[w] = "handling" PROVE tasks'[t].status = "PROCESSING"
    <3>1. Exists(tasks, t) /\ tasks \in [Tasks -> Rows]
      BY <2>1 DEF MessagesHaveRows, TypeOK
    <3>2. tasks' = MarkProcessing(tasks, t)
      BY <1>6, <2>1, <2>4 DEF BeginTask, GoTo, TxFailed, WithTransaction, TypeOK
    <3> QED
      BY <2>1, <3>1, <3>2 DEF MarkProcessing, Update, Rows
  <2>5. /\ \A m \in ready : m.task # t
        /\ \A v \in Workers : v # w /\ pc[v] \in Active => msg[v].task # t
    BY <2>1 DEF SingleCopy, Live
  <2> QED
    BY <2>1, <2>2, <2>3, <2>4, <2>5, HoldsMessage DEF RowFollows, TypeOK, Messages
<1>7. ASSUME NEW w \in Workers, CompleteTask(w) \/ GiveUp(w) PROVE RowFollows'
  <2> DEFINE t == msg[w].task
  <2>1. /\ pc[w] \in AfterRun /\ t \in Tasks /\ ready' = ready /\ msg' = msg
        /\ pc'[w] \in {"acking", "dropping", "retrying", "giving_up"}
        /\ \A v \in Workers : v # w => pc'[v] = pc[v]
    BY <1>7, HoldsMessage DEF CompleteTask, GiveUp, GoTo, TypeOK
  <2>2. \A s \in Tasks : s # t => tasks'[s] = tasks[s]
    BY <1>7, CompleteTaskWrites, GiveUpWrites
  <2>3. ASSUME pc'[w] \in AfterRun PROVE tasks' = tasks
    <3>1. CompleteTask(w)
      BY <1>7, <2>3 DEF GiveUp, GoTo, TypeOK
    <3>2. PICK outcome \in TxOutcomes :
             /\ Transaction(outcome, "update_rollback", "update_unknown")
             /\ pc' = [pc EXCEPT ![w] =
                         CASE ~TxFailed(outcome) -> "acking"
                           [] TxFailed(outcome) /\ RetriesExhausted(msg[w]) -> "giving_up"
                           [] OTHER -> "retrying"]
             /\ outcome = "rolled_back" => tasks' = tasks
      BY <3>1 DEF CompleteTask, GoTo, WithTransaction
    <3>3. outcome # "committed"
      BY <2>3, <3>2 DEF TxFailed, TypeOK
    <3>4. outcome # "unknown"
      BY <3>2 DEF Transaction, Fault, FlowBreakingFaults
    <3> QED
      BY <3>2, <3>3, <3>4 DEF TxOutcomes
  <2>4. /\ \A m \in ready : m.task # t
        /\ \A v \in Workers : v # w /\ pc[v] \in Active => msg[v].task # t
    BY <2>1 DEF SingleCopy, Live
  <2> QED
    BY <2>1, <2>2, <2>3, <2>4, HoldsMessage DEF RowFollows, TypeOK, Messages
<1>8. ASSUME NEW p \in Procs, StartProcess(p) \/ (Exit(p) /\ p \notin conn) PROVE RowFollows'
  BY <1>8 DEF StartProcess, Exit, RowFollows, TypeOK
<1>9. CASE BrokerRestart
  BY <1>9 DEF BrokerRestart, CloseConnections, RowFollows, TypeOK
<1>10. \A p \in Procs : ~ProcessCrash(p) /\ ~Disconnect(p)
  BY DEF ProcessCrash, Disconnect, Fault, FlowBreakingFaults, RedeliveryFaults
<1>11. \A w \in Workers : ProcOf[w] \in Procs
  OBVIOUS
<1> QED
  BY <1>1, <1>2, <1>3, <1>4, <1>5, <1>6, <1>7, <1>8, <1>9, <1>10, <1>11
  DEF PoolNext, WorkerStep, ProcessStep, StartWorkerFatal, AllAsleep, Connected

\* A row that is written is a move of its task.
LEMMA StatusMoves ==
    ASSUME NEW t \in Tasks, NEW from, NEW to, tasks[t].status = from, tasks'[t].status = to,
           \A s \in Tasks : s # t => tasks'[s] = tasks[s]
    PROVE  Flow!Move(t, from, to)
BY DEF Flow!Move

\* A step changes the status of one task along the flow, or none.
LEMMA StepFollowsFlow ==
    ASSUME TypeOK, MessagesHaveRows, RowFollows, Faults \cap FlowBreakingFaults = {},
           [PoolNext]_poolVars
    PROVE  [Flow!FlowNext]_([t \in Tasks |-> tasks[t].status])
<1> DEFINE status == [t \in Tasks |-> tasks[t].status]
<1>2. ASSUME \A t \in Tasks : tasks'[t].status = tasks[t].status
      PROVE  status' = status
  BY <1>2
<1>3. ASSUME NEW w \in Workers, BeginTask(w) PROVE [Flow!FlowNext]_status
  <2>1. msg[w].task \in Tasks /\ tasks[msg[w].task].status \in {"PENDING", "PROCESSING"}
    BY <1>3, HoldsMessage, Labels DEF BeginTask, RowFollows
  <2>2. CASE \E s \in Tasks : tasks'[s].status # tasks[s].status
    <3>1. PICK s \in Tasks : tasks'[s].status # tasks[s].status
      BY <2>2
    <3>2. s = msg[w].task /\ tasks'[s].status = "PROCESSING" /\ tasks[s].status = "PENDING"
      BY <1>3, <2>1, <3>1, BeginTaskWrites
    <3>3. \A r \in Tasks : r # s => tasks'[r] = tasks[r]
      BY <1>3, <3>2, BeginTaskWrites
    <3> QED
      BY StatusMoves, <3>2, <3>3 DEF Flow!FlowNext, Flow!Start
  <2> QED
    BY <1>2, <2>2
<1>4. ASSUME NEW w \in Workers, CompleteTask(w) \/ GiveUp(w) PROVE [Flow!FlowNext]_status
  <2>1. msg[w].task \in Tasks /\ tasks[msg[w].task].status = "PROCESSING"
    BY <1>4, HoldsMessage, Labels DEF CompleteTask, GiveUp, RowFollows, AfterRun
  <2>2. CASE \E s \in Tasks : tasks'[s] # tasks[s]
    <3>1. PICK s \in Tasks : tasks'[s] # tasks[s]
      BY <2>2
    <3>2. /\ s = msg[w].task /\ tasks[s].status = "PROCESSING"
          /\ tasks'[s].status \in {"SUCCESS", "FAILED"}
      BY <1>4, <2>1, <3>1, CompleteTaskWrites, GiveUpWrites
    <3>3. \A r \in Tasks : r # s => tasks'[r] = tasks[r]
      BY <1>4, <3>2, CompleteTaskWrites, GiveUpWrites
    <3> QED
      BY StatusMoves, <3>2, <3>3 DEF Flow!FlowNext, Flow!Finish, Flow!Final
  <2> QED
    BY <1>2, <2>2
<1>5. ASSUME tasks' = tasks PROVE [Flow!FlowNext]_status
  BY <1>5, <1>2
<1> QED
  BY <1>3, <1>4, <1>5
  DEF PoolNext, WorkerStep, ProcessStep, poolVars, StartWorker, StartWorkerFatal, Deliver,
      RejectPayload, Requeue, HandleTask, Republish, RepublishError, Settle, StartProcess,
      ProcessCrash, AllAsleep, Disconnect, BrokerRestart, Exit

\* The pool implements the documented status flow (README.md:336-339) while no
\* message is delivered twice and no failed transaction 2 has taken effect.
THEOREM PoolFollowsStatusFlow ==
    ASSUME Faults \cap FlowBreakingFaults = {}
    PROVE  PoolSpec => FollowsStatusFlow
<1>1. Faults \cap RedeliveryFaults = {}
  BY DEF FlowBreakingFaults
<1>2. PoolInit => Flow!FlowInit
  BY DEF PoolInit, Flow!FlowInit, Pending
<1>3. PoolInit => RowFollows
  BY Labels DEF PoolInit, RowFollows, Pending, AfterRun
<1>4. TypeOK /\ SingleCopy /\ MessagesHaveRows /\ RowFollows /\ [PoolNext]_poolVars
      => RowFollows'
  BY StepRowFollows
<1>5. TypeOK /\ MessagesHaveRows /\ RowFollows /\ [PoolNext]_poolVars
      => [Flow!FlowNext]_([t \in Tasks |-> tasks[t].status])
  BY StepFollowsFlow
<1> QED
  BY <1>1, <1>2, <1>3, <1>4, <1>5, TypeCorrect, RowsBeforeMessages, CopiesAreSingle, PTL
  DEF PoolSpec, FollowsStatusFlow, Flow!FlowSpec

-----------------------------------------------------------------------------
(* What is left of the flow under all faults *)

Started(rows, t) == rows[t].status \in {"PROCESSING", "SUCCESS", "FAILED"}

\* Who runs the handler, or is past it, has seen transaction 1 commit.
RowsStarted ==
    \A w \in Workers : pc[w] \in {"handling"} \cup AfterRun => Started(tasks, msg[w].task)

\* A task that was started stays started.
LEMMA StartedStays ==
    ASSUME TypeOK, [PoolNext]_poolVars, NEW t \in Tasks, Started(tasks, t)
    PROVE  Started(tasks', t)
<1>1. ASSUME NEW w \in Workers, BeginTask(w) \/ CompleteTask(w) \/ GiveUp(w)
      PROVE  Started(tasks', t)
  BY <1>1, BeginTaskWrites, CompleteTaskWrites, GiveUpWrites DEF Started
<1>2. ASSUME tasks' = tasks PROVE Started(tasks', t)
  BY <1>2
<1> QED
  BY <1>1, <1>2
  DEF PoolNext, WorkerStep, ProcessStep, poolVars, StartWorker, StartWorkerFatal, Deliver,
      RejectPayload, Requeue, HandleTask, Republish, RepublishError, Settle, StartProcess,
      ProcessCrash, AllAsleep, Disconnect, BrokerRestart, Exit

LEMMA StepRowsStarted ==
    ASSUME TypeOK, MessagesHaveRows, RowsStarted, [PoolNext]_poolVars
    PROVE  RowsStarted'
<1> USE Labels DEF AfterRun
<1>1. ASSUME \A w \in Workers : pc'[w] \in {"handling"} \cup AfterRun =>
                pc[w] \in {"handling"} \cup AfterRun /\ msg'[w] = msg[w]
      PROVE  RowsStarted'
  BY <1>1, HoldsMessage, StartedStays DEF RowsStarted
<1>2. ASSUME NEW w \in Workers, BeginTask(w) PROVE RowsStarted'
  <2>1. /\ pc[w] = "received" /\ msg' = msg /\ msg[w].task \in Tasks
        /\ \A v \in Workers : v # w => pc'[v] = pc[v]
    BY <1>2, HoldsMessage DEF BeginTask, GoTo, TypeOK
  <2>2. ASSUME pc'[w] \in {"handling"} \cup AfterRun PROVE Started(tasks', msg[w].task)
    <3>1. Exists(tasks, msg[w].task) /\ tasks \in [Tasks -> Rows]
      BY <2>1 DEF MessagesHaveRows, TypeOK
    <3>2. tasks' = MarkProcessing(tasks, msg[w].task)
      BY <1>2, <2>1, <2>2 DEF BeginTask, GoTo, TxFailed, WithTransaction, TypeOK
    <3> QED
      BY <2>1, <3>1, <3>2 DEF MarkProcessing, Update, Rows, Started
  <2>3. ASSUME NEW v \in Workers, v # w, pc'[v] \in {"handling"} \cup AfterRun
        PROVE  Started(tasks', msg[v].task)
    <3>1. pc[v] \in {"handling"} \cup AfterRun /\ msg[v].task \in Tasks
      BY <2>1, <2>3, HoldsMessage
    <3> QED
      BY <3>1, StartedStays DEF RowsStarted
  <2> QED
    BY <2>1, <2>2, <2>3 DEF RowsStarted
<1>3. ASSUME NEW w \in Workers,
             StartWorker(w) \/ RejectPayload(w) \/ Requeue(w) \/ HandleTask(w)
               \/ CompleteTask(w) \/ GiveUp(w) \/ Republish(w) \/ RepublishError(w) \/ Settle(w)
      PROVE  RowsStarted'
  <2>1. \A v \in Workers : pc'[v] \in {"handling"} \cup AfterRun =>
           pc[v] \in {"handling"} \cup AfterRun /\ msg'[v] = msg[v]
    BY <1>3 DEF StartWorker, RejectPayload, Requeue, HandleTask, CompleteTask, GiveUp,
                Republish, RepublishError, Settle, NextIteration, GoTo, TypeOK
  <2> QED
    BY <2>1, <1>1
<1>4. ASSUME NEW w \in Workers, Deliver(w) PROVE RowsStarted'
  BY <1>4, <1>1 DEF Deliver, TypeOK
<1>5. ASSUME NEW p \in Procs, StartProcess(p) \/ Exit(p) \/ Disconnect(p) PROVE RowsStarted'
  BY <1>5, <1>1 DEF StartProcess, Exit, Disconnect, CloseConnections, TypeOK
<1>6. CASE BrokerRestart
  BY <1>6, <1>1 DEF BrokerRestart, CloseConnections, TypeOK
<1>7. CASE UNCHANGED poolVars
  BY <1>7, <1>1 DEF poolVars
<1>8. \A w \in Workers : ProcOf[w] \in Procs
  OBVIOUS
<1> QED
  BY <1>2, <1>3, <1>4, <1>5, <1>6, <1>7, <1>8
  DEF PoolNext, WorkerStep, ProcessStep, StartWorkerFatal, AllAsleep, ProcessCrash

\* A step starts a task, starts it again, or writes an outcome after a start.
LEMMA StepWorks ==
    ASSUME TypeOK, RowsStarted, [PoolNext]_poolVars
    PROVE  [\E t \in Tasks : Flow!Work(t)]_([t \in Tasks |-> tasks[t].status])
<1> DEFINE status == [t \in Tasks |-> tasks[t].status]
<1>1. ASSUME \A t \in Tasks : tasks'[t].status = tasks[t].status
      PROVE  status' = status
  BY <1>1
<1>2. ASSUME NEW s \in Tasks, tasks'[s].status # tasks[s].status,
             \A r \in Tasks : r # s => tasks'[r] = tasks[r],
             \/ tasks[s].status # "ABSENT" /\ tasks'[s].status = "PROCESSING"
             \/ Started(tasks, s) /\ tasks'[s].status \in Flow!Final
      PROVE  Flow!Work(s)
  <2>1. PICK from \in Statuses \cup {"ABSENT"} : from = tasks[s].status
    BY DEF TypeOK, Rows
  <2>2. PICK to : to = tasks'[s].status
    OBVIOUS
  <2>3. Flow!Move(s, from, to)
    BY <1>2, <2>1, <2>2, StatusMoves
  <2>4. \/ from = "PENDING" /\ to = "PROCESSING"
        \/ from \in Flow!Final /\ to = "PROCESSING"
        \/ from = "PROCESSING" /\ to \in Flow!Final
        \/ from \in Flow!Final /\ to \in Flow!Final
    BY <1>2, <2>1, <2>2 DEF Statuses, Started, Flow!Final
  <2>5. CASE from = "PENDING" /\ to = "PROCESSING"
    BY <2>3, <2>5 DEF Flow!Work, Flow!Start
  <2>6. CASE from \in Flow!Final /\ to = "PROCESSING"
    BY <2>3, <2>6 DEF Flow!Work, Flow!Restart
  <2>7. CASE from = "PROCESSING" /\ to \in Flow!Final
    BY <2>3, <2>7 DEF Flow!Work, Flow!Finish
  <2>8. CASE from \in Flow!Final /\ to \in Flow!Final
    BY <2>3, <2>8 DEF Flow!Work, Flow!Overwrite
  <2> QED
    BY <2>4, <2>5, <2>6, <2>7, <2>8
<1>3. ASSUME NEW w \in Workers, BeginTask(w) \/ CompleteTask(w) \/ GiveUp(w)
      PROVE  [\E t \in Tasks : Flow!Work(t)]_status
  <2>1. CASE \E s \in Tasks : tasks'[s].status # tasks[s].status
    <3>1. PICK s \in Tasks : tasks'[s].status # tasks[s].status
      BY <2>1
    <3>2. s = msg[w].task /\ \A r \in Tasks : r # s => tasks'[r] = tasks[r]
      BY <1>3, <3>1, BeginTaskWrites, CompleteTaskWrites, GiveUpWrites
    <3>3. CASE BeginTask(w)
      <4>1. tasks[s].status # "ABSENT" /\ tasks'[s].status = "PROCESSING"
        BY <3>1, <3>3, BeginTaskWrites DEF Exists
      <4> QED
        BY <1>2, <3>1, <3>2, <4>1
    <3>4. CASE CompleteTask(w) \/ GiveUp(w)
      <4>1. Started(tasks, s)
        BY <3>2, <3>4, Labels DEF CompleteTask, GiveUp, RowsStarted, AfterRun
      <4>2. tasks'[s].status \in Flow!Final
        BY <3>1, <3>4, CompleteTaskWrites, GiveUpWrites DEF Flow!Final
      <4> QED
        BY <1>2, <3>1, <3>2, <4>1, <4>2
    <3> QED
      BY <1>3, <3>3, <3>4
  <2> QED
    BY <1>1, <2>1
<1>4. ASSUME tasks' = tasks PROVE [\E t \in Tasks : Flow!Work(t)]_status
  BY <1>1, <1>4
<1> QED
  BY <1>3, <1>4
  DEF PoolNext, WorkerStep, ProcessStep, poolVars, StartWorker, StartWorkerFatal, Deliver,
      RejectPayload, Requeue, HandleTask, Republish, RepublishError, Settle, StartProcess,
      ProcessCrash, AllAsleep, Disconnect, BrokerRestart, Exit

\* With any faults (worker.go:92-147) the statuses of the pool follow what is
\* left of the documented flow when messages are delivered again.
THEOREM PoolFollowsRedeliveryFlow == PoolSpec => FollowsRedeliveryFlow
<1>1. PoolInit => Flow!FlowInit
  BY DEF PoolInit, Flow!FlowInit, Pending
<1>2. PoolInit => RowsStarted
  BY Labels DEF PoolInit, RowsStarted, AfterRun
<1>3. TypeOK /\ MessagesHaveRows /\ RowsStarted /\ [PoolNext]_poolVars => RowsStarted'
  BY StepRowsStarted
<1>4. TypeOK /\ RowsStarted /\ [PoolNext]_poolVars
      => [Flow!RedeliveryNext]_([t \in Tasks |-> tasks[t].status])
  BY StepWorks DEF Flow!RedeliveryNext
<1> QED
  BY <1>1, <1>2, <1>3, <1>4, TypeCorrect, RowsBeforeMessages, PTL
  DEF PoolSpec, FollowsRedeliveryFlow, Flow!RedeliverySpec
=============================================================================
