------------------------- MODULE OrchestratorProofs -------------------------
(***************************************************************************)
(* Theorems about the API and the worker pool together.                    *)
(*                                                                         *)
(* Every step of Orchestrator is a step of the pool, or changes nothing of *)
(* the pool but the fault counter, or inserts a row, or publishes the      *)
(* first message of a task.  The lemmas of WorkerPoolProofs cover the      *)
(* first kind; what the API adds needs one more invariant, Requested:      *)
(* before its publication a task is at most a PENDING row.                 *)
(***************************************************************************)
EXTENDS Orchestrator, WorkerPoolProofs

USE PoolAssumption, NoMsgAssumption DEF PoolAssumption, NoMsgAssumption

-----------------------------------------------------------------------------
(* The kinds of step *)

\* Everything of the pool but its fault counter.
OnlyFaults == UNCHANGED <<tasks, ready, published, declared, conn, pc, msg, runs>>

\* The row of t appears, if the transaction took effect.
Inserts(t) ==
    /\ req[t] = "none"
    /\ \/ /\ tasks' = tasks \/ tasks' = [tasks EXCEPT ![t] = Pending]
          /\ req' = [req EXCEPT ![t] = "error"]
       \/ /\ tasks' = [tasks EXCEPT ![t] = Pending]
          /\ req' = [req EXCEPT ![t] = "inserted"]
    /\ UNCHANGED <<ready, published, declared, conn, pc, msg, runs>>

\* The first message of t reaches the queue.
Publishes(t) ==
    /\ req[t] = "inserted" /\ declared
    /\ ready' = ready \cup {NewMessage(t, 0)}
    /\ published' = [published EXCEPT ![t] = @ + 1]
    /\ req' = [req EXCEPT ![t] = "published"]
    /\ UNCHANGED <<tasks, declared, conn, pc, msg, runs, faults>>

LEMMA StepKinds ==
    ASSUME [Next]_vars
    PROVE  \/ [PoolNext]_poolVars
           \/ OnlyFaults
           \/ \E t \in Tasks : Inserts(t) \/ Publishes(t)
<1>1. ASSUME NEW t \in Tasks, InsertTask(t) PROVE Inserts(t)
  BY <1>1 DEF InsertTask, Inserts, WithTransaction, TxFailed, Create, Answer
<1>2. ASSUME NEW t \in Tasks, PublishTask(t) PROVE Publishes(t) \/ OnlyFaults
  BY <1>2 DEF PublishTask, Publishes, OnlyFaults, Answer
<1>3. ASSUME NEW t \in Tasks, PublishLost(t) \/ PublishRefused(t) \/ Respond(t) PROVE OnlyFaults
  BY <1>3 DEF PublishLost, PublishRefused, Respond, OnlyFaults, poolVars
<1>4. ASSUME ApiStart \/ ApiCrash \/ ApiDisconnect PROVE OnlyFaults
  BY <1>4 DEF ApiStart, ApiCrash, ApiDisconnect, OnlyFaults, poolVars
<1> QED
  BY <1>1, <1>2, <1>3, <1>4 DEF Next, RequestStep, PoolNext, vars

\* How a request moves on, if not by its INSERT.
LEMMA RequestMoves ==
    ASSUME [Next]_vars, req \in [Tasks -> Requests], NEW t \in Tasks, ~Inserts(t)
    PROVE  \/ req'[t] = req[t]
           \/ req'[t] = "aborted"
           \/ req[t] = "inserted"  /\ req'[t] \in {"published", "error"}
           \/ req[t] = "published" /\ req'[t] = "created"
<1>1. ASSUME NEW s \in Tasks, InsertTask(s) PROVE req'[t] = req[t]
  <2>1. s # t
    BY <1>1 DEF InsertTask, Inserts, WithTransaction, TxFailed, Create, Answer
  <2> QED
    BY <1>1, <2>1 DEF InsertTask, Answer
<1>2. ASSUME NEW s \in Tasks, PublishTask(s) \/ PublishLost(s) \/ PublishRefused(s)
      PROVE  req'[t] = req[t] \/ (req[t] = "inserted" /\ req'[t] \in {"published", "error"})
  BY <1>2 DEF PublishTask, PublishLost, PublishRefused, Answer
<1>3. ASSUME NEW s \in Tasks, Respond(s)
      PROVE  req'[t] = req[t] \/ (req[t] = "published" /\ req'[t] = "created")
  BY <1>3 DEF Respond, Answer
<1>4. ASSUME ApiCrash PROVE req'[t] = req[t] \/ req'[t] = "aborted"
  BY <1>4 DEF ApiCrash
<1>5. ASSUME ApiStart \/ ApiDisconnect PROVE req'[t] = req[t]
  BY <1>5 DEF ApiStart, ApiDisconnect
<1> QED
  BY <1>1, <1>2, <1>3, <1>4, <1>5 DEF Next, RequestStep, apiVars, vars

-----------------------------------------------------------------------------
(* Type correctness *)

LEMMA StepFaults ==
    ASSUME TypeOK, [Next]_vars
    PROVE  [PoolNext]_poolVars \/ faults' \in 0 .. MaxFaults
<1>1. ASSUME NEW t \in Tasks, InsertTask(t) PROVE faults' \in 0 .. MaxFaults
  <2>1. PICK outcome : Transaction(outcome, "create_rollback", "create_unknown")
    BY <1>1 DEF InsertTask
  <2> QED
    BY <2>1, FaultsTyped DEF Transaction
<1>2. ASSUME NEW t \in Tasks, PublishLost(t) PROVE faults' \in 0 .. MaxFaults
  BY <1>2, FaultsTyped DEF PublishLost
<1>3. ASSUME NEW t \in Tasks, RequestStep(t) PROVE faults' \in 0 .. MaxFaults
  BY <1>3, FaultsTyped DEF RequestStep, PublishTask, PublishRefused, Respond, NoFault, poolVars
<1>4. ASSUME ApiStart PROVE faults' \in 0 .. MaxFaults
  BY <1>4, FaultsTyped DEF ApiStart, NoFault, poolVars
<1>5. ASSUME ApiCrash \/ ApiDisconnect PROVE faults' \in 0 .. MaxFaults
  BY <1>5, FaultsTyped DEF ApiCrash, ApiDisconnect
<1> QED
  BY <1>1, <1>2, <1>3, <1>4, <1>5 DEF Next, PoolNext, vars

LEMMA StepPoolTyped ==
    ASSUME TypeOK, [Next]_vars
    PROVE  TypeOK'
<1> USE DEF TypeOK
<1>1. CASE [PoolNext]_poolVars
  BY <1>1, StepTyped
<1>2. ASSUME NEW t \in Tasks, Inserts(t), faults' \in 0 .. MaxFaults PROVE TypeOK'
  <2>1. Pending \in Rows
    BY DEF Pending, Rows, Statuses, Results, Errors
  <2> QED
    BY <1>2, <2>1 DEF Inserts
<1>3. ASSUME NEW t \in Tasks, Publishes(t) PROVE TypeOK'
  BY <1>3 DEF Publishes, NewMessage, Messages
<1>4. ASSUME OnlyFaults, faults' \in 0 .. MaxFaults PROVE TypeOK'
  BY <1>4 DEF OnlyFaults
<1>5. [PoolNext]_poolVars \/ faults' \in 0 .. MaxFaults
  BY StepFaults
<1> QED
  BY <1>1, <1>2, <1>3, <1>4, <1>5, StepKinds

LEMMA InitTyped == Init => OrchestratorTypeOK
<1>1. ASSUME Init PROVE /\ tasks \in [Tasks -> Rows]
                        /\ pc \in [Workers -> Location]
                        /\ \A w \in Workers : pc[w] \in Holding <=> msg[w] # NoMsg
  BY <1>1, Labels DEF Init, Absent, Rows, Results, Errors
<1>2. ASSUME Init PROVE TypeOK
  <2>1. /\ ready \subseteq Messages /\ conn \subseteq Procs
        /\ published \in [Tasks -> Nat] /\ runs \in [Tasks -> Nat]
        /\ faults \in 0 .. MaxFaults
    BY <1>2 DEF Init
  <2>3. declared \in BOOLEAN
    BY <1>2, FreshBrokerAssumption DEF Init, FreshBrokerAssumption
  <2>2. msg \in [Workers -> Messages \cup {NoMsg}]
    BY <1>2 DEF Init
  <2> QED
    BY <1>1, <1>2, <2>1, <2>2, <2>3 DEF Init, TypeOK
<1>3. ASSUME Init PROVE req \in [Tasks -> Requests]
  BY <1>3 DEF Init, Requests
<1> QED
  BY <1>2, <1>3 DEF Init, OrchestratorTypeOK

LEMMA StepApiTyped ==
    ASSUME OrchestratorTypeOK, [Next]_vars
    PROVE  OrchestratorTypeOK'
<1>1. TypeOK'
  BY StepPoolTyped DEF OrchestratorTypeOK
<1> DEFINE Typed == /\ apiUp \in BOOLEAN
                    /\ apiConn \in BOOLEAN
                    /\ apiConn => apiUp
                    /\ req \in [Tasks -> Requests]
<1> USE DEF OrchestratorTypeOK
<1>2. ASSUME NEW t \in Tasks, InsertTask(t) PROVE Typed'
  <2>1. req' = [req EXCEPT ![t] = "error"] \/ req' = [req EXCEPT ![t] = "inserted"]
    BY <1>2 DEF InsertTask, Answer
  <2> QED
    BY <1>2, <2>1 DEF InsertTask, Requests
<1>3. ASSUME NEW t \in Tasks, PublishLost(t) PROVE Typed'
  BY <1>3 DEF PublishLost, Answer, Requests
<1>4. ASSUME NEW t \in Tasks, RequestStep(t) PROVE Typed'
  BY <1>4 DEF RequestStep, PublishTask, PublishRefused, Respond, Answer, Requests
<1>5. ASSUME ApiStart PROVE Typed'
  BY <1>5 DEF ApiStart
<1>6. ASSUME ApiCrash \/ ApiDisconnect PROVE Typed'
  BY <1>6 DEF ApiCrash, ApiDisconnect, Requests
<1>7. ASSUME UNCHANGED apiVars PROVE Typed'
  BY <1>7 DEF apiVars
<1>8. ASSUME BrokerRestart, apiConn' = FALSE, UNCHANGED <<apiUp, req>> PROVE Typed'
  BY <1>8
<1>9. Typed'
  BY <1>2, <1>3, <1>4, <1>5, <1>6, <1>7, <1>8 DEF Next, vars
<1> QED
  BY <1>1, <1>9

\* The variables of the composition keep their types, and the API has a
\* connection only while its process runs (cmd/api/main.go:34-62).
THEOREM OrchestratorTypeCorrect == Spec => []OrchestratorTypeOK
  BY InitTyped, StepApiTyped, PTL DEF Spec

LEMMA PoolTypeCorrect == Spec => []TypeOK
<1>1. OrchestratorTypeOK => TypeOK
  BY DEF OrchestratorTypeOK
<1> QED
  BY <1>1, OrchestratorTypeCorrect, PTL

-----------------------------------------------------------------------------
(* Before its publication a task is at most a PENDING row *)

Quiet(t) ==
    /\ runs[t] = 0 /\ published[t] = 0
    /\ tasks[t].status \in {"ABSENT", "PENDING"}
    /\ \A m \in ready : m.task # t
    /\ \A w \in Workers : pc[w] \in Holding => msg[w].task # t

Requested ==
    \A t \in Tasks :
        /\ req[t] \in {"none", "inserted", "error"} => Quiet(t)
        /\ req[t] = "none" => tasks[t].status = "ABSENT"
        /\ req[t] \in {"inserted", "published", "created"} => Exists(tasks, t)

\* The pool leaves alone what no message names.
LEMMA StepQuiet ==
    ASSUME TypeOK, [PoolNext]_poolVars, NEW t \in Tasks, Quiet(t)
    PROVE  tasks'[t] = tasks[t] /\ Quiet(t)'
<1> USE Labels DEF Quiet
<1>0. CASE UNCHANGED poolVars
  BY <1>0 DEF poolVars
<1>1. ASSUME NEW w \in Workers,
             StartWorker(w) \/ RejectPayload(w) \/ RepublishError(w) \/ Settle(w)
      PROVE  tasks'[t] = tasks[t] /\ Quiet(t)'
  BY <1>1 DEF StartWorker, RejectPayload, RepublishError, Settle, NextIteration, GoTo, TypeOK
<1>2. ASSUME NEW w \in Workers, Deliver(w) \/ Requeue(w)
      PROVE  tasks'[t] = tasks[t] /\ Quiet(t)'
  BY <1>2 DEF Deliver, Requeue, NextIteration, TypeOK
<1>3. ASSUME NEW w \in Workers, BeginTask(w) \/ CompleteTask(w) \/ GiveUp(w)
      PROVE  tasks'[t] = tasks[t] /\ Quiet(t)'
  <2>1. /\ runs' = runs /\ published' = published /\ ready' = ready /\ msg' = msg
        /\ pc[w] \in Holding
        /\ \A v \in Workers : v # w => pc'[v] = pc[v]
    BY <1>3 DEF BeginTask, CompleteTask, GiveUp, GoTo, TypeOK
  <2>2. msg[w].task # t
    BY <2>1
  <2>3. tasks'[t] = tasks[t]
    BY <1>3, <2>2, BeginTaskWrites, CompleteTaskWrites, GiveUpWrites
  <2> QED
    BY <2>1, <2>2, <2>3
<1>4. ASSUME NEW w \in Workers, HandleTask(w) PROVE tasks'[t] = tasks[t] /\ Quiet(t)'
  BY <1>4, HoldsMessage DEF HandleTask, GoTo, TypeOK
<1>5. ASSUME NEW w \in Workers, Republish(w) PROVE tasks'[t] = tasks[t] /\ Quiet(t)'
  BY <1>5, HoldsMessage DEF Republish, NewMessage, GoTo, TypeOK
<1>6. ASSUME NEW p \in Procs, StartProcess(p) \/ Exit(p) \/ Disconnect(p)
      PROVE  tasks'[t] = tasks[t] /\ Quiet(t)'
  BY <1>6 DEF StartProcess, Exit, Disconnect, CloseConnections, Unacked, WorkersOf, TypeOK
<1>7. CASE BrokerRestart
  BY <1>7 DEF BrokerRestart, CloseConnections, TypeOK
<1>8. \A w \in Workers : ProcOf[w] \in Procs
  OBVIOUS
<1> QED
  BY <1>0, <1>1, <1>2, <1>3, <1>4, <1>5, <1>6, <1>7, <1>8
  DEF PoolNext, WorkerStep, ProcessStep, StartWorkerFatal, ProcessCrash, AllAsleep

\* No step of the system takes a row away.
LEMMA RowsRemain ==
    ASSUME TypeOK, [Next]_vars, NEW t \in Tasks, Exists(tasks, t)
    PROVE  Exists(tasks', t)
<1>1. ASSUME NEW s \in Tasks, Inserts(s) PROVE Exists(tasks', t)
  BY <1>1 DEF Inserts, Exists, Pending, TypeOK
<1> QED
  BY <1>1, StepKinds, RowsStay DEF OnlyFaults, Publishes, Exists

\* A task stays quiet unless it is published, and its row unless it is inserted.
LEMMA StaysQuiet ==
    ASSUME TypeOK, [Next]_vars, NEW t \in Tasks, Quiet(t), ~Publishes(t)
    PROVE  Quiet(t)' /\ (tasks'[t] = tasks[t] \/ Inserts(t))
<1>1. CASE [PoolNext]_poolVars
  BY <1>1, StepQuiet
<1>2. CASE OnlyFaults
  BY <1>2 DEF OnlyFaults, Quiet
<1>3. ASSUME NEW s \in Tasks, Inserts(s)
      PROVE  Quiet(t)' /\ (tasks'[t] = tasks[t] \/ Inserts(t))
  BY <1>3 DEF Inserts, Quiet, Pending, TypeOK
<1>4. ASSUME NEW s \in Tasks, Publishes(s), s # t PROVE Quiet(t)' /\ tasks'[t] = tasks[t]
  BY <1>4 DEF Publishes, NewMessage, Quiet, TypeOK
<1> QED
  BY <1>1, <1>2, <1>3, <1>4, StepKinds

LEMMA StepRequested ==
    ASSUME OrchestratorTypeOK, Requested, [Next]_vars
    PROVE  Requested'
<1>1. TypeOK /\ req \in [Tasks -> Requests]
  BY DEF OrchestratorTypeOK
<1> SUFFICES ASSUME NEW t \in Tasks
             PROVE  /\ req'[t] \in {"none", "inserted", "error"} => Quiet(t)'
                    /\ req'[t] = "none" => tasks'[t].status = "ABSENT"
                    /\ req'[t] \in {"inserted", "published", "created"} => Exists(tasks', t)
  BY DEF Requested, Exists
<1>2. CASE Inserts(t)
  <2>1. Quiet(t) /\ ~Publishes(t)
    BY <1>2 DEF Requested, Inserts, Publishes
  <2>2. Quiet(t)'
    BY <1>1, <2>1, StaysQuiet
  <2>3. req'[t] = "error" \/ (req'[t] = "inserted" /\ tasks'[t] = Pending)
    BY <1>1, <1>2 DEF Inserts, TypeOK
  <2> QED
    BY <2>2, <2>3 DEF Exists, Pending
<1>3. CASE ~Inserts(t)
  <2>1. req'[t] \in {"none", "inserted", "error"} => req[t] \in {"none", "inserted", "error"}
    BY <1>1, <1>3, RequestMoves
  <2>2. ASSUME req'[t] \in {"none", "inserted", "error"}
        PROVE  Quiet(t)' /\ tasks'[t] = tasks[t]
    <3>1. Quiet(t)
      BY <2>1, <2>2 DEF Requested
    <3>2. ~Publishes(t)
      BY <1>1, <2>2 DEF Publishes
    <3> QED
      BY <1>1, <1>3, <3>1, <3>2, StaysQuiet
  <2>3. req'[t] = "none" => req[t] = "none"
    BY <1>1, <1>3, RequestMoves
  <2>4. req'[t] \in {"inserted", "published", "created"} => Exists(tasks, t)
    BY <1>1, <1>3, RequestMoves DEF Requested
  <2> QED
    BY <1>1, <2>2, <2>3, <2>4, RowsRemain DEF Requested
<1> QED
  BY <1>2, <1>3

LEMMA RequestsAreTracked == Spec => []Requested
<1>1. ASSUME Init PROVE Requested
  <2>1. ASSUME NEW t \in Tasks PROVE Quiet(t) /\ req[t] = "none" /\ tasks[t].status = "ABSENT"
    BY <1>1, Labels DEF Init, Quiet, Absent
  <2> QED
    BY <2>1 DEF Requested
<1> QED
  BY <1>1, StepRequested, OrchestratorTypeCorrect, PTL DEF Spec

\* A request answered with a 500 never runs (service.go:53,59): what it leaves
\* behind is at most a row that stays PENDING.
THEOREM ErrorsDoNotRun == Spec => []ErrorMeansNotRun
<1>1. TypeOK /\ Requested => ErrorMeansNotRun
  BY Labels DEF Requested, Quiet, ErrorMeansNotRun, Covered, CoveredBy
<1> QED
  BY <1>1, RequestsAreTracked, PoolTypeCorrect, PTL

-----------------------------------------------------------------------------
(* What the pool promises holds in the whole system *)

LEMMA StepAllHaveRows ==
    ASSUME TypeOK, Requested, MessagesHaveRows, [Next]_vars
    PROVE  MessagesHaveRows'
<1>1. CASE [PoolNext]_poolVars
  BY <1>1, StepHaveRows
<1>2. ASSUME NEW t \in Tasks, Inserts(t) PROVE MessagesHaveRows'
  BY <1>2, RowsRemain DEF Inserts, MessagesHaveRows, Exists, TypeOK, Messages
<1>3. ASSUME NEW t \in Tasks, Publishes(t) PROVE MessagesHaveRows'
  <2>1. Exists(tasks, t)
    BY <1>3 DEF Publishes, Requested
  <2> QED
    BY <1>3, <2>1 DEF Publishes, NewMessage, MessagesHaveRows, Exists
<1>4. CASE OnlyFaults
  BY <1>4 DEF OnlyFaults, MessagesHaveRows, Exists
<1> QED
  BY <1>1, <1>2, <1>3, <1>4, StepKinds

\* No message without its row (service.go:45-62): the transaction that inserts
\* the row is committed before the message is published.
THEOREM AllMessagesHaveRows == Spec => []MessagesHaveRows
<1>1. Init => MessagesHaveRows
  BY DEF Init, MessagesHaveRows
<1> QED
  BY <1>1, StepAllHaveRows, PoolTypeCorrect, RequestsAreTracked, PTL DEF Spec

LEMMA StepAllEarned ==
    ASSUME TypeOK, Requested, RunsTracked, OutcomeEarned, [Next]_vars
    PROVE  RunsTracked' /\ OutcomeEarned'
<1>1. CASE [PoolNext]_poolVars
  BY <1>1, StepTracked, StepEarned
<1>2. ASSUME NEW t \in Tasks, Inserts(t) PROVE RunsTracked' /\ OutcomeEarned'
  <2>1. runs' = runs
    BY <1>2 DEF Inserts
  <2>2. \A s \in Tasks : \/ tasks'[s] = tasks[s]
                         \/ tasks'[s].status = "PENDING" /\ tasks'[s].error = "NULL"
    BY <1>2 DEF Inserts, TypeOK, Pending
  <2>3. OutcomeEarned'
    BY <2>1, <2>2 DEF OutcomeEarned, Terminal, HandlerFails
  <2> QED
    BY <1>2, <2>3 DEF Inserts, RunsTracked
<1>3. ASSUME NEW t \in Tasks, Publishes(t) PROVE RunsTracked' /\ OutcomeEarned'
  <2>1. \A m \in ready' : runs'[m.task] >= m.retry
    BY <1>3 DEF Publishes, NewMessage, RunsTracked, TypeOK
  <2>2. RunsTracked'
    BY <1>3, <2>1 DEF Publishes, RunsTracked
  <2> QED
    BY <1>3, <2>2 DEF Publishes, OutcomeEarned, Terminal
<1>4. CASE OnlyFaults
  BY <1>4 DEF OnlyFaults, RunsTracked, OutcomeEarned, Terminal
<1> QED
  BY <1>1, <1>2, <1>3, <1>4, StepKinds

\* Final rows are earned (worker.go:106-127) in the whole system, from an empty
\* table on.
THEOREM AllOutcomesAreEarned == Spec => []OutcomeEarned
<1>1. Init => RunsTracked
  BY Labels DEF Init, RunsTracked, AfterRun
<1>2. ASSUME Init, NEW t \in Tasks PROVE tasks[t].status = "ABSENT" /\ tasks[t].error = "NULL"
  BY <1>2 DEF Init, Absent
<1>3. Init => OutcomeEarned
  BY <1>2 DEF OutcomeEarned, Terminal
<1> QED
  BY <1>1, <1>3, StepAllEarned, PoolTypeCorrect, RequestsAreTracked, PTL DEF Spec

-----------------------------------------------------------------------------
(* Nothing accepted is lost *)

\* The cover of a task outside the API's steps: nobody is taken off the job.
LEMMA CoverStays ==
    ASSUME NEW t \in Tasks, Covered(t), ready \subseteq ready', UNCHANGED <<conn, pc, msg>>
    PROVE  Covered(t)'
  BY DEF Covered, CoveredBy, Connected

LEMMA StepAllCovered ==
    ASSUME TypeOK, Requested, MessagesHaveRows, NoGhosts, TasksCovered,
           Faults \cap LossyFaults = {}, [Next]_vars
    PROVE  NoGhosts' /\ TasksCovered'
<1>1. CASE [PoolNext]_poolVars
  BY <1>1, StepNoGhosts, StepCovered
<1>2. CASE ~[PoolNext]_poolVars
  <2>1. UNCHANGED <<conn, pc, msg>> /\ ready \subseteq ready'
    BY <1>2, StepKinds DEF Inserts, Publishes, OnlyFaults
  <2>2. NoGhosts'
    BY <2>1 DEF NoGhosts, Connected
  <2>3. ASSUME NEW t \in Tasks, published'[t] > 0, Parses(t)
        PROVE  Terminal(tasks', t) \/ Covered(t)'
    <3>1. CASE published[t] > 0
      <4>1. Terminal(tasks, t) \/ Covered(t)
        BY <2>3, <3>1 DEF TasksCovered
      <4>2. ASSUME Terminal(tasks, t) PROVE Terminal(tasks', t)
        <5>1. ASSUME NEW s \in Tasks, Inserts(s) PROVE s # t
          BY <5>1, <3>1 DEF Inserts, Requested, Quiet
        <5> QED
          BY <1>2, <4>2, <5>1, StepKinds DEF Inserts, Publishes, OnlyFaults, Terminal, TypeOK
      <4> QED
        BY <2>1, <4>1, <4>2, CoverStays
    <3>2. CASE ~(published[t] > 0)
      <4>1. Publishes(t)
        <5>1. ASSUME NEW s \in Tasks, Publishes(s), s # t PROVE published'[t] = published[t]
          BY <5>1 DEF Publishes, TypeOK
        <5>2. published'[t] # published[t]
          BY <2>3, <3>2
        <5> QED
          BY <1>2, <5>1, <5>2, StepKinds DEF Inserts, OnlyFaults
      <4>2. NewMessage(t, 0) \in ready' /\ NewMessage(t, 0).task = t
        BY <4>1 DEF Publishes, NewMessage
      <4> QED
        BY <4>2 DEF Covered
    <3> QED
      BY <3>1, <3>2
  <2>4. TasksCovered'
    BY <2>3 DEF TasksCovered, Terminal, Parses
  <2> QED
    BY <2>2, <2>4
<1> QED
  BY <1>1, <1>2

LEMMA AllTasksCovered ==
    ASSUME Faults \cap LossyFaults = {}
    PROVE  Spec => []TasksCovered
<1>1. Init => NoGhosts /\ TasksCovered
  BY DEF Init, NoGhosts, TasksCovered
<1>2. TypeOK /\ Requested /\ MessagesHaveRows /\ NoGhosts /\ TasksCovered /\ [Next]_vars
      => NoGhosts' /\ TasksCovered'
  BY StepAllCovered
<1> QED
  BY <1>1, <1>2, PoolTypeCorrect, RequestsAreTracked, AllMessagesHaveRows, PTL DEF Spec

\* No published task whose payload parses is lost (worker.go:67-148), with the
\* API's crashes, failing inserts and lost publications among the faults.
THEOREM NoPublishedTaskLost == Spec => []NoTaskLost
<1>1. CASE Faults \cap LossyFaults = {}
  <2>1. TasksCovered => NoTaskLost
    BY DEF TasksCovered, NoTaskLost
  <2> QED
    BY <1>1, <2>1, AllTasksCovered, PTL
<1>2. CASE Faults \cap LossyFaults # {}
  <2>1. NoTaskLost
    BY <1>2 DEF NoTaskLost
  <2> QED
    BY <2>1, PTL
<1> QED
  BY <1>1, <1>2

\* The queue exists, and a request that got beyond its publication has made one.
AcceptedPublished ==
    /\ declared
    /\ \A t \in Tasks : req[t] \in {"published", "created"} => published[t] > 0

\* Publications are never taken back.
LEMMA PublishedGrows ==
    ASSUME TypeOK, [Next]_vars, NEW t \in Tasks
    PROVE  published'[t] >= published[t] /\ published'[t] \in Nat
<1>1. ASSUME UNCHANGED published PROVE published'[t] >= published[t]
  BY <1>1 DEF TypeOK
<1>2. ASSUME NEW w \in Workers, Republish(w) PROVE published'[t] >= published[t]
  <2>1. msg[w].task \in Tasks
    BY <1>2, HoldsMessage, Labels DEF Republish
  <2>2. published' = [published EXCEPT ![msg[w].task] = published[msg[w].task] + 1]
    BY <1>2 DEF Republish, NewMessage
  <2> QED
    BY <2>1, <2>2 DEF TypeOK
<1>3. ASSUME NEW s \in Tasks, Publishes(s) PROVE published'[t] >= published[t]
  BY <1>3 DEF Publishes, TypeOK
<1>4. ASSUME NEW w \in Workers, WorkerStep(w), ~Republish(w) PROVE UNCHANGED published
  BY <1>4 DEF WorkerStep, StartWorker, StartWorkerFatal, Deliver, RejectPayload, BeginTask,
              Requeue, HandleTask, CompleteTask, GiveUp, RepublishError, Settle, Exit
<1>5. ASSUME NEW p \in Procs, ProcessStep(p) PROVE UNCHANGED published
  BY <1>5 DEF ProcessStep, StartProcess, AllAsleep, ProcessCrash, Disconnect, Exit
<1>6. ASSUME [PoolNext]_poolVars PROVE published'[t] >= published[t]
  BY <1>1, <1>2, <1>4, <1>5, <1>6 DEF PoolNext, poolVars, BrokerRestart
<1>7. published'[t] >= published[t]
  BY <1>1, <1>3, <1>6, StepKinds DEF Inserts, OnlyFaults
<1> QED
  BY <1>7, StepPoolTyped DEF TypeOK

\* Once declared the durable queue stays.
LEMMA QueueStays ==
    ASSUME [Next]_vars, declared
    PROVE  declared'
<1>1. ASSUME NEW w \in Workers, WorkerStep(w) PROVE UNCHANGED declared
  BY <1>1 DEF WorkerStep, StartWorker, StartWorkerFatal, Deliver, RejectPayload, BeginTask,
              Requeue, HandleTask, CompleteTask, GiveUp, Republish, RepublishError, Settle, Exit
<1>2. ASSUME NEW p \in Procs, ProcessStep(p) PROVE UNCHANGED declared \/ declared'
  BY <1>2 DEF ProcessStep, StartProcess, AllAsleep, ProcessCrash, Disconnect, Exit
<1> QED
  BY <1>1, <1>2, StepKinds DEF PoolNext, poolVars, BrokerRestart, Inserts, Publishes, OnlyFaults

\* A request gets beyond its publication by making one, lost or not.
LEMMA PublicationMade ==
    ASSUME [Next]_vars, req \in [Tasks -> Requests], NEW t \in Tasks,
           req[t] = "inserted", req'[t] = "published"
    PROVE  PublishTask(t) \/ PublishLost(t)
<1>1. \A s \in Tasks : InsertTask(s) \/ Respond(s) => s # t
  BY DEF InsertTask, Respond
<1>2. ASSUME NEW s \in Tasks, s # t,
             InsertTask(s) \/ PublishTask(s) \/ PublishLost(s) \/ PublishRefused(s) \/ Respond(s)
      PROVE  req'[t] = req[t]
  BY <1>2 DEF InsertTask, PublishTask, PublishLost, PublishRefused, Respond, Answer
<1>3. ~PublishRefused(t)
  BY DEF PublishRefused, Answer
<1>4. ~ApiStart /\ ~ApiCrash /\ ~ApiDisconnect /\ ~UNCHANGED req
  BY DEF ApiStart, ApiCrash, ApiDisconnect, InProgress
<1> QED
  BY <1>1, <1>2, <1>3, <1>4 DEF Next, RequestStep, apiVars, vars

LEMMA StepAcceptedPublished ==
    ASSUME OrchestratorTypeOK, AcceptedPublished, "publish_lost" \notin Faults, [Next]_vars
    PROVE  AcceptedPublished'
<1>1. TypeOK /\ req \in [Tasks -> Requests]
  BY DEF OrchestratorTypeOK
<1>2. declared'
  BY QueueStays DEF AcceptedPublished
<1>3. ASSUME NEW t \in Tasks, req'[t] \in {"published", "created"}
      PROVE  published'[t] > 0
  <2>1. CASE req[t] \in {"published", "created"}
    <3>1. published[t] > 0 /\ published[t] \in Nat
      BY <1>1, <2>1 DEF AcceptedPublished, TypeOK
    <3> QED
      BY <1>1, <3>1, PublishedGrows
  <2>2. CASE req[t] \notin {"published", "created"}
    <3>1. ~Inserts(t)
      BY <1>1, <1>3 DEF Inserts
    <3>2. req[t] = "inserted" /\ req'[t] = "published"
      BY <1>1, <1>3, <2>2, <3>1, RequestMoves
    <3>3. PublishTask(t) \/ PublishLost(t)
      BY <1>1, <3>2, PublicationMade
    <3>4. published' = [published EXCEPT ![t] = published[t] + 1]
      BY <3>3 DEF PublishTask, PublishLost, Fault, AcceptedPublished
    <3> QED
      BY <1>1, <3>4 DEF TypeOK
  <2> QED
    BY <2>1, <2>2
<1> QED
  BY <1>2, <1>3 DEF AcceptedPublished

\* An accepted task is kept (controller.go:45-54): when the queue exists and no
\* message can be lost, a task answered with a 201 is finished or covered.
THEOREM AcceptedTasksAreKept == Spec => []AcceptedNotLost
<1>1. CASE Faults \cap (LossyFaults \cup {"publish_lost"}) = {} /\ ~FreshBroker
  <2>1. Faults \cap LossyFaults = {} /\ "publish_lost" \notin Faults
    BY <1>1
  <2>2. Init => AcceptedPublished
    BY <1>1 DEF Init, AcceptedPublished
  <2>3. OrchestratorTypeOK /\ AcceptedPublished /\ [Next]_vars => AcceptedPublished'
    BY <2>1, StepAcceptedPublished
  <2>4. TasksCovered /\ AcceptedPublished => AcceptedNotLost
    BY DEF TasksCovered, AcceptedPublished, AcceptedNotLost
  <2> QED
    BY <2>1, <2>2, <2>3, <2>4, OrchestratorTypeCorrect, AllTasksCovered, PTL DEF Spec
<1>2. CASE ~(Faults \cap (LossyFaults \cup {"publish_lost"}) = {} /\ ~FreshBroker)
  <2>1. AcceptedNotLost
    BY <1>2 DEF AcceptedNotLost
  <2> QED
    BY <2>1, PTL
<1> QED
  BY <1>1, <1>2

-----------------------------------------------------------------------------
(* One writer, bounded attempts, the status flow *)

LEMMA StepAllSingleCopy ==
    ASSUME TypeOK, Requested, SingleCopy, Faults \cap RedeliveryFaults = {}, [Next]_vars
    PROVE  SingleCopy'
<1>1. CASE [PoolNext]_poolVars
  BY <1>1, StepSingleCopy
<1>2. CASE OnlyFaults \/ \E t \in Tasks : Inserts(t)
  BY <1>2, FewerCopies DEF OnlyFaults, Inserts
<1>3. ASSUME NEW t \in Tasks, Publishes(t) PROVE SingleCopy'
  <2>1. \A m \in ready' : m \in ready \/ (m = NewMessage(t, 0) /\ m.task = t)
    BY <1>3 DEF Publishes, NewMessage
  <2>2. Quiet(t)
    BY <1>3 DEF Publishes, Requested
  <2>3. (\A w \in Workers : ~Live(w, t)) /\ \A m \in ready : m.task # t
    BY <2>2, Labels DEF Quiet, Live
  <2>4. UNCHANGED <<pc, msg>>
    BY <1>3 DEF Publishes
  <2> QED
    BY <2>1, <2>3, <2>4 DEF SingleCopy, Live
<1> QED
  BY <1>1, <1>2, <1>3, StepKinds

LEMMA AllCopiesAreSingle ==
    ASSUME Faults \cap RedeliveryFaults = {}
    PROVE  Spec => []SingleCopy
<1>1. Init => SingleCopy
  BY Labels DEF Init, SingleCopy, Live
<1>2. TypeOK /\ Requested /\ SingleCopy /\ [Next]_vars => SingleCopy'
  BY StepAllSingleCopy
<1> QED
  BY <1>1, <1>2, PoolTypeCorrect, RequestsAreTracked, PTL DEF Spec

\* One goroutine at a time may write the row of a task (worker.go:92-147) while
\* nothing is redelivered: the API publishes each task once.
THEOREM AllWritersAreAlone == Spec => []OneWriter
<1>1. CASE Faults \cap RedeliveryFaults = {}
  <2>1. SingleCopy => OneWriter
    BY DEF SingleCopy, OneWriter
  <2> QED
    BY <1>1, <2>1, AllCopiesAreSingle, PTL
<1>2. CASE Faults \cap RedeliveryFaults # {}
  <2>1. OneWriter
    BY <1>2 DEF OneWriter
  <2> QED
    BY <2>1, PTL
<1> QED
  BY <1>1, <1>2

LEMMA StepAllRunsExact ==
    ASSUME TypeOK, Requested, SingleCopy, RunsExact, Faults \cap RedeliveryFaults = {},
           [Next]_vars
    PROVE  RunsExact'
<1>1. CASE [PoolNext]_poolVars
  BY <1>1, StepRunsExact
<1>2. CASE OnlyFaults \/ \E t \in Tasks : Inserts(t)
  BY <1>2 DEF OnlyFaults, Inserts, RunsExact
<1>3. ASSUME NEW t \in Tasks, Publishes(t) PROVE RunsExact'
  <2>1. runs[t] = 0
    BY <1>3 DEF Publishes, Requested, Quiet
  <2>2. \A m \in ready' : runs[m.task] = m.retry /\ m.retry <= MaxRetries
    BY <1>3, <2>1 DEF Publishes, NewMessage, RunsExact
  <2> QED
    BY <1>3, <2>2 DEF Publishes, RunsExact
<1> QED
  BY <1>1, <1>2, <1>3, StepKinds

\* At most MaxRetries + 1 attempts of a task (worker.go:117) while nothing is
\* redelivered.
THEOREM AllAttemptsAreBounded == Spec => []AttemptsBounded
<1>1. CASE Faults \cap RedeliveryFaults = {}
  <2>1. Init => RunsExact
    BY DEF Init, RunsExact, BeforeRun, AfterRun
  <2>2. TypeOK /\ Requested /\ SingleCopy /\ RunsExact /\ [Next]_vars => RunsExact'
    BY <1>1, StepAllRunsExact
  <2>3. RunsExact => AttemptsBounded
    BY DEF RunsExact, AttemptsBounded
  <2> QED
    BY <1>1, <2>1, <2>2, <2>3, AllCopiesAreSingle, PoolTypeCorrect, RequestsAreTracked, PTL
    DEF Spec
<1>2. CASE Faults \cap RedeliveryFaults # {}
  <2>1. AttemptsBounded
    BY <1>2 DEF AttemptsBounded
  <2> QED
    BY <2>1, PTL
<1> QED
  BY <1>1, <1>2

LEMMA StepAllRowFollows ==
    ASSUME TypeOK, Requested, SingleCopy, MessagesHaveRows, RowFollows,
           Faults \cap FlowBreakingFaults = {}, [Next]_vars
    PROVE  RowFollows'
<1>1. CASE [PoolNext]_poolVars
  BY <1>1, StepRowFollows
<1>2. CASE OnlyFaults
  BY <1>2 DEF OnlyFaults, RowFollows
<1>3. ASSUME NEW t \in Tasks, Inserts(t) PROVE RowFollows'
  <2>1. Quiet(t)
    BY <1>3 DEF Inserts, Requested
  <2>2. \A s \in Tasks : s # t => tasks'[s] = tasks[s]
    BY <1>3 DEF Inserts, TypeOK
  <2>3. \A m \in ready : tasks'[m.task] = tasks[m.task]
    BY <2>1, <2>2 DEF Quiet, TypeOK, Messages
  <2>4. \A w \in Workers : pc[w] \in Holding => tasks'[msg[w].task] = tasks[msg[w].task]
    BY <2>1, <2>2, HoldsMessage DEF Quiet
  <2> QED
    BY <1>3, <2>3, <2>4, Labels DEF Inserts, RowFollows, AfterRun
<1>4. ASSUME NEW t \in Tasks, Publishes(t) PROVE RowFollows'
  <2>1. tasks[t].status = "PENDING"
    BY <1>4 DEF Publishes, Requested, Quiet, Exists
  <2> QED
    BY <1>4, <2>1 DEF Publishes, NewMessage, RowFollows
<1> QED
  BY <1>1, <1>2, <1>3, <1>4, StepKinds

\* The INSERT is the first move of a task.
LEMMA InsertAccepts ==
    ASSUME TypeOK, Requested, NEW t \in Tasks, Inserts(t), tasks' # tasks
    PROVE  Flow!Accept(t)
<1> DEFINE status == [s \in Tasks |-> tasks[s].status]
<1>1. tasks[t].status = "ABSENT" /\ tasks' = [tasks EXCEPT ![t] = Pending]
  BY DEF Inserts, Requested
<1>2. /\ status[t] = "ABSENT"
      /\ status' = [status EXCEPT ![t] = "PENDING"]
  BY <1>1 DEF TypeOK, Pending
<1> QED
  BY <1>2 DEF Flow!Accept, Flow!Move

LEMMA StepAllFollowsFlow ==
    ASSUME TypeOK, Requested, MessagesHaveRows, RowFollows,
           Faults \cap FlowBreakingFaults = {}, [Next]_vars
    PROVE  [Flow!FlowNext]_([t \in Tasks |-> tasks[t].status])
<1> DEFINE status == [t \in Tasks |-> tasks[t].status]
<1>1. CASE [PoolNext]_poolVars
  BY <1>1, StepFollowsFlow
<1>2. ASSUME tasks' = tasks PROVE status' = status
  BY <1>2
<1> QED
  BY <1>1, <1>2, InsertAccepts, StepKinds DEF OnlyFaults, Publishes, Flow!FlowNext

\* The system implements the documented status flow (README.md:336-339) while
\* no message is delivered twice and no failed transaction 2 has taken effect.
THEOREM SystemFollowsStatusFlow ==
    ASSUME Faults \cap FlowBreakingFaults = {}
    PROVE  Spec => FollowsStatusFlow
<1>1. Faults \cap RedeliveryFaults = {}
  BY DEF FlowBreakingFaults
<1>2. Init => Flow!FlowInit
  BY DEF Init, Flow!FlowInit, Absent
<1>3. Init => RowFollows
  BY Labels DEF Init, RowFollows, AfterRun
<1>4. TypeOK /\ Requested /\ SingleCopy /\ MessagesHaveRows /\ RowFollows /\ [Next]_vars
      => RowFollows'
  BY StepAllRowFollows
<1>5. TypeOK /\ Requested /\ MessagesHaveRows /\ RowFollows /\ [Next]_vars
      => [Flow!FlowNext]_([t \in Tasks |-> tasks[t].status])
  BY StepAllFollowsFlow
<1> QED
  BY <1>1, <1>2, <1>3, <1>4, <1>5, PoolTypeCorrect, RequestsAreTracked, AllMessagesHaveRows,
     AllCopiesAreSingle, PTL
  DEF Spec, FollowsStatusFlow, Flow!FlowSpec

-----------------------------------------------------------------------------
(* Under all faults *)

LEMMA StepAllRowsStarted ==
    ASSUME TypeOK, Requested, MessagesHaveRows, RowsStarted, [Next]_vars
    PROVE  RowsStarted'
<1>1. CASE [PoolNext]_poolVars
  BY <1>1, StepRowsStarted
<1>2. CASE OnlyFaults
  BY <1>2 DEF OnlyFaults, RowsStarted, Started
<1>3. ASSUME NEW t \in Tasks, Inserts(t) PROVE RowsStarted'
  <2>1. Quiet(t)
    BY <1>3 DEF Inserts, Requested
  <2>2. \A s \in Tasks : s # t => tasks'[s] = tasks[s]
    BY <1>3 DEF Inserts, TypeOK
  <2>3. \A w \in Workers : pc[w] \in Holding => tasks'[msg[w].task] = tasks[msg[w].task]
    BY <2>1, <2>2, HoldsMessage DEF Quiet
  <2> QED
    BY <1>3, <2>3, Labels DEF Inserts, RowsStarted, Started, AfterRun
<1>4. ASSUME NEW t \in Tasks, Publishes(t) PROVE RowsStarted'
  BY <1>4 DEF Publishes, RowsStarted, Started
<1> QED
  BY <1>1, <1>2, <1>3, <1>4, StepKinds

LEMMA StepAllFollowsRedelivery ==
    ASSUME TypeOK, Requested, RowsStarted, [Next]_vars
    PROVE  [Flow!RedeliveryNext]_([t \in Tasks |-> tasks[t].status])
<1>1. CASE [PoolNext]_poolVars
  BY <1>1, StepWorks DEF Flow!RedeliveryNext
<1>2. ASSUME tasks' = tasks PROVE UNCHANGED [t \in Tasks |-> tasks[t].status]
  BY <1>2
<1>3. ASSUME NEW t \in Tasks, Inserts(t), tasks' # tasks PROVE Flow!RedeliveryNext
  BY <1>3, InsertAccepts DEF Flow!RedeliveryNext
<1> QED
  BY <1>1, <1>2, <1>3, StepKinds DEF OnlyFaults, Publishes

\* With any faults of the API, the pool and the broker (service.go:45-62,
\* worker.go:92-147) a task that was accepted never disappears or waits again,
\* and has no outcome before it was started.
THEOREM SystemFollowsRedeliveryFlow == Spec => FollowsRedeliveryFlow
<1>1. Init => Flow!FlowInit
  BY DEF Init, Flow!FlowInit, Absent
<1>2. Init => RowsStarted
  BY Labels DEF Init, RowsStarted, AfterRun
<1>3. TypeOK /\ Requested /\ MessagesHaveRows /\ RowsStarted /\ [Next]_vars => RowsStarted'
  BY StepAllRowsStarted
<1>4. TypeOK /\ Requested /\ RowsStarted /\ [Next]_vars
      => [Flow!RedeliveryNext]_([t \in Tasks |-> tasks[t].status])
  BY StepAllFollowsRedelivery
<1> QED
  BY <1>1, <1>2, <1>3, <1>4, PoolTypeCorrect, RequestsAreTracked, AllMessagesHaveRows, PTL
  DEF Spec, FollowsRedeliveryFlow, Flow!RedeliverySpec

LEMMA StepAllCopies ==
    ASSUME TypeOK, CopiesInv, [Next]_vars
    PROVE  CopiesInv'
<1>1. CASE [PoolNext]_poolVars
  BY <1>1, StepCopies
<1>2. ASSUME NEW t \in Tasks, Publishes(t) PROVE CopiesInv'
  BY <1>2, PublishCopies DEF Publishes
<1>3. CASE OnlyFaults \/ \E t \in Tasks : Inserts(t)
  <2>1. UNCHANGED <<ready, published, conn, pc, msg>>
    BY <1>3 DEF OnlyFaults, Inserts
  <2> QED
    BY <2>1, CopiesKept DEF Owes, Connected
<1> QED
  BY <1>1, <1>2, <1>3, StepKinds

\* Each delivery is settled once (worker.go:67-148) while the API publishes
\* more tasks: the broker has at most one place for each publication.
THEOREM AllCopiesStayApart == Spec => []CopiesApart
<1>1. ASSUME Init PROVE CopiesInv
  BY <1>1, Labels DEF Init, CopiesInv, CopiesNumbered, CopiesApart, Owes
<1>2. CopiesInv => CopiesApart
  BY DEF CopiesInv
<1> QED
  BY <1>1, <1>2, StepAllCopies, PoolTypeCorrect, PTL DEF Spec
-----------------------------------------------------------------------------
(* The contract of POST /tasks *)

\* A final answer is the client's only one.
LEMMA AnswerTells ==
    ASSUME req \in [Tasks -> Requests], NEW t \in Tasks, Replied[t] = "none",
           NEW state \in {"created", "error"}, Answer(t, state)
    PROVE  Service!Tell(t, state)
<1>1. req'[t] = state /\ \A s \in Tasks : s # t => req'[s] = req[s]
  BY DEF Answer
<1>2. Replied'[t] = state /\ \A s \in Tasks : s # t => Replied'[s] = Replied[s]
  BY <1>1 DEF Replied, InProgress
<1>3. Replied' = [Replied EXCEPT ![t] = state]
  BY <1>2 DEF Replied
<1> QED
  BY <1>3 DEF Service!Tell

\* As long as a request is open, its client sees nothing of it.
LEMMA OpenTellsNothing ==
    ASSUME req \in [Tasks -> Requests], NEW t \in Tasks, Replied[t] = "none",
           Answer(t, "inserted") \/ Answer(t, "published")
    PROVE  Replied' = Replied
<1>1. /\ req'[t] \in {"inserted", "published"}
      /\ \A s \in Tasks : s # t => req'[s] = req[s]
  BY DEF Answer
<1> QED
  BY <1>1 DEF Replied, InProgress

\* A row is all a client can find before the answer, or after a 500.
LEMMA InsertServes ==
    ASSUME OrchestratorTypeOK, Requested, NEW t \in Tasks, InsertTask(t)
    PROVE  Service!ServiceNext
<1> DEFINE status == [s \in Tasks |-> tasks[s].status]
<1>1. TypeOK /\ req \in [Tasks -> Requests] /\ Inserts(t)
  BY DEF OrchestratorTypeOK, InsertTask, Inserts, WithTransaction, TxFailed, Create, Answer
<1>2. Replied[t] = "none" /\ status[t] = "ABSENT"
  BY <1>1 DEF Inserts, Requested, Replied, InProgress
<1>3. ASSUME tasks' = [tasks EXCEPT ![t] = Pending] PROVE Service!Accept(t)
  <2>1. status' = [status EXCEPT ![t] = "PENDING"]
    BY <1>1, <1>3 DEF TypeOK, Pending
  <2> QED
    BY <1>2, <2>1 DEF Service!Accept, Service!Move
<1>4. CASE Answer(t, "error")
  <2>1. Service!Tell(t, "error")
    BY <1>1, <1>2, <1>4, AnswerTells
  <2>2. tasks' = tasks \/ tasks' = [tasks EXCEPT ![t] = Pending]
    BY <1>1 DEF Inserts
  <2> QED
    BY <1>2, <1>3, <2>1, <2>2 DEF Service!Refuse, Service!ServiceNext
<1>5. CASE Answer(t, "inserted") /\ tasks' = [tasks EXCEPT ![t] = Pending]
  <2>1. Replied' = Replied
    BY <1>1, <1>2, <1>5, OpenTellsNothing
  <2> QED
    BY <1>2, <1>3, <1>5, <2>1 DEF Service!Insert, Service!ServiceNext
<1> QED
  BY <1>1, <1>4, <1>5 DEF Inserts, Answer

\* The rest of the request leaves the rows alone.
LEMMA AnswerServes ==
    ASSUME OrchestratorTypeOK, Requested, NEW s \in Tasks,
           \/ PublishTask(s) \/ PublishLost(s)
           \/ PublishRefused(s) \/ Respond(s)
    PROVE  [Service!ServiceNext]_<<[t \in Tasks |-> tasks[t].status], Replied>>
<1> DEFINE status == [t \in Tasks |-> tasks[t].status]
<1>1. tasks' = tasks
  BY DEF PublishTask, PublishLost, PublishRefused, Respond, poolVars
<1>2. /\ req \in [Tasks -> Requests]
      /\ Replied[s] = "none"
  BY DEF OrchestratorTypeOK, PublishTask, PublishLost, PublishRefused, Respond, Replied, InProgress
<1>3. CASE PublishTask(s) \/ PublishLost(s)
  <2>1. Answer(s, "published")
    BY <1>3 DEF PublishTask, PublishLost
  <2>2. Replied' = Replied
    BY <1>2, <2>1, OpenTellsNothing
  <2> QED
    BY <1>1, <2>2
<1>4. CASE PublishRefused(s)
  <2>1. status[s] \in {"ABSENT", "PENDING"}
    BY <1>4 DEF PublishRefused, Requested, Quiet
  <2>2. Service!Tell(s, "error")
    BY <1>2, <1>4, AnswerTells DEF PublishRefused
  <2> QED
    BY <1>1, <2>1, <2>2 DEF Service!Refuse, Service!ServiceNext
<1>5. CASE Respond(s)
  <2>1. status[s] # "ABSENT"
    BY <1>5 DEF Respond, Requested, Exists
  <2>2. Service!Tell(s, "created")
    BY <1>2, <1>5, AnswerTells DEF Respond
  <2> QED
    BY <1>1, <2>1, <2>2 DEF Service!Confirm, Service!ServiceNext
<1> QED
  BY <1>3, <1>4, <1>5

\* An open request has its row when the API goes away.
LEMMA ApiCrashServes ==
    ASSUME OrchestratorTypeOK, Requested, ApiCrash
    PROVE  Service!Abort
<1> DEFINE status == [s \in Tasks |-> tasks[s].status]
<1>1. tasks' = tasks /\ req \in [Tasks -> Requests] /\ req' \in [Tasks -> Requests]
  BY DEF ApiCrash, OrchestratorTypeOK, Requests
<1>2. \A t \in Tasks : req'[t] = IF InProgress(t) THEN "aborted" ELSE req[t]
  BY DEF ApiCrash
<1>3. ASSUME NEW t \in Tasks
      PROVE  /\ Replied'[t] \in Service!Replies
             /\ Replied'[t] # Replied[t] =>
                   Replied[t] = "none" /\ Replied'[t] = "aborted" /\ tasks[t].status # "ABSENT"
  BY <1>1, <1>2 DEF Replied, InProgress, Requests, Requested, Exists, Service!Replies
<1>4. Replied' \in [Tasks -> Service!Replies]
  BY <1>3 DEF Replied
<1> QED
  BY <1>1, <1>3, <1>4 DEF Service!Abort

\* The workers touch no task whose request failed.
LEMMA PoolServes ==
    ASSUME OrchestratorTypeOK, Requested, RowsStarted, [PoolNext]_poolVars, req' = req
    PROVE  [Service!ServiceNext]_<<[t \in Tasks |-> tasks[t].status], Replied>>
<1> DEFINE status == [s \in Tasks |-> tasks[s].status]
<1>1. TypeOK
  BY DEF OrchestratorTypeOK
<1>2. Replied' = Replied
  BY DEF Replied, InProgress
<1>3. CASE status' # status
  <2>1. PICK t \in Tasks : Flow!Work(t)
    BY <1>1, <1>3, StepWorks
  <2>2. tasks'[t].status # tasks[t].status
    <3>1. PICK from, to : Flow!Move(t, from, to)
      BY <2>1 DEF Flow!Work, Flow!Start, Flow!Finish, Flow!Restart, Flow!Overwrite
    <3> QED
      BY <1>3, <3>1 DEF Flow!Move
  <2>3. Replied[t] # "error"
    <3>1. ~Quiet(t)
      BY <1>1, <2>2, StepQuiet
    <3> QED
      BY <3>1 DEF Requested, Replied, InProgress
  <2>4. Service!Work(t)
    BY <2>1 DEF Flow!Work, Flow!Start, Flow!Finish, Flow!Restart, Flow!Overwrite, Flow!Move,
                Flow!Final, Service!Work, Service!Start, Service!Finish, Service!Restart,
                Service!Overwrite, Service!Move, Service!Final
  <2> QED
    BY <1>2, <2>3, <2>4 DEF Service!Process, Service!ServiceNext
<1> QED
  BY <1>2, <1>3

LEMMA StepServes ==
    ASSUME OrchestratorTypeOK, Requested, RowsStarted, [Next]_vars
    PROVE  [Service!ServiceNext]_<<[t \in Tasks |-> tasks[t].status], Replied>>
<1> DEFINE Served ==
       [Service!ServiceNext]_<<[t \in Tasks |-> tasks[t].status], Replied>>
<1>1. ASSUME NEW t \in Tasks, InsertTask(t) PROVE Served
  BY <1>1, InsertServes
<1>2. ASSUME NEW t \in Tasks, PublishLost(t) \/ RequestStep(t) PROVE Served
  BY <1>2, AnswerServes DEF RequestStep
<1>3. ASSUME ApiCrash PROVE Served
  BY <1>3, ApiCrashServes DEF Service!ServiceNext
<1>4. ASSUME ApiStart \/ ApiDisconnect PROVE Served
  <2>1. tasks' = tasks /\ req' = req
    BY <1>4 DEF ApiStart, ApiDisconnect, poolVars
  <2> QED
    BY <2>1 DEF Replied, InProgress
<1>5. ASSUME [PoolNext]_poolVars, req' = req PROVE Served
  BY <1>5, PoolServes
<1> QED
  BY <1>1, <1>2, <1>3, <1>4, <1>5 DEF Next, PoolNext, vars, apiVars

\* With any faults of API, workers and broker, POST /tasks keeps its contract
\* (controller.go:30-54, service.go:45-75): one answer to each request, no 201
\* before there is a row, no work before the row and none after a 500.
THEOREM SystemKeepsContract == Spec => KeepsContract
<1>1. ASSUME Init PROVE Service!ServiceInit
  BY <1>1 DEF Init, Service!ServiceInit, Absent, Replied, InProgress
<1>2. Init => RowsStarted
  BY Labels DEF Init, RowsStarted, AfterRun
<1>3. TypeOK /\ Requested /\ MessagesHaveRows /\ RowsStarted /\ [Next]_vars => RowsStarted'
  BY StepAllRowsStarted
<1>4. OrchestratorTypeOK /\ Requested /\ RowsStarted /\ [Next]_vars
      => [Service!ServiceNext]_<<[t \in Tasks |-> tasks[t].status], Replied>>
  BY StepServes
<1>5. OrchestratorTypeOK => TypeOK
  BY DEF OrchestratorTypeOK
<1> QED
  BY <1>1, <1>2, <1>3, <1>4, <1>5, OrchestratorTypeCorrect, RequestsAreTracked,
     AllMessagesHaveRows, PTL
  DEF Spec, KeepsContract, Service!ServiceSpec
=============================================================================
