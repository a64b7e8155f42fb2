---------------------------- MODULE StartupProofs ---------------------------
(***************************************************************************)
(* For any number of attempts and crashes: a process that serves reached   *)
(* all it needs.                                                           *)
(***************************************************************************)
EXTENDS Startup, TLAPS

USE StartupAssumption DEF Processes, Services

-----------------------------------------------------------------------------
\* The calls of main, one after the other.
LEMMA Order ==
    /\ NextStage["api"]["postgres"] = "redis" /\ NextStage["api"]["redis"] = "rabbitmq"
    /\ NextStage["api"]["rabbitmq"] = "handler" /\ NextStage["api"]["handler"] = "up"
    /\ NextStage["worker"]["postgres"] = "rabbitmq" /\ NextStage["worker"]["rabbitmq"] = "queue"
    /\ NextStage["worker"]["queue"] = "close" /\ NextStage["worker"]["close"] = "up"
    /\ Stages["api"] = {"down", "postgres", "redis", "rabbitmq", "handler", "up"}
    /\ Stages["worker"] = {"down", "postgres", "rabbitmq", "queue", "close", "up"}
    /\ Stages.api = Stages["api"] /\ Stages.worker = Stages["worker"]
    /\ Needs["api"] = Services /\ Needs["worker"] = {"postgres", "rabbitmq"}
<1>1. /\ DOMAIN NextStage.api = {"postgres", "redis", "rabbitmq", "handler"}
      /\ DOMAIN NextStage.worker = {"postgres", "rabbitmq", "queue", "close"}
  BY DEF NextStage
<1> QED
  BY <1>1 DEF NextStage, Stages, Needs

\* What process p has opened when it is at a stage.
OpenedAt(p, stage) ==
    IF stage \in {"down", "postgres"} THEN {}
    ELSE IF stage = "redis" THEN {"postgres"}
    ELSE IF stage = "rabbitmq" THEN Needs[p] \ {"rabbitmq"}
    ELSE Needs[p]

StartupInv ==
    /\ StartupTypeOK
    /\ \A p \in Processes : opened[p] = OpenedAt(p, at[p])
    /\ at["worker"] \in {"close", "up"} => declared

LEMMA StartupInitInv == StartupInit => StartupInv
<1> SUFFICES ASSUME StartupInit PROVE StartupInv
  OBVIOUS
<1>1. \A p \in Processes : "down" \in Stages[p] /\ "down" \in Stages.api
  BY Order
<1>2. StartupTypeOK
  <2>1. at \in [Processes -> Stages.api \cup Stages.worker] /\ \A p \in Processes : at[p] \in Stages[p]
    BY <1>1 DEF StartupInit
  <2>2. /\ attempt \in [Processes -> 0 .. Attempts] /\ failed \in [Processes -> BOOLEAN]
        /\ \A p \in Processes : failed[p] <=> attempt[p] > 0
    BY DEF StartupInit
  <2>3. opened \in [Processes -> SUBSET Services]
    <3>1. {} \in SUBSET Services
      OBVIOUS
    <3> QED
      BY <3>1 DEF StartupInit
  <2>4. live \subseteq Processes /\ running \subseteq Services /\ declared \in BOOLEAN
    BY Zenon DEF StartupInit
  <2>5. crashes \in 0 .. MaxCrashes
    <3>1. 0 \in 0 .. MaxCrashes
      OBVIOUS
    <3> QED
      BY <3>1, Zenon DEF StartupInit
  <2> QED
    BY <2>1, <2>2, <2>3, <2>4, <2>5 DEF StartupTypeOK
<1> QED
  BY <1>2 DEF StartupInit, StartupInv, OpenedAt

\* A process that goes on has opened what the stage it leaves was for.
LEMMA ProceedKeeps ==
    ASSUME StartupInv, NEW p \in Processes, Proceed(p),
           at[p] \notin {"down", "up"},
           \/ /\ at[p] \in {"postgres", "redis", "rabbitmq"}
              /\ opened' = [opened EXCEPT ![p] = @ \cup {at[p]}]
           \/ at[p] \in {"handler", "queue", "close"} /\ UNCHANGED opened,
           live' \subseteq Processes, UNCHANGED <<running, crashes>>,
           declared' \in BOOLEAN, declared => declared',
           at[p] = "queue" => declared'
    PROVE  StartupInv'
<1>1. /\ at \in [Processes -> Stages.api \cup Stages.worker]
      /\ \A q \in Processes : at[q] \in Stages[q]
      /\ attempt \in [Processes -> 0 .. Attempts] /\ failed \in [Processes -> BOOLEAN]
      /\ \A q \in Processes : failed[q] <=> attempt[q] > 0
      /\ opened \in [Processes -> SUBSET Services]
  BY DEF StartupInv, StartupTypeOK
<1> DEFINE next == NextStage[p][at[p]]
<1>2. /\ next \in Stages[p] /\ next # "down"
      /\ next = "up" => at[p] \in {"handler", "close"}
      /\ next = "close" => at[p] = "queue"
  BY <1>1, Order
<1>3. next \in Stages.api \cup Stages.worker
  BY <1>2, Order
<1>4. OpenedAt(p, next) = OpenedAt(p, at[p]) \cup ({at[p]} \cap Services)
  <2>1. CASE p = "api"
    <3>1. CASE at[p] = "postgres"
      BY <2>1, <3>1, Order DEF OpenedAt
    <3>2. CASE at[p] = "redis"
      BY <2>1, <3>2, Order DEF OpenedAt
    <3>3. CASE at[p] = "rabbitmq"
      BY <2>1, <3>3, Order DEF OpenedAt
    <3>4. CASE at[p] = "handler"
      BY <2>1, <3>4, Order DEF OpenedAt
    <3> QED
      BY <1>1, <2>1, <3>1, <3>2, <3>3, <3>4, Order
  <2>2. CASE p = "worker"
    <3>1. at[p] \in {"postgres", "rabbitmq", "queue", "close"}
      BY <1>1, <2>2, Order
    <3> QED
      BY <2>2, <3>1, Order DEF OpenedAt
  <2> QED
    BY <2>1, <2>2
<1> HIDE DEF next
<1>5. at' \in [Processes -> Stages.api \cup Stages.worker]
      /\ \A q \in Processes : at'[q] = IF q = p THEN next ELSE at[q]
  BY <1>1, <1>3 DEF Proceed, next
<1>6. /\ attempt' \in [Processes -> 0 .. Attempts] /\ failed' \in [Processes -> BOOLEAN]
      /\ \A q \in Processes : failed'[q] <=> attempt'[q] > 0
  BY <1>1 DEF Proceed
<1>7. opened' \in [Processes -> SUBSET Services]
      /\ \A q \in Processes :
            opened'[q] = IF q = p THEN opened[q] \cup ({at[p]} \cap Services) ELSE opened[q]
  <2> DEFINE new == {at[p]} \cap Services
  <2>1. opened' = [opened EXCEPT ![p] = opened[p] \cup new]
    <3>1. CASE at[p] \in {"postgres", "redis", "rabbitmq"}
      BY <3>1
    <3>2. CASE at[p] \in {"handler", "queue", "close"}
      BY <1>1, <3>2
    <3> QED
      BY <3>1, <3>2
  <2>2. opened[p] \cup new \in SUBSET Services
    BY <1>1
  <2> QED
    BY <1>1, <2>1, <2>2
<1>8. StartupTypeOK'
  <2>1. \A q \in Processes : at'[q] \in Stages[q]
    BY <1>1, <1>2, <1>5
  <2> QED
    BY <1>5, <1>6, <1>7, <2>1 DEF StartupInv, StartupTypeOK
<1>9. ASSUME NEW q \in Processes PROVE opened'[q] = OpenedAt(q, at'[q])
  BY <1>4, <1>5, <1>7 DEF StartupInv
<1>10. at'["worker"] \in {"close", "up"} => declared'
  <2>1. CASE p = "worker"
    <3>1. at'["worker"] = next
      BY <1>5, <2>1
    <3>2. CASE next = "close"
      BY <1>2, <3>2
    <3>3. CASE next = "up"
      <4>1. at["worker"] = "close" \/ at["worker"] = "handler"
        BY <1>2, <2>1, <3>3
      <4>2. at["worker"] # "handler"
        BY <1>1, <2>1, Order
      <4> QED
        BY <4>1, <4>2 DEF StartupInv
    <3> QED
      BY <3>1, <3>2, <3>3
  <2>2. CASE p # "worker"
    BY <1>5, <2>2 DEF StartupInv
  <2> QED
    BY <2>1, <2>2
<1> QED
  BY <1>8, <1>9, <1>10 DEF StartupInv, OpenedAt

\* A process that ends, or that starts from nothing.
LEMMA LeaveKeeps ==
    ASSUME StartupInv, NEW p \in Processes, NEW s \in {"down", "postgres"},
           at' = [at EXCEPT ![p] = s], opened' = [opened EXCEPT ![p] = {}],
           attempt' = [attempt EXCEPT ![p] = 0], failed' = [failed EXCEPT ![p] = FALSE],
           live' \subseteq Processes, UNCHANGED <<running, declared>>,
           crashes' \in 0 .. MaxCrashes
    PROVE  StartupInv'
<1>1. /\ at \in [Processes -> Stages.api \cup Stages.worker]
      /\ \A q \in Processes : at[q] \in Stages[q]
      /\ attempt \in [Processes -> 0 .. Attempts] /\ failed \in [Processes -> BOOLEAN]
      /\ \A q \in Processes : failed[q] <=> attempt[q] > 0
      /\ opened \in [Processes -> SUBSET Services]
  BY DEF StartupInv, StartupTypeOK
<1>2. s \in Stages[p] /\ s \in Stages.api
  BY Order
<1>3. /\ at' \in [Processes -> Stages.api \cup Stages.worker]
      /\ \A q \in Processes : at'[q] = IF q = p THEN s ELSE at[q]
  BY <1>1, <1>2
<1>4. /\ attempt' \in [Processes -> 0 .. Attempts] /\ failed' \in [Processes -> BOOLEAN]
      /\ \A q \in Processes : failed'[q] <=> attempt'[q] > 0
  BY <1>1
<1>5. /\ opened' \in [Processes -> SUBSET Services]
      /\ \A q \in Processes : opened'[q] = IF q = p THEN {} ELSE opened[q]
  BY <1>1
<1>6. StartupTypeOK'
  BY <1>1, <1>2, <1>3, <1>4, <1>5 DEF StartupInv, StartupTypeOK
<1>7. ASSUME NEW q \in Processes PROVE opened'[q] = OpenedAt(q, at'[q])
  BY <1>3, <1>5 DEF StartupInv, OpenedAt
<1>8. at'["worker"] \in {"close", "up"} => declared'
  BY <1>3 DEF StartupInv
<1> QED
  BY <1>6, <1>7, <1>8 DEF StartupInv, OpenedAt

LEMMA MainKeeps ==
    ASSUME StartupInv, NEW p \in Processes, Main(p)
    PROVE  StartupInv'
<1>1. /\ live \subseteq Processes /\ declared \in BOOLEAN /\ crashes \in 0 .. MaxCrashes
      /\ at[p] \in Stages[p] /\ opened \in [Processes -> SUBSET Services]
      /\ attempt \in [Processes -> 0 .. Attempts] /\ failed \in [Processes -> BOOLEAN]
      /\ failed[p] <=> attempt[p] > 0
  BY DEF StartupInv, StartupTypeOK
<1>2. ASSUME Fatal(p), UNCHANGED <<running, declared, crashes>> PROVE StartupInv'
  BY <1>1, <1>2, LeaveKeeps DEF Fatal
<1>3. ASSUME at[p] \in {"postgres", "redis", "rabbitmq"}, Connect(p, at[p]),
             UNCHANGED <<running, declared, crashes>>
      PROVE  StartupInv'
  <2>1. live' \subseteq Processes /\ Proceed(p) /\ opened' = [opened EXCEPT ![p] = @ \cup {at[p]}]
    BY <1>1, <1>3 DEF Connect
  <2> QED
    BY <1>1, <1>3, <2>1, ProceedKeeps
<1>4. CASE Start(p)
  <2>1. opened[p] = {}
    BY <1>4 DEF Start, StartupInv, OpenedAt
  <2> USE <1>4 DEF Start
  <2>2. /\ at' \in [Processes -> Stages.api \cup Stages.worker]
        /\ \A q \in Processes : at'[q] = IF q = p THEN "postgres" ELSE at[q]
        /\ \A q \in Processes : at'[q] \in Stages[q]
    BY Order DEF StartupInv, StartupTypeOK
  <2>3. StartupTypeOK'
    BY <2>2 DEF StartupInv, StartupTypeOK
  <2>4. ASSUME NEW q \in Processes PROVE opened'[q] = OpenedAt(q, at'[q])
    BY <2>1, <2>2 DEF StartupInv, OpenedAt
  <2> QED
    BY <2>2, <2>3, <2>4 DEF StartupInv, OpenedAt
<1>5. CASE Attempt(p)
  <2>1. CASE Connect(p, at[p])
    BY <1>3, <1>5, <2>1 DEF Attempt
  <2>2. CASE ~Connect(p, at[p])
    <3>1. /\ attempt' = [attempt EXCEPT ![p] = attempt[p] + 1] /\ attempt[p] < Attempts
          /\ failed' = [failed EXCEPT ![p] = TRUE]
          /\ UNCHANGED <<at, opened, live, running, declared, crashes>>
      BY <1>5, <2>2 DEF Attempt
    <3>2. attempt[p] + 1 \in 0 .. Attempts /\ attempt[p] + 1 > 0
      BY <1>1, <3>1
    <3>3. /\ attempt' \in [Processes -> 0 .. Attempts] /\ failed' \in [Processes -> BOOLEAN]
          /\ \A q \in Processes : failed'[q] <=> attempt'[q] > 0
      BY <1>1, <3>1, <3>2 DEF StartupInv, StartupTypeOK
    <3> QED
      BY <3>1, <3>3 DEF StartupInv, StartupTypeOK, OpenedAt
  <2> QED
    BY <2>1, <2>2
<1>6. CASE AfterLoop(p)
  BY <1>1, <1>2, <1>6 DEF AfterLoop
<1>7. CASE SetupRedis(p)
  BY <1>2, <1>3, <1>7 DEF SetupRedis
<1>8. CASE SetupHandler(p)
  BY <1>1, <1>2, <1>8, ProceedKeeps DEF SetupHandler
<1>9. CASE DeclareQueue(p)
  <2>1. CASE declared' = TRUE /\ Proceed(p) /\ UNCHANGED <<opened, live>>
    BY <1>1, <1>9, <2>1, ProceedKeeps DEF DeclareQueue
  <2>2. CASE Fatal(p) /\ UNCHANGED declared
    BY <1>2, <1>9, <2>2 DEF DeclareQueue
  <2> QED
    BY <1>9, <2>1, <2>2 DEF DeclareQueue
<1>10. CASE CloseChannel(p)
  <2>1. CASE p \in live /\ Proceed(p) /\ UNCHANGED <<opened, live>>
    BY <1>1, <1>10, <2>1, ProceedKeeps DEF CloseChannel
  <2>2. CASE Fatal(p)
    BY <1>2, <1>10, <2>2 DEF CloseChannel
  <2> QED
    BY <1>10, <2>1, <2>2 DEF CloseChannel
<1> QED
  BY <1>4, <1>5, <1>6, <1>7, <1>8, <1>9, <1>10 DEF Main

LEMMA StartupStep == ASSUME StartupInv, [StartupNext]_startVars PROVE StartupInv'
<1>1. ASSUME UNCHANGED startVars PROVE StartupInv'
  BY <1>1 DEF startVars, StartupInv, StartupTypeOK, OpenedAt
<1>2. ASSUME NEW p \in Processes, Crash(p) PROVE StartupInv'
  <2>1. live' \subseteq Processes /\ crashes' \in 0 .. MaxCrashes
    BY <1>2 DEF Crash, Fatal, StartupInv, StartupTypeOK
  <2> QED
    BY <1>2, <2>1, LeaveKeeps DEF Crash, Fatal
<1>3. ASSUME NEW s \in Services, ServiceStops(s) \/ ServiceStarts(s) PROVE StartupInv'
  <2>1. /\ UNCHANGED <<at, attempt, failed, opened, declared, crashes>>
        /\ live' \subseteq Processes /\ running' \subseteq Services
    BY <1>3 DEF ServiceStops, ServiceStarts, StartupInv, StartupTypeOK
  <2> QED
    BY <2>1 DEF StartupInv, StartupTypeOK, OpenedAt
<1> QED
  BY <1>1, <1>2, <1>3, MainKeeps DEF StartupNext

LEMMA StartupInvHolds == StartupSpec => []StartupInv
<1> QED
  BY StartupInitInv, StartupStep, PTL DEF StartupSpec

-----------------------------------------------------------------------------
\* The variables keep their types; an error is remembered exactly after a round
\* that failed.
THEOREM StartupTypeCorrect == StartupSpec => []StartupTypeOK
<1>1. StartupInv => StartupTypeOK
  BY DEF StartupInv
<1> QED
  BY <1>1, StartupInvHolds, PTL

\* A process that serves has everything it needs (api/main.go:22-57,
\* worker/main.go:20-51), for any number of attempts: each stage of main is
\* reached with exactly the connections of the stages before it.
THEOREM ServingIsReady == StartupSpec => []UpMeansReady
<1>1. StartupInv => UpMeansReady
  BY DEF StartupInv, UpMeansReady, OpenedAt
<1> QED
  BY <1>1, StartupInvHolds, PTL
=============================================================================
