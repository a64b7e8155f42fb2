------------------------------ MODULE Startup -------------------------------
(***************************************************************************)
(* How the two processes come up (cmd/api/main.go, cmd/worker/main.go, the *)
(* three Setup functions, docker-compose.yaml).                            *)
(*                                                                         *)
(* A process opens its connections one after the other: five attempts for  *)
(* PostgreSQL and for RabbitMQ, one for Redis, and ends when that was not  *)
(* enough; its container is started again.  The services come and go       *)
(* meanwhile: depends_on does not wait for them.                           *)
(***************************************************************************)
EXTENDS Naturals, FiniteSets

CONSTANTS
    Attempts,     \* maxRetries of db.Init and SetupRabbitMQ
    MaxCrashes    \* bound: processes that die for other reasons

ASSUME StartupAssumption == Attempts \in Nat \ {0} /\ MaxCrashes \in Nat

VARIABLES
    at,         \* at[p]: what process p does: down, a stage of main, or up
    attempt,    \* attempt[p]: i of the loop p is in
    failed,     \* failed[p]: err # nil in the loop p is in
    opened,     \* opened[p]: the services p opened a connection to since it started
    live,       \* processes whose AMQP connection still stands
    running,    \* services that accept connections
    declared,   \* does task_queue exist?
    crashes

startVars == <<at, attempt, failed, opened, live, running, declared, crashes>>

Processes == {"api", "worker"}
Services  == {"postgres", "redis", "rabbitmq"}
Needs     == [api |-> Services, worker |-> {"postgres", "rabbitmq"}]

\* The calls of main in order.
NextStage ==
    [api    |-> [postgres |-> "redis", redis |-> "rabbitmq", rabbitmq |-> "handler",
                 handler |-> "up"],
     worker |-> [postgres |-> "rabbitmq", rabbitmq |-> "queue", queue |-> "close",
                close |-> "up"]]

Stages == [api    |-> {"down", "up"} \cup DOMAIN NextStage.api,
           worker |-> {"down", "up"} \cup DOMAIN NextStage.worker]

-----------------------------------------------------------------------------
\* Main goes on to its next call.
Proceed(p) ==
    /\ at' = [at EXCEPT ![p] = NextStage[p][at[p]]]
    /\ attempt' = [attempt EXCEPT ![p] = 0]
    /\ failed' = [failed EXCEPT ![p] = FALSE]

Connect(p, service) ==
    /\ service \in running
    /\ opened' = [opened EXCEPT ![p] = @ \cup {service}]
    /\ live' = IF service = "rabbitmq" THEN live \cup {p} ELSE live
    /\ Proceed(p)

\* Mutant: Fatal does not end the process.
FatalHanging(p) == UNCHANGED <<at, attempt, failed, opened, live>>

\* log.Fatalf: nothing of the process is left.
Fatal(p) ==
    /\ at' = [at EXCEPT ![p] = "down"]
    /\ attempt' = [attempt EXCEPT ![p] = 0]
    /\ failed' = [failed EXCEPT ![p] = FALSE]
    /\ opened' = [opened EXCEPT ![p] = {}]
    /\ live' = live \ {p}

\* restart: always.
Start(p) ==
    /\ at[p] = "down"
    /\ at' = [at EXCEPT ![p] = "postgres"]
    /\ UNCHANGED <<attempt, failed, opened, live, running, declared, crashes>>

\* Mutant: the err of db.Close replaces the one of the failed Ping.
AttemptCleared(p) ==
    /\ at[p] \in {"postgres", "rabbitmq"} /\ attempt[p] < Attempts
    /\ \/ Connect(p, at[p])
       \/ /\ at[p] \notin running
          /\ attempt' = [attempt EXCEPT ![p] = @ + 1]
          /\ failed' = [failed EXCEPT ![p] = FALSE]
          /\ UNCHANGED <<at, opened, live>>
    /\ UNCHANGED <<running, declared, crashes>>

\* One round of the loop in db.Init or SetupRabbitMQ: break or continue.
Attempt(p) ==
    /\ at[p] \in {"postgres", "rabbitmq"} /\ attempt[p] < Attempts
    /\ \/ Connect(p, at[p])
       \/ /\ at[p] \notin running
          /\ attempt' = [attempt EXCEPT ![p] = @ + 1]
          /\ failed' = [failed EXCEPT ![p] = TRUE]
          /\ UNCHANGED <<at, opened, live>>
    /\ UNCHANGED <<running, declared, crashes>>

\* The loop is over and `if err != nil' looks at the last round.
AfterLoop(p) ==
    /\ at[p] \in {"postgres", "rabbitmq"} /\ attempt[p] = Attempts
    /\ \/ failed[p] /\ Fatal(p)
       \/ ~failed[p] /\ Proceed(p) /\ UNCHANGED <<opened, live>>
    /\ UNCHANGED <<running, declared, crashes>>

\* A single Ping.
SetupRedis(p) ==
    /\ at[p] = "redis"
    /\ \/ Connect(p, "redis")
       \/ "redis" \notin running /\ Fatal(p)
    /\ UNCHANGED <<running, declared, crashes>>

\* Both rate limiters load their script; the server starts.
SetupHandler(p) ==
    /\ at[p] = "handler"
    /\ \/ "redis" \in running /\ Proceed(p) /\ UNCHANGED <<opened, live>>
       \/ "redis" \notin running /\ Fatal(p)
    /\ UNCHANGED <<running, declared, crashes>>

\* CreateChannel and DeclareQueue, on the connection of this start.
DeclareQueue(p) ==
    /\ at[p] = "queue"
    /\ \/ p \in live /\ declared' = TRUE /\ Proceed(p) /\ UNCHANGED <<opened, live>>
       \/ p \notin live /\ Fatal(p) /\ UNCHANGED declared
    /\ UNCHANGED <<running, crashes>>

\* consumerChannel.Close; then the goroutines.
CloseChannel(p) ==
    /\ at[p] = "close"
    /\ \/ p \in live /\ Proceed(p) /\ UNCHANGED <<opened, live>>
       \/ p \notin live /\ Fatal(p)
    /\ UNCHANGED <<running, declared, crashes>>

Crash(p) ==
    /\ at[p] # "down" /\ crashes < MaxCrashes
    /\ Fatal(p)
    /\ crashes' = crashes + 1
    /\ UNCHANGED <<running, declared>>

\* The pools of database/sql and go-redis connect again, amqp091-go does not.
ServiceStops(s) ==
    /\ s \in running
    /\ running' = running \ {s}
    /\ live' = IF s = "rabbitmq" THEN {} ELSE live
    /\ UNCHANGED <<at, attempt, failed, opened, declared, crashes>>

ServiceStarts(s) ==
    /\ s \notin running
    /\ running' = running \cup {s}
    /\ UNCHANGED <<at, attempt, failed, opened, live, declared, crashes>>

-----------------------------------------------------------------------------
StartupInit ==
    /\ at = [p \in Processes |-> "down"]
    /\ attempt = [p \in Processes |-> 0]
    /\ failed = [p \in Processes |-> FALSE]
    /\ opened = [p \in Processes |-> {}]
    /\ live = {} /\ running = {}
    /\ declared = FALSE
    /\ crashes = 0

Main(p) == \/ Start(p) \/ Attempt(p) \/ AfterLoop(p)
           \/ SetupRedis(p) \/ SetupHandler(p)
           \/ DeclareQueue(p) \/ CloseChannel(p)

StartupNext ==
    \/ \E p \in Processes : Main(p) \/ Crash(p)
    \/ \E s \in Services : ServiceStops(s) \/ ServiceStarts(s)

StartupSpec     == StartupInit /\ [][StartupNext]_startVars
StartupFairSpec == StartupSpec /\ \A p \in Processes : WF_startVars(Main(p))

-----------------------------------------------------------------------------
\* The types of the variables; only a round that failed is followed by another.
StartupTypeOK ==
    /\ at \in [Processes -> Stages.api \cup Stages.worker]
    /\ \A p \in Processes : at[p] \in Stages[p]
    /\ attempt \in [Processes -> 0 .. Attempts]
    /\ failed \in [Processes -> BOOLEAN]
    /\ \A p \in Processes : failed[p] <=> attempt[p] > 0
    /\ opened \in [Processes -> SUBSET Services]
    /\ live \subseteq Processes
    /\ running \subseteq Services
    /\ declared \in BOOLEAN
    /\ crashes \in 0 .. MaxCrashes

\* A process that serves has everything it needs (api/main.go:22-57,
\* worker/main.go:20-51): since it was started it reached every service, and the
\* queue its goroutines consume from exists, however the services went up and
\* down between the calls and whichever attempt was the last.
UpMeansReady ==
    \A p \in Processes : at[p] = "up" =>
       /\ opened[p] = Needs[p]
       /\ p = "worker" => declared

\* Once the services stay, both processes come up for good (postgres.go:20-43,
\* rabbitmq.go:17-30, redis.go:29-32, docker-compose.yaml:20, 35): giving up
\* leaves none of them hanging, and no attempt is lost on an old err.
EventuallyUp ==
    <>[](running = Services) => \A p \in Processes : <>[](at[p] = "up")
=============================================================================
