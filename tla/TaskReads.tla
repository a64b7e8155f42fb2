----------------------------- MODULE TaskReads -----------------------------
(***************************************************************************)
(* Reading tasks through the Redis cache (internal/task/service.go,        *)
(* internal/cache/task_cache.go and the two GET handlers of                *)
(* internal/task/controller.go).                                           *)
(*                                                                         *)
(* GetTask and GetTasks look the key up in the cache; on a miss they query *)
(* the database and write what they found back with a TTL of one hour.     *)
(* Nothing invalidates an entry.  The cache calls of a request share a     *)
(* context of two seconds, the query has none.  The context bounds how     *)
(* long the client waits, not when Redis executes a command it was sent.   *)
(* Requests, the workers' commits, Redis and the clock interleave between  *)
(* any two of these steps.                                                 *)
(*                                                                         *)
(* Time is counted in ticks.  Instead of a clock, every copy of data       *)
(* outside the database carries its age: the ticks since the database      *)
(* stopped agreeing with it.                                               *)
(***************************************************************************)
EXTENDS Integers, FiniteSets

CONSTANTS
    Tasks,
    Users,
    OwnerOf,      \* OwnerOf[t] is the user_id of task t
    Readers,      \* handler goroutines that serve the GET requests
    TTL,          \* TaskCacheTTL, in ticks
    Deadline,     \* the two seconds of the request's context, in ticks
    Linger,       \* how long after it was sent Redis may execute a SET, in ticks
    MaxWrites,    \* bound: committed statements per row
    MaxSent       \* bound: SETs on their way to Redis

ASSUME ReadsAssumption ==
    /\ OwnerOf \in [Tasks -> Users]
    /\ TTL \in Nat \ {0}
    /\ Deadline \in Nat \ {0}
    /\ Linger \in Nat
    /\ MaxWrites \in Nat

VARIABLES
    version,     \* version[t]: statements committed on the row of t; 0, no row yet
    cache,       \* cache[k]: the entry of key k
    reader,      \* reader[r]: the request goroutine r works on
    sent         \* SETs on their way to Redis, whether their client waits or not

readVars == <<version, cache, reader, sent>>

-----------------------------------------------------------------------------
\* "task:<id>" and "tasks:user:<id>".
TaskKey(t)      == [kind |-> "task", id |-> t]
UserTasksKey(u) == [kind |-> "tasks:user", id |-> u]

Keys == {TaskKey(t) : t \in Tasks} \cup {UserTasksKey(u) : u \in Users}

\* What a SELECT returns of the rows of ts that exist: their columns are those
\* of the version they have.
Select(ts) == {[task |-> t, version |-> version[t]] : t \in {x \in ts : version[x] > 0}}

GetByID(t)     == Select({t})
GetByUserID(u) == Select({t \in Tasks : OwnerOf[t] = u})

Lookup(k) == IF k.kind = "task" THEN GetByID(k.id) ELSE GetByUserID(k.id)

\* A row that is missing is an error; a user without tasks is an empty list.
Found(k) == k.kind = "task" => GetByID(k.id) # {}

Selections == SUBSET [task : Tasks, version : 1 .. MaxWrites]

\* Ages are counted as far as the properties can tell them apart.
MaxAge == TTL + Deadline + Linger
Ages   == 0 .. MaxAge

NoEntry == [data |-> {}, age |-> 0, ttl |-> 0]
Entries == [data : Selections, age : Ages, ttl : 0 .. TTL]
Cached(k) == cache[k].ttl > 0

\* A SET that was sent: `left' is the time in which Redis may still execute it.
Sets == [key : Keys, data : Selections, age : Ages, left : 0 .. Linger]

-----------------------------------------------------------------------------
(***************************************************************************)
(* A request: the user the token names, the key of what is asked for, and  *)
(* where its goroutine stands.  "get" is before the cache lookup, "query"  *)
(* before the SELECT, "set" before the write to the cache; `elapsed' is    *)
(* counted up to Deadline.  "ok", "denied" and "error" are answers.        *)
(***************************************************************************)
Answers  == {"ok", "denied", "error"}
Places   == {"free", "get", "query", "set"} \cup Answers

Requests == [at : Places, user : Users, key : Keys, elapsed : 0 .. Deadline,
             data : Selections, age : Ages]

Busy(q) == q.at \in {"get", "query", "set"}
InTime(q) == q.elapsed < Deadline

\* GET /tasks/:id names any task, GET /users/tasks only the caller's own list.
MayAsk(u) == {TaskKey(t) : t \in Tasks} \cup {UserTasksKey(u)}

\* The ownership check of the controller is made on the data, cached or not; a
\* caller that fails it is shown none.
Owned(q, data) == q.key.kind = "task" => \A s \in data : OwnerOf[s.task] = q.user

Show(q, data) == [q EXCEPT !.at = "ok", !.elapsed = 0, !.data = data, !.age = 0]
Deny(q)       == [q EXCEPT !.at = "denied", !.elapsed = 0, !.data = {}, !.age = 0]

Answer(q, data) == IF Owned(q, data) THEN Show(q, data) ELSE Deny(q)

Request(at, u, k) ==
    [at |-> at, user |-> u, key |-> k, elapsed |-> 0, data |-> {}, age |-> 0]

\* Mutant: the data of the request before is left in place.
AskKeepingData(r) ==
    /\ ~Busy(reader[r])
    /\ \E u \in Users : \E k \in MayAsk(u) :
          reader' = [reader EXCEPT ![r] =
             [@ EXCEPT !.at = "get", !.user = u, !.key = k, !.elapsed = 0]]
    /\ UNCHANGED <<version, cache, sent>>

Ask(r) ==
    /\ ~Busy(reader[r])
    /\ \E u \in Users : \E k \in MayAsk(u) :
          reader' = [reader EXCEPT ![r] = Request("get", u, k)]
    /\ UNCHANGED <<version, cache, sent>>

\* Mutant: the data of a hit is returned before the ownership check.
CacheHitUnchecked(r) ==
    LET q == reader[r] IN
    /\ q.at = "get" /\ InTime(q)
    /\ Cached(q.key)
    /\ reader' = [reader EXCEPT ![r] = Show(q, cache[q.key].data)]
    /\ UNCHANGED <<version, cache, sent>>

\* Mutant: a hit renews the entry's TTL.
CacheHitRenewing(r) ==
    LET q == reader[r] IN
    /\ q.at = "get" /\ InTime(q)
    /\ Cached(q.key)
    /\ reader' = [reader EXCEPT ![r] = Answer(q, cache[q.key].data)]
    /\ cache' = [cache EXCEPT ![q.key].ttl = TTL]
    /\ UNCHANGED <<version, sent>>

CacheHit(r) ==
    LET q == reader[r] IN
    /\ q.at = "get" /\ InTime(q)
    /\ Cached(q.key)
    /\ reader' = [reader EXCEPT ![r] = Answer(q, cache[q.key].data)]
    /\ UNCHANGED <<version, cache, sent>>

\* No entry, or Redis does not answer within the request's context: every error
\* of Get counts as a miss.
CacheMiss(r) ==
    /\ reader[r].at = "get"
    /\ reader' = [reader EXCEPT ![r].at = "query"]
    /\ UNCHANGED <<version, cache, sent>>

Query(r) ==
    LET q == reader[r] IN
    /\ q.at = "query"
    /\ Found(q.key)
    /\ reader' = [reader EXCEPT ![r] = [q EXCEPT !.at = "set", !.data = Lookup(q.key)]]
    /\ UNCHANGED <<version, cache, sent>>

\* No such row, or the query fails; nothing is cached.
QueryError(r) ==
    /\ reader[r].at = "query"
    /\ reader' = [reader EXCEPT ![r].at = "error", ![r].elapsed = 0]
    /\ UNCHANGED <<version, cache, sent>>

\* Redis sets the key for an hour; whatever the entry was by now, it is
\* overwritten.
Overwritten(k, data, age) == [cache EXCEPT ![k] = [data |-> data, age |-> age, ttl |-> TTL]]

\* Mutant: the write to the cache does not use the request's context.
CacheSetWithoutDeadline(r) ==
    LET q == reader[r] IN
    /\ q.at = "set"
    /\ cache' = Overwritten(q.key, q.data, q.age)
    /\ reader' = [reader EXCEPT ![r] = Answer(q, q.data)]
    /\ UNCHANGED <<version, sent>>

\* Redis executes the SET and the client gets its reply.
CacheSet(r) ==
    LET q == reader[r] IN
    /\ q.at = "set" /\ InTime(q)
    /\ cache' = Overwritten(q.key, q.data, q.age)
    /\ reader' = [reader EXCEPT ![r] = Answer(q, q.data)]
    /\ UNCHANGED <<version, sent>>

\* The SET is sent and no reply is seen yet.  The client waits for it, sends the
\* command again (go-redis retries what failed), or gives up.
CacheSetSent(r) ==
    LET q == reader[r] IN
    /\ q.at = "set" /\ InTime(q)
    /\ Cardinality(sent) < MaxSent
    /\ sent' = sent \cup {[key |-> q.key, data |-> q.data, age |-> q.age, left |-> Linger]}
    /\ UNCHANGED <<version, cache, reader>>

\* The context has expired or Redis fails: only logged.  What was sent is not
\* called back.
CacheSetError(r) ==
    LET q == reader[r] IN
    /\ q.at = "set"
    /\ reader' = [reader EXCEPT ![r] = Answer(q, q.data)]
    /\ UNCHANGED <<version, cache, sent>>

-----------------------------------------------------------------------------
(* The rest of the system, the clock and Redis *)

\* The API or a worker commits one of the statements of repository.go.
Commit(t) ==
    /\ version[t] < MaxWrites
    /\ version' = [version EXCEPT ![t] = @ + 1]
    /\ UNCHANGED <<cache, reader, sent>>

\* Data that agrees with the database does not age.
Older(k, data, age) == IF data = Lookup(k) \/ age = MaxAge THEN age ELSE age + 1

Waited(q) ==
    [q EXCEPT !.elapsed = IF InTime(q) THEN @ + 1 ELSE @,
              !.age = IF q.at = "set" THEN Older(q.key, q.data, @) ELSE @]

Lingering(c) ==
    [c EXCEPT !.age = Older(c.key, c.data, @), !.left = @ - 1]

Tick ==
    /\ cache' = [k \in Keys |->
          IF cache[k].ttl <= 1 THEN NoEntry
          ELSE [data |-> cache[k].data,
                age  |-> Older(k, cache[k].data, cache[k].age),
                ttl  |-> cache[k].ttl - 1]]
    /\ reader' = [r \in Readers |-> IF Busy(reader[r]) THEN Waited(reader[r]) ELSE reader[r]]
    /\ sent' = {Lingering(c) : c \in {x \in sent : x.left > 0}}
    /\ UNCHANGED version

\* Redis executes a SET whose client may have given up long ago; one that was
\* sent twice it executes twice.
LateCacheSet(c) ==
    /\ cache' = Overwritten(c.key, c.data, c.age)
    /\ UNCHANGED <<version, reader, sent>>

\* Redis restarts, or evicts keys.
Evict(k) ==
    /\ cache' = [cache EXCEPT ![k] = NoEntry]
    /\ UNCHANGED <<version, reader, sent>>

-----------------------------------------------------------------------------
ReadInit ==
    /\ version = [t \in Tasks |-> 0]
    /\ cache = [k \in Keys |-> NoEntry]
    /\ \E u \in Users : reader = [r \in Readers |-> Request("free", u, UserTasksKey(u))]
    /\ sent = {}

ReadStep(r) == \/ CacheHit(r) \/ CacheMiss(r)
               \/ Query(r) \/ QueryError(r)
               \/ CacheSet(r) \/ CacheSetError(r)

ReadNext ==
    \/ \E r \in Readers : Ask(r) \/ ReadStep(r) \/ CacheSetSent(r)
    \/ \E c \in sent : LateCacheSet(c)
    \/ \E t \in Tasks : Commit(t)
    \/ \E k \in Keys : Evict(k)
    \/ Tick

ReadSpec == ReadInit /\ [][ReadNext]_readVars

\* Time passes, and a request that has begun is carried on.
ReadFairSpec ==
    /\ ReadSpec
    /\ WF_readVars(Tick)
    /\ \A r \in Readers : WF_readVars(ReadStep(r))

-----------------------------------------------------------------------------
\* The types of the variables; a request holds no data before its own query.
ReadTypeOK ==
    /\ version \in [Tasks -> 0 .. MaxWrites]
    /\ cache \in [Keys -> Entries]
    /\ reader \in [Readers -> Requests]
    /\ sent \subseteq Sets
    /\ \A r \in Readers :
          reader[r].at \in {"get", "query"} => reader[r].data = {} /\ reader[r].age = 0

\* Data older than the TTL, the request's deadline and the time a SET may linger
\* together is never cached, so no hit returns it (service.go:79-105,
\* task_cache.go:12): neither a request held up after its query nor a SET that
\* Redis executes after its client gave up brings an old row back later than
\* that.
StalenessBounded == \A k \in Keys : Cached(k) => cache[k].age < TTL + Deadline + Linger - 1

\* A caller is shown rows of its own only (controller.go:71-81), whichever
\* request filled the entry that answers it.
OwnRowsOnly ==
    \A r \in Readers : reader[r].at = "ok" =>
        \A s \in reader[r].data : OwnerOf[s.task] = reader[r].user

\* When the rows no longer change the cache catches up with them, however often
\* the entries are read meanwhile (task_cache.go:40): it is the TTL that makes a
\* client that polls see the outcome in the end.
CacheCatchesUp ==
    <>[](\A k \in Keys : Cached(k) => cache[k].data = Lookup(k))
=============================================================================
