-------------------------- MODULE TaskReadsProofs --------------------------
(***************************************************************************)
(* Theorems about TaskReads, for every set of tasks, users and requests,   *)
(* every TTL, every deadline and every time a SET may linger.              *)
(***************************************************************************)
EXTENDS TaskReads, TLAPS

USE ReadsAssumption DEF ReadsAssumption

-----------------------------------------------------------------------------
(* Type correctness *)

\* A query selects rows.
LEMMA LookupTyped ==
    ASSUME ReadTypeOK, NEW k \in Keys
    PROVE  Lookup(k) \in Selections
<1>1. \A ts \in SUBSET Tasks : Select(ts) \in Selections
  BY DEF ReadTypeOK, Select, Selections
<1>2. CASE \E t \in Tasks : k = TaskKey(t)
  BY <1>1, <1>2 DEF Lookup, GetByID, TaskKey
<1>3. CASE \E u \in Users : k = UserTasksKey(u)
  BY <1>1, <1>3 DEF Lookup, GetByUserID, UserTasksKey
<1> QED
  BY <1>2, <1>3 DEF Keys

LEMMA AnswerTyped ==
    ASSUME NEW q \in Requests, NEW data \in Selections
    PROVE  Answer(q, data) \in Requests
<1>1. 0 \in 0 .. Deadline /\ 0 \in Ages /\ {} \in Selections
  BY DEF Ages, MaxAge, Selections
<1>2. Show(q, data) \in Requests
  BY <1>1 DEF Show, Requests, Places, Answers
<1>3. Deny(q) \in Requests
  BY <1>1 DEF Deny, Requests, Places, Answers
<1> QED
  BY <1>2, <1>3 DEF Answer

LEMMA Answered ==
    ASSUME NEW q \in Requests, NEW data
    PROVE  Answer(q, data).at \in {"ok", "denied"}
<1>1. Show(q, data).at = "ok" /\ Deny(q).at = "denied"
  BY DEF Show, Deny, Requests
<1> QED
  BY <1>1 DEF Answer

LEMMA OlderTyped ==
    ASSUME NEW k, NEW data, NEW age \in Ages
    PROVE  Older(k, data, age) \in Ages
  BY DEF Older, Ages, MaxAge

LEMMA WaitedTyped ==
    ASSUME NEW q \in Requests, Older(q.key, q.data, q.age) \in Ages
    PROVE  Waited(q) \in Requests
<1> DEFINE elapsed == IF InTime(q) THEN q.elapsed + 1 ELSE q.elapsed
           age == IF q.at = "set" THEN Older(q.key, q.data, q.age) ELSE q.age
<1>1. elapsed \in 0 .. Deadline /\ age \in Ages
  BY DEF InTime, Requests
<1>2. Waited(q) = [q EXCEPT !.elapsed = elapsed, !.age = age]
  BY Zenon DEF Waited
<1> HIDE DEF elapsed, age
<1> QED
  BY <1>1, <1>2 DEF Requests

LEMMA NoEntryTyped == NoEntry \in Entries
  BY DEF NoEntry, Entries, Selections, Ages, MaxAge

\* An entry written, a SET sent, a SET that lingers and a request just begun.
LEMMA OverwrittenTyped ==
    ASSUME cache \in [Keys -> Entries],
           NEW k \in Keys, NEW data \in Selections, NEW age \in Ages
    PROVE  Overwritten(k, data, age) \in [Keys -> Entries]
<1>1. [data |-> data, age |-> age, ttl |-> TTL] \in Entries
  BY DEF Entries
<1> QED
  BY <1>1 DEF Overwritten

LEMMA SentTyped ==
    ASSUME NEW q \in Requests
    PROVE  [key |-> q.key, data |-> q.data, age |-> q.age, left |-> Linger] \in Sets
  BY DEF Requests, Sets

LEMMA LingeringTyped ==
    ASSUME NEW c \in Sets, c.left > 0
    PROVE  Lingering(c) \in Sets
<1> DEFINE age == Older(c.key, c.data, c.age)
           left == c.left - 1
<1>1. age \in Ages /\ left \in 0 .. Linger
  BY OlderTyped DEF Sets
<1>2. Lingering(c) = [c EXCEPT !.age = age, !.left = left]
  BY Zenon DEF Lingering
<1> HIDE DEF age, left
<1> QED
  BY <1>1, <1>2 DEF Sets

LEMMA RequestTyped ==
    ASSUME NEW at \in Places, NEW u \in Users, NEW k \in Keys
    PROVE  Request(at, u, k) \in Requests
  BY DEF Request, Requests, Selections, Ages, MaxAge

\* The two parts of ReadTypeOK.
Typed ==
    /\ version \in [Tasks -> 0 .. MaxWrites]
    /\ cache \in [Keys -> Entries]
    /\ reader \in [Readers -> Requests]
    /\ sent \subseteq Sets

Blank(q) == q.at \in {"get", "query"} => q.data = {} /\ q.age = 0

LEMMA StepTyped ==
    ASSUME ReadTypeOK, [ReadNext]_readVars
    PROVE  Typed'
<1>0. Typed
  BY DEF ReadTypeOK, Typed
<1> USE <1>0 DEF Typed
<1>1. CASE UNCHANGED readVars
  BY <1>1 DEF readVars
<1>2. ASSUME NEW r \in Readers, Ask(r) PROVE Typed'
  <2>1. \A u \in Users : MayAsk(u) \subseteq Keys
    BY DEF MayAsk, Keys
  <2> QED
    BY <1>2, <2>1, RequestTyped DEF Ask, Places
<1>3. ASSUME NEW r \in Readers, CacheHit(r) PROVE Typed'
  <2> DEFINE q == reader[r]
  <2>1. q \in Requests /\ q.key \in Keys
    BY DEF Requests
  <2>2. cache[q.key].data \in Selections /\ cache[q.key].age \in Ages
    BY <2>1 DEF Entries
  <2> QED
    BY <1>3, <2>1, <2>2, AnswerTyped DEF CacheHit
<1>4. ASSUME NEW r \in Readers, CacheMiss(r) \/ QueryError(r) PROVE Typed'
  BY <1>4 DEF CacheMiss, QueryError, Requests, Places, Answers
<1>5. ASSUME NEW r \in Readers, Query(r) PROVE Typed'
  <2>1. reader[r] \in Requests /\ Lookup(reader[r].key) \in Selections
    BY LookupTyped DEF Requests
  <2> QED
    BY <1>5, <2>1 DEF Query, Requests, Places, Answers
<1>6. ASSUME NEW r \in Readers, CacheSet(r) \/ CacheSetError(r) \/ CacheSetSent(r)
      PROVE  Typed'
  <2> DEFINE q == reader[r]
  <2>1. q \in Requests /\ q.data \in Selections /\ q.age \in Ages /\ q.key \in Keys
    BY DEF Requests
  <2> QED
    BY <1>6, <2>1, AnswerTyped, OverwrittenTyped, SentTyped
    DEF CacheSet, CacheSetError, CacheSetSent
<1>7. ASSUME NEW t \in Tasks, Commit(t) PROVE Typed'
  BY <1>7 DEF Commit
<1>8. CASE Tick
  <2>1. \A k \in Keys : cache'[k] \in Entries
    <3> SUFFICES ASSUME NEW k \in Keys PROVE cache'[k] \in Entries
      OBVIOUS
    <3>1. cache[k] \in Entries
      OBVIOUS
    <3>2. Older(k, cache[k].data, cache[k].age) \in Ages
      BY <3>1, OlderTyped DEF Entries
    <3>3. CASE cache[k].ttl <= 1
      BY <1>8, <3>3, NoEntryTyped DEF Tick
    <3>4. CASE ~(cache[k].ttl <= 1)
      <4>1. cache'[k] = [data |-> cache[k].data,
                         age  |-> Older(k, cache[k].data, cache[k].age),
                         ttl  |-> cache[k].ttl - 1]
        BY <1>8, <3>4 DEF Tick
      <4> QED
        BY <3>1, <3>2, <3>4, <4>1 DEF Entries
    <3> QED
      BY <3>3, <3>4
  <2>2. \A r \in Readers : reader'[r] \in Requests
    <3> SUFFICES ASSUME NEW r \in Readers PROVE reader'[r] \in Requests
      OBVIOUS
    <3> DEFINE q == reader[r]
    <3>1. q \in Requests
      OBVIOUS
    <3>2. Older(q.key, q.data, q.age) \in Ages
      BY <3>1, OlderTyped DEF Requests
    <3>3. Waited(q) \in Requests
      BY <3>1, <3>2, WaitedTyped
    <3> QED
      BY <1>8, <3>1, <3>3 DEF Tick
  <2>3. sent' \subseteq Sets
    BY <1>8, LingeringTyped DEF Tick
  <2> QED
    BY <1>8, <2>1, <2>2, <2>3 DEF Tick
<1>9. ASSUME NEW k \in Keys, Evict(k) PROVE Typed'
  BY <1>9, NoEntryTyped DEF Evict
<1>10. ASSUME NEW c \in sent, LateCacheSet(c) PROVE Typed'
  BY <1>10, OverwrittenTyped DEF LateCacheSet, Sets
<1> QED
  BY <1>1, <1>2, <1>3, <1>4, <1>5, <1>6, <1>7, <1>8, <1>9, <1>10 DEF ReadNext, ReadStep

LEMMA StepBlank ==
    ASSUME ReadTypeOK, [ReadNext]_readVars, NEW r \in Readers
    PROVE  Blank(reader'[r])
<1> DEFINE q == reader[r]
<1>0. q \in Requests /\ Blank(q)
  BY DEF ReadTypeOK, Blank
<1>1. CASE reader'[r] = q
  BY <1>0, <1>1
<1>2. CASE Ask(r)
  BY <1>2 DEF Ask, Request, Blank, ReadTypeOK
<1>3. CASE CacheMiss(r)
  BY <1>0, <1>3 DEF CacheMiss, Blank, ReadTypeOK, Requests
<1>4. CASE Query(r)
  BY <1>4 DEF Query, Blank, ReadTypeOK, Requests
<1>5. CASE QueryError(r)
  <2>1. reader'[r].at = "error"
    BY <1>0, <1>5 DEF QueryError, ReadTypeOK, Requests
  <2> QED
    BY <2>1 DEF Blank
<1>6. CASE CacheHit(r) \/ CacheSet(r) \/ CacheSetError(r)
  BY <1>0, <1>6, Answered DEF CacheHit, CacheSet, CacheSetError, Blank, ReadTypeOK
<1>7. CASE Tick
  <2>1. CASE Busy(q)
    <3>1. reader'[r] = Waited(q)
      BY <1>7, <2>1 DEF Tick
    <3>2. CASE q.at = "set"
      BY <1>0, <3>1, <3>2 DEF Waited, Requests, Blank
    <3>3. CASE q.at # "set"
      BY <1>0, <3>1, <3>3 DEF Waited, Requests, Blank
    <3> QED
      BY <3>2, <3>3
  <2>2. CASE ~Busy(q)
    BY <1>1, <1>7, <2>2 DEF Tick
  <2> QED
    BY <2>1, <2>2
<1>8. ASSUME NEW x \in Readers, x # r, Ask(x) \/ ReadStep(x) PROVE reader'[r] = q
  BY <1>8 DEF Ask, ReadStep, CacheHit, CacheMiss, Query, QueryError, CacheSet,
              CacheSetError, ReadTypeOK
<1>9. ASSUME \/ UNCHANGED readVars
             \/ \E x \in Readers : CacheSetSent(x)
             \/ \E c \in sent : LateCacheSet(c)
             \/ \E t \in Tasks : Commit(t)
             \/ \E k \in Keys : Evict(k)
      PROVE  reader'[r] = q
  BY <1>9 DEF readVars, CacheSetSent, LateCacheSet, Commit, Evict
<1> QED
  BY <1>1, <1>2, <1>3, <1>4, <1>5, <1>6, <1>7, <1>8, <1>9 DEF ReadNext, ReadStep

LEMMA ReadStepTyped ==
    ASSUME ReadTypeOK, [ReadNext]_readVars
    PROVE  ReadTypeOK'
  BY StepTyped, StepBlank DEF ReadTypeOK, Typed, Blank

\* The variables keep their types.
THEOREM ReadsTypeCorrect == ReadSpec => []ReadTypeOK
<1>1. ASSUME ReadInit PROVE ReadTypeOK
  <2>1. \A u \in Users : Request("free", u, UserTasksKey(u)) \in Requests
    BY RequestTyped DEF Keys, Places
  <2> QED
    BY <1>1, <2>1, NoEntryTyped DEF ReadInit, ReadTypeOK, Request
<1> QED
  BY <1>1, ReadStepTyped, PTL DEF ReadSpec

-----------------------------------------------------------------------------
(* Staleness *)

\* The age of an entry and the time it has left to live share one budget, and so
\* do the age of a SET on its way and the time it has left; the data a request
\* may still send is no older than the request.
AgesPaidFor ==
    /\ \A k \in Keys :
          Cached(k) => cache[k].age + cache[k].ttl < TTL + Deadline + Linger
    /\ \A c \in sent : c.age + c.left < Deadline + Linger
    /\ \A r \in Readers :
          reader[r].at = "set" /\ InTime(reader[r]) => reader[r].age <= reader[r].elapsed

\* The numbers of an entry, of a request and of a SET.
LEMMA Numbers ==
    ASSUME ReadTypeOK
    PROVE  /\ \A k \in Keys : cache[k].age \in Nat /\ cache[k].ttl \in Nat
           /\ \A r \in Readers : /\ reader[r].age \in Nat /\ reader[r].elapsed \in Nat
                                 /\ reader[r].key \in Keys
           /\ \A c \in sent : c.age \in Nat /\ c.left \in Nat /\ c.key \in Keys
  BY DEF ReadTypeOK, Entries, Requests, Sets, Ages, MaxAge

LEMMA OverwrittenPaidFor ==
    ASSUME ReadTypeOK, AgesPaidFor, NEW x \in Keys, NEW data,
           NEW age \in Nat, age < Deadline + Linger, cache' = Overwritten(x, data, age)
    PROVE  \A k \in Keys :
              Cached(k)' => cache'[k].age + cache'[k].ttl < TTL + Deadline + Linger
  BY Numbers DEF ReadTypeOK, Overwritten, AgesPaidFor, Cached

LEMMA StepPaidFor ==
    ASSUME ReadTypeOK, AgesPaidFor, [ReadNext]_readVars
    PROVE  AgesPaidFor'
<1> USE Numbers
<1>1. CASE UNCHANGED readVars
  BY <1>1 DEF readVars, AgesPaidFor, Cached, InTime
<1>2. ASSUME NEW r \in Readers, Ask(r) PROVE AgesPaidFor'
  BY <1>2 DEF Ask, Request, AgesPaidFor, Cached, InTime, ReadTypeOK
<1>3. ASSUME NEW r \in Readers, CacheHit(r) \/ CacheSetError(r) PROVE AgesPaidFor'
  <2>1. /\ reader'[r].at \in {"ok", "denied"} /\ cache' = cache /\ sent' = sent
        /\ \A x \in Readers : x # r => reader'[x] = reader[x]
    BY <1>3, Answered DEF CacheHit, CacheSetError, ReadTypeOK
  <2> QED
    BY <2>1 DEF AgesPaidFor, Cached, InTime
<1>4. ASSUME NEW r \in Readers, CacheMiss(r) \/ QueryError(r) PROVE AgesPaidFor'
  BY <1>4 DEF CacheMiss, QueryError, AgesPaidFor, Cached, InTime, ReadTypeOK, Requests
<1>5. ASSUME NEW r \in Readers, Query(r) PROVE AgesPaidFor'
  BY <1>5 DEF Query, AgesPaidFor, Cached, InTime, ReadTypeOK, Requests
<1>6. ASSUME NEW r \in Readers, CacheSet(r) PROVE AgesPaidFor'
  <2> DEFINE q == reader[r]
  <2>1. /\ cache' = Overwritten(q.key, q.data, q.age) /\ sent' = sent
        /\ reader'[r].at \in {"ok", "denied"}
        /\ \A x \in Readers : x # r => reader'[x] = reader[x]
    BY <1>6, Answered DEF CacheSet, ReadTypeOK
  <2>2. q.age < Deadline + Linger
    BY <1>6 DEF CacheSet, AgesPaidFor, InTime
  <2>3. \A k \in Keys :
           Cached(k)' => cache'[k].age + cache'[k].ttl < TTL + Deadline + Linger
    BY <2>1, <2>2, OverwrittenPaidFor
  <2> QED
    BY <2>1, <2>3 DEF AgesPaidFor, Cached, InTime
<1>7. ASSUME NEW t \in Tasks, Commit(t) PROVE AgesPaidFor'
  BY <1>7 DEF Commit, AgesPaidFor, Cached, InTime
<1>8. CASE Tick
  <2>1. \A k, data, age : age \in Nat => Older(k, data, age) \in Nat /\ Older(k, data, age) <= age + 1
    BY DEF Older
  <2>2. ASSUME NEW k \in Keys
        PROVE  Cached(k)' => cache'[k].age + cache'[k].ttl < TTL + Deadline + Linger
    BY <1>8, <2>1 DEF Tick, AgesPaidFor, Cached, NoEntry
  <2>3. ASSUME NEW r \in Readers, Busy(reader[r])
        PROVE  /\ reader'[r].at = reader[r].at
               /\ reader'[r].elapsed = IF InTime(reader[r]) THEN reader[r].elapsed + 1
                                                          ELSE reader[r].elapsed
               /\ IF reader[r].at = "set" THEN reader'[r].age <= reader[r].age + 1
                                          ELSE reader'[r].age = reader[r].age
    <3>1. reader'[r] = Waited(reader[r])
      BY <1>8, <2>3 DEF Tick
    <3> QED
      BY <2>1, <3>1 DEF Waited, ReadTypeOK, Requests
  <2>4. ASSUME NEW r \in Readers, ~Busy(reader[r]) PROVE reader'[r] = reader[r]
    BY <1>8, <2>4 DEF Tick
  <2>5. ASSUME NEW r \in Readers
        PROVE  reader'[r].at = "set" /\ reader'[r].elapsed < Deadline
                  => reader'[r].age <= reader'[r].elapsed
    <3>1. /\ reader[r].at = "set" /\ reader[r].elapsed < Deadline
                => reader[r].age <= reader[r].elapsed
          /\ reader[r].age \in Nat /\ reader[r].elapsed \in Nat
      BY DEF AgesPaidFor, InTime
    <3>2. CASE Busy(reader[r])
      <4>1. reader'[r].age \in Nat
        BY ReadStepTyped DEF ReadTypeOK, Requests, Ages, MaxAge
      <4> QED
        BY <2>3, <3>1, <3>2, <4>1 DEF InTime
    <3>3. CASE ~Busy(reader[r])
      BY <2>4, <3>3 DEF Busy
    <3> QED
      BY <3>2, <3>3
  <2>6. ASSUME NEW c \in sent, c.left > 0
        PROVE  Lingering(c).age + Lingering(c).left < Deadline + Linger
    <3>1. /\ Lingering(c).age = Older(c.key, c.data, c.age)
          /\ Lingering(c).left = c.left - 1
      BY DEF Lingering, ReadTypeOK, Sets
    <3> QED
      BY <2>1, <2>6, <3>1 DEF AgesPaidFor
  <2>7. \A c \in sent' : c.age + c.left < Deadline + Linger
    BY <1>8, <2>6 DEF Tick
  <2> QED
    BY <2>2, <2>5, <2>7 DEF AgesPaidFor, InTime
<1>9. ASSUME NEW k \in Keys, Evict(k) PROVE AgesPaidFor'
  BY <1>9 DEF Evict, NoEntry, AgesPaidFor, Cached, InTime, ReadTypeOK
<1>10. ASSUME NEW r \in Readers, CacheSetSent(r) PROVE AgesPaidFor'
  <2>1. reader[r].age < Deadline
    BY <1>10 DEF CacheSetSent, AgesPaidFor, InTime
  <2> QED
    BY <1>10, <2>1 DEF CacheSetSent, AgesPaidFor, Cached, InTime
<1>11. ASSUME NEW c \in sent, LateCacheSet(c) PROVE AgesPaidFor'
  <2>1. c.age < Deadline + Linger
    BY DEF AgesPaidFor
  <2>2. \A k \in Keys :
           Cached(k)' => cache'[k].age + cache'[k].ttl < TTL + Deadline + Linger
    BY <1>11, <2>1, OverwrittenPaidFor DEF LateCacheSet
  <2> QED
    BY <1>11, <2>2 DEF LateCacheSet, AgesPaidFor, InTime
<1> QED
  BY <1>1, <1>2, <1>3, <1>4, <1>5, <1>6, <1>7, <1>8, <1>9, <1>10, <1>11
  DEF ReadNext, ReadStep

\* Nothing older than the TTL, the deadline and the time a SET may linger together
\* is ever returned from the cache (service.go:79-105, task_cache.go:12), although
\* Redis may execute a SET that its client has given up.
THEOREM StalenessIsBounded == ReadSpec => []StalenessBounded
<1>1. ASSUME ReadInit PROVE AgesPaidFor
  BY <1>1 DEF ReadInit, Request, NoEntry, AgesPaidFor, Cached
<1>2. ASSUME ReadTypeOK, AgesPaidFor PROVE StalenessBounded
  BY <1>2, Numbers DEF AgesPaidFor, StalenessBounded, Cached
<1> QED
  BY <1>1, <1>2, StepPaidFor, ReadsTypeCorrect, PTL DEF ReadSpec

-----------------------------------------------------------------------------
(* Ownership *)

\* The rows that may stand under a key.
Belongs(k, data) ==
    \A s \in data : IF k.kind = "task" THEN s.task = k.id ELSE OwnerOf[s.task] = k.id

\* Entries hold rows of their key, and a list is asked for by its user only.
RowsBelong ==
    /\ \A k \in Keys : Belongs(k, cache[k].data)
    /\ \A c \in sent : Belongs(c.key, c.data)
    /\ \A r \in Readers :
          /\ reader[r].key.kind # "task" => reader[r].key.id = reader[r].user
          /\ reader[r].at = "set" => Belongs(reader[r].key, reader[r].data)
          /\ reader[r].at = "ok" =>
                \A s \in reader[r].data : OwnerOf[s.task] = reader[r].user

\* A query selects rows of its key.
LEMMA SelectedBelong ==
    ASSUME NEW k \in Keys
    PROVE  Belongs(k, Lookup(k))
<1>1. CASE \E t \in Tasks : k = TaskKey(t)
  BY <1>1 DEF Lookup, GetByID, Select, Belongs, TaskKey
<1>2. CASE \E u \in Users : k = UserTasksKey(u)
  BY <1>2 DEF Lookup, GetByUserID, Select, Belongs, UserTasksKey
<1> QED
  BY <1>1, <1>2 DEF Keys

\* An answer shows rows of the caller only.
LEMMA AnswersOwned ==
    ASSUME NEW q \in Requests, NEW data, Belongs(q.key, data),
           q.key.kind # "task" => q.key.id = q.user
    PROVE  LET a == Answer(q, data)
           IN  /\ a.key = q.key /\ a.user = q.user /\ a.at \in {"ok", "denied"}
               /\ a.at = "ok" => \A s \in a.data : OwnerOf[s.task] = a.user
<1>1. CASE Owned(q, data)
  BY <1>1 DEF Answer, Show, Owned, Belongs, Requests
<1>2. CASE ~Owned(q, data)
  BY <1>2 DEF Answer, Deny, Requests
<1> QED
  BY <1>1, <1>2

LEMMA StepBelong ==
    ASSUME ReadTypeOK, RowsBelong, [ReadNext]_readVars
    PROVE  RowsBelong'
<1> USE Numbers
<1>1. CASE UNCHANGED readVars
  BY <1>1 DEF readVars, RowsBelong
<1>2. ASSUME NEW r \in Readers, Ask(r) PROVE RowsBelong'
  <2>1. \A u \in Users : \A k \in MayAsk(u) : k.kind # "task" => k.id = u
    BY DEF MayAsk, TaskKey, UserTasksKey
  <2> QED
    BY <1>2, <2>1 DEF Ask, Request, RowsBelong, ReadTypeOK
<1>3. ASSUME NEW r \in Readers, CacheHit(r) \/ CacheSet(r) \/ CacheSetError(r) PROVE RowsBelong'
  <2> DEFINE q == reader[r]
  <2>1. PICK data : reader' = [reader EXCEPT ![r] = Answer(q, data)] /\ Belongs(q.key, data)
    BY <1>3 DEF CacheHit, CacheSet, CacheSetError, RowsBelong
  <2>2. sent' = sent /\ \A k \in Keys : Belongs(k, cache'[k].data)
    BY <1>3 DEF CacheHit, CacheSet, CacheSetError, Overwritten, RowsBelong, ReadTypeOK
  <2>3. q \in Requests
    BY DEF ReadTypeOK
  <2>4. /\ reader'[r].key = q.key /\ reader'[r].user = q.user
        /\ reader'[r].at \in {"ok", "denied"}
        /\ reader'[r].at = "ok" => \A s \in reader'[r].data : OwnerOf[s.task] = q.user
    BY <2>1, <2>3, AnswersOwned DEF RowsBelong, ReadTypeOK
  <2>5. \A x \in Readers : x # r => reader'[x] = reader[x]
    BY <2>1 DEF ReadTypeOK
  <2> QED
    BY <2>2, <2>4, <2>5 DEF RowsBelong
<1>4. ASSUME NEW r \in Readers, CacheMiss(r) \/ QueryError(r) PROVE RowsBelong'
  <2>1. PICK place \in {"query", "error"} :
           \/ reader' = [reader EXCEPT ![r].at = place]
           \/ reader' = [reader EXCEPT ![r].at = place, ![r].elapsed = 0]
    BY <1>4 DEF CacheMiss, QueryError
  <2>2. reader[r] \in Requests /\ cache' = cache /\ sent' = sent
    BY <1>4 DEF CacheMiss, QueryError, ReadTypeOK
  <2>3. /\ reader'[r].at = place
        /\ reader'[r].key = reader[r].key /\ reader'[r].user = reader[r].user
        /\ reader'[r].data = reader[r].data
    BY <2>1, <2>2 DEF ReadTypeOK, Requests
  <2>4. \A x \in Readers : x # r => reader'[x] = reader[x]
    BY <2>1 DEF ReadTypeOK
  <2> QED
    BY <2>2, <2>3, <2>4 DEF RowsBelong
<1>5. ASSUME NEW r \in Readers, Query(r) PROVE RowsBelong'
  <2>1. Belongs(reader[r].key, Lookup(reader[r].key))
    BY SelectedBelong
  <2> QED
    BY <1>5, <2>1 DEF Query, RowsBelong, ReadTypeOK, Requests
<1>6. ASSUME NEW t \in Tasks, Commit(t) PROVE RowsBelong'
  BY <1>6 DEF Commit, RowsBelong
<1>7. CASE Tick
  <2>1. \A k \in Keys : cache'[k].data \in {cache[k].data, {}}
    BY <1>7 DEF Tick, NoEntry
  <2>2. ASSUME NEW r \in Readers
        PROVE  /\ reader'[r].key = reader[r].key /\ reader'[r].user = reader[r].user
               /\ reader'[r].at = reader[r].at   /\ reader'[r].data = reader[r].data
    BY <1>7 DEF Tick, Waited, ReadTypeOK, Requests
  <2>3. \A c \in sent : Lingering(c).key = c.key /\ Lingering(c).data = c.data
    BY DEF Lingering, ReadTypeOK, Sets
  <2>4. \A c \in sent' : Belongs(c.key, c.data)
    BY <1>7, <2>3 DEF Tick, RowsBelong
  <2> QED
    BY <2>1, <2>2, <2>4 DEF RowsBelong, Belongs
<1>8. ASSUME NEW k \in Keys, Evict(k) PROVE RowsBelong'
  BY <1>8 DEF Evict, NoEntry, RowsBelong, Belongs, ReadTypeOK
<1>9. ASSUME NEW r \in Readers, CacheSetSent(r) PROVE RowsBelong'
  BY <1>9 DEF CacheSetSent, RowsBelong
<1>10. ASSUME NEW c \in sent, LateCacheSet(c) PROVE RowsBelong'
  BY <1>10 DEF LateCacheSet, Overwritten, RowsBelong, ReadTypeOK
<1> QED
  BY <1>1, <1>2, <1>3, <1>4, <1>5, <1>6, <1>7, <1>8, <1>9, <1>10 DEF ReadNext, ReadStep

\* No caller is shown a row of another user (controller.go:71-81), whoever
\* filled the cache entry it is answered from.
THEOREM OnlyOwnRows == ReadSpec => []OwnRowsOnly
<1>1. ASSUME ReadInit PROVE RowsBelong
  BY <1>1 DEF ReadInit, Request, NoEntry, UserTasksKey, RowsBelong, Belongs
<1>2. ASSUME RowsBelong PROVE OwnRowsOnly
  BY <1>2 DEF RowsBelong, OwnRowsOnly
<1> QED
  BY <1>1, <1>2, StepBelong, ReadsTypeCorrect, PTL DEF ReadSpec
=============================================================================
