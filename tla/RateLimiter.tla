---------------------------- MODULE RateLimiter ----------------------------
(***************************************************************************)
(* The token bucket of one user (internal/middleware/rate_limiter.go and   *)
(* rate_limiter.lua), behind the point where the user id is known.         *)
(*                                                                         *)
(* A request reads the clock in whole seconds, then calls the Lua script   *)
(* with EVALSHA; requests overtake each other in between.  The script is   *)
(* atomic in Redis: refill, spend, store, EXPIRE.  An error of the call    *)
(* lets the request pass.  The script was loaded when the API started; a   *)
(* Redis that restarts has forgotten it.                                   *)
(*                                                                         *)
(* Time is counted in ticks and tokens in units, such that a tick refills  *)
(* one unit; a clock step is some ticks long.  Points in time are kept as  *)
(* distances from the present: `lag' and `behind' are whole seconds, from  *)
(* the second they name to the current one, and phase is the place within  *)
(* the current second.                                                     *)
(*                                                                         *)
(* The script adds floating-point numbers: what a refill leaves may differ *)
(* from the exact sum by a rounding error.  To take a token away is exact, *)
(* and so is the decimal form in which Redis stores the tokens.            *)
(***************************************************************************)
EXTENDS Integers

CONSTANTS
    Handlers,   \* goroutines that serve the user's requests
    Sec,        \* a second, in ticks; what it refills, in units
    Cost,       \* a token, in units
    Full,       \* Capacity, in units
    Life,       \* the seconds of EXPIRE, in ticks
    Ulp,        \* the largest rounding error of a refill, in units
    Steps,      \* how many ticks the clock may advance at once
    Delay,      \* bound: how many ticks old the time stamp of a call may be
    MaxDrift,   \* bound: the rounding errors of all refills together
    Faults      \* the kinds of fault that may happen

WholeSeconds(x) == \E k \in 0 .. x : x = k * Sec

ASSUME LimiterAssumption ==
    /\ Sec \in Nat \ {0} /\ Cost \in Nat \ {0}
    /\ Full \in Nat /\ Full >= Cost
    /\ Ulp \in 0 .. Sec
    /\ Life \in Nat \ {0} /\ WholeSeconds(Life) /\ Life + Ulp >= Full
    /\ Steps \subseteq 1 .. Sec
    /\ MaxDrift \in Nat
    /\ Delay \in Nat /\ WholeSeconds(Delay)

VARIABLES
    phase,      \* ticks since the current second began
    bucket,     \* the hash at rate_limiter:user:<id>, or NoBucket
    saved,      \* the bucket in Redis's last snapshot
    call,       \* call[h]: Free, or how old the time stamp of h's call is
    loaded,     \* does Redis have the script?
    restarted,  \* has Redis restarted since the API started?  (history)
    credit,     \* what the user may still spend at most (history)
    due,        \* what the user may spend at least (history)
    drift       \* what the rounding errors so far sum up to (history)

limiterVars == <<phase, bucket, saved, call, loaded, restarted, credit, due, drift>>

Free == -1

NoBucket == [tokens |-> Full, lag |-> 0, ttl |-> 0]
Exists   == bucket.ttl > 0
Buckets  == [tokens : 0 .. Full, lag : Nat, ttl : 0 .. Life]

AtMost(x, y)  == IF x < y THEN x ELSE y
AtLeast(x, y) == IF x > y THEN x ELSE y
Abs(x)        == IF x < 0 THEN -x ELSE x

-----------------------------------------------------------------------------
(* The script *)

\* A time stamp that is not newer than last_refill refills nothing.
Refills(behind) == Exists /\ bucket.lag > behind

Errors(behind) ==
    {e \in -Ulp .. Ulp : e # 0 => Refills(behind) /\ drift + Abs(e) <= MaxDrift}

\* Mutant: last_refill stays what it was.
RefilledAgain(behind, e) ==
    IF Refills(behind)
    THEN [tokens |-> AtMost(Full, bucket.tokens + (bucket.lag - behind) + e), lag |-> bucket.lag]
    ELSE [tokens |-> bucket.tokens, lag |-> IF Exists THEN bucket.lag ELSE behind]

\* Mutant: tokens are integers, a refill of less than one is forgotten.
RefilledWhole(behind, e) ==
    IF Refills(behind)
    THEN [tokens |-> AtMost(Full, bucket.tokens + Cost * ((bucket.lag - behind + e) \div Cost)),
          lag |-> behind]
    ELSE [tokens |-> bucket.tokens, lag |-> IF Exists THEN bucket.lag ELSE behind]

\* What HMGET and the refill leave, rounded by e.  A new bucket is full as of
\* the time stamp; without a refill last_refill is left alone.
Refilled(behind, e) ==
    IF Refills(behind)
    THEN [tokens |-> AtMost(Full, bucket.tokens + (bucket.lag - behind) + e), lag |-> behind]
    ELSE [tokens |-> bucket.tokens, lag |-> IF Exists THEN bucket.lag ELSE behind]

Allowed(behind, e) == Refilled(behind, e).tokens >= Cost

\* The least the user is due, after an execution of the script.
DueAfter(behind, e) == IF Allowed(behind, e) THEN AtLeast(0, due - Cost) ELSE due

\* HMSET and EXPIRE, also when the request is denied.
Script(behind, e) ==
    /\ bucket' = [tokens |-> Refilled(behind, e).tokens
                               - (IF Allowed(behind, e) THEN Cost ELSE 0),
                  lag    |-> Refilled(behind, e).lag,
                  ttl    |-> Life]
    /\ due' = DueAfter(behind, e)
    /\ drift' = drift + Abs(e)

-----------------------------------------------------------------------------
(* The middleware *)

\* now := time.Now().Unix()
ReadClock(h) ==
    /\ call[h] = Free
    /\ call' = [call EXCEPT ![h] = 0]
    /\ UNCHANGED <<phase, bucket, saved, loaded, restarted, credit, due, drift>>

Answered(h) == call[h] # Free /\ call' = [call EXCEPT ![h] = Free]

\* The script returns 1: c.Next().
Allow(h) ==
    /\ Answered(h)
    /\ loaded
    /\ \E e \in Errors(call[h]) : Allowed(call[h], e) /\ Script(call[h], e)
    /\ credit' = credit - Cost
    /\ UNCHANGED <<phase, saved, loaded, restarted>>

\* It returns 0: 429.
Deny(h) ==
    /\ Answered(h)
    /\ loaded
    /\ \E e \in Errors(call[h]) : ~Allowed(call[h], e) /\ Script(call[h], e)
    /\ UNCHANGED <<phase, saved, loaded, restarted, credit>>

\* The answer is lost and go-redis sends the same call again.
EvalRetried(h) ==
    /\ "answer_lost" \in Faults
    /\ call[h] # Free
    /\ loaded
    /\ \E e \in Errors(call[h]) : Script(call[h], e)
    /\ UNCHANGED <<phase, saved, call, loaded, restarted, credit>>

\* NOSCRIPT: the request passes.  Before the first restart of Redis it would
\* have to be paid for like any other.
NoScript(h) ==
    /\ Answered(h)
    /\ ~loaded
    /\ credit' = IF restarted THEN credit ELSE credit - Cost
    /\ UNCHANGED <<phase, bucket, saved, loaded, restarted, due, drift>>

\* The call fails for good: the request passes, whether the script ran or not.
EvalError(h) ==
    /\ "redis_error" \in Faults
    /\ Answered(h)
    /\ \/ loaded /\ \E e \in Errors(call[h]) : Script(call[h], e)
       \/ UNCHANGED <<bucket, due, drift>>
    /\ UNCHANGED <<phase, saved, loaded, restarted, credit>>

-----------------------------------------------------------------------------
(* Time, Redis and the API process *)

\* The largest burst: a full bucket, what a late time stamp may refill on top
\* of it, and the part of a second that counts as a whole one.
Burst == Full + Delay + Sec - 1

\* What EXPIRE lacks to refill a whole bucket: its quotient is rounded as well.
Short == AtLeast(0, Full - Life)

\* A bucket d ticks later.
Aged(b, d) ==
    IF b.ttl <= d THEN NoBucket
    ELSE [tokens |-> b.tokens,
          lag    |-> b.lag + (IF phase + d >= Sec THEN Sec ELSE 0),
          ttl    |-> b.ttl - d]

\* A bucket that expires gives a late time stamp its delay once more.
TickBy(d) ==
    LET second  == phase + d >= Sec
        expires == Exists /\ bucket.ttl <= d
    IN  /\ second => \A h \in Handlers : call[h] + Sec <= Delay \/ call[h] = Free
        /\ phase' = IF second THEN phase + d - Sec ELSE phase + d
        /\ call' = [h \in Handlers |->
              IF second /\ call[h] # Free THEN call[h] + Sec ELSE call[h]]
        /\ bucket' = Aged(bucket, d)
        /\ saved' = Aged(saved, d)
        /\ credit' = AtMost(Burst, credit + d + (IF expires THEN Delay + Short ELSE 0))
        /\ due' = AtMost(Full, due + d)
        /\ UNCHANGED <<loaded, restarted, drift>>

Tick == \E d \in Steps : TickBy(d)

\* Redis writes a snapshot to its volume.
Save ==
    /\ "redis_restart" \in Faults
    /\ saved' = bucket
    /\ UNCHANGED <<phase, bucket, call, loaded, restarted, credit, due, drift>>

\* The script is gone.  A Redis that stops in good order saves the bucket, one
\* that is killed comes back with the last snapshot, if that holds a bucket.
RedisRestart ==
    /\ "redis_restart" \in Faults
    /\ loaded' = FALSE
    /\ restarted' = TRUE
    /\ \/ saved' = bucket /\ UNCHANGED <<bucket, credit>>
       \/ bucket' = saved /\ credit' = Burst /\ UNCHANGED saved
    /\ UNCHANGED <<phase, call, due, drift>>

\* Mutant: the SHA is computed without loading the script.
ApiRestartUnloaded ==
    /\ \E gone \in SUBSET Handlers :
          call' = [h \in Handlers |-> IF h \in gone THEN Free ELSE call[h]]
    /\ restarted' = FALSE
    /\ UNCHANGED <<phase, bucket, saved, loaded, credit, due, drift>>

\* The API process dies and starts again: RateLimiterMiddleware loads the script.
\* A call that was sent before may still reach Redis.
ApiRestart ==
    /\ \E gone \in SUBSET Handlers :
          call' = [h \in Handlers |-> IF h \in gone THEN Free ELSE call[h]]
    /\ loaded' = TRUE
    /\ restarted' = FALSE
    /\ UNCHANGED <<phase, bucket, saved, credit, due, drift>>

-----------------------------------------------------------------------------
LimiterInit ==
    /\ phase = 0
    /\ bucket = NoBucket
    /\ saved = NoBucket
    /\ call = [h \in Handlers |-> Free]
    /\ loaded = TRUE
    /\ restarted = FALSE
    /\ credit = Burst
    /\ due = Full
    /\ drift = 0

RequestStep(h) == \/ ReadClock(h) \/ Allow(h) \/ Deny(h)
                  \/ EvalRetried(h) \/ NoScript(h) \/ EvalError(h)

LimiterNext ==
    \/ \E h \in Handlers : RequestStep(h)
    \/ Tick
    \/ Save
    \/ RedisRestart
    \/ ApiRestart

LimiterSpec == LimiterInit /\ [][LimiterNext]_limiterVars

-----------------------------------------------------------------------------
\* The types of the variables; an entry is never older than its time stamps and
\* its TTL allow.
LimiterTypeOK ==
    /\ phase \in 0 .. Sec - 1
    /\ bucket \in Buckets
    /\ saved \in Buckets
    /\ bucket.lag + phase + bucket.ttl < Delay + Life + Sec
    /\ call \in [Handlers -> {Free} \cup 0 .. Delay]
    /\ loaded \in BOOLEAN
    /\ restarted \in BOOLEAN
    /\ credit \in Int
    /\ due \in 0 .. Full
    /\ drift \in 0 .. MaxDrift

\* The limit is kept (rate_limiter.lua:15-41): in no window does a user get
\* more than a burst, what the window's ticks refill and the rounding errors,
\* however calls with older and newer time stamps mix, and an expired bucket adds
\* only the delay of a late time stamp.  Requests that pass without the script
\* are paid for as well, up to the first restart of Redis after the API loaded
\* it (rate_limiter.go:37-40).
LimitKept == credit + drift >= 0

\* A denial is deserved (rate_limiter.lua:21-33): a user is refused only when
\* what was due at the second the time stamp names is less than a token and the
\* rounding errors so far.  No refill is lost at a second boundary, to a late
\* time stamp, to a bucket that expired or to one that Redis restored; what
\* rounding may cost is the hair by which a token that has just become due is
\* missed, and the next second's refill makes up for it.
DenialDeserved ==
    [][\A h \in Handlers : Deny(h) => due < Cost + phase + call[h] + drift']_limiterVars
=============================================================================
