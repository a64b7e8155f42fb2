------------------------- MODULE RateLimiterProofs -------------------------
(***************************************************************************)
(* For every capacity, rate, EXPIRE, rounding error and delay of time      *)
(* stamps: the limit is kept and no denial is undeserved.                  *)
(***************************************************************************)
EXTENDS RateLimiter, TLAPS

USE LimiterAssumption DEF Free, NoBucket, Exists, AtMost, AtLeast, Abs

-----------------------------------------------------------------------------
(* Whole seconds *)

LEMMA NoSeconds == WholeSeconds(0)
<1>1. 0 = 0 * Sec
  OBVIOUS
<1> QED
  BY <1>1 DEF WholeSeconds

LEMMA NextSecond ==
    ASSUME NEW x \in Nat, WholeSeconds(x)
    PROVE  WholeSeconds(x + Sec)
<1>1. PICK k \in 0 .. x : x = k * Sec
  BY DEF WholeSeconds
<1>2. x + Sec = (k + 1) * Sec
  BY <1>1
<1>3. k + 1 \in 0 .. (x + Sec)
  BY <1>1
<1> QED
  BY <1>2, <1>3 DEF WholeSeconds

\* Two spans of whole seconds differ by less than a second only when they agree.
LEMMA SecondsApart ==
    ASSUME NEW x \in Nat, NEW y \in Nat, WholeSeconds(x), WholeSeconds(y), x + Sec > y
    PROVE  x >= y
<1>1. PICK i \in 0 .. x : x = i * Sec
  BY DEF WholeSeconds
<1>2. PICK j \in 0 .. y : y = j * Sec
  BY DEF WholeSeconds
<1>3. (i + 1) * Sec > j * Sec
  BY <1>1, <1>2
<1>4. i + 1 > j
  <2> SUFFICES ASSUME i + 1 <= j PROVE FALSE
    OBVIOUS
  <2>1. PICK d \in Nat : j = i + 1 + d
    BY <1>1, <1>2
  <2>2. j * Sec = (i + 1) * Sec + d * Sec /\ d * Sec >= 0
    BY <2>1
  <2> QED
    BY <2>2, <1>3
<1>5. PICK d \in Nat : i = j + d
  BY <1>4
<1>6. i * Sec = j * Sec + d * Sec /\ d * Sec >= 0
  BY <1>5
<1> QED
  BY <1>1, <1>2, <1>6

-----------------------------------------------------------------------------
(* The inductive invariant *)

\* What a call could grant at once: the bucket's tokens and all refills up to
\* the present, at most a full bucket as of the oldest time stamp.
Spendable == AtMost(bucket.tokens + bucket.lag, Full + Delay)

SecondsKept == \A h \in Handlers : call[h] # Free => WholeSeconds(call[h])

\* What holds of a bucket, the current one as well as a saved one: until it
\* expires, its lag and its TTL make up EXPIRE, and it covers what is owed up to
\* the rounding errors; one that does not exist is as good as a full one.
Sound(b, now, owed, errors) ==
    /\ b \in Buckets
    /\ b.lag + now + b.ttl < Delay + Life + Sec
    /\ WholeSeconds(b.lag)
    /\ b.ttl > 0 => /\ b.lag + now + b.ttl >= Life
                    /\ owed <= b.tokens + b.lag + now + errors
    /\ b.ttl = 0 => b = NoBucket

CreditCovers ==
    /\ credit <= Burst
    /\ Exists  => Spendable + phase <= credit + drift
    /\ ~Exists => Full + Delay + phase <= credit + drift

NothingUnpaid == ~loaded => restarted

LimiterInv == /\ LimiterTypeOK /\ SecondsKept
              /\ Sound(bucket, phase, due, drift) /\ Sound(saved, phase, due, drift)
              /\ CreditCovers /\ NothingUnpaid

LEMMA NoBucketSound ==
    ASSUME NEW now \in 0 .. Sec - 1, NEW owed, NEW errors
    PROVE  Sound(NoBucket, now, owed, errors)
  BY NoSeconds DEF Sound, Buckets

LEMMA InitInv == ASSUME LimiterInit PROVE LimiterInv
<1>1. bucket = NoBucket /\ saved = NoBucket /\ phase \in 0 .. Sec - 1
  BY DEF LimiterInit
<1>2. Sound(bucket, phase, due, drift) /\ Sound(saved, phase, due, drift)
  BY <1>1, NoBucketSound
<1>3. LimiterTypeOK
  <2>1. call \in [Handlers -> {Free} \cup 0 .. Delay]
    BY DEF LimiterInit
  <2>2. credit \in Int /\ due \in 0 .. Full /\ drift \in 0 .. MaxDrift
    BY DEF LimiterInit, Burst
  <2> QED
    BY <1>1, <1>2, <2>1, <2>2 DEF LimiterInit, LimiterTypeOK, Sound
<1>4. CreditCovers
  BY <1>1 DEF LimiterInit, CreditCovers, Burst
<1> QED
  BY <1>2, <1>3, <1>4 DEF LimiterInit, LimiterInv, SecondsKept, NothingUnpaid

-----------------------------------------------------------------------------
(* The script *)

\* The numbers of an error: it is less than what a refill adds.
LEMMA ErrorTyped ==
    ASSUME LimiterInv, NEW b \in 0 .. Delay, NEW e \in Errors(b)
    PROVE  /\ e \in -Sec .. Sec
           /\ drift + Abs(e) \in 0 .. MaxDrift
           /\ e # 0 => Refills(b)
  BY DEF Errors, LimiterInv, LimiterTypeOK

\* A refill leaves a full bucket, or moves units from the lag to the tokens and
\* adds its error.
LEMMA Refill ==
    ASSUME LimiterInv, NEW b \in 0 .. Delay, WholeSeconds(b), NEW e \in Errors(b)
    PROVE  /\ Refilled(b, e).tokens \in 0 .. Full
           /\ Refilled(b, e).lag \in 0 .. b
           /\ WholeSeconds(Refilled(b, e).lag)
           /\ Exists => Refilled(b, e).tokens + Refilled(b, e).lag
                           <= bucket.tokens + bucket.lag + Abs(e)
           /\ \/ Refilled(b, e).tokens = Full
              \/ /\ Exists
                 /\ Refilled(b, e).tokens + Refilled(b, e).lag
                       >= bucket.tokens + bucket.lag - Abs(e)
<1>1. /\ bucket.tokens \in 0 .. Full /\ bucket.lag \in Nat
      /\ WholeSeconds(bucket.lag)
      /\ ~Exists => bucket.tokens = Full
  BY DEF LimiterInv, LimiterTypeOK, Buckets, Sound
<1>2. e \in -Sec .. Sec /\ (e # 0 => Refills(b))
  BY ErrorTyped
<1>3. CASE Refills(b)
  <2>1. /\ Refilled(b, e).tokens = AtMost(Full, bucket.tokens + (bucket.lag - b) + e)
        /\ Refilled(b, e).lag = b
    BY <1>3 DEF Refilled
  <2>2. bucket.lag >= b + Sec
    <3> SUFFICES ASSUME b + Sec > bucket.lag PROVE FALSE
      BY <1>1
    <3>1. b >= bucket.lag
      BY <1>1, SecondsApart
    <3> QED
      BY <1>1, <1>3, <3>1 DEF Refills
  <2> QED
    BY <1>1, <1>2, <1>3, <2>1, <2>2 DEF Refills
<1>4. CASE Exists /\ bucket.lag <= b
  <2>1. ~Refills(b) /\ e = 0
    BY <1>1, <1>2, <1>4 DEF Refills
  <2>2. Refilled(b, e).tokens = bucket.tokens /\ Refilled(b, e).lag = bucket.lag
    BY <1>4, <2>1 DEF Refilled
  <2> QED
    BY <1>1, <1>4, <2>1, <2>2
<1>5. CASE ~Exists
  <2>1. Refilled(b, e).tokens = bucket.tokens /\ Refilled(b, e).lag = b
    BY <1>5 DEF Refilled, Refills
  <2> QED
    BY <1>1, <1>5, <2>1
<1> QED
  BY <1>1, <1>3, <1>4, <1>5 DEF Refills

\* The parts of the invariant that the bucket, the clock and the debts make up.
BucketKept == /\ Sound(bucket, phase, due, drift) /\ Sound(saved, phase, due, drift)
              /\ CreditCovers
              /\ due \in 0 .. Full /\ drift \in 0 .. MaxDrift

LEMMA ScriptKeeps ==
    ASSUME LimiterInv, NEW b \in 0 .. Delay, WholeSeconds(b), NEW e \in Errors(b),
           Script(b, e), UNCHANGED <<phase, saved>>,
           credit' \in {credit, credit - Cost},
           ~Allowed(b, e) => credit' = credit
    PROVE  BucketKept'
<1> DEFINE r     == Refilled(b, e)
           spent == IF Allowed(b, e) THEN Cost ELSE 0
           more  == Abs(e)
<1>1. /\ r.tokens \in 0 .. Full /\ r.lag \in 0 .. b /\ WholeSeconds(r.lag)
      /\ Exists => r.tokens + r.lag <= bucket.tokens + bucket.lag + more
      /\ \/ r.tokens = Full
         \/ Exists /\ r.tokens + r.lag >= bucket.tokens + bucket.lag - more
  BY Refill
<1>2. spent \in Nat /\ spent <= r.tokens
  BY <1>1 DEF Allowed
<1>3. bucket' = [tokens |-> r.tokens - spent, lag |-> r.lag, ttl |-> Life]
  BY DEF Script
<1>4. credit' \in Int /\ credit' <= credit /\ credit' >= credit - spent
  BY DEF LimiterInv, LimiterTypeOK
<1>5. due \in 0 .. Full /\ due' = AtLeast(0, due - spent)
  BY <1>2 DEF Script, DueAfter, LimiterInv, LimiterTypeOK
<1>6. /\ more \in Nat /\ drift \in Nat
      /\ drift' = drift + more /\ drift' \in 0 .. MaxDrift
  BY ErrorTyped DEF Script, LimiterInv, LimiterTypeOK
<1> HIDE DEF r, spent, more
<1>7. phase' = phase /\ phase \in 0 .. Sec - 1
  BY DEF LimiterInv, LimiterTypeOK
<1>8. bucket' \in Buckets /\ bucket'.ttl > 0 /\ Exists'
  <2>1. bucket' \in Buckets
    BY <1>1, <1>2, <1>3 DEF Buckets
  <2>2. bucket'.ttl = Life /\ Life > 0
    BY <1>3
  <2> QED
    BY <2>1, <2>2
<1>9. Sound(bucket, phase, due, drift)'
  <2>1. bucket'.lag + phase' + bucket'.ttl < Delay + Life + Sec
    BY <1>1, <1>3, <1>7
  <2>2. bucket'.lag + phase' + bucket'.ttl >= Life
    BY <1>1, <1>3, <1>7
  <2>3. Exists => due <= bucket.tokens + bucket.lag + phase + drift
    BY DEF LimiterInv, Sound
  <2>4. due <= r.tokens + r.lag + phase + drift'
    <3>1. bucket.tokens \in Nat /\ bucket.lag \in Nat
      BY DEF LimiterInv, LimiterTypeOK, Buckets
    <3> QED
      BY <1>1, <1>5, <1>6, <1>7, <2>3, <3>1
  <2>5. due' <= bucket'.tokens + bucket'.lag + phase' + drift'
    BY <1>1, <1>2, <1>3, <1>5, <1>6, <1>7, <2>4
  <2> QED
    BY <1>1, <1>3, <1>8, <2>1, <2>2, <2>5 DEF Sound
<1>10. Sound(saved, phase, due, drift)'
  <2>1. Sound(saved, phase, due, drift) /\ saved' = saved
    BY DEF LimiterInv
  <2>2. saved.ttl > 0 => due' <= saved.tokens + saved.lag + phase + drift'
    <3>1. saved.tokens \in Nat /\ saved.lag \in Nat
      BY DEF LimiterInv, LimiterTypeOK, Buckets
    <3> QED
      BY <1>2, <1>5, <1>6, <1>7, <2>1, <3>1 DEF Sound
  <2> QED
    BY <1>7, <2>1, <2>2 DEF Sound
<1>11. CreditCovers'
  <2>1. Spendable' <= r.tokens + r.lag - spent
    BY <1>1, <1>2, <1>3 DEF Spendable
  <2>2. Spendable' \in Int
    BY <1>3, <1>8 DEF Spendable, Buckets
  <2>3. r.tokens + r.lag + phase <= credit + drift' /\ credit <= Burst
    <3>1. CASE Exists
      <4>1. Spendable \in Int /\ Spendable + phase <= credit + drift /\ credit <= Burst
        BY <3>1 DEF LimiterInv, CreditCovers, Spendable, LimiterTypeOK, Buckets
      <4>2. r.tokens + r.lag <= Spendable + more
        BY <1>1, <1>6, <3>1 DEF Spendable, LimiterInv, LimiterTypeOK, Buckets
      <4> QED
        BY <1>1, <1>6, <1>7, <4>1, <4>2 DEF LimiterInv, LimiterTypeOK
    <3>2. CASE ~Exists
      <4>1. Full + Delay + phase <= credit + drift /\ credit <= Burst /\ credit \in Int
        BY <3>2 DEF LimiterInv, CreditCovers, LimiterTypeOK
      <4> QED
        BY <1>1, <1>6, <1>7, <4>1
    <3> QED
      BY <3>1, <3>2
  <2>4. credit \in Int /\ Burst \in Int
    BY DEF LimiterInv, LimiterTypeOK, Burst
  <2>5. Spendable' + phase' <= credit' + drift'
    <3>1. r.tokens + r.lag + phase - spent <= credit' + drift'
      BY <1>1, <1>2, <1>4, <1>6, <1>7, <2>3, <2>4
    <3>2. Spendable' + phase' <= r.tokens + r.lag + phase - spent
      BY <1>1, <1>2, <1>7, <2>1, <2>2
    <3> DEFINE have == r.tokens + r.lag + phase - spent
    <3>3. have \in Int /\ Spendable' + phase' \in Int
      BY <1>1, <1>2, <1>7, <2>2
    <3> QED
      BY <1>4, <1>6, <3>1, <3>2, <3>3
  <2>6. credit' <= Burst'
    BY <1>4, <2>3, <2>4 DEF Burst
  <2> QED
    BY <1>8, <2>5, <2>6 DEF CreditCovers
<1>12. due' \in 0 .. Full
  BY <1>2, <1>5
<1> QED
  BY <1>6, <1>9, <1>10, <1>11, <1>12 DEF BucketKept

-----------------------------------------------------------------------------
(* The clock *)

\* The phase d ticks later.
Later(d) == IF phase + d >= Sec THEN phase + d - Sec ELSE phase + d

LEMMA AgedSound ==
    ASSUME NEW b, NEW d \in Steps, phase \in 0 .. Sec - 1, due \in 0 .. Full,
           drift \in Nat, Sound(b, phase, due, drift)
    PROVE  Sound(Aged(b, d), Later(d), AtMost(Full, due + d), drift)
<1> DEFINE step == IF phase + d >= Sec THEN Sec ELSE 0
<1>1. d \in 1 .. Sec
  OBVIOUS
<1>2. Later(d) = phase + d - step /\ Later(d) \in 0 .. Sec - 1
  BY <1>1 DEF Later
<1>3. /\ b.tokens \in 0 .. Full /\ b.lag \in Nat /\ b.ttl \in 0 .. Life
      /\ WholeSeconds(b.lag) /\ step \in Nat /\ WholeSeconds(b.lag + step)
  BY NextSecond DEF Sound, Buckets
<1>4. CASE b.ttl <= d
  BY <1>2, <1>4, NoBucketSound DEF Aged
<1>5. CASE b.ttl > d
  <2>1. Aged(b, d) = [tokens |-> b.tokens, lag |-> b.lag + step, ttl |-> b.ttl - d]
    BY <1>1, <1>3, <1>5 DEF Aged
  <2> HIDE DEF step
  <2> DEFINE a == Aged(b, d)
  <2>2. a \in Buckets /\ a.ttl > 0
    BY <1>1, <1>3, <1>5, <2>1 DEF Buckets
  <2>3. a.lag + Later(d) + a.ttl = b.lag + phase + b.ttl
    BY <1>1, <1>2, <1>3, <2>1
  <2>4. AtMost(Full, due + d) <= a.tokens + a.lag + Later(d) + drift
    <3>1. due <= b.tokens + b.lag + phase + drift
      BY <1>1, <1>3, <1>5 DEF Sound
    <3> QED
      BY <1>1, <1>2, <1>3, <2>1, <3>1
  <2>5. WholeSeconds(a.lag)
    BY <1>3, <2>1
  <2>6. b.lag + phase + b.ttl < Delay + Life + Sec /\ b.lag + phase + b.ttl >= Life
    BY <1>1, <1>3, <1>5 DEF Sound
  <2> HIDE DEF a
  <2>7. a.ttl # 0
    BY <2>2 DEF Buckets
  <2>8. Sound(a, Later(d), AtMost(Full, due + d), drift)
    BY <2>2, <2>3, <2>4, <2>5, <2>6, <2>7 DEF Sound
  <2> QED
    BY <2>8 DEF a
<1> QED
  BY <1>1, <1>3, <1>4, <1>5

LEMMA TickKeeps ==
    ASSUME LimiterInv, NEW d \in Steps, TickBy(d)
    PROVE  LimiterInv'
<1> DEFINE second == phase + d >= Sec
           step   == IF second THEN Sec ELSE 0
<1>0. d \in 1 .. Sec
  OBVIOUS
<1>1. /\ phase \in 0 .. Sec - 1 /\ phase' \in 0 .. Sec - 1
      /\ phase' = phase + d - step /\ phase' = Later(d)
  BY <1>0 DEF TickBy, LimiterInv, LimiterTypeOK, Later
<1>2. /\ bucket.tokens \in 0 .. Full /\ bucket.lag \in Nat /\ bucket.ttl \in 0 .. Life
      /\ WholeSeconds(bucket.lag) /\ WholeSeconds(bucket.lag + step)
      /\ credit \in Int /\ due \in 0 .. Full /\ drift \in 0 .. MaxDrift
      /\ step \in {0, Sec}
  BY NextSecond DEF LimiterInv, LimiterTypeOK, Buckets, Sound
<1>3. /\ call' \in [Handlers -> {Free} \cup 0 .. Delay]
      /\ \A h \in Handlers : call'[h] # Free => WholeSeconds(call'[h])
  <2>1. call' = [h \in Handlers |-> IF second /\ call[h] # Free THEN call[h] + Sec ELSE call[h]]
    BY DEF TickBy
  <2>2. \A h \in Handlers : call[h] \in {Free} \cup 0 .. Delay
    BY DEF LimiterInv, LimiterTypeOK
  <2> SUFFICES ASSUME NEW h \in Handlers
               PROVE  /\ call'[h] \in {Free} \cup 0 .. Delay
                      /\ call'[h] # Free => WholeSeconds(call'[h])
    BY <2>1
  <2>3. CASE second /\ call[h] # Free
    <3>1. call'[h] = call[h] + Sec /\ call[h] \in Nat /\ call[h] + Sec <= Delay
      BY <2>1, <2>2, <2>3 DEF TickBy
    <3>2. WholeSeconds(call[h] + Sec)
      BY <2>3, <3>1, NextSecond DEF LimiterInv, SecondsKept
    <3> QED
      BY <3>1, <3>2
  <2>4. CASE ~(second /\ call[h] # Free)
    BY <2>1, <2>2, <2>4 DEF LimiterInv, SecondsKept
  <2> QED
    BY <2>3, <2>4
<1>4. /\ loaded' \in BOOLEAN /\ restarted' \in BOOLEAN /\ NothingUnpaid'
      /\ drift' = drift
  BY DEF TickBy, LimiterInv, LimiterTypeOK, NothingUnpaid
<1>5. due' = AtMost(Full, due + d) /\ due' \in 0 .. Full
  BY <1>0, <1>2 DEF TickBy
<1>6. bucket' = Aged(bucket, d) /\ saved' = Aged(saved, d)
  BY DEF TickBy
<1>7. Sound(bucket, phase, due, drift)' /\ Sound(saved, phase, due, drift)'
  <2>1. Sound(bucket, phase, due, drift) /\ Sound(saved, phase, due, drift)
    BY DEF LimiterInv
  <2>2. Sound(bucket', phase', due', drift') /\ Sound(saved', phase', due', drift')
    BY <1>1, <1>2, <1>4, <1>5, <1>6, <2>1, AgedSound
  <2> QED
    BY <2>2 DEF Sound
<1>8. credit' = AtMost(Burst, credit + d + (IF Exists /\ bucket.ttl <= d THEN Delay + Short ELSE 0))
  BY DEF TickBy
<1>9. Short \in Nat /\ Burst \in Int /\ Full <= Life + Short
  BY DEF Short, Burst
<1>10. credit' \in Int /\ credit' <= Burst
  BY <1>0, <1>2, <1>8, <1>9
<1> HIDE DEF second, step
<1>11. CreditCovers'
  <2>1. CASE bucket.ttl > d
    <3>1. bucket' = [tokens |-> bucket.tokens, lag |-> bucket.lag + step, ttl |-> bucket.ttl - d]
      BY <1>0, <1>2, <1>6, <2>1 DEF Aged, second, step
    <3>2. credit' = AtMost(Burst, credit + d)
      BY <1>0, <1>2, <1>8, <2>1
    <3>3. Exists /\ Exists'
      BY <1>0, <1>2, <2>1, <3>1
    <3>4. Spendable + phase <= credit + drift
      BY <3>3 DEF LimiterInv, CreditCovers
    <3>5. Spendable' <= Spendable + step /\ Spendable' <= Full + Delay
      BY <1>2, <3>1 DEF Spendable
    <3>6. Spendable \in Int /\ Spendable' \in Int
      BY <1>2, <3>1 DEF Spendable
    <3>7. Spendable' + phase' <= credit + d + drift
      <4>1. PICK old \in Int, new \in Int : old = Spendable /\ new = Spendable'
        BY <3>6
      <4>2. new <= old + step /\ old + phase <= credit + drift
        BY <3>4, <3>5, <4>1
      <4>3. new + (phase + d - step) <= credit + d + drift
        BY <1>0, <1>1, <1>2, <4>2
      <4> QED
        BY <1>1, <4>1, <4>3
    <3>8. Spendable' + phase' <= Burst
      BY <1>1, <3>5, <3>6 DEF Burst
    <3>9. Spendable' + phase' <= credit' + drift'
      <4>1. PICK new \in Int : new = Spendable' + phase'
        BY <1>1, <3>6
      <4> QED
        BY <1>0, <1>2, <1>4, <1>9, <3>2, <3>7, <3>8, <4>1
    <3> QED
      BY <1>10, <3>3, <3>9 DEF CreditCovers, Burst
  <2>2. CASE bucket.ttl <= d
    <3>1. ~Exists'
      BY <1>6, <2>2 DEF Aged
    <3>2. Full + Delay + phase' <= credit' + drift
      <4>1. CASE Exists
        <5>1. credit' = AtMost(Burst, credit + d + Delay + Short)
          BY <1>0, <1>2, <1>8, <1>9, <2>2, <4>1
        <5>2. bucket.lag + phase + bucket.ttl >= Life
          BY <4>1 DEF LimiterInv, Sound
        <5>3. bucket.lag + step + phase' >= Life
          BY <1>0, <1>1, <1>2, <2>2, <5>2
        <5>4. bucket.lag + step >= Life
          <6>1. bucket.lag + step \in Nat /\ bucket.lag + step + Sec > Life
            BY <1>1, <1>2, <5>3
          <6> QED
            BY <1>2, <6>1, SecondsApart
        <5>5. Spendable + phase <= credit + drift /\ Spendable \in Int
          BY <1>2, <4>1 DEF LimiterInv, CreditCovers, Spendable
        <5>6. Spendable + step + Short >= Full
          BY <1>2, <1>9, <5>4 DEF Spendable
        <5>7. Full + phase' <= credit + d + Short + drift
          BY <1>0, <1>1, <1>2, <1>9, <5>5, <5>6
        <5> QED
          BY <1>0, <1>1, <1>2, <1>9, <5>1, <5>7 DEF Burst
      <4>2. CASE ~Exists
        <5>1. Full + Delay + phase <= credit + drift
          BY <4>2 DEF LimiterInv, CreditCovers
        <5>2. credit' = AtMost(Burst, credit + d)
          BY <1>0, <1>2, <1>8, <4>2
        <5>3. phase' <= phase + d
          BY <1>0, <1>1, <1>2
        <5> QED
          BY <1>0, <1>1, <1>2, <5>1, <5>2, <5>3 DEF Burst
      <4> QED
        BY <4>1, <4>2
    <3> QED
      BY <1>4, <1>10, <3>1, <3>2 DEF CreditCovers, Burst
  <2> QED
    BY <1>0, <1>2, <2>1, <2>2
<1>12. LimiterTypeOK'
  BY <1>1, <1>2, <1>3, <1>4, <1>5, <1>7, <1>10 DEF LimiterTypeOK, Sound
<1> QED
  BY <1>3, <1>4, <1>7, <1>11, <1>12 DEF LimiterInv, SecondsKept

-----------------------------------------------------------------------------
(* The steps *)

\* A call that is on its way has a time stamp of whole seconds.
LEMMA StampTyped ==
    ASSUME LimiterInv, NEW h \in Handlers, call[h] # Free
    PROVE  call[h] \in 0 .. Delay /\ WholeSeconds(call[h])
<1>1. call[h] \in {Free} \cup 0 .. Delay
  BY DEF LimiterInv, LimiterTypeOK
<1> QED
  BY <1>1 DEF LimiterInv, SecondsKept

\* Freeing or setting one handler's call keeps what is known of the calls.
CallsKept == /\ call \in [Handlers -> {Free} \cup 0 .. Delay]
             /\ \A h \in Handlers : call[h] # Free => WholeSeconds(call[h])

LEMMA CallSet ==
    ASSUME LimiterInv, NEW h \in Handlers, NEW v \in {Free, 0},
           call' = [call EXCEPT ![h] = v]
    PROVE  CallsKept'
<1>1. call \in [Handlers -> {Free} \cup 0 .. Delay]
  BY DEF LimiterInv, LimiterTypeOK
<1>2. v \in {Free} \cup 0 .. Delay /\ (v # Free => WholeSeconds(v))
  BY NoSeconds
<1>3. ASSUME NEW g \in Handlers
      PROVE  call'[g] = IF g = h THEN v ELSE call[g]
  BY <1>1
<1>4. call' \in [Handlers -> {Free} \cup 0 .. Delay]
  BY <1>1, <1>2
<1>5. \A g \in Handlers : call[g] # Free => WholeSeconds(call[g])
  BY DEF LimiterInv, SecondsKept
<1> QED
  BY <1>2, <1>3, <1>4, <1>5 DEF CallsKept

LEMMA InvParts ==
    ASSUME BucketKept', CallsKept', NothingUnpaid', phase' \in 0 .. Sec - 1,
           loaded' \in BOOLEAN, restarted' \in BOOLEAN, credit' \in Int
    PROVE  LimiterInv'
BY DEF BucketKept, CallsKept, LimiterInv, LimiterTypeOK, SecondsKept, Sound

\* The parts that a step which leaves bucket, clock and debts alone keeps.
LEMMA PartsOfInv ==
    ASSUME LimiterInv
    PROVE  /\ BucketKept /\ CallsKept /\ NothingUnpaid /\ phase \in 0 .. Sec - 1
           /\ loaded \in BOOLEAN /\ restarted \in BOOLEAN /\ credit \in Int
BY DEF BucketKept, CallsKept, LimiterInv, LimiterTypeOK, SecondsKept

LEMMA BucketUntouched ==
    ASSUME LimiterInv, UNCHANGED <<phase, bucket, credit, due, drift>>,
           saved' \in {saved, bucket}
    PROVE  BucketKept'
<1>1. Sound(bucket, phase, due, drift)' /\ Sound(saved, phase, due, drift)'
  BY PartsOfInv DEF BucketKept, Sound
<1> QED
  BY <1>1, PartsOfInv DEF BucketKept, CreditCovers, Spendable, Burst

\* A burst covers whatever a bucket holds.
LEMMA BurstCovers ==
    ASSUME NEW x \in Int, x <= Full + Delay, NEW now \in 0 .. Sec - 1, NEW errors \in Nat
    PROVE  x + now <= Burst + errors /\ Full + Delay + now <= Burst + errors
  BY DEF Burst

LEMMA StepInv ==
    ASSUME LimiterInv, [LimiterNext]_limiterVars
    PROVE  LimiterInv'
<1> USE PartsOfInv
<1> SUFFICES ASSUME LimiterNext PROVE LimiterInv'
  <2> SUFFICES ASSUME UNCHANGED limiterVars PROVE LimiterInv'
    OBVIOUS
  <2>1. BucketKept'
    BY BucketUntouched DEF limiterVars
  <2>2. CallsKept' /\ NothingUnpaid'
    BY DEF limiterVars, CallsKept, NothingUnpaid
  <2> QED
    BY <2>1, <2>2, InvParts DEF limiterVars
<1>1. ASSUME NEW h \in Handlers, ReadClock(h) PROVE LimiterInv'
  <2>1. CallsKept'
    BY <1>1, CallSet DEF ReadClock
  <2>2. BucketKept'
    BY <1>1, BucketUntouched DEF ReadClock
  <2>3. NothingUnpaid'
    BY <1>1 DEF ReadClock, NothingUnpaid
  <2> QED
    BY <1>1, <2>1, <2>2, <2>3, InvParts DEF ReadClock
<1>2. ASSUME NEW h \in Handlers, Allow(h) PROVE LimiterInv'
  <2>1. CallsKept'
    BY <1>2, CallSet DEF Allow, Answered
  <2>2. call[h] \in 0 .. Delay /\ WholeSeconds(call[h])
    BY <1>2, StampTyped DEF Allow, Answered
  <2>3. BucketKept'
    BY <1>2, <2>2, ScriptKeeps DEF Allow
  <2>4. NothingUnpaid' /\ credit' \in Int
    BY <1>2 DEF Allow, NothingUnpaid
  <2> QED
    BY <1>2, <2>1, <2>3, <2>4, InvParts DEF Allow
<1>3. ASSUME NEW h \in Handlers, Deny(h) PROVE LimiterInv'
  <2>1. CallsKept'
    BY <1>3, CallSet DEF Deny, Answered
  <2>2. call[h] \in 0 .. Delay /\ WholeSeconds(call[h])
    BY <1>3, StampTyped DEF Deny, Answered
  <2>3. BucketKept'
    BY <1>3, <2>2, ScriptKeeps DEF Deny
  <2>4. NothingUnpaid'
    BY <1>3 DEF Deny, NothingUnpaid
  <2> QED
    BY <1>3, <2>1, <2>3, <2>4, InvParts DEF Deny
<1>4. ASSUME NEW h \in Handlers, EvalRetried(h) PROVE LimiterInv'
  <2>1. call[h] \in 0 .. Delay /\ WholeSeconds(call[h])
    BY <1>4, StampTyped DEF EvalRetried
  <2>2. BucketKept'
    BY <1>4, <2>1, ScriptKeeps DEF EvalRetried
  <2>3. CallsKept' /\ NothingUnpaid'
    BY <1>4 DEF EvalRetried, CallsKept, NothingUnpaid
  <2> QED
    BY <1>4, <2>2, <2>3, InvParts DEF EvalRetried
<1>5. ASSUME NEW h \in Handlers, NoScript(h) PROVE LimiterInv'
  <2>1. CallsKept'
    BY <1>5, CallSet DEF NoScript, Answered
  <2>2. credit' = credit
    BY <1>5 DEF NoScript, NothingUnpaid
  <2>3. BucketKept'
    BY <1>5, <2>2, BucketUntouched DEF NoScript
  <2>4. NothingUnpaid'
    BY <1>5 DEF NoScript, NothingUnpaid
  <2> QED
    BY <1>5, <2>1, <2>2, <2>3, <2>4, InvParts DEF NoScript
<1>6. ASSUME NEW h \in Handlers, EvalError(h) PROVE LimiterInv'
  <2>1. CallsKept'
    BY <1>6, CallSet DEF EvalError, Answered
  <2>2. call[h] \in 0 .. Delay /\ WholeSeconds(call[h])
    BY <1>6, StampTyped DEF EvalError, Answered
  <2>3. BucketKept'
    <3>1. CASE \E e \in Errors(call[h]) : Script(call[h], e)
      BY <1>6, <2>2, <3>1, ScriptKeeps DEF EvalError
    <3>2. CASE UNCHANGED <<bucket, due, drift>>
      BY <1>6, <3>2, BucketUntouched DEF EvalError
    <3> QED
      BY <1>6, <3>1, <3>2 DEF EvalError
  <2>4. NothingUnpaid'
    BY <1>6 DEF EvalError, NothingUnpaid
  <2> QED
    BY <1>6, <2>1, <2>3, <2>4, InvParts DEF EvalError
<1>7. ASSUME RedisRestart PROVE LimiterInv'
  <2>1. CallsKept' /\ NothingUnpaid'
    BY <1>7 DEF RedisRestart, CallsKept, NothingUnpaid
  <2>2. BucketKept' /\ credit' \in Int
    <3>1. CASE saved' = bucket /\ UNCHANGED <<bucket, credit>>
      BY <1>7, <3>1, BucketUntouched DEF RedisRestart
    <3>2. CASE bucket' = saved /\ credit' = Burst /\ UNCHANGED saved
      <4>1. Sound(bucket, phase, due, drift)' /\ Sound(saved, phase, due, drift)'
        BY <1>7, <3>2 DEF RedisRestart, LimiterInv, Sound
      <4>2. due' \in 0 .. Full /\ drift' \in 0 .. MaxDrift
        BY <1>7 DEF RedisRestart, LimiterInv, LimiterTypeOK
      <4>3. Spendable' <= Full + Delay /\ Spendable' \in Int
        BY <4>1 DEF Spendable, Sound, Buckets
      <4>4. phase' \in 0 .. Sec - 1 /\ drift' \in Nat
        BY <1>7, <4>2 DEF RedisRestart
      <4>5. credit' \in Int /\ credit' <= Burst'
        BY <3>2 DEF Burst
      <4>6. Spendable' + phase' <= credit' + drift' /\ Full + Delay + phase' <= credit' + drift'
        BY <3>2, <4>3, <4>4, BurstCovers
      <4>7. CreditCovers'
        BY <4>5, <4>6 DEF CreditCovers
      <4> QED
        BY <4>1, <4>2, <4>5, <4>7 DEF BucketKept
    <3> QED
      BY <1>7, <3>1, <3>2 DEF RedisRestart
  <2> QED
    BY <1>7, <2>1, <2>2, InvParts DEF RedisRestart
<1>8. ASSUME ApiRestart PROVE LimiterInv'
  <2>1. CallsKept'
    <3>1. PICK gone \in SUBSET Handlers :
             call' = [h \in Handlers |-> IF h \in gone THEN Free ELSE call[h]]
      BY <1>8 DEF ApiRestart
    <3> QED
      BY <3>1 DEF CallsKept
  <2>2. BucketKept'
    BY <1>8, BucketUntouched DEF ApiRestart
  <2>3. NothingUnpaid'
    BY <1>8 DEF ApiRestart, NothingUnpaid
  <2> QED
    BY <1>8, <2>1, <2>2, <2>3, InvParts DEF ApiRestart
<1>9. ASSUME Save PROVE LimiterInv'
  <2>1. CallsKept'
    BY <1>9 DEF Save, CallsKept
  <2>2. BucketKept'
    BY <1>9, BucketUntouched DEF Save
  <2>3. NothingUnpaid'
    BY <1>9 DEF Save, NothingUnpaid
  <2> QED
    BY <1>9, <2>1, <2>2, <2>3, InvParts DEF Save
<1>10. ASSUME Tick PROVE LimiterInv'
  BY <1>10, TickKeeps DEF Tick
<1> QED
  BY <1>1, <1>2, <1>3, <1>4, <1>5, <1>6, <1>7, <1>8, <1>9, <1>10
     DEF LimiterNext, RequestStep

LEMMA LimiterInvHolds == LimiterSpec => []LimiterInv
<1>1. LimiterInit => LimiterInv
  BY InitInv
<1>2. LimiterInv /\ [LimiterNext]_limiterVars => LimiterInv'
  BY StepInv
<1> QED
  BY <1>1, <1>2, PTL DEF LimiterSpec

-----------------------------------------------------------------------------
(* The theorems *)

\* The limiter's variables keep their types, and an entry is never older than
\* time stamps and TTL allow.
THEOREM LimiterTypeCorrect == LimiterSpec => []LimiterTypeOK
<1>1. LimiterInv => LimiterTypeOK
  BY DEF LimiterInv
<1> QED
  BY <1>1, LimiterInvHolds, PTL

\* The limit holds (rate_limiter.lua:15-41) for every capacity, rate, rounding
\* error and delay, whatever order time stamps arrive in: what a user could spend
\* at once is covered by the credit and the rounding errors so far.
THEOREM LimitIsKept == LimiterSpec => []LimitKept
<1>1. LimiterInv => LimitKept
  <2> SUFFICES ASSUME LimiterInv PROVE credit + drift >= 0
    BY DEF LimitKept
  <2>1. phase \in Nat /\ credit \in Int /\ drift \in Nat
    BY DEF LimiterInv, LimiterTypeOK
  <2>2. CASE Exists
    <3>1. Spendable \in Nat
      BY DEF Spendable, LimiterInv, LimiterTypeOK, Buckets
    <3>2. Spendable + phase <= credit + drift
      BY <2>2 DEF LimiterInv, CreditCovers
    <3> QED
      BY <2>1, <3>1, <3>2
  <2>3. CASE ~Exists
    <3>1. Full + Delay + phase <= credit + drift
      BY <2>3 DEF LimiterInv, CreditCovers
    <3> QED
      BY <2>1, <3>1
  <2> QED
    BY <2>2, <2>3
<1> QED
  BY <1>1, LimiterInvHolds, PTL

\* Nobody is refused to whom a token and the rounding errors so far were due at
\* the second of the time stamp (rate_limiter.lua:21-33), for every rate and
\* every rounding error: the bucket and its lag cover what is due.
THEOREM DenialsAreDeserved == LimiterSpec => DenialDeserved
<1>1. ASSUME LimiterInv, NEW h \in Handlers, Deny(h)
      PROVE  due < Cost + phase + call[h] + drift'
  <2>1. call[h] \in 0 .. Delay /\ WholeSeconds(call[h])
    BY <1>1, StampTyped DEF Deny, Answered
  <2>2. PICK e \in Errors(call[h]) : ~Allowed(call[h], e) /\ Script(call[h], e)
    BY <1>1 DEF Deny
  <2> DEFINE r == Refilled(call[h], e)
             more == Abs(e)
  <2>3. /\ r.tokens \in 0 .. Full /\ r.lag \in 0 .. call[h]
        /\ \/ r.tokens = Full
           \/ Exists /\ r.tokens + r.lag >= bucket.tokens + bucket.lag - more
    BY <1>1, <2>1, Refill
  <2>4. ~(r.tokens >= Cost)
    BY <2>2 DEF Allowed
  <2>5. more \in Nat /\ drift' = drift + more
    BY <1>1, <2>1, <2>2, ErrorTyped DEF Script
  <2> HIDE DEF r, more
  <2>6. Exists /\ r.tokens + r.lag >= bucket.tokens + bucket.lag - more
    BY <2>3, <2>4
  <2>7. due <= bucket.tokens + bucket.lag + phase + drift
    BY <1>1, <2>6 DEF LimiterInv, Sound
  <2>8. /\ due \in Nat /\ phase \in Nat /\ drift \in Nat
        /\ bucket.tokens \in Nat /\ bucket.lag \in Nat
    BY <1>1 DEF LimiterInv, LimiterTypeOK, Buckets
  <2>9. due <= r.tokens + r.lag + phase + drift'
    BY <2>3, <2>5, <2>6, <2>7, <2>8
  <2> QED
    BY <2>1, <2>3, <2>4, <2>5, <2>8, <2>9
<1>2. LimiterInv =>
        [\A h \in Handlers : Deny(h) => due < Cost + phase + call[h] + drift']_limiterVars
  BY <1>1
<1> QED
  BY <1>2, LimiterInvHolds, PTL DEF DenialDeserved
=============================================================================
