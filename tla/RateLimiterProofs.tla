------------------------- MODULE RateLimiterProofs -------------------------
(***************************************************************************)
(* Theorems of RateLimiter and Gateway, for any threads, keys, capacity,   *)
(* token size and refill rate, with the threads' sections in any order.    *)
(***************************************************************************)
EXTENDS Gateway, SequenceTheorems, TLAPS

-----------------------------------------------------------------------------
(* Buckets *)

BucketAt(now) == [tokens: 0..Capacity, last: 0..now]

\* A refill never loses tokens, and earns what the time since the last one pays.
LEMMA RefillSpec ==
    ASSUME clock \in Nat, NEW b \in BucketAt(clock)
    PROVE  /\ Refill(b) \in BucketAt(clock)
           /\ Refill(b).last = clock
           /\ Refill(b).tokens <= b.tokens + (clock - b.last) * Rate
           /\ \/ Refill(b).tokens = Capacity
              \/ Refill(b).tokens = b.tokens + (clock - b.last) * Rate
<1> DEFINE earned == (clock - b.last) * Rate
<1>1. b.tokens \in Nat /\ b.tokens <= Capacity /\ b.last \in Nat /\ b.last <= clock
  BY RateAssumption DEF BucketAt
<1>2. Capacity \in Nat /\ Rate \in Nat BY RateAssumption
<1>3. earned \in Nat
  <2>1. clock - b.last \in Nat BY <1>1
  <2> QED BY <1>2, <2>1
<1>4. Refill(b) = [tokens |-> Least(Capacity, b.tokens + earned), last |-> clock] BY DEF Refill
<1> HIDE DEF earned
<1>5. Least(Capacity, b.tokens + earned) \in 0..Capacity BY <1>1, <1>2, <1>3 DEF Least
<1>6. clock \in 0..clock OBVIOUS
<1>7. Refill(b) \in BucketAt(clock) BY <1>4, <1>5, <1>6 DEF BucketAt
<1>8. Refill(b).tokens = Least(Capacity, b.tokens + earned) /\ Refill(b).last = clock BY <1>4
<1> QED BY <1>1, <1>2, <1>3, <1>7, <1>8 DEF Least, earned

\* A bucket of a time is one of any later time.
LEMMA BucketsKeep ==
    ASSUME NEW now \in Nat, NEW later \in Nat, now <= later
    PROVE  BucketAt(now) \subseteq BucketAt(later)
BY DEF BucketAt

-----------------------------------------------------------------------------
(* What a step does *)

\* The bucket of a key that is new, refilled, or refilled and drained by a
\* request that got through.
Created(k) == buckets[k] = None /\ buckets'[k] = TokenBucket /\ allowed'[k] = allowed[k]
Refilled(k) == buckets[k] # None /\ buckets'[k] = Refill(buckets[k]) /\ allowed'[k] = allowed[k]
Drained(k) ==
    /\ buckets[k] # None
    /\ Refill(buckets[k]).tokens >= Unit
    /\ buckets'[k] = [Refill(buckets[k]) EXCEPT !.tokens = @ - Unit]
    /\ allowed'[k] = Append(allowed[k], clock)
Untouched(k) == buckets'[k] = buckets[k] /\ allowed'[k] = allowed[k]

\* Any section of allow() does one of these to each key; the clock to none.
LEMMA BucketSteps ==
    ASSUME TypeOK, [Next]_vars, NEW k \in Keys
    PROVE  /\ clock' \in Nat /\ clock <= clock'
           /\ \/ Untouched(k)
              \/ clock' = clock /\ (Created(k) \/ Refilled(k) \/ Drained(k))
<1> USE DEF TypeOK
<1>1. ASSUME NEW t \in Threads, NEW j \in Keys, BucketFor(t, j)
      PROVE  clock' = clock /\ (Untouched(k) \/ Created(k))
  <2>1. CASE j = k BY <1>1, <2>1 DEF BucketFor, Untouched, Created
  <2>2. CASE j # k BY <1>1, <2>2 DEF BucketFor, Untouched
  <2> QED BY <2>1, <2>2
<1>2. ASSUME NEW t \in Threads, TryConsume(t)
      PROVE  clock' = clock /\ (Untouched(k) \/ Refilled(k) \/ Drained(k))
  <2>1. key[t] \in Keys /\ buckets[key[t]] # None BY <1>2 DEF TryConsume
  <2>2. CASE key[t] = k /\ Refill(buckets[k]).tokens >= Unit
    BY <1>2, <2>1, <2>2 DEF TryConsume, Drained
  <2>3. CASE key[t] = k /\ ~(Refill(buckets[k]).tokens >= Unit)
    BY <1>2, <2>1, <2>3 DEF TryConsume, Refilled
  <2>4. CASE key[t] # k
    BY <1>2, <2>1, <2>4 DEF TryConsume, Untouched
  <2> QED BY <1>2, <2>2, <2>3, <2>4 DEF TryConsume
<1>3. ASSUME NEW t \in Threads, RetryAfter(t)
      PROVE  clock' = clock /\ (Untouched(k) \/ Refilled(k))
  <2>1. key[t] \in Keys /\ buckets[key[t]] # None BY <1>3 DEF RetryAfter
  <2> QED BY <1>3, <2>1 DEF RetryAfter, Untouched, Refilled
<1>4. CASE Tick \/ UNCHANGED vars BY <1>4 DEF Tick, vars, Untouched
<1> QED BY <1>1, <1>2, <1>3, <1>4 DEF Next, Allow

\* No bucket, and no request let through, at first.
THEOREM RateTypeInit == Init => TypeOK
BY RateAssumption DEF Init, TypeOK

\* Every section of allow(), and the clock, keep the types.
THEOREM RateTypeStep == TypeOK /\ [Next]_vars => TypeOK'
<1> SUFFICES ASSUME TypeOK, [Next]_vars PROVE TypeOK'
  OBVIOUS
<1>1. clock \in Nat /\ clock' \in Nat /\ clock <= clock'
  <2>1. clock' = clock \/ clock' = clock + 1
    BY DEF Next, Allow, BucketFor, TryConsume, RetryAfter, Tick, vars
  <2> QED BY <2>1 DEF TypeOK
<1>2. buckets' \in [Keys -> BucketAt(clock') \cup {None}] /\ allowed' \in [Keys -> Seq(0..clock')]
  <2>1. buckets' = [k \in Keys |-> buckets'[k]] /\ allowed' = [k \in Keys |-> allowed'[k]]
    <3>1. buckets = [k \in Keys |-> buckets[k]] /\ allowed = [k \in Keys |-> allowed[k]]
      BY DEF TypeOK
    <3>2. \A k, v : [buckets EXCEPT ![k] = v] = [j \in Keys |-> [buckets EXCEPT ![k] = v][j]]
      BY <3>1
    <3>3. \A k, v : [allowed EXCEPT ![k] = v] = [j \in Keys |-> [allowed EXCEPT ![k] = v][j]]
      BY <3>1
    <3>4. \/ UNCHANGED buckets
          \/ \E k, v : buckets' = [buckets EXCEPT ![k] = v]
      BY DEF Next, Allow, BucketFor, TryConsume, RetryAfter, Tick, vars
    <3>5. \/ UNCHANGED allowed
          \/ \E k, v : allowed' = [allowed EXCEPT ![k] = v]
      BY DEF Next, Allow, BucketFor, TryConsume, RetryAfter, Tick, vars
    <3> QED BY <3>1, <3>2, <3>3, <3>4, <3>5
  <2>2. ASSUME NEW k \in Keys
        PROVE  buckets'[k] \in BucketAt(clock') \cup {None} /\ allowed'[k] \in Seq(0..clock')
    <3>1. buckets[k] \in BucketAt(clock) \cup {None} /\ allowed[k] \in Seq(0..clock)
      BY DEF TypeOK, BucketAt
    <3>2. CASE Untouched(k)
      <4>1. 0..clock \subseteq 0..clock' BY <1>1
      <4>2. allowed[k] \in Seq(0..clock') BY <3>1, <4>1, SeqMonotonic
      <4> QED BY <1>1, <3>1, <3>2, <4>2, BucketsKeep DEF Untouched
    <3>3. CASE clock' = clock /\ Created(k)
      <4>1. TokenBucket \in BucketAt(clock)
        <5>1. Capacity \in 0..Capacity /\ clock \in 0..clock BY <1>1, RateAssumption
        <5> QED BY <5>1 DEF TokenBucket, BucketAt
      <4> QED BY <3>1, <3>3, <4>1 DEF Created
    <3>4. CASE clock' = clock /\ Refilled(k)
      BY <1>1, <3>1, <3>4, RefillSpec DEF Refilled
    <3>5. CASE clock' = clock /\ Drained(k)
      <4>1. Refill(buckets[k]) \in BucketAt(clock) BY <1>1, <3>1, <3>5, RefillSpec DEF Drained
      <4>2. [Refill(buckets[k]) EXCEPT !.tokens = @ - Unit] \in BucketAt(clock)
        BY <3>5, <4>1, RateAssumption DEF Drained, BucketAt
      <4>3. Append(allowed[k], clock) \in Seq(0..clock) BY <1>1, <3>1
      <4> QED BY <3>5, <4>2, <4>3 DEF Drained
    <3> QED BY <3>2, <3>3, <3>4, <3>5, BucketSteps
  <2> QED BY <2>1, <2>2
<1>3. /\ pc' \in [Threads -> {"idle", "consume", "retry_after"}]
      /\ key' \in [Threads -> Keys \cup {None}]
  BY DEF TypeOK, Next, Allow, BucketFor, TryConsume, RetryAfter, Tick, vars
<1>4. ASSUME NEW t \in Threads, pc'[t] # "idle"
      PROVE  key'[t] \in Keys /\ buckets'[key'[t]] # None
  <2>1. ASSUME NEW k \in Keys, buckets[k] # None
        PROVE  buckets'[k] # None
    <3>1. buckets[k] \in BucketAt(clock) BY <2>1 DEF TypeOK, BucketAt
    <3>2. Refill(buckets[k]) \in [tokens: 0..Capacity, last: Nat]
      BY <1>1, <3>1, RefillSpec DEF BucketAt
    <3>3. Refill(buckets[k]) # None BY <3>2, RateAssumption
    <3>4. Refill(buckets[k]).tokens >= Unit =>
            [Refill(buckets[k]) EXCEPT !.tokens = @ - Unit] \in [tokens: 0..Capacity, last: Nat]
      BY <3>2, RateAssumption
    <3>5. Drained(k) => buckets'[k] # None BY <3>4, RateAssumption DEF Drained
    <3> QED BY <2>1, <3>3, <3>5, BucketSteps DEF Untouched, Created, Refilled
  <2>2. CASE pc[t] # "idle"
    <3>1. key[t] \in Keys /\ buckets[key[t]] # None BY <2>2 DEF TypeOK
    <3>2. key'[t] = key[t]
      BY <1>4, <2>2 DEF TypeOK, Next, Allow, BucketFor, TryConsume, RetryAfter, Tick, vars
    <3> QED BY <2>1, <3>1, <3>2
  <2>3. CASE pc[t] = "idle"
    <3>1. PICK k \in Keys : BucketFor(t, k)
      BY <1>4, <2>3 DEF TypeOK, Next, Allow, BucketFor, TryConsume, RetryAfter, Tick, vars
    <3>2. key'[t] = k BY <3>1 DEF BucketFor, TypeOK
    <3>3. TokenBucket # None
      <4>1. TokenBucket \in [tokens: 0..Capacity, last: Nat] BY <1>1, RateAssumption DEF TokenBucket
      <4> QED BY <4>1, RateAssumption
    <3>4. buckets'[k] # None BY <3>1, <3>3 DEF BucketFor, TypeOK
    <3> QED BY <3>2, <3>4
  <2> QED BY <2>2, <2>3
<1> QED BY <1>1, <1>2, <1>3, <1>4 DEF TypeOK, BucketAt

\* Every reachable state of RateLimiter has its types.
THEOREM RateTypeCorrect == Spec => []TypeOK
<1> QED BY RateTypeInit, RateTypeStep, PTL DEF Spec

-----------------------------------------------------------------------------
(* What a bucket has paid out, and has left *)

\* What the time between two moments earns, and what n requests cost.
Pay(from, to) == (to - from) * Rate
Cost(n) == n * Unit

\* From any request on, those let through and the tokens left are paid for by a
\* full bucket and the refill since; no request is younger than the bucket.
Paid(b, a) == \A i \in 1..Len(a) :
    /\ a[i] <= b.last
    /\ Cost(Len(a) - i + 1) + b.tokens <= Capacity + Pay(a[i], b.last)

\* A bucket is full, or holds what was refilled since the last request got through.
Kept(b, a) == b.tokens = Capacity \/ (a # <<>> /\ b.tokens >= Pay(a[Len(a)], b.last))

Window(a) == \A i, j \in 1..Len(a) : i <= j => Cost(j - i + 1) <= Capacity + Pay(a[i], a[j])

\* No request gets through without a bucket.
Balanced(b, a) == IF b = None THEN a = <<>> ELSE Paid(b, a) /\ Kept(b, a)

BucketInv == \A k \in Keys : Balanced(buckets[k], allowed[k]) /\ Window(allowed[k])

\* More time pays for more, by as much as that time alone.
LEMMA PayType ==
    ASSUME NEW x \in Int, NEW y \in Int
    PROVE  Pay(x, y) \in Int /\ Pay(x, x) = 0 /\ (x <= y => Pay(x, y) \in Nat)
<1>1. Rate \in Nat BY RateAssumption
<1>2. Pay(x, x) = 0 BY <1>1 DEF Pay
<1>3. Pay(x, y) \in Int BY <1>1 DEF Pay
<1>4. ASSUME x <= y PROVE Pay(x, y) \in Nat
  <2>1. PICK d \in Nat : d = y - x BY <1>4
  <2>2. d * Rate \in Nat BY <1>1
  <2> QED BY <2>1, <2>2 DEF Pay
<1> QED BY <1>2, <1>3, <1>4

\* What two spans earn, the one they make up earns.
LEMMA PayAdds ==
    ASSUME NEW x \in Int, NEW y \in Int, NEW z \in Int
    PROVE  Pay(x, z) = Pay(x, y) + Pay(y, z)
BY RateAssumption DEF Pay

\* A request more costs a token more.
LEMMA CostAdds ==
    ASSUME NEW n \in Int
    PROVE  Cost(n) \in Int /\ Cost(n + 1) = Cost(n) + Unit /\ Cost(1) = Unit
BY RateAssumption DEF Cost

\* A refill keeps the balance of a key.
LEMMA RefilledBalance ==
    ASSUME clock \in Nat, NEW b \in BucketAt(clock), NEW a \in Seq(0..clock), Paid(b, a), Kept(b, a)
    PROVE  Paid(Refill(b), a) /\ Kept(Refill(b), a)
<1> DEFINE c == Refill(b)
<1>1. /\ b.tokens \in Nat /\ b.tokens <= Capacity /\ b.last \in Nat /\ b.last <= clock
      /\ Capacity \in Nat /\ clock \in Int
  BY RateAssumption DEF BucketAt
<1>2. PICK late \in Nat : late = Pay(b.last, clock)
  <2>1. PICK from \in Int : from = b.last BY <1>1
  <2>2. from <= clock BY <1>1, <2>1
  <2>3. Pay(from, clock) \in Nat BY <1>1, <2>2, PayType
  <2> QED BY <2>1, <2>3
<1>3. /\ c.last = clock /\ c.tokens \in Nat /\ c.tokens <= Capacity
      /\ c.tokens <= b.tokens + late
      /\ c.tokens = Capacity \/ c.tokens = b.tokens + late
  BY <1>1, <1>2, RefillSpec DEF BucketAt, Pay
<1>4. ASSUME NEW i \in 1..Len(a)
      PROVE  /\ a[i] \in Int /\ a[i] <= b.last /\ Pay(a[i], b.last) \in Nat
             /\ Pay(a[i], clock) = Pay(a[i], b.last) + late
             /\ Len(a) - i + 1 \in Int
  <2>1. a[i] \in Int /\ a[i] <= b.last /\ Len(a) \in Nat BY DEF Paid
  <2>2. PICK at \in Int, from \in Int : at = a[i] /\ from = b.last BY <1>1, <2>1
  <2>3. at <= from BY <2>1, <2>2
  <2>4. Pay(at, from) \in Nat /\ Pay(at, clock) = Pay(at, from) + Pay(from, clock)
    BY <1>1, <2>3, PayType, PayAdds
  <2> QED BY <1>2, <2>1, <2>2, <2>4
<1> HIDE DEF c
<1>5. ASSUME NEW i \in 1..Len(a)
      PROVE  a[i] <= clock /\ Cost(Len(a) - i + 1) + c.tokens <= Capacity + Pay(a[i], clock)
  <2>1. PICK cost \in Int : cost = Cost(Len(a) - i + 1) BY <1>4, CostAdds
  <2>2. PICK early \in Nat : early = Pay(a[i], b.last) BY <1>4
  <2>3. cost + b.tokens <= Capacity + early BY <2>1, <2>2 DEF Paid
  <2>4. cost + c.tokens <= Capacity + (early + late) BY <1>1, <1>3, <2>3
  <2> QED BY <1>1, <1>4, <2>1, <2>2, <2>4
<1>6. c.tokens = Capacity \/ (a # <<>> /\ c.tokens >= Pay(a[Len(a)], clock))
  <2>1. CASE b.tokens = Capacity BY <1>1, <1>3, <2>1
  <2>2. CASE a # <<>> /\ b.tokens >= Pay(a[Len(a)], b.last)
    <3>1. Len(a) \in 1..Len(a) BY <2>2
    <3>2. PICK early \in Nat : early = Pay(a[Len(a)], b.last) BY <1>4, <3>1
    <3>3. Pay(a[Len(a)], clock) = early + late BY <1>4, <3>1, <3>2
    <3> QED BY <1>1, <1>3, <2>2, <3>2, <3>3
  <2> QED BY <2>1, <2>2 DEF Kept
<1> QED BY <1>3, <1>5, <1>6 DEF Paid, Kept, c

\* So does a request that gets through, of a bucket just refilled.
LEMMA DrainedBalance ==
    ASSUME clock \in Nat, NEW b \in BucketAt(clock), NEW a \in Seq(0..clock),
           b.last = clock, b.tokens >= Unit, Paid(b, a), Window(a)
    PROVE  LET c == [b EXCEPT !.tokens = @ - Unit]
               d == Append(a, clock)
           IN  Paid(c, d) /\ Kept(c, d) /\ Window(d)
<1> DEFINE c == [b EXCEPT !.tokens = @ - Unit]
           d == Append(a, clock)
           n == Len(a)
<1>1. /\ b.tokens \in Nat /\ b.tokens <= Capacity /\ clock \in Int
      /\ Capacity \in Nat /\ Unit \in Nat
  BY RateAssumption DEF BucketAt
<1>2. c.last = clock /\ c.tokens = b.tokens - Unit BY DEF BucketAt
<1>3. n \in Nat /\ Len(d) = n + 1 /\ d[n + 1] = clock /\ d # <<>>
  OBVIOUS
<1>4. ASSUME NEW i \in 1..n
      PROVE  d[i] = a[i] /\ a[i] \in Int /\ a[i] <= clock
  BY DEF Paid
<1> HIDE DEF c, d, n
<1>5. ASSUME NEW i \in 1..(n + 1)
      PROVE  /\ d[i] \in Int /\ d[i] <= clock
             /\ Cost(n + 1 - i + 1) + c.tokens <= Capacity + Pay(d[i], clock)
  <2>1. CASE i = n + 1
    <3>1. n + 1 - i + 1 = 1 BY <1>3, <2>1
    <3>2. Cost(n + 1 - i + 1) = Unit /\ Pay(d[i], clock) = 0 BY <1>1, <1>3, <2>1, <3>1, CostAdds, PayType
    <3> QED BY <1>1, <1>2, <1>3, <2>1, <3>2
  <2>2. CASE i \in 1..n
    <3>1. n - i + 1 \in Int /\ n + 1 - i + 1 = (n - i + 1) + 1 BY <1>3
    <3>2. PICK cost \in Int : cost = Cost(n - i + 1) BY <3>1, CostAdds
    <3>3. Cost(n + 1 - i + 1) = cost + Unit BY <3>1, <3>2, CostAdds
    <3>4. PICK pay \in Nat : pay = Pay(a[i], clock) BY <1>1, <1>4, <2>2, PayType
    <3>5. cost + b.tokens <= Capacity + pay BY <2>2, <3>2, <3>4 DEF Paid, n
    <3>6. (cost + Unit) + c.tokens <= Capacity + pay BY <1>1, <1>2, <3>5
    <3> QED BY <1>4, <2>2, <3>3, <3>4, <3>6
  <2> QED BY <1>3, <2>1, <2>2
<1>6. Paid(c, d) BY <1>2, <1>3, <1>5 DEF Paid
<1>7. Kept(c, d)
  <2>1. Pay(clock, clock) = 0 BY <1>1, PayType
  <2> QED BY <1>1, <1>2, <1>3, <2>1 DEF Kept
<1>8. ASSUME NEW i \in 1..(n + 1), NEW j \in 1..(n + 1), i <= j
      PROVE  Cost(j - i + 1) <= Capacity + Pay(d[i], d[j])
  <2>1. CASE j = n + 1
    <3>1. PICK pay \in Nat : pay = Pay(d[i], clock) BY <1>1, <1>5, PayType
    <3>2. n + 1 - i + 1 \in Int BY <1>3
    <3>3. PICK cost \in Int : cost = Cost(n + 1 - i + 1) BY <3>2, CostAdds
    <3>4. cost + c.tokens <= Capacity + pay BY <1>5, <3>1, <3>3
    <3>5. c.tokens \in Nat BY <1>1, <1>2
    <3>6. cost <= Capacity + pay BY <1>1, <3>4, <3>5
    <3> QED BY <1>3, <2>1, <3>1, <3>3, <3>6
  <2>2. CASE j \in 1..n
    <3>1. i \in 1..n BY <1>3, <1>8, <2>2
    <3> QED BY <1>4, <1>8, <2>2, <3>1 DEF Window, n
  <2> QED BY <1>3, <2>1, <2>2
<1>9. Window(d) BY <1>3, <1>8 DEF Window
<1> QED BY <1>6, <1>7, <1>9 DEF c, d

\* No key has a bucket at first.
THEOREM BucketInit == Init => BucketInv
<1>1. Balanced(None, <<>>) /\ Window(<<>>) BY DEF Balanced, Window
<1> QED BY <1>1 DEF Init, BucketInv

\* Whichever section changes a bucket keeps its balance.
THEOREM BucketStep == TypeOK /\ BucketInv /\ [Next]_vars => BucketInv'
<1> SUFFICES ASSUME TypeOK, BucketInv, [Next]_vars, NEW k \in Keys
             PROVE  (Balanced(buckets[k], allowed[k]) /\ Window(allowed[k]))'
  BY DEF BucketInv
<1>1. /\ clock \in Nat /\ allowed[k] \in Seq(0..clock)
      /\ buckets[k] # None => buckets[k] \in BucketAt(clock)
  BY DEF TypeOK, BucketAt
<1>2. Balanced(buckets[k], allowed[k]) /\ Window(allowed[k]) BY DEF BucketInv
<1>3. \A b \in [tokens: 0..Capacity, last: Nat] : b # None BY RateAssumption
<1>4. ASSUME buckets[k] # None
      PROVE  LET b == Refill(buckets[k])
             IN  /\ b \in BucketAt(clock) /\ b # None /\ b.last = clock
                 /\ Paid(b, allowed[k]) /\ Kept(b, allowed[k])
  <2>1. Paid(buckets[k], allowed[k]) /\ Kept(buckets[k], allowed[k]) BY <1>2, <1>4 DEF Balanced
  <2>2. Refill(buckets[k]) \in BucketAt(clock) /\ Refill(buckets[k]).last = clock
    BY <1>1, <1>4, RefillSpec
  <2>3. Refill(buckets[k]) # None BY <1>1, <1>3, <2>2 DEF BucketAt
  <2> QED BY <1>1, <1>4, <2>1, <2>2, <2>3, RefilledBalance
<1>5. CASE Untouched(k)
  <2>1. buckets'[k] = buckets[k] /\ allowed'[k] = allowed[k] BY <1>5 DEF Untouched
  <2>2. Balanced(buckets'[k], allowed'[k]) /\ Window(allowed'[k]) BY <1>2, <2>1
  <2> QED BY <2>2 DEF Balanced, Paid, Kept, Window, Cost, Pay
<1>6. CASE Created(k)
  <2>1. allowed'[k] = <<>> BY <1>2, <1>6 DEF Created, Balanced
  <2>2. buckets'[k].tokens = Capacity BY <1>6 DEF Created, TokenBucket
  <2> QED BY <2>1, <2>2 DEF Balanced, Paid, Kept, Window
<1>7. CASE Refilled(k)
  <2> DEFINE b == Refill(buckets[k])
  <2>1. buckets'[k] = b /\ allowed'[k] = allowed[k] /\ b # None BY <1>4, <1>7 DEF Refilled
  <2>2. Paid(b, allowed[k]) /\ Kept(b, allowed[k]) BY <1>4, <1>7 DEF Refilled
  <2> HIDE DEF b
  <2>3. Balanced(buckets'[k], allowed'[k]) /\ Window(allowed'[k]) BY <1>2, <2>1, <2>2 DEF Balanced
  <2> QED BY <2>3 DEF Balanced, Paid, Kept, Window, Cost, Pay
<1>8. CASE Drained(k)
  <2> DEFINE b == Refill(buckets[k])
             c == [b EXCEPT !.tokens = @ - Unit]
             d == Append(allowed[k], clock)
  <2>1. /\ b \in BucketAt(clock) /\ b.last = clock /\ b.tokens >= Unit
        /\ buckets'[k] = c /\ allowed'[k] = d /\ Paid(b, allowed[k])
    BY <1>4, <1>8 DEF Drained
  <2>2. Paid(c, d) /\ Kept(c, d) /\ Window(d)
    <3> HIDE DEF b
    <3> QED BY <1>1, <1>2, <2>1, DrainedBalance
  <2>3. c # None
    <3> HIDE DEF b
    <3>1. b.tokens - Unit \in 0..Capacity /\ b.last \in Nat
      BY <1>1, <2>1, RateAssumption DEF BucketAt
    <3>2. c \in [tokens: 0..Capacity, last: Nat] BY <2>1, <3>1 DEF BucketAt
    <3> QED BY <1>3, <3>2
  <2> HIDE DEF b, c, d
  <2>4. Balanced(buckets'[k], allowed'[k]) /\ Window(allowed'[k]) BY <2>1, <2>2, <2>3 DEF Balanced
  <2> QED BY <2>4 DEF Balanced, Paid, Kept, Window, Cost, Pay
<1> QED BY <1>5, <1>6, <1>7, <1>8, BucketSteps

\* The inductive invariant of the buckets.
THEOREM BucketInvariant == Spec => [](TypeOK /\ BucketInv)
<1>1. Init => TypeOK /\ BucketInv BY RateTypeInit, BucketInit
<1>2. TypeOK /\ BucketInv /\ [Next]_vars => (TypeOK /\ BucketInv)'
  BY RateTypeStep, BucketStep
<1> QED BY <1>1, <1>2, PTL DEF Spec

\* In no window do more requests get through than a full bucket and the refill of
\* that time pay for, whatever threads race for the tokens and the bucket.
THEOREM WindowsBounded == Spec => []WindowBound
<1>1. TypeOK /\ BucketInv => WindowBound
  <2> SUFFICES ASSUME TypeOK, BucketInv, NEW k \in Keys PROVE
        \A i, j \in DOMAIN allowed[k] :
            i <= j => (j - i + 1) * Unit <= Capacity + (allowed[k][j] - allowed[k][i]) * Rate
    BY DEF WindowBound
  <2>1. DOMAIN allowed[k] = 1..Len(allowed[k]) BY DEF TypeOK
  <2> QED BY <2>1 DEF BucketInv, Window, Cost, Pay
<1> QED BY <1>1, BucketInvariant, PTL

\* Refusals, refills and lost races cost a key none of the tokens it earned.
THEOREM BurstsComeBack == Spec => []BurstComesBack
<1>1. TypeOK /\ BucketInv => BurstComesBack
  <2> SUFFICES ASSUME TypeOK, BucketInv, NEW k \in Keys, buckets[k] # None,
                      \/ allowed[k] = <<>>
                      \/ (clock - allowed[k][Len(allowed[k])]) * Rate >= Capacity
               PROVE  Refill(buckets[k]).tokens = Capacity
    BY DEF BurstComesBack
  <2> DEFINE a == allowed[k]
             b == Refill(buckets[k])
  <2>1. clock \in Nat /\ a \in Seq(0..clock) /\ buckets[k] \in BucketAt(clock)
    BY DEF TypeOK, BucketAt
  <2>2. Paid(buckets[k], a) /\ Kept(buckets[k], a) BY DEF BucketInv, Balanced
  <2>3. b.tokens \in Nat /\ b.tokens <= Capacity /\ b.last = clock /\ Capacity \in Nat
    BY <2>1, RefillSpec, RateAssumption DEF BucketAt
  <2>4. b.tokens = Capacity \/ (a # <<>> /\ b.tokens >= Pay(a[Len(a)], clock))
    BY <2>1, <2>2, <2>3, RefilledBalance DEF Kept
  <2>5. ASSUME a # <<>> PROVE Pay(a[Len(a)], clock) \in Int /\ Pay(a[Len(a)], clock) >= Capacity
    <3>1. Len(a) \in 1..Len(a) /\ a[Len(a)] \in Int BY <2>1, <2>5
    <3> QED BY <2>1, <2>5, <3>1, PayType DEF Pay
  <2> HIDE DEF a, b
  <2>6. b.tokens = Capacity BY <2>3, <2>4, <2>5
  <2> QED BY <2>6 DEF b
<1> QED BY <1>1, BucketInvariant, PTL

-----------------------------------------------------------------------------
(* Retry-After *)

Later(a, b) == IF a >= b THEN a ELSE b

\* What rounding to seconds may take away.
Half == TicksPerSecond \div 2

\* By then the bucket can pay for a request.
Ready(b, moment) == b # None /\ b.tokens + Pay(b.last, moment) >= Unit

\* A pair refused once after waiting is ready half a second, at most, after the
\* new wait; refused twice it is ready by the end of it, and half a second on.
Heading(b, until, count, now) ==
    /\ until \in Nat
    /\ count \in 0..2
    /\ count >= 1 => Ready(b, Later(until + Half, now))
    /\ count = 2 => Ready(b, Later(until, now)) /\ Ready(b, now + Half)

KeyInv(k) == Heading(buckets[k], wait[k], refused[k], clock)

\* A thread about to refuse a pair refused twice had not waited as told.
ThreadInv(t) ==
    /\ asked[t] \in 0..clock
    /\ pc[t] = "retry_after" /\ refused[key[t]] = 2 => asked[t] < wait[key[t]]

RetryInv ==
    /\ wait \in [Keys -> Nat] /\ refused \in [Keys -> Nat] /\ asked \in [Threads -> Nat]
    /\ \A k \in Keys : KeyInv(k)
    /\ \A t \in Threads : ThreadInv(t)

\* Half a second, in whole ticks.
LEMMA HalfType ==
    /\ Half \in Nat /\ Half < TicksPerSecond
    /\ 2 * Half <= TicksPerSecond /\ TicksPerSecond <= 2 * Half + 1
<1>1. PICK n \in Nat : n = TicksPerSecond /\ n > 0 BY TicksAssumption
<1> QED BY <1>1 DEF Half

\* A bucket ready by some moment is ready by any later one.
LEMMA ReadyStays ==
    ASSUME NEW x \in Int, NEW y \in Int, x <= y, clock \in Nat, NEW b \in BucketAt(clock), Ready(b, x)
    PROVE  Ready(b, y)
<1>1. PICK from \in Int, tokens \in Int : from = b.last /\ tokens = b.tokens BY DEF BucketAt
<1>2. Pay(from, x) \in Int /\ Pay(x, y) \in Nat /\ Pay(from, y) = Pay(from, x) + Pay(x, y)
  BY PayType, PayAdds
<1> QED BY <1>1, <1>2, RateAssumption DEF Ready

\* A refill changes nothing about it, and grants the request that is due.
LEMMA RefillReady ==
    ASSUME Unit <= Capacity, clock \in Nat, NEW b \in BucketAt(clock),
           NEW x \in Int, clock <= x, Ready(b, x)
    PROVE  /\ Ready(Refill(b), x)
           /\ x = clock => Refill(b).tokens >= Unit
<1> DEFINE c == Refill(b)
<1>1. PICK from \in Int, tokens \in Int : from = b.last /\ tokens = b.tokens BY DEF BucketAt
<1>2. /\ Pay(from, clock) \in Int /\ Pay(clock, x) \in Nat /\ Pay(clock, clock) = 0
      /\ Pay(from, x) = Pay(from, clock) + Pay(clock, x)
  <2>1. PICK now \in Int : now = clock /\ now <= x OBVIOUS
  <2>2. Pay(from, now) \in Int /\ Pay(now, now) = 0 BY PayType
  <2>3. Pay(now, x) \in Nat BY <2>1, PayType
  <2>4. Pay(from, x) = Pay(from, now) + Pay(now, x) BY PayAdds
  <2> QED BY <2>1, <2>2, <2>3, <2>4
<1>3. /\ c \in BucketAt(clock) /\ c.last = clock
      /\ c.tokens = Capacity \/ c.tokens = tokens + Pay(from, clock)
  BY <1>1, RefillSpec DEF Pay
<1>4. c # None /\ c.tokens \in Nat BY <1>3, RateAssumption DEF BucketAt
<1>5. tokens + Pay(from, x) >= Unit BY <1>1 DEF Ready
<1> HIDE DEF c
<1>6. c.tokens + Pay(clock, x) >= Unit BY <1>2, <1>3, <1>4, <1>5, RateAssumption
<1>7. x = clock => c.tokens >= Unit BY <1>2, <1>4, <1>6, RateAssumption
<1> QED BY <1>3, <1>4, <1>6, <1>7 DEF Ready, c

\* round() of the code is off by half a second at most.
LEMMA RoundSpec ==
    ASSUME NEW s \in Nat
    PROVE  Round(s) \in Nat /\ TicksPerSecond * Round(s) + Half >= s
<1>1. PICK u \in Nat : u = TicksPerSecond /\ u > 0 BY TicksAssumption
<1>2. PICK q \in Nat : q = s \div u BY <1>1
<1>3. PICK r \in Nat : r = s % u /\ r < u BY <1>1
<1>4. s = u * q + r
  <2>1. s % u = s - u * (s \div u) BY <1>1, Z3
  <2> QED BY <1>1, <1>2, <1>3, <2>1
<1>5. Round(s) = q + 1 \/ (Round(s) = q /\ 2 * r <= u)
  BY <1>1, <1>2, <1>3 DEF Round
<1>6. PICK p \in Nat : p = u * q BY <1>1, <1>2
<1>7. u * (q + 1) = p + u BY <1>1, <1>2, <1>6
<1>8. PICK h \in Nat : h = Half /\ u <= 2 * h + 1 BY <1>1, HalfType
<1>9. CASE Round(s) = q + 1
  BY <1>1, <1>2, <1>3, <1>4, <1>6, <1>7, <1>8, <1>9
<1>10. CASE Round(s) = q /\ 2 * r <= u
  <2>1. r <= h BY <1>1, <1>3, <1>8, <1>10
  <2> QED BY <1>1, <1>2, <1>3, <1>4, <1>6, <1>8, <1>10, <2>1
<1> QED BY <1>5, <1>9, <1>10

\* The ticks to the next token earn it.
LEMMA TicksSpec ==
    ASSUME NEW tokens \in Nat, NEW b, b.tokens = tokens
    PROVE  TicksToToken(b) \in Nat /\ tokens + TicksToToken(b) * Rate >= Unit
<1>1. PICK r \in Nat : r = Rate /\ r > 0 BY RateAssumption
<1>2. PICK u \in Nat : u = Unit BY RateAssumption
<1>3. CASE tokens >= u
  <2>1. TicksToToken(b) = 0 BY <1>2, <1>3 DEF TicksToToken
  <2> QED BY <1>1, <1>2, <1>3, <2>1
<1>4. CASE tokens < u
  <2>1. PICK m \in Nat : m = u - tokens + r - 1 BY <1>1, <1>2, <1>4
  <2>2. PICK s \in Nat : s = m \div r /\ m < r * s + r BY <1>1, <2>1
  <2>3. TicksToToken(b) = s BY <1>1, <1>2, <1>4, <2>1, <2>2 DEF TicksToToken
  <2>4. PICK p \in Nat : p = r * s /\ s * r = p BY <1>1, <2>2
  <2>5. tokens + p >= u BY <1>1, <1>2, <1>4, <2>1, <2>2, <2>4
  <2> QED BY <1>1, <1>2, <2>2, <2>3, <2>4, <2>5
<1> QED BY <1>2, <1>3, <1>4

\* Whoever waits as told, and half a second more, finds a token.
LEMMA AdviceSpec ==
    ASSUME clock \in Nat, NEW b \in BucketAt(clock), b.last = clock
    PROVE  LET until == clock + TicksPerSecond * RetryAfterSeconds(b)
           IN  /\ until \in Nat /\ until > clock + Half
               /\ Ready(b, until + Half)
<1> DEFINE s == TicksToToken(b)
           w == RetryAfterSeconds(b)
<1>1. b.tokens \in Nat /\ b # None BY RateAssumption DEF BucketAt
<1>2. s \in Nat /\ b.tokens + s * Rate >= Unit BY <1>1, TicksSpec
<1>3. w \in Nat /\ w >= 1 /\ w >= Round(s) /\ Round(s) \in Nat
  BY <1>2, RoundSpec DEF RetryAfterSeconds
<1>4. PICK u \in Nat : u = TicksPerSecond /\ u > 0 BY TicksAssumption
<1> HIDE DEF s, w
<1>5. PICK d \in Nat : d = w - Round(s) BY <1>3
<1>6. PICK e \in Nat : e = w - 1 BY <1>3
<1>7. PICK told \in Nat : told = u * w BY <1>3, <1>4
<1>8. told = u * Round(s) + u * d
  BY <1>3, <1>4, <1>5, <1>7
<1>9. told = u + u * e BY <1>3, <1>4, <1>6, <1>7
<1>10. u * e \in Nat /\ u * d \in Nat /\ u * Round(s) \in Nat BY <1>3, <1>4, <1>5, <1>6
<1>11. told >= u BY <1>4, <1>7, <1>9, <1>10
<1>12. told + Half >= s
  <2>1. u * Round(s) + Half >= s BY <1>2, <1>4, RoundSpec
  <2> QED BY <1>2, <1>7, <1>8, <1>10, <2>1, HalfType
<1>13. Pay(clock, clock + s) = s * Rate
  <2>1. (clock + s) - clock = s BY <1>2
  <2> QED BY <2>1 DEF Pay
<1>14. Ready(b, clock + s) BY <1>1, <1>2, <1>13 DEF Ready
<1>15. clock + s \in Int /\ clock + told + Half \in Int /\ clock + s <= clock + told + Half
  BY <1>2, <1>7, <1>12, HalfType
<1>16. Ready(b, clock + told + Half) BY <1>14, <1>15, ReadyStays
<1> QED BY <1>4, <1>7, <1>11, <1>16, HalfType DEF w

\* A pair keeps its heading as the clock runs,
LEMMA HeadingTicks ==
    ASSUME clock \in Nat, NEW b, b = None \/ b \in BucketAt(clock), NEW w, NEW r,
           Heading(b, w, r, clock)
    PROVE  Heading(b, w, r, clock + 1)
<1>1. w \in Nat /\ r \in 0..2 /\ Half \in Nat BY HalfType DEF Heading
<1>2. \A x \in Int, y \in Int : x <= y /\ Ready(b, x) => Ready(b, y)
  BY ReadyStays DEF Ready
<1>3. /\ Later(w + Half, clock) \in Int /\ Later(w + Half, clock + 1) \in Int
      /\ Later(w + Half, clock) <= Later(w + Half, clock + 1)
      /\ Later(w, clock) \in Int /\ Later(w, clock + 1) \in Int
      /\ Later(w, clock) <= Later(w, clock + 1)
      /\ clock + Half \in Int /\ clock + 1 + Half \in Int /\ clock + Half <= clock + 1 + Half
  BY <1>1 DEF Later
<1> QED BY <1>1, <1>2, <1>3 DEF Heading

\* as its bucket is refilled,
LEMMA HeadingRefills ==
    ASSUME Unit <= Capacity, clock \in Nat, NEW b \in BucketAt(clock), NEW w, NEW r,
           Heading(b, w, r, clock)
    PROVE  Heading(Refill(b), w, r, clock)
<1>1. w \in Nat /\ r \in 0..2 /\ Half \in Nat BY HalfType DEF Heading
<1>2. \A x \in Int : clock <= x /\ Ready(b, x) => Ready(Refill(b), x)
  BY RefillReady
<1>3. /\ Later(w + Half, clock) \in Int /\ clock <= Later(w + Half, clock)
      /\ Later(w, clock) \in Int /\ clock <= Later(w, clock)
      /\ clock + Half \in Int /\ clock <= clock + Half
  BY <1>1 DEF Later
<1> QED BY <1>1, <1>2, <1>3 DEF Heading

\* and as it is refused, told to wait, and the refusal counted.
LEMMA HeadingRefused ==
    ASSUME Unit <= Capacity, clock \in Nat, NEW b \in BucketAt(clock), NEW w, NEW r,
           Heading(b, w, r, clock), NEW came \in 0..clock, r = 2 => came < w
    PROVE  LET until == clock + TicksPerSecond * RetryAfterSeconds(Refill(b))
           IN  /\ Heading(Refill(b), until, IF came >= w THEN r + 1 ELSE r, clock)
               /\ until > clock
<1> DEFINE c == Refill(b)
           until == clock + TicksPerSecond * RetryAfterSeconds(c)
           count == IF came >= w THEN r + 1 ELSE r
<1>1. w \in Nat /\ r \in 0..2 /\ Half \in Nat BY HalfType DEF Heading
<1>2. c \in BucketAt(clock) /\ c.last = clock BY RefillSpec
<1>3. until \in Nat /\ until > clock + Half /\ Ready(c, until + Half) BY <1>2, AdviceSpec
<1>4. count \in 0..2 BY <1>1
<1>5. ASSUME count = 2 PROVE Ready(c, clock + Half)
  <2>1. Heading(c, w, r, clock) BY HeadingRefills
  <2>2. CASE r = 2 BY <2>1, <2>2 DEF Heading
  <2>3. CASE r = 1 /\ came >= w
    <3>1. Ready(c, Later(w + Half, clock)) BY <2>1, <2>3 DEF Heading
    <3>2. Later(w + Half, clock) \in Int /\ clock + Half \in Int /\ Later(w + Half, clock) <= clock + Half
      BY <1>1, <2>3 DEF Later
    <3> QED BY <1>2, <3>1, <3>2, ReadyStays
  <2> QED BY <1>1, <1>5, <2>2, <2>3
<1> HIDE DEF c, until, count
<1>6. until \in Int /\ clock + Half \in Int /\ clock + Half <= until /\ until > clock BY <1>1, <1>3
<1>7. count = 2 => Ready(c, until) BY <1>2, <1>5, <1>6, ReadyStays
<1>8. Later(until + Half, clock) = until + Half /\ Later(until, clock) = until
  BY <1>1, <1>3 DEF Later
<1>9. Heading(c, until, count, clock) BY <1>3, <1>4, <1>5, <1>7, <1>8 DEF Heading
<1> QED BY <1>6, <1>9 DEF c, until, count

\* Nobody has been refused at first.
THEOREM RetryInit == GatewayInit => RetryInv
BY DEF GatewayInit, Init, RetryInv, KeyInv, ThreadInv, Heading

\* The handler's sections, interleaved as they may, keep every pair's heading.
THEOREM RetryStep ==
    ASSUME Unit <= Capacity
    PROVE  TypeOK /\ RetryInv /\ [GatewayNext]_gatewayVars => RetryInv'
<1> SUFFICES ASSUME TypeOK, RetryInv, [GatewayNext]_gatewayVars PROVE RetryInv'
  OBVIOUS
<1>1. clock \in Nat /\ clock' \in Nat
  <2>1. clock' = clock \/ clock' = clock + 1
    BY DEF GatewayNext, gatewayVars, vars, Arrive, Consume, Refuse, BucketFor, TryConsume, RetryAfter, Tick
  <2> QED BY <2>1 DEF TypeOK
<1>2. \A k \in Keys : buckets[k] = None \/ buckets[k] \in BucketAt(clock)
  BY DEF TypeOK, BucketAt
<1>3. \A k \in Keys : Heading(buckets[k], wait[k], refused[k], clock) BY DEF RetryInv, KeyInv
<1>4. \A k \in Keys : buckets[k] = None => refused[k] = 0
  BY <1>3 DEF Heading, Ready
<1>5. \A b, w, now : w \in Nat => Heading(b, w, 0, now) BY DEF Heading
<1>6. \A t \in Threads : pc[t] # "idle" => key[t] \in Keys /\ buckets[key[t]] \in BucketAt(clock)
  BY <1>2 DEF TypeOK
<1>7. \A k \in Keys : wait[k] \in Nat /\ refused[k] \in 0..2 BY <1>3 DEF Heading
<1> DEFINE Goal ==
      /\ wait' \in [Keys -> Nat] /\ refused' \in [Keys -> Nat] /\ asked' \in [Threads -> Nat]
      /\ \A k \in Keys : Heading(buckets'[k], wait'[k], refused'[k], clock')
      /\ \A t \in Threads :
            /\ asked'[t] \in 0..clock'
            /\ pc'[t] = "retry_after" /\ refused'[key'[t]] = 2 => asked'[t] < wait'[key'[t]]
<1>8. SUFFICES Goal
  BY DEF RetryInv, KeyInv, ThreadInv, Heading, Ready, Later, Pay
<1>9. ASSUME NEW t \in Threads, NEW k \in Keys, Arrive(t, k) PROVE Goal
  <2>1. /\ UNCHANGED <<clock, wait, refused>> /\ asked' = [asked EXCEPT ![t] = clock]
        /\ \A j \in Keys : buckets'[j] = buckets[j] \/ buckets[j] = None
        /\ pc'[t] = "consume" /\ \A u \in Threads \ {t} : pc'[u] = pc[u] /\ key'[u] = key[u]
    BY <1>9 DEF Arrive, BucketFor, TypeOK
  <2>2. \A j \in Keys : Heading(buckets'[j], wait'[j], refused'[j], clock')
    BY <1>3, <1>4, <1>5, <1>7, <2>1
  <2> QED BY <1>1, <2>1, <2>2 DEF RetryInv, ThreadInv
<1>10. ASSUME NEW t \in Threads, Consume(t), pc'[t] = "idle" PROVE Goal
  <2> DEFINE k == key[t]
  <2>1. pc[t] = "consume" /\ k \in Keys /\ clock' = clock BY <1>6, <1>10 DEF Consume, TryConsume
  <2>2. /\ refused' = [refused EXCEPT ![k] = 0] /\ wait' = [wait EXCEPT ![k] = 0]
        /\ asked' = [asked EXCEPT ![t] = 0]
    BY <1>10 DEF Consume
  <2>3. /\ \A j \in Keys \ {k} : buckets'[j] = buckets[j]
        /\ \A u \in Threads \ {t} : pc'[u] = pc[u] /\ key'[u] = key[u]
    BY <1>10, <2>1 DEF Consume, TryConsume, TypeOK
  <2>4. \A j \in Keys : Heading(buckets'[j], wait'[j], refused'[j], clock')
    BY <1>3, <1>5, <2>1, <2>2, <2>3 DEF RetryInv
  <2>5. \A u \in Threads \ {t} : pc[u] # "idle" => key[u] \in Keys BY <1>6
  <2> QED BY <1>1, <1>10, <2>1, <2>2, <2>3, <2>4, <2>5 DEF RetryInv, ThreadInv
<1>11. ASSUME NEW t \in Threads, Consume(t), pc'[t] # "idle" PROVE Goal
  <2> DEFINE k == key[t]
             b == buckets[k]
  <2>1. pc[t] = "consume" /\ k \in Keys /\ clock' = clock /\ b \in BucketAt(clock)
    BY <1>6, <1>11 DEF Consume, TryConsume
  <2>2. UNCHANGED <<asked, wait, refused>> BY <1>11 DEF Consume, gatewayState
  <2>3. /\ ~(Refill(b).tokens >= Unit)
        /\ buckets' = [buckets EXCEPT ![k] = Refill(b)]
        /\ key' = key /\ pc' = [pc EXCEPT ![t] = "retry_after"]
    BY <1>11, <2>1 DEF Consume, TryConsume, TypeOK
  <2>4. Heading(Refill(b), wait[k], refused[k], clock) BY <1>1, <1>3, <2>1, HeadingRefills
  <2>5. \A j \in Keys : Heading(buckets'[j], wait'[j], refused'[j], clock')
    BY <1>3, <2>1, <2>2, <2>3, <2>4 DEF TypeOK
  <2>6. refused[k] = 2 => asked[t] < wait[k]
    <3> SUFFICES ASSUME refused[k] = 2, ~(asked[t] < wait[k]) PROVE FALSE
      OBVIOUS
    <3>1. asked[t] \in 0..clock /\ wait[k] \in Nat BY <1>7, <2>1 DEF RetryInv, ThreadInv
    <3>2. Later(wait[k], clock) = clock BY <1>1, <3>1 DEF Later
    <3>3. Ready(b, Later(wait[k], clock)) BY <1>3, <2>1 DEF Heading
    <3>4. Ready(b, clock) BY <3>2, <3>3
    <3>5. clock \in Int /\ clock <= clock BY <1>1
    <3> HIDE DEF b, k
    <3> QED BY <1>1, <2>1, <2>3, <3>4, <3>5, RefillReady
  <2> QED BY <1>1, <2>1, <2>2, <2>3, <2>5, <2>6 DEF RetryInv, ThreadInv, TypeOK
<1>12. ASSUME NEW t \in Threads, Refuse(t) PROVE Goal
  <2> DEFINE k == key[t]
             b == buckets[k]
             until == clock + TicksPerSecond * RetryAfterSeconds(Refill(b))
             count == IF asked[t] >= wait[k] THEN refused[k] + 1 ELSE refused[k]
  <2>1. pc[t] = "retry_after" /\ k \in Keys /\ clock' = clock /\ b \in BucketAt(clock)
    BY <1>6, <1>12 DEF Refuse, RetryAfter
  <2>2. /\ wait' = [wait EXCEPT ![k] = until]
        /\ refused' = [refused EXCEPT ![k] = count]
        /\ asked' = [asked EXCEPT ![t] = 0]
    <3>1. refused = [refused EXCEPT ![k] = refused[k]] BY <2>1 DEF RetryInv
    <3> QED BY <1>12, <3>1 DEF Refuse
  <2>3. /\ buckets' = [buckets EXCEPT ![k] = Refill(b)]
        /\ pc'[t] = "idle"
        /\ \A u \in Threads \ {t} : pc'[u] = pc[u] /\ key'[u] = key[u]
    BY <1>12 DEF Refuse, RetryAfter, TypeOK
  <2>4. asked[t] \in 0..clock /\ (refused[k] = 2 => asked[t] < wait[k])
    BY <2>1 DEF RetryInv, ThreadInv
  <2>5. Heading(Refill(b), until, count, clock) /\ until > clock
    BY <1>1, <1>3, <2>1, <2>4, HeadingRefused
  <2>6. until \in Nat /\ count \in Nat BY <2>5 DEF Heading
  <2> HIDE DEF until, count
  <2>7. \A j \in Keys : Heading(buckets'[j], wait'[j], refused'[j], clock')
    BY <1>3, <2>1, <2>2, <2>3, <2>5 DEF TypeOK, RetryInv
  <2>8. ASSUME NEW u \in Threads
        PROVE  /\ asked'[u] \in 0..clock'
               /\ pc'[u] = "retry_after" /\ refused'[key'[u]] = 2 => asked'[u] < wait'[key'[u]]
    <3>1. asked[u] \in 0..clock /\ (pc[u] # "idle" => key[u] \in Keys)
      BY <1>6 DEF RetryInv, ThreadInv
    <3>2. asked'[u] \in 0..clock' BY <1>1, <2>1, <2>2, <3>1 DEF RetryInv
    <3>3. CASE u # t /\ pc[u] = "retry_after" /\ key[u] = k
      <4>1. asked'[u] = asked[u] /\ wait'[key'[u]] = until
        BY <2>1, <2>2, <2>3, <3>3 DEF RetryInv
      <4> QED BY <1>1, <2>5, <2>6, <3>1, <3>2, <4>1
    <3>4. CASE u # t /\ pc[u] = "retry_after" /\ key[u] # k
      <4>1. asked'[u] = asked[u] /\ key'[u] = key[u] /\ wait'[key[u]] = wait[key[u]] /\ refused'[key[u]] = refused[key[u]]
        BY <2>2, <2>3, <3>1, <3>4 DEF RetryInv
      <4> QED BY <3>2, <3>4, <4>1 DEF RetryInv, ThreadInv
    <3>5. CASE u = t \/ pc[u] # "retry_after" BY <2>3, <3>2, <3>5
    <3> QED BY <3>3, <3>4, <3>5
  <2> QED BY <2>2, <2>6, <2>7, <2>8 DEF RetryInv
<1>13. ASSUME Tick, UNCHANGED gatewayState PROVE Goal
  <2>1. clock' = clock + 1 /\ UNCHANGED <<buckets, pc, key, asked, wait, refused>>
    BY <1>13 DEF Tick, gatewayState
  <2>2. \A j \in Keys : Heading(buckets[j], wait[j], refused[j], clock + 1)
    BY <1>1, <1>2, <1>3, HeadingTicks
  <2> QED BY <1>1, <2>1, <2>2 DEF RetryInv, ThreadInv
<1>14. CASE UNCHANGED gatewayVars
  <2>1. UNCHANGED <<clock, buckets, pc, key, asked, wait, refused>>
    BY <1>14 DEF gatewayVars, vars, gatewayState
  <2> QED BY <1>3, <2>1 DEF RetryInv, ThreadInv
<1> HIDE DEF Goal
<1> QED BY <1>9, <1>10, <1>11, <1>12, <1>13, <1>14 DEF GatewayNext

\* Every behaviour of the gateway is one of the limiter.
THEOREM GatewayImplements == GatewaySpec => Spec
<1>1. GatewayInit => Init BY DEF GatewayInit
<1>2. [GatewayNext]_gatewayVars => [Next]_vars
  BY DEF GatewayNext, gatewayVars, Arrive, Consume, Refuse, Next, Allow
<1> QED BY <1>1, <1>2, PTL DEF GatewaySpec, Spec

\* Whoever waits as Retry-After says is refused at most once more before the pair
\* gets a request through, for any number of threads and any rate, as long as a
\* bucket can hold the token of one request.
THEOREM WaitingIsWorthIt ==
    ASSUME Unit <= Capacity
    PROVE  GatewaySpec => []WaitingHelps
<1>1. GatewayInit => RetryInv BY RetryInit
<1>2. TypeOK /\ RetryInv /\ [GatewayNext]_gatewayVars => RetryInv' BY RetryStep
<1>3. RetryInv => WaitingHelps BY DEF RetryInv, KeyInv, Heading, WaitingHelps
<1>4. GatewaySpec => []TypeOK BY GatewayImplements, RateTypeCorrect, PTL
<1> QED BY <1>1, <1>2, <1>3, <1>4, PTL DEF GatewaySpec
=============================================================================
