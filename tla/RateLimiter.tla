----------------------------- MODULE RateLimiter -----------------------------
(***************************************************************************)
(* Token buckets per (agent, mandate) pair (rate_limit.py): allow() called *)
(* by the threads of one process, with the three locked sections it takes  *)
(* one after the other - find or create the bucket, consume, and after a   *)
(* refusal work out Retry-After - and the clock running between them.      *)
(*                                                                         *)
(* Tokens are counted in units so that a tick refills a whole number of    *)
(* them; the rounding of the code's floats is left out.                    *)
(***************************************************************************)
EXTENDS Integers, Sequences

CONSTANTS
    Threads,
    Keys,      \* (agent_key, mandate_id) pairs
    None,      \* no bucket
    Capacity,  \* of a bucket, in units
    Unit,      \* units of one token, what a request consumes
    Rate,      \* units refilled per tick
    MaxClock   \* bound: ticks of the clock

ASSUME RateAssumption ==
    /\ Capacity \in Nat \ {0} /\ Unit \in Nat \ {0} /\ Rate \in Nat \ {0}
    /\ None \notin [tokens: 0..Capacity, last: Nat] /\ None \notin Keys
    /\ MaxClock \in Nat

VARIABLES
    clock,
    buckets,  \* RateLimiter._buckets
    allowed,  \* per key, the times of the requests let through
    pc, key   \* per thread: the next section of allow(), and its argument

vars == <<clock, buckets, allowed, pc, key>>

-----------------------------------------------------------------------------

Least(a, b) == IF a <= b THEN a ELSE b

\* Mutant: a refill beyond the capacity.
RefillUnbounded(b) == [tokens |-> b.tokens + (clock - b.last) * Rate, last |-> clock]

\* TokenBucket._refill_locked()
Refill(b) == [tokens |-> Least(Capacity, b.tokens + (clock - b.last) * Rate), last |-> clock]

Init ==
    /\ clock = 0
    /\ buckets = [k \in Keys |-> None]
    /\ allowed = [k \in Keys |-> <<>>]
    /\ pc = [t \in Threads |-> "idle"]
    /\ key = [t \in Threads |-> None]

\* A bucket starts full.
TokenBucket == [tokens |-> Capacity, last |-> clock]

\* Mutant: a bucket another thread has made is replaced.
BucketForAnew(t, k) ==
    /\ pc[t] = "idle"
    /\ buckets' = [buckets EXCEPT ![k] = TokenBucket]
    /\ pc' = [pc EXCEPT ![t] = "consume"]
    /\ key' = [key EXCEPT ![t] = k]
    /\ UNCHANGED <<clock, allowed>>

\* _bucket_for(): get or create under the limiter's lock.
BucketFor(t, k) ==
    /\ pc[t] = "idle"
    /\ buckets' = IF buckets[k] = None
                  THEN [buckets EXCEPT ![k] = TokenBucket]
                  ELSE buckets
    /\ pc' = [pc EXCEPT ![t] = "consume"]
    /\ key' = [key EXCEPT ![t] = k]
    /\ UNCHANGED <<clock, allowed>>

\* try_consume(): refill, check and decrement under the bucket's lock.
TryConsume(t) ==
    /\ pc[t] = "consume"
    /\ LET k == key[t]
           b == Refill(buckets[k]) IN
        IF b.tokens >= Unit
        THEN /\ buckets' = [buckets EXCEPT ![k] = [b EXCEPT !.tokens = @ - Unit]]
             /\ allowed' = [allowed EXCEPT ![k] = Append(@, clock)]
             /\ pc' = [pc EXCEPT ![t] = "idle"]
             /\ key' = [key EXCEPT ![t] = None]
        ELSE /\ buckets' = [buckets EXCEPT ![k] = b]
             /\ pc' = [pc EXCEPT ![t] = "retry_after"]
             /\ UNCHANGED <<allowed, key>>
    /\ UNCHANGED clock

\* Mutant: the time passes for the bucket, and the tokens it earned are dropped.
RetryAfterDropping(t) ==
    /\ pc[t] = "retry_after"
    /\ buckets' = [buckets EXCEPT ![key[t]].last = clock]
    /\ pc' = [pc EXCEPT ![t] = "idle"]
    /\ key' = [key EXCEPT ![t] = None]
    /\ UNCHANGED <<clock, allowed>>

\* retry_after_seconds(): another refill, under the lock again.  What it answers
\* is advice to the caller and is left out.
RetryAfter(t) ==
    /\ pc[t] = "retry_after"
    /\ buckets' = [buckets EXCEPT ![key[t]] = Refill(@)]
    /\ pc' = [pc EXCEPT ![t] = "idle"]
    /\ key' = [key EXCEPT ![t] = None]
    /\ UNCHANGED <<clock, allowed>>

Tick ==
    /\ clock < MaxClock
    /\ clock' = clock + 1
    /\ UNCHANGED <<buckets, allowed, pc, key>>

Allow(t) == (\E k \in Keys : BucketFor(t, k)) \/ TryConsume(t) \/ RetryAfter(t)

Next == (\E t \in Threads : Allow(t)) \/ Tick

Spec == Init /\ [][Next]_vars

-----------------------------------------------------------------------------
(* Properties *)

\* A bucket never holds more than its capacity, less than nothing, or a refill
\* from the future; a call past the first section has its bucket.
TypeOK ==
    /\ clock \in Nat
    /\ buckets \in [Keys -> [tokens: 0..Capacity, last: 0..clock] \cup {None}]
    /\ allowed \in [Keys -> Seq(0..clock)]
    /\ pc \in [Threads -> {"idle", "consume", "retry_after"}]
    /\ key \in [Threads -> Keys \cup {None}]
    /\ \A t \in Threads : pc[t] # "idle" => key[t] \in Keys /\ buckets[key[t]] # None

\* What the bucket is for: between any two requests of a pair that got through,
\* no more did than a full bucket and the refill of that time pay for, whatever
\* the threads that raced for them, and for the bucket's creation.
WindowBound ==
    \A k \in Keys : \A i, j \in DOMAIN allowed[k] :
        i <= j => (j - i + 1) * Unit <= Capacity + (allowed[k][j] - allowed[k][i]) * Rate

\* No token is lost: a pair that kept quiet long enough, or never asked, has its
\* whole burst back, whichever refusals and refills came in between.
BurstComesBack ==
    \A k \in Keys : buckets[k] # None =>
        LET seen == allowed[k] IN
        seen = <<>> \/ (clock - seen[Len(seen)]) * Rate >= Capacity
            => Refill(buckets[k]).tokens = Capacity
=============================================================================
