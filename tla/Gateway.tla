------------------------------ MODULE Gateway ------------------------------
(***************************************************************************)
(* The limiter in front of POST /v1/authorize (api.py): a pair that is     *)
(* refused is told in Retry-After, in whole seconds, when to come back.    *)
(***************************************************************************)
EXTENDS RateLimiter

CONSTANT TicksPerSecond

ASSUME TicksAssumption == TicksPerSecond \in Nat \ {0}

VARIABLES
    asked,   \* per thread, when the request it works on came in
    wait,    \* per key, until when the last refusal told it to wait
    refused  \* per key, the refusals in a row to requests that had waited as told

gatewayState == <<asked, wait, refused>>

gatewayVars == <<vars, gatewayState>>

GatewayInit ==
    /\ Init
    /\ asked = [t \in Threads |-> 0]
    /\ wait = [k \in Keys |-> 0]
    /\ refused = [k \in Keys |-> 0]

-----------------------------------------------------------------------------
(* Seconds *)

\* round() of ticks to seconds, half to even.
Round(ticks) ==
    LET whole == ticks \div TicksPerSecond
        rest  == 2 * (ticks % TicksPerSecond)
    IN  IF rest > TicksPerSecond \/ (rest = TicksPerSecond /\ whole % 2 = 1)
        THEN whole + 1 ELSE whole

\* retry_after_seconds(): until the bucket has a token.
TicksToToken(b) == IF b.tokens >= Unit THEN 0 ELSE (Unit - b.tokens + Rate - 1) \div Rate

\* Mutant: rounded, and no more.
RetryAfterSecondsRounded(b) == Round(TicksToToken(b))

\* The header: max(1, round(retry_after)).
RetryAfterSeconds(b) == LET s == Round(TicksToToken(b)) IN IF s < 1 THEN 1 ELSE s

-----------------------------------------------------------------------------
(* The handler *)

Arrive(t, k) ==
    /\ BucketFor(t, k)
    /\ asked' = [asked EXCEPT ![t] = clock]
    /\ UNCHANGED <<wait, refused>>

\* Let through, the request is evaluated; the pair has nothing to wait for.
Consume(t) ==
    /\ TryConsume(t)
    /\ IF pc'[t] = "idle"
       THEN /\ refused' = [refused EXCEPT ![key[t]] = 0]
            /\ wait' = [wait EXCEPT ![key[t]] = 0]
            /\ asked' = [asked EXCEPT ![t] = 0]
       ELSE UNCHANGED gatewayState

\* 429 with Retry-After.
Refuse(t) ==
    /\ RetryAfter(t)
    /\ LET k == key[t] IN
        /\ wait' = [wait EXCEPT ![k] = clock + TicksPerSecond * RetryAfterSeconds(Refill(buckets[k]))]
        /\ refused' = IF asked[t] >= wait[k] THEN [refused EXCEPT ![k] = @ + 1] ELSE refused
    /\ asked' = [asked EXCEPT ![t] = 0]

GatewayNext ==
    \/ \E t \in Threads :
        \/ \E k \in Keys : Arrive(t, k)
        \/ Consume(t)
        \/ Refuse(t)
    \/ Tick /\ UNCHANGED gatewayState

GatewaySpec == GatewayInit /\ [][GatewayNext]_gatewayVars

-----------------------------------------------------------------------------
(* Properties *)

\* Retry-After is worth obeying: rounding may send a caller back a little early,
\* but whoever waits as told is refused at most once more before the pair gets a
\* request through, however many others knock, and are refused, meanwhile.
WaitingHelps == \A k \in Keys : refused[k] <= 2
=============================================================================
