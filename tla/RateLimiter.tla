---------------------------- MODULE RateLimiter ----------------------------
(***************************************************************************)
(* The two limiters of src/ratelimit.rs, with max_commands in a window.    *)
(* TokenBucketLimiter refills under a mutex, with a load and a store of    *)
(* the counter, and spends by compare-and-swap outside the mutex.          *)
(* SlidingWindowLimiter does everything under its mutex.  Times are whole  *)
(* units, and the tokens earned are rounded down as by `as u64`.           *)
(***************************************************************************)
EXTENDS Integers, Sequences

CONSTANTS
    Takers,        \* tasks that call try_acquire; a lane has one, the scheduler
    max_commands,
    window,
    MaxClock,      \* bound on the time
    MaxGrants,     \* bound on the permissions
    Nobody

VARIABLES
    limiter,     \* the algorithm of the RateLimiter (an unlimited one gives every permission)
    clock,
    bucket,      \* the counter, the time of the last refill and who holds the mutex
    taker,       \* taker[t]: where t is in try_acquire, and what its refill will store
    timestamps,  \* of the sliding window
    granted      \* when the limiter has given its permissions

limiter_vars == <<limiter, clock, bucket, taker, timestamps, granted>>

Away == [pc |-> "away", total |-> 0, at |-> 0]

Init ==
    /\ limiter \in {"TokenBucket", "SlidingWindow"}
    /\ clock = 0
    /\ bucket = [tokens |-> max_commands, last_refill |-> 0, holder |-> Nobody]
    /\ taker = [t \in Takers |-> Away]
    /\ timestamps = <<>>
    /\ granted = <<>>

Tick ==
    /\ clock < MaxClock
    /\ clock' = clock + 1
    /\ UNCHANGED <<limiter, bucket, taker, timestamps, granted>>

-----------------------------------------------------------------------------
\* refill takes the mutex and reads the counter; less than one token is left to a later call.
refill_reads(t) ==
    LET new_tokens == ((clock - bucket.last_refill) * max_commands) \div window
        total == bucket.tokens + new_tokens
    IN  /\ limiter = "TokenBucket" /\ taker[t] = Away /\ bucket.holder = Nobody
        /\ IF new_tokens > 0
           THEN /\ taker' = [taker EXCEPT ![t] =
                      [pc |-> "refilling", at |-> clock,
                       total |-> IF total < max_commands THEN total ELSE max_commands]]
                /\ bucket' = [bucket EXCEPT !.holder = t]
           ELSE /\ taker' = [taker EXCEPT ![t].pc = "spending"]
                /\ UNCHANGED bucket
        /\ UNCHANGED <<limiter, clock, timestamps, granted>>

\* Fault: the time of the refill is not remembered.
refill_stores_untimed(t) ==
    /\ taker[t].pc = "refilling"
    /\ bucket' = [bucket EXCEPT !.tokens = taker[t].total, !.holder = Nobody]
    /\ taker' = [taker EXCEPT ![t] = [Away EXCEPT !.pc = "spending"]]
    /\ UNCHANGED <<limiter, clock, timestamps, granted>>

refill_stores(t) ==
    /\ taker[t].pc = "refilling"
    /\ bucket' = [tokens |-> taker[t].total, last_refill |-> taker[t].at, holder |-> Nobody]
    /\ taker' = [taker EXCEPT ![t] = [Away EXCEPT !.pc = "spending"]]
    /\ UNCHANGED <<limiter, clock, timestamps, granted>>

\* The loop around compare_exchange ends when the counter is 0 or the exchange succeeds.
spend(t) ==
    /\ taker[t].pc = "spending" /\ Len(granted) < MaxGrants
    /\ bucket.tokens > 0
    /\ bucket' = [bucket EXCEPT !.tokens = @ - 1]
    /\ granted' = Append(granted, clock)
    /\ taker' = [taker EXCEPT ![t] = Away]
    /\ UNCHANGED <<limiter, clock, timestamps>>

limited(t) ==
    /\ taker[t].pc = "spending" /\ bucket.tokens = 0
    /\ taker' = [taker EXCEPT ![t] = Away]
    /\ UNCHANGED <<limiter, clock, bucket, timestamps, granted>>

-----------------------------------------------------------------------------
\* The timestamps that are still in the window.
Recent == SelectSeq(timestamps, LAMBDA ts : ts > clock - window)

under_limit == Len(Recent) < max_commands

sliding_try_acquire ==
    /\ limiter = "SlidingWindow" /\ Len(granted) < MaxGrants
    /\ IF under_limit
       THEN /\ timestamps' = Append(Recent, clock)
            /\ granted' = Append(granted, clock)
       ELSE /\ timestamps' = Recent
            /\ UNCHANGED granted
    /\ UNCHANGED <<limiter, clock, bucket, taker>>

Next ==
    \/ Tick
    \/ \E t \in Takers : refill_reads(t) \/ refill_stores(t) \/ spend(t) \/ limited(t)
    \/ sliding_try_acquire

Spec == Init /\ [][Next]_limiter_vars

-----------------------------------------------------------------------------
\* However the calls fall, the bucket never gives more between two of its permissions than its
\* capacity and what the time between them earns (and the fraction saved up before the first),
\* and no window of the configured length holds more than max_commands of the sliding window's.
PermissionsKeepRate ==
    \A i, k \in DOMAIN granted : i <= k =>
        /\ limiter = "TokenBucket" =>
              k - i + 1 <= max_commands + 1 + ((granted[k] - granted[i]) * max_commands) \div window
        /\ limiter = "SlidingWindow" /\ k - i = max_commands => granted[k] - granted[i] >= window

=============================================================================
