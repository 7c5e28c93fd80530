----------------------------- MODULE MCJobQueue -----------------------------
(***************************************************************************)
(* Small instances of JobQueue.  Each set of options switches on one       *)
(* feature of the queue, so that a run explores it with every operation.   *)
(***************************************************************************)
EXTENDS JobQueue

PlainOption ==
    [priority |-> 1, lifo |-> FALSE, delay |-> 0,
     max_retries |-> 1, retry_delay |-> 0, max_stalled_count |-> 0,
     completion_retention |-> None, failure_retention |-> None,
     deduplication |-> None, repeat |-> None]

Keep(n) == [age |-> 0, count |-> n, limit |-> 1000]

\* A job of which one finished record is kept, and one that is delayed, stalls once and is
\* removed when it fails.
LifecycleOptions ==
    {[PlainOption EXCEPT !.completion_retention = Keep(1), !.failure_retention = Keep(1)],
     [PlainOption EXCEPT !.delay = 1, !.max_stalled_count = 1,
                         !.failure_retention = Keep(0)]}

Dedup(ttl, replace, keep, extend) ==
    [id |-> CHOOSE d \in DedupIds : TRUE, ttl |-> ttl, replace |-> replace,
     keep_last_if_active |-> keep, extend |-> extend]

\* A plain job, and one of a higher priority that is delayed, replaces a delayed owner of its
\* deduplication id and extends the TTL of any other.  (set_priority_order makes jobs LIFO,
\* retries and delay_active make them delayed.)
SubmissionOptions ==
    {[PlainOption EXCEPT !.priority = 2],
     [PlainOption EXCEPT !.deduplication = Dedup(1, TRUE, FALSE, TRUE), !.delay = 1,
                         !.max_retries = 0]}

Repeat(limit, end_at) ==
    [key |-> CHOOSE k \in RepeatKeys : TRUE, interval |-> 1, limit |-> limit, end_at |-> end_at]

KeepLast == Dedup(0, FALSE, TRUE, FALSE)
OtherId == CHOOSE d \in DedupIds : d # KeepLast.id

\* A bounded series whose occurrences keep the latest duplicate and are not retained, an
\* endless one that ends by the clock, and a job that keeps its latest duplicate under an id
\* of its own.
RepeatOptionSet ==
    {[PlainOption EXCEPT !.repeat = Repeat(2, None), !.deduplication = KeepLast,
                         !.completion_retention = Keep(0), !.failure_retention = Keep(0)],
     [PlainOption EXCEPT !.repeat = Repeat(0, 1), !.max_retries = 0],
     [PlainOption EXCEPT !.deduplication = [KeepLast EXCEPT !.id = OtherId],
                         !.failure_retention = Keep(1), !.max_retries = 0]}

=============================================================================
