-------------------------- MODULE MCRedisJobQueue --------------------------
(* Instances of RedisJobQueue for TLC. *)
EXTENDS RedisJobQueue

CONSTANTS d1, k1

Plain ==
    [priority |-> 1, lifo |-> FALSE, delay |-> FALSE, max_retries |-> 0,
     max_stalled_count |-> 0, on_failure |-> "fail",
     completion_retention |-> None, failure_retention |-> None,
     deduplication |-> None, repeat |-> None]

Policy(p) == [Plain EXCEPT !.on_failure = p]

\* A parent with two children under different failure policies.
TwoChildren(p, q) ==
    [parent |-> [id |-> 1, options |-> Plain],
     children |-> <<[id |-> 2, options |-> Policy(p)], [id |-> 3, options |-> Policy(q)]>>]

\* Flows that wait for all of their children, and a child that the running parent adds.
ClosedFlows == {TwoChildren("fail_parent", "ignore")}
ThirdChild == {[parent |-> 1, children |-> <<[id |-> 3, options |-> Policy("fail")]>>]}

KeepLast == [id |-> d1, ttl |-> FALSE, replace |-> FALSE, keep_last_if_active |-> TRUE, extend |-> FALSE]
Debounce == [id |-> d1, ttl |-> TRUE, replace |-> TRUE, keep_last_if_active |-> FALSE, extend |-> FALSE]

Series == [key |-> k1, limit |-> 2]

\* Occurrences of one series, of which the latest is kept while one runs, and a job that
\* debounces under the same deduplication id.
SeriesJobs ==
    {[id |-> 1, options |-> [Plain EXCEPT !.repeat = Series, !.deduplication = KeepLast, !.max_retries = 1]],
     [id |-> 2, options |-> [Plain EXCEPT !.repeat = Series, !.deduplication = KeepLast]],
     [id |-> 3, options |-> [Plain EXCEPT !.deduplication = Debounce, !.delay = TRUE]]}

\* A job at once and a delayed one, of different priorities.
WakeupJobs ==
    {[id |-> 1, options |-> [Plain EXCEPT !.max_stalled_count = 1]],
     [id |-> 2, options |-> [Plain EXCEPT !.priority = 2, !.lifo = TRUE, !.delay = TRUE,
                               !.repeat = [key |-> k1, limit |-> 2]]]}

=============================================================================
