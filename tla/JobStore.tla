------------------------------ MODULE JobStore ------------------------------
(***************************************************************************)
(* The data of the in-memory job queue (src/job/memory.rs) and the helpers *)
(* that its operations call while they hold the queue's one mutex.         *)
(*                                                                         *)
(* A helper of the source takes `inner: &mut InMemoryJobQueueState`; here  *)
(* it takes the queue state st and returns the next one, so that an        *)
(* operation of JobQueue is the composition of the calls it makes.         *)
(*                                                                         *)
(* Times and durations are natural numbers.  Where validation rejects a    *)
(* zero (TTL, repeat limit, retention age) zero stands for an absent       *)
(* option.  Payloads, logs, progress, return values, failure texts and     *)
(* emitted events are left out.  No operation modelled here creates a flow,*)
(* so no job has a parent or children and the parent calls of the          *)
(* handlers have nothing to do.                                            *)
(***************************************************************************)
EXTENDS Integers, FiniteSets

CONSTANTS
    JobIds,     \* job ids: custom ids may be reused, generated ones are fresh
    DedupIds,   \* deduplication ids
    RepeatKeys, \* repeat-series keys
    None        \* an absent optional value

ASSUME JobIdsAssumption == JobIds \subseteq Nat /\ IsFiniteSet(JobIds)

-----------------------------------------------------------------------------
(***************************************************************************)
(* Records.                                                                *)
(***************************************************************************)
JobState == {"Waiting", "Delayed", "Active", "Completed", "Failed"}
Terminal == {"Completed", "Failed"}

\* `remove_on_complete` and `remove_on_fail` behave as a retention whose count is 0.
JobRetention == [age : Nat, count : Nat \cup {None}, limit : Nat \ {0}]

DeduplicationOptions ==
    [id : DedupIds, ttl : Nat, replace : BOOLEAN,
     keep_last_if_active : BOOLEAN, extend : BOOLEAN]

RepeatOptions ==
    [key : RepeatKeys, interval : Nat \ {0}, limit : Nat, end_at : Nat \cup {None}]

JobOptions ==
    [priority : Nat, lifo : BOOLEAN, delay : Nat,
     max_retries : Nat, retry_delay : Nat, max_stalled_count : Nat,
     completion_retention : JobRetention \cup {None},
     failure_retention : JobRetention \cup {None},
     deduplication : DeduplicationOptions \cup {None},
     repeat : RepeatOptions \cup {None}]

Job ==
    [id : JobIds, options : JobOptions, state : JobState,
     attempts_made : Nat, stalled_count : Nat,
     created_at : Nat, scheduled_at : Nat, enqueued_seq : Nat,
     processed_at : Nat \cup {None}, finished_at : Nat \cup {None},
     lock_token : Nat \cup {None}, lease_expires_at : Nat \cup {None},
     repeat_count : Nat, deduplication_expires_at : Nat \cup {None}]

\* The job table, the parked keep-last duplicates and the released owners.
InMemoryJobQueueState ==
    [paused : BOOLEAN, sequence : Nat,
     jobs : [JobIds -> Job \cup {None}],
     deduplication_next : [DedupIds -> Job \cup {None}],
     released_deduplication_owners : SUBSET (DedupIds \X JobIds)]

ASSUME NoneAssumption ==
    /\ None \notin Nat
    /\ None \notin DedupIds
    /\ None \notin RepeatKeys
    /\ None \notin DeduplicationOptions
    /\ None \notin RepeatOptions
    /\ None \notin JobRetention
    /\ None \notin Job

EmptyQueue ==
    [paused |-> FALSE, sequence |-> 0,
     jobs |-> [j \in JobIds |-> None],
     deduplication_next |-> [d \in DedupIds |-> None],
     released_deduplication_owners |-> {}]

-----------------------------------------------------------------------------
(***************************************************************************)
(* Predicates on one job.                                                  *)
(***************************************************************************)
state_after_dependencies(at, now) == IF at > now THEN "Delayed" ELSE "Waiting"

job_deduplication_id(job) ==
    IF job.options.deduplication = None THEN None ELSE job.options.deduplication.id

repeat_key(job) ==
    IF job.options.repeat = None THEN None ELSE job.options.repeat.key

\* A keep-last owner never expires by TTL.
deduplication_expiration(options, now) ==
    LET d == options.deduplication IN
    IF d = None THEN None
    ELSE IF d.keep_last_if_active \/ d.ttl = 0 THEN None ELSE now + d.ttl

\* Job::new
new_job(id, options, now) ==
    [id |-> id, options |-> options,
     state |-> state_after_dependencies(now + options.delay, now),
     attempts_made |-> 0, stalled_count |-> 0,
     created_at |-> now, scheduled_at |-> now + options.delay, enqueued_seq |-> 0,
     processed_at |-> None, finished_at |-> None,
     lock_token |-> None, lease_expires_at |-> None,
     repeat_count |-> 0,
     deduplication_expires_at |-> deduplication_expiration(options, now)]

\* A terminal job keeps its deduplication id for as long as its TTL runs.
active_deduplication_id(job, now) ==
    IF \/ job.deduplication_expires_at # None /\ job.deduplication_expires_at <= now
       \/ job.deduplication_expires_at = None /\ job.state \in Terminal
    THEN None
    ELSE job_deduplication_id(job)

active_repeat_key(job) == IF job.state \in Terminal THEN None ELSE repeat_key(job)

is_repeat_scheduler_job(job) == active_repeat_key(job) # None

should_retry(job) ==
    job.options.max_retries > 0 /\ job.attempts_made <= job.options.max_retries

\* Fault: any token settles an active job.
require_active_only(job, token) == job.state = "Active"

require_lock_token(job, token) == job.state = "Active" /\ job.lock_token = token

require_removable(job) == ~(job.state = "Active" /\ job.lock_token # None)

job_reference_time(job) ==
    IF job.finished_at # None THEN job.finished_at
    ELSE IF job.processed_at # None THEN job.processed_at ELSE job.scheduled_at

\* options.validate() holds of every member of JobOptions; the rest depends on the clock.
validate_job_options_at(options, now) ==
    options.repeat # None =>
        (options.repeat.end_at # None => options.repeat.end_at >= now)

-----------------------------------------------------------------------------
(***************************************************************************)
(* The waiting order: released jobs (sequence 0) first, then LIFO jobs     *)
(* newest first, then FIFO jobs oldest first.                              *)
(***************************************************************************)
compare_waiting_order(a, b) ==
    IF a.enqueued_seq = 0 \/ b.enqueued_seq = 0
    THEN a.enqueued_seq = 0 /\ (b.enqueued_seq = 0 => a.id < b.id)
    ELSE IF a.options.lifo # b.options.lifo THEN a.options.lifo
    ELSE IF a.options.lifo THEN a.enqueued_seq > b.enqueued_seq
    ELSE a.enqueued_seq < b.enqueued_seq

\* The ties the source breaks by time cannot happen: WaitingOrderIsTotal of JobQueue.
compare_claim_order(a, b) ==
    \/ a.options.priority < b.options.priority
    \/ a.options.priority = b.options.priority /\ compare_waiting_order(a, b)

-----------------------------------------------------------------------------
(***************************************************************************)
(* The job table and who owns a deduplication id or a repeat key in it.    *)
(***************************************************************************)
Present(st) == {j \in JobIds : st.jobs[j] # None}

InState(st, state) == {j \in Present(st) : st.jobs[j].state = state}

\* jobs.values().find(...) returns an arbitrary member of the set.
find_active_deduplication_id(st, d, now) ==
    {j \in Present(st) : /\ d # None
                         /\ active_deduplication_id(st.jobs[j], now) = d
                         /\ <<d, j>> \notin st.released_deduplication_owners}

find_active_repeat_key(st, key) ==
    {j \in Present(st) : key # None /\ active_repeat_key(st.jobs[j]) = key}

forget_released_deduplication_owner_locked(st, job) ==
    [st EXCEPT !.released_deduplication_owners =
        @ \ {<<job_deduplication_id(job), job.id>>}]

\* Fault: the sequence number is used but not advanced.
insert_job_reusing_sequence(st, job) ==
    [st EXCEPT !.jobs[job.id] = [job EXCEPT !.enqueued_seq = st.sequence + 1]]

\* assign_waiting_order, then jobs.insert: only a waiting job takes a sequence number.
insert_job(st, job) ==
    IF job.state = "Waiting"
    THEN [st EXCEPT !.sequence = @ + 1,
                    !.jobs[job.id] = [job EXCEPT !.enqueued_seq = st.sequence + 1]]
    ELSE [st EXCEPT !.jobs[job.id] = job]

remove_job_record_locked(st, j) ==
    [forget_released_deduplication_owner_locked(st, st.jobs[j]) EXCEPT !.jobs[j] = None]

\* One remove_job_record_locked for each member of S.
remove_job_records(st, S) ==
    [st EXCEPT
        !.jobs = [j \in JobIds |-> IF j \in S THEN None ELSE st.jobs[j]],
        !.released_deduplication_owners =
            @ \ {<<job_deduplication_id(st.jobs[j]), j>> : j \in S}]

\* Fault: one member too many.
FirstOfInclusive(S, n, ahead) ==
    {j \in S : Cardinality(S \cap ahead[j]) <= n}

\* The first n members of S, when the jobs in ahead[j] come before j.
FirstOf(S, n, ahead) ==
    {j \in S : Cardinality(S \cap ahead[j]) < n}

\* Newest finished first; ids break ties.
NewestFirst(st, k, j) ==
    \/ st.jobs[k].finished_at > st.jobs[j].finished_at
    \/ st.jobs[k].finished_at = st.jobs[j].finished_at /\ k > j

\* Aged jobs go first (the newest `limit` of them), then all but the newest `count`.
pruned(st, state, retention, now) ==
    LET finished == {j \in InState(st, state) : st.jobs[j].finished_at # None}
        newer == [j \in finished |-> {k \in finished : NewestFirst(st, k, j)}]
        aged == {j \in finished : retention.age > 0
                                  /\ st.jobs[j].finished_at <= now - retention.age}
        expired == FirstOf(aged, retention.limit, newer)
        left == finished \ expired
        surplus == IF retention.count = None THEN {}
                   ELSE left \ FirstOf(left, retention.count, newer)
    IN  expired \cup surplus

apply_finished_retention_locked(st, state, retention, now) ==
    remove_job_records(st, pruned(st, state, retention, now))

\* removes_completed_immediately / completed_retention, and the same for failures.
retain_finished(st, job, retention, now) ==
    IF retention = None THEN st
    ELSE IF retention.count = 0 THEN remove_job_record_locked(st, job.id)
    ELSE apply_finished_retention_locked(st, job.state, retention, now)

-----------------------------------------------------------------------------
(***************************************************************************)
(* Deduplication and repeat series.                                        *)
(***************************************************************************)
deduplication_replaces_delayed_owner(candidate, existing) ==
    /\ candidate.options.deduplication.replace
    /\ existing.state = "Delayed"
    /\ repeat_key(candidate) = None
    /\ repeat_key(existing) = None

\* A replacement with a TTL takes over the owner's expiry.
preserve_replacement_deduplication_expiration(candidate, existing) ==
    IF candidate.options.deduplication.ttl = 0 THEN candidate
    ELSE [candidate EXCEPT !.deduplication_expires_at = existing.deduplication_expires_at]

deduplication_stores_next_if_active(candidate, existing) ==
    /\ candidate.options.deduplication.keep_last_if_active
    /\ existing.state = "Active"
    /\ repeat_key(candidate) = repeat_key(existing)

store_deduplicated_next_locked(st, candidate, existing) ==
    IF ~deduplication_stores_next_if_active(candidate, existing) THEN st
    ELSE [st EXCEPT
            !.deduplication_next[job_deduplication_id(candidate)] = candidate,
            !.jobs[existing.id].deduplication_expires_at = None]

deduplication_extends_ttl(candidate) ==
    LET d == candidate.options.deduplication IN
    d.extend /\ d.ttl > 0 /\ ~d.keep_last_if_active

extend_deduplication_expiration_locked(st, candidate, existing_id, now) ==
    IF ~deduplication_extends_ttl(candidate) THEN st
    ELSE [st EXCEPT !.jobs[existing_id].deduplication_expires_at =
                        deduplication_expiration(candidate.options, now)]

prepare_deduplicated_next_job(job, now) == new_job(job.id, job.options, now)

\* Fault: one occurrence past the limit.
repeat_up_to_limit(owner) ==
    owner.options.repeat.limit = 0 \/ owner.repeat_count + 1 <= owner.options.repeat.limit

\* The series goes on: the next occurrence is within the limit (0: no limit).
repeat_within_limit(owner) ==
    owner.options.repeat.limit = 0 \/ owner.repeat_count + 1 < owner.options.repeat.limit

\* repeat_keep_last_next_count is Some(_)
keep_last_continues(owner, next) ==
    \/ repeat_key(owner) = None
    \/ repeat_key(next) = repeat_key(owner) /\ repeat_within_limit(owner)

enqueues_deduplicated_next(st, owner) ==
    LET d == job_deduplication_id(owner) IN
    /\ d # None
    /\ st.deduplication_next[d] # None
    /\ keep_last_continues(owner, st.deduplication_next[d])
    /\ st.jobs[st.deduplication_next[d].id] = None

\* The parked duplicate is taken out whether or not it becomes a job.
enqueue_deduplicated_next_locked(st, owner, now) ==
    LET d == job_deduplication_id(owner)
        taken == [st EXCEPT !.deduplication_next[d] = None]
        next == prepare_deduplicated_next_job(st.deduplication_next[d], now)
        counted == IF repeat_key(owner) = None THEN next
                   ELSE [next EXCEPT !.repeat_count = owner.repeat_count + 1]
    IN  IF d = None THEN st
        ELSE IF ~enqueues_deduplicated_next(st, owner) THEN taken
        ELSE insert_job(forget_released_deduplication_owner_locked(taken, counted), counted)

\* next_repeat_job(..) is Some(_)
repeats(job, now) ==
    LET r == job.options.repeat IN
    /\ r # None
    /\ repeat_within_limit(job)
    /\ r.end_at # None => now + r.interval <= r.end_at

\* The successor has a generated id and is due one interval from now.
next_repeat_job(job, id, now) ==
    LET at == now + job.options.repeat.interval IN
    [new_job(id, job.options, now) EXCEPT
        !.scheduled_at = at,
        !.state = state_after_dependencies(at, now),
        !.repeat_count = job.repeat_count + 1]

-----------------------------------------------------------------------------
(***************************************************************************)
(* Promotion of due delayed jobs: one sequence number each, in the order   *)
(* of due time, creation time and id.                                      *)
(***************************************************************************)
DueBefore(a, b) ==
    \/ a.scheduled_at < b.scheduled_at
    \/ a.scheduled_at = b.scheduled_at /\ a.created_at < b.created_at
    \/ a.scheduled_at = b.scheduled_at /\ a.created_at = b.created_at /\ a.id < b.id

due_jobs(st, now) ==
    {j \in InState(st, "Delayed") : st.jobs[j].scheduled_at <= now}

promote_due_locked(st, now) ==
    LET due == due_jobs(st, now)
        rank(j) == Cardinality({k \in due : DueBefore(st.jobs[k], st.jobs[j])})
    IN  [st EXCEPT
            !.sequence = @ + Cardinality(due),
            !.jobs = [j \in JobIds |->
                IF j \in due
                THEN [st.jobs[j] EXCEPT !.state = "Waiting",
                                  !.enqueued_seq = st.sequence + rank(j) + 1]
                ELSE st.jobs[j]]]

=============================================================================
