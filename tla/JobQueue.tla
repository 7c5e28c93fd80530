------------------------------ MODULE JobQueue ------------------------------
(***************************************************************************)
(* The in-memory job queue (src/job/memory.rs): the reference backend of   *)
(* JobQueueBackend, whose operations each run under one mutex.             *)
(*                                                                         *)
(* Callers are not modelled: any operation may be called with any          *)
(* argument at any time, and a token that was ever handed out may be       *)
(* presented again, so a worker that lost its lease is every caller of     *)
(* complete_job, fail_job or renew_lease with an old token.  A call that   *)
(* returns an error, or finds nothing to do, changes nothing and is a      *)
(* stuttering step; the guards below are the conditions under which the    *)
(* source gets past its early returns.                                     *)
(***************************************************************************)
EXTENDS JobStore

CONSTANTS
    Options,    \* the options jobs are added with
    Durations,  \* caller-chosen delays, lease times and grace periods
    MaxTime,    \* bound: the last instant of the clock
    MaxClaims,  \* bound: the number of leases handed out
    MaxSeq      \* bound: waiting sequence numbers handed out by caller-driven requeues

ASSUME OptionsAssumption == Options \subseteq JobOptions
ASSUME DurationsAssumption == Durations \subseteq Nat
ASSUME BoundsAssumption == {MaxTime, MaxClaims, MaxSeq} \subseteq Nat

VARIABLES
    inner,   \* the state behind the mutex
    now,     \* the clock
    issued,  \* lock tokens handed out so far: 1 .. issued
    todo,    \* stalled jobs that recover_stalled_jobs, holding the mutex, has still to settle
    presented  \* the lock token the last call came with, None for a call without one

vars == <<inner, now, issued, todo, presented>>

Unlocked == todo = {}
Room == inner.sequence < MaxSeq

Init ==
    /\ inner = EmptyQueue
    /\ now = 0
    /\ issued = 0
    /\ todo = {}
    /\ presented = None

\* Time passes between operations.
Tick ==
    /\ Unlocked /\ now < MaxTime
    /\ now' = now + 1
    /\ presented' = None
    /\ UNCHANGED <<inner, issued, todo>>

\* An operation that holds the mutex from start to end and leaves st behind.
CommitAs(caller, st) ==
    /\ Unlocked
    /\ inner' = st
    /\ presented' = caller
    /\ UNCHANGED <<now, issued, todo>>

\* The same for an operation that takes no lock token.
Commit(st) == CommitAs(None, st)

-----------------------------------------------------------------------------
(***************************************************************************)
(* Submission.                                                             *)
(***************************************************************************)
\* Fault: the live occurrence of the series is not looked up.
insert_without_repeat_check(st, job) ==
    insert_job(forget_released_deduplication_owner_locked(st, job), job)

\* A live occurrence of the same repeat series is returned instead of a second one.
insert_unless_repeating(st, job) ==
    IF find_active_repeat_key(st, active_repeat_key(job)) # {} THEN st
    ELSE insert_job(forget_released_deduplication_owner_locked(st, job), job)

\* Fault: the delayed owner stays when it is replaced.
meet_owner_keeping_it(st, candidate, owner) ==
    IF deduplication_replaces_delayed_owner(candidate, owner)
    THEN insert_unless_repeating(
            st, preserve_replacement_deduplication_expiration(candidate, owner))
    ELSE extend_deduplication_expiration_locked(
            store_deduplicated_next_locked(st, candidate, owner),
            candidate, owner.id, now)

\* What add_at does when the candidate meets the owner of its deduplication id.
meet_owner(st, candidate, owner) ==
    IF deduplication_replaces_delayed_owner(candidate, owner)
    THEN insert_unless_repeating(
            remove_job_record_locked(st, owner.id),
            preserve_replacement_deduplication_expiration(candidate, owner))
    ELSE extend_deduplication_expiration_locked(
            store_deduplicated_next_locked(st, candidate, owner),
            candidate, owner.id, now)

add_at(j, options) ==
    LET candidate == new_job(j, options, now)
        owners == find_active_deduplication_id(
                      inner, active_deduplication_id(candidate, now), now)
    IN  /\ Room
        /\ validate_job_options_at(options, now)
        /\ inner.jobs[j] = None
        /\ \/ owners = {} /\ Commit(insert_unless_repeating(inner, candidate))
           \/ \E e \in owners : Commit(meet_owner(inner, candidate, inner.jobs[e]))

\* The current owner of the series may be replaced, an active one may not.
upsert_repeat(j, options) ==
    LET job == new_job(j, options, now)
        owners == find_active_repeat_key(inner, repeat_key(job))
        rivals == find_active_deduplication_id(inner, job_deduplication_id(job), now)
    IN  /\ Room
        /\ validate_job_options_at(options, now)
        /\ options.repeat # None
        /\ \E current \in IF owners = {} THEN {{}} ELSE {{o} : o \in owners} :
             /\ \A o \in current : require_removable(inner.jobs[o])
             /\ inner.jobs[j] # None => j \in current
             /\ rivals = {} \/ \E r \in rivals : r \in current
             /\ Commit(insert_job(
                    forget_released_deduplication_owner_locked(
                        remove_job_records(inner, current), job), job))

-----------------------------------------------------------------------------
(***************************************************************************)
(* Leases.                                                                 *)
(***************************************************************************)
\* Fault: the lease runs backwards.
claimed_in_the_past(job, token, lease_for) ==
    [job EXCEPT !.state = "Active", !.attempts_made = @ + 1, !.processed_at = now,
                !.lock_token = token, !.lease_expires_at = now - lease_for]

\* Fault: the token is derived from the job and not drawn afresh.
claimed_under_job_token(job, token, lease_for) ==
    [job EXCEPT !.state = "Active", !.attempts_made = @ + 1, !.processed_at = now,
                !.lock_token = job.id, !.lease_expires_at = now + lease_for]

claimed(job, token, lease_for) ==
    [job EXCEPT !.state = "Active",
                !.attempts_made = @ + 1,
                !.processed_at = now,
                !.lock_token = token,
                !.lease_expires_at = now + lease_for]

\* The worker gives up the lease; what becomes of the job is up to the caller.
unleased(job) == [job EXCEPT !.lock_token = None, !.lease_expires_at = None]

claim_next(lease_for) ==
    LET st == promote_due_locked(inner, now) IN
    /\ Unlocked
    /\ ~inner.paused
    /\ issued < MaxClaims /\ (Room \/ due_jobs(inner, now) = {})
    /\ \E j \in InState(st, "Waiting") :
         /\ \A k \in InState(st, "Waiting") \ {j} :
                compare_claim_order(st.jobs[j], st.jobs[k])
         /\ inner' = [st EXCEPT !.jobs[j] = claimed(@, issued + 1, lease_for)]
    /\ issued' = issued + 1
    /\ presented' = None
    /\ UNCHANGED <<now, todo>>

renew(j, token, lease_for) ==
    /\ inner.jobs[j] # None
    /\ require_lock_token(inner.jobs[j], token)
    /\ CommitAs(token, [inner EXCEPT !.jobs[j].lease_expires_at = now + lease_for])

\* Ids in use, also by a parked duplicate, are never drawn as generated ids.
fresh_ids == {i \in JobIds : /\ inner.jobs[i] = None
                             /\ \A d \in DedupIds : inner.deduplication_next[d] # None =>
                                    inner.deduplication_next[d].id # i}

\* Retention first, then the parked duplicate, and only without one the repeat successor.
complete_job(j, token, successor) ==
    LET job == [unleased(inner.jobs[j]) EXCEPT !.state = "Completed", !.finished_at = now]
        kept == retain_finished([inner EXCEPT !.jobs[j] = job], job,
                                job.options.completion_retention, now)
        nexted == enqueue_deduplicated_next_locked(kept, job, now)
        next == next_repeat_job(job, successor, now)
    IN  /\ inner.jobs[j] # None
        /\ require_lock_token(inner.jobs[j], token)
        /\ IF enqueues_deduplicated_next(kept, job) \/ ~repeats(job, now)
           THEN CommitAs(token, nexted)
           ELSE /\ successor \in fresh_ids
                /\ CommitAs(token, insert_job(
                      forget_released_deduplication_owner_locked(nexted, next), next))

\* Fault: a terminal failure forgets the parked duplicate.
failed_without_next(st, job) ==
    retain_finished([st EXCEPT !.jobs[job.id] = job], job,
                    job.options.failure_retention, now)

failed_terminally(st, job) ==
    enqueue_deduplicated_next_locked(
        retain_finished([st EXCEPT !.jobs[job.id] = job], job,
                        job.options.failure_retention, now),
        job, now)

fail_active_job(j, token, allow_retry) ==
    LET job == unleased(inner.jobs[j]) IN
    /\ inner.jobs[j] # None
    /\ require_lock_token(inner.jobs[j], token)
    /\ CommitAs(token,
          IF allow_retry /\ should_retry(job)
          THEN [inner EXCEPT !.jobs[j] =
                   [job EXCEPT !.state = "Delayed",
                               !.scheduled_at = now + job.options.retry_delay,
                               !.finished_at = None]]
          ELSE failed_terminally(inner, [job EXCEPT !.state = "Failed", !.finished_at = now]))

delay_active(j, token, delay) ==
    /\ inner.jobs[j] # None
    /\ require_lock_token(inner.jobs[j], token)
    /\ CommitAs(token, [inner EXCEPT !.jobs[j] =
                 [unleased(@) EXCEPT !.state = "Delayed",
                                     !.options.delay = delay,
                                     !.scheduled_at = now + delay,
                                     !.processed_at = None]])

\* Sequence 0 puts the job ahead of the whole waiting list of its priority.
release_active(j, token) ==
    /\ inner.jobs[j] # None
    /\ require_lock_token(inner.jobs[j], token)
    /\ CommitAs(token, [inner EXCEPT !.jobs[j] =
                 [unleased(@) EXCEPT !.state = "Waiting",
                                     !.scheduled_at = now,
                                     !.processed_at = None,
                                     !.enqueued_seq = 0]])

-----------------------------------------------------------------------------
(***************************************************************************)
(* Stalled-job recovery.  The first step takes the mutex and moves every   *)
(* job whose lease has run out; settle_stalled then runs once for each one *)
(* that failed, in lease order, before the mutex is released.              *)
(***************************************************************************)
\* Fault: a job that has stalled as often as it may is passed over, instead of failed.
stalled_jobs_to_requeue ==
    {j \in InState(inner, "Active") :
        /\ inner.jobs[j].lease_expires_at <= now
        /\ inner.jobs[j].stalled_count < inner.jobs[j].options.max_stalled_count}

stalled_jobs ==
    {j \in InState(inner, "Active") : inner.jobs[j].lease_expires_at <= now}

StalledBefore(a, b) ==
    \/ a.lease_expires_at < b.lease_expires_at
    \/ a.lease_expires_at = b.lease_expires_at /\ a.processed_at < b.processed_at
    \/ a.lease_expires_at = b.lease_expires_at /\ a.processed_at = b.processed_at
       /\ a.id < b.id

\* A repeat owner is requeued however often it stalls, so that its series goes on.
stalls_out(job) ==
    job.stalled_count + 1 > job.options.max_stalled_count /\ ~is_repeat_scheduler_job(job)

stalled_failed(job) ==
    [unleased(job) EXCEPT !.stalled_count = @ + 1, !.state = "Failed", !.finished_at = now]

\* Fault: the lease stays with the requeued job.
stalled_requeued_leased(job, seq) ==
    [job EXCEPT !.stalled_count = @ + 1, !.state = "Waiting",
                !.processed_at = None, !.enqueued_seq = seq]

stalled_requeued(job, seq) ==
    [unleased(job) EXCEPT !.stalled_count = @ + 1, !.state = "Waiting",
                          !.processed_at = None, !.enqueued_seq = seq]

removes_failed_immediately(job) ==
    job.options.failure_retention # None /\ job.options.failure_retention.count = 0

recover_stalled_jobs ==
    LET out == {j \in stalled_jobs : stalls_out(inner.jobs[j])}
        back == stalled_jobs \ out
        rank(j) == Cardinality({k \in back : StalledBefore(inner.jobs[k], inner.jobs[j])})
        moved == [inner EXCEPT
            !.sequence = @ + Cardinality(back),
            !.jobs = [j \in JobIds |->
                IF j \in out THEN stalled_failed(inner.jobs[j])
                ELSE IF j \in back
                THEN stalled_requeued(inner.jobs[j], inner.sequence + rank(j) + 1)
                ELSE inner.jobs[j]]]
    IN  /\ Unlocked
        /\ stalled_jobs # {}
        /\ inner' = remove_job_records(moved,
                       {j \in out : removes_failed_immediately(inner.jobs[j])})
        /\ todo' = {inner.jobs[j] : j \in out}
        /\ presented' = None
        /\ UNCHANGED <<now, issued>>

settle_stalled ==
    \E job \in todo :
        LET failed == stalled_failed(job)
            nexted == enqueue_deduplicated_next_locked(inner, failed, now)
        IN  /\ \A other \in todo \ {job} : StalledBefore(job, other)
            /\ inner' = IF failed.options.failure_retention = None
                           \/ removes_failed_immediately(failed) THEN nexted
                        ELSE apply_finished_retention_locked(
                                nexted, "Failed", failed.options.failure_retention, now)
            /\ todo' = todo \ {job}
            /\ presented' = None
            /\ UNCHANGED <<now, issued>>

-----------------------------------------------------------------------------
(***************************************************************************)
(* Management.                                                             *)
(***************************************************************************)
promote_due_jobs ==
    Room /\ Commit(promote_due_locked(inner, now))

\* Fault: the promoted job keeps its old sequence number.
promote_in_place(j) ==
    /\ Room
    /\ j \in InState(inner, "Delayed")
    /\ Commit([inner EXCEPT !.jobs[j].state = "Waiting",
                            !.jobs[j].scheduled_at = now])

promote(j) ==
    /\ Room
    /\ j \in InState(inner, "Delayed")
    /\ Commit([inner EXCEPT !.sequence = @ + 1,
                            !.jobs[j].state = "Waiting",
                            !.jobs[j].scheduled_at = now,
                            !.jobs[j].enqueued_seq = inner.sequence + 1])

reschedule(j, delay) ==
    /\ delay > 0
    /\ j \in InState(inner, "Delayed")
    /\ Commit([inner EXCEPT !.jobs[j].options.delay = delay,
                            !.jobs[j].scheduled_at = now + delay])

\* A finished job runs again unless someone else owns its id or series by now.
retry(j) ==
    LET job == inner.jobs[j] IN
    /\ Room
    /\ job # None
    /\ job.state \in Terminal
    /\ find_active_deduplication_id(inner, job_deduplication_id(job), now) \subseteq {j}
    /\ find_active_repeat_key(inner, repeat_key(job)) \subseteq {j}
    /\ Commit([forget_released_deduplication_owner_locked(inner, job) EXCEPT
                 !.sequence = @ + 1,
                 !.jobs[j] = [unleased(job) EXCEPT
                    !.state = "Waiting",
                    !.scheduled_at = now,
                    !.deduplication_expires_at = deduplication_expiration(job.options, now),
                    !.processed_at = None,
                    !.finished_at = None,
                    !.enqueued_seq = inner.sequence + 1]])

\* A waiting job is requeued behind its new peers.
set_priority_order(j, priority, lifo) ==
    LET job == inner.jobs[j]
        waiting == j \in InState(inner, "Waiting")
    IN  /\ Room
        /\ job # None
        /\ Commit([inner EXCEPT
             !.sequence = IF waiting THEN @ + 1 ELSE @,
             !.jobs[j] = [job EXCEPT
                !.options = [job.options EXCEPT !.priority = priority, !.lifo = lifo],
                !.enqueued_seq = IF waiting THEN inner.sequence + 1 ELSE job.enqueued_seq]])

remove(j) ==
    /\ inner.jobs[j] # None
    /\ require_removable(inner.jobs[j])
    /\ Commit(remove_job_record_locked(inner, j))

remove_repeat(key) ==
    \E j \in find_active_repeat_key(inner, key) : remove(j)

\* The owner keeps running but no longer owns its id; a parked duplicate is dropped.
remove_deduplication_key(d) ==
    \E j \in find_active_deduplication_id(inner, d, now) :
        Commit([inner EXCEPT !.released_deduplication_owners = @ \cup {<<d, j>>},
                             !.deduplication_next[d] = None])

\* Oldest first, at most limit of them; a leased job is never cleaned.
cleanable(state, grace, limit) ==
    LET since(j) == job_reference_time(inner.jobs[j])
        old == {j \in InState(inner, state) :
                    since(j) <= now - grace /\ require_removable(inner.jobs[j])}
        older == [j \in old |->
                    {k \in old : \/ since(k) < since(j)
                                 \/ since(k) = since(j) /\ k < j}]
    IN  FirstOf(old, limit, older)

clean(state, grace, limit) ==
    /\ limit > 0
    /\ Commit(remove_job_records(inner, cleanable(state, grace, limit)))

\* Of the live occurrences of a series, one is its owner: owner[key].
drain(include_delayed) ==
    \E owner \in [RepeatKeys -> JobIds] :
        LET ordinary == {j \in InState(inner, "Delayed") :
                           repeat_key(inner.jobs[j]) # None =>
                               owner[repeat_key(inner.jobs[j])] # j}
        IN  /\ \A key \in RepeatKeys : find_active_repeat_key(inner, key) # {} =>
                   owner[key] \in find_active_repeat_key(inner, key)
            /\ Commit(remove_job_records(inner,
                   InState(inner, "Waiting")
                     \cup IF include_delayed THEN ordinary ELSE {}))

\* Refused while a job is active unless forced, and then the queue stays paused.
obliterate(force) ==
    IF InState(inner, "Active") # {} /\ ~force
    THEN Commit([inner EXCEPT !.paused = TRUE])
    ELSE Commit([EmptyQueue EXCEPT !.sequence = inner.sequence])

pause == Commit([inner EXCEPT !.paused = TRUE])
resume == Commit([inner EXCEPT !.paused = FALSE])

-----------------------------------------------------------------------------
(***************************************************************************)
(* The specification.                                                      *)
(***************************************************************************)
Tokens == 1 .. issued
Priorities == {o.priority : o \in Options}

Submission ==
    \E j \in JobIds, o \in Options : add_at(j, o) \/ upsert_repeat(j, o)

Worker ==
    \/ \E lease_for \in Durations : claim_next(lease_for)
    \/ \E j \in JobIds, token \in Tokens :
        \/ \E lease_for \in Durations : renew(j, token, lease_for)
        \/ \E successor \in JobIds : complete_job(j, token, successor)
        \/ \E allow_retry \in BOOLEAN : fail_active_job(j, token, allow_retry)
        \/ \E delay \in Durations : delay_active(j, token, delay)
        \/ release_active(j, token)

Recovery == recover_stalled_jobs \/ settle_stalled

Management ==
    \/ promote_due_jobs
    \/ \E j \in JobIds :
        \/ promote(j)
        \/ \E delay \in Durations : reschedule(j, delay)
        \/ retry(j)
        \/ \E p \in Priorities, lifo \in BOOLEAN : set_priority_order(j, p, lifo)
        \/ remove(j)
    \/ \E key \in RepeatKeys : remove_repeat(key)
    \/ \E d \in DedupIds : remove_deduplication_key(d)
    \/ \E state \in JobState, grace \in Durations, limit \in 1 .. Cardinality(JobIds) :
        clean(state, grace, limit)
    \/ \E include_delayed \in BOOLEAN : drain(include_delayed)
    \/ \E force \in BOOLEAN : obliterate(force)
    \/ pause
    \/ resume

Next == Tick \/ Submission \/ Worker \/ Recovery \/ Management

Spec == Init /\ [][Next]_vars

-----------------------------------------------------------------------------
(***************************************************************************)
(* Properties.                                                             *)
(***************************************************************************)
\* The shape of the state: the whole job table, the parked duplicates and the clock.
TypeOK ==
    /\ inner \in InMemoryJobQueueState
    /\ now \in Nat
    /\ issued \in Nat
    /\ todo \in SUBSET Job
    /\ presented \in Nat \cup {None}

\* A token is live while some job in the table is locked with it.
Live(token) == \E j \in Present(inner) : inner.jobs[j].lock_token = token

\* A job record sits under its own id, and it is locked, with an expiry, exactly while it
\* is active; no two jobs are locked with the same token, and the token of a job still to be
\* settled by a recovery is dead.  This is what every require_lock_token check relies on.
LeaseConsistent ==
    /\ \A j \in Present(inner) :
        LET job == inner.jobs[j] IN
        /\ job.id = j
        /\ (job.state = "Active") <=> (job.lock_token # None)
        /\ (job.state = "Active") <=> (job.lease_expires_at # None)
        /\ job.lock_token # None => job.lock_token \in Tokens
    /\ \A j, k \in Present(inner) :
        inner.jobs[j].lock_token = inner.jobs[k].lock_token
            => j = k \/ inner.jobs[j].lock_token = None
    /\ \A job \in todo : job.lock_token \in Tokens /\ ~Live(job.lock_token)

\* Once a token stops owning a job it never owns one again, whatever happens to the job:
\* a worker whose lease was recovered cannot settle the job after someone reclaimed it.
TokenNeverRevives ==
    [][\A token \in Tokens : ~Live(token) => ~Live(token)']_vars

\* Any two waiting jobs are ordered one way by the claim order, so claim_next has exactly
\* one candidate and the time and id tie-breaks of the source never decide.
WaitingOrderIsTotal ==
    \A j, k \in InState(inner, "Waiting") : j # k =>
        (compare_claim_order(inner.jobs[j], inner.jobs[k])
            <=> ~compare_claim_order(inner.jobs[k], inner.jobs[j]))

\* A job that enters the waiting list, whether added, promoted, recovered, retried or given
\* a new priority, comes behind every job of its priority that was waiting before it, unless
\* it is LIFO or its worker gave it back with release_active.
NoOvertaking ==
    [][LET stays(j) == /\ j \in InState(inner, "Waiting")
                       /\ j \in InState(inner', "Waiting")
                       /\ inner'.jobs[j].enqueued_seq = inner.jobs[j].enqueued_seq
           released(j) == /\ j \in InState(inner, "Active")
                          /\ inner'.jobs[j].enqueued_seq = 0
       IN  \A j, k \in InState(inner', "Waiting") :
              /\ stays(j) /\ ~stays(k) /\ ~released(k)
              /\ ~inner'.jobs[k].options.lifo
              /\ inner'.jobs[j].options.priority = inner'.jobs[k].options.priority
              => compare_waiting_order(inner'.jobs[j], inner'.jobs[k])]_vars

\* When every finished job asks that at most n of its kind be kept, at most n are: neither
\* completion nor failure nor a recovery that fails several jobs at once leaves more behind.
RetentionHolds ==
    LET keeps(job) == IF job.state = "Completed" THEN job.options.completion_retention
                                                 ELSE job.options.failure_retention
    IN  \A state \in Terminal, n \in 0 .. Cardinality(JobIds) :
            /\ Unlocked
            /\ \A j \in InState(inner, state) :
                  keeps(inner.jobs[j]) # None
                  /\ keeps(inner.jobs[j]).count = n
            => Cardinality(InState(inner, state)) <= n

\* A deduplication id has one owner: jobs with the same id are coalesced for as long as the
\* first of them is live or its TTL runs.
DedupSingleOwner ==
    \A d \in DedupIds : Cardinality(find_active_deduplication_id(inner, d, now)) <= 1

\* A repeat series has one live occurrence, never a parallel chain.
RepeatSingleOwner ==
    \A key \in RepeatKeys : Cardinality(find_active_repeat_key(inner, key)) <= 1

\* The limit of a series counts its executions, the first included: no occurrence is
\* numbered at or past it, whichever path scheduled it.
RepeatWithinLimit ==
    \A j \in Present(inner) :
        repeat_key(inner.jobs[j]) # None =>
            \/ inner.jobs[j].options.repeat.limit = 0
            \/ inner.jobs[j].repeat_count < inner.jobs[j].options.repeat.limit

\* When a job that parks a duplicate reaches its end, by completion, terminal failure or an
\* exhausted recovery, the duplicate becomes a job of its own in the same step, unless its
\* repeat series is over.
LatestDuplicateRuns ==
    [][\A d \in DedupIds :
          LET parked == inner.deduplication_next[d]
              ends(j) == /\ j \in InState(inner, "Active")
                         /\ presented' = inner.jobs[j].lock_token
                         /\ inner'.jobs[j] # None => inner'.jobs[j].state \in Terminal
              ended == {inner.jobs[j] : j \in {k \in Present(inner) : ends(k)}}
                          \cup (todo \ todo')
          IN  /\ parked # None
              /\ inner.jobs[parked.id] = None
              /\ \E owner \in ended : /\ job_deduplication_id(owner) = d
                                      /\ keep_last_continues(owner, parked)
              => /\ inner'.jobs[parked.id] # None
                 /\ inner'.jobs[parked.id].state \in {"Waiting", "Delayed"}
                 /\ inner'.jobs[parked.id].options = parked.options
                 /\ inner'.jobs[parked.id].created_at = now]_vars

\* The queue keeps the contract of JobLifecycle: leases are exclusive and end only by their
\* holder, by expiry or by a wipe, and finishing one job never loses another.
life ==
    [j \in JobIds |->
        IF inner.jobs[j] = None THEN "absent"
        ELSE IF inner.jobs[j].state = "Active" THEN "held"
        ELSE IF inner.jobs[j].state \in Terminal THEN "done"
        ELSE "ready"]

holder == [j \in JobIds |-> IF inner.jobs[j] = None THEN None ELSE inner.jobs[j].lock_token]

expiry ==
    [j \in JobIds |-> IF inner.jobs[j] = None THEN None ELSE inner.jobs[j].lease_expires_at]

Lifecycle == INSTANCE JobLifecycle WITH granted <- issued, clock <- now,
                                          caller <- presented

\* The refinement, as a property of every run that names it.
RefinesLifecycle == Lifecycle!Spec

-----------------------------------------------------------------------------
(***************************************************************************)
(* Liveness.  Time passes, and the maintenance loop of the worker runtime  *)
(* keeps calling recover_stalled_jobs, which runs to its end once started. *)
(***************************************************************************)
Fairness ==
    /\ WF_vars(Tick)
    /\ WF_vars(recover_stalled_jobs)
    /\ WF_vars(settle_stalled)

FairSpec == Spec /\ Fairness

\* A lease that is not renewed does not outlive its expiry for ever: a job whose worker
\* died comes back or fails without anybody's help.
LeaseEventuallyEnds ==
    \A token \in 1 .. MaxClaims, end \in 0 .. MaxTime :
        LET held == \E j \in Present(inner) :
                        /\ inner.jobs[j].lock_token = token
                        /\ inner.jobs[j].lease_expires_at = end
        IN  held ~> ~held

=============================================================================
