---------------------------- MODULE RedisScripts ----------------------------
(***************************************************************************)
(* The scripts of src/job/redis.rs that claim, settle, recover, move and   *)
(* remove jobs, each as a function of the key space.                       *)
(***************************************************************************)
EXTENDS RedisFlows, FiniteSetsExt

-----------------------------------------------------------------------------
(***************************************************************************)
(* CLAIM_SCRIPT.                                                           *)
(***************************************************************************)
queue_is_maxed(db) == db.concurrency > 0 /\ Cardinality(db.active) >= db.concurrency

queue_is_paused_or_maxed(db) == db.paused \/ queue_is_maxed(db)

\* One due job leaves the delayed set; a paused or maxed queue wakes nobody.
promote_delayed(db, j, quiet) ==
    LET job == [db.jobs[j] EXCEPT !.state = "waiting"]
        s1 == [db EXCEPT !.delayed = @ \ {j}]
        s2 == [enqueue_waiting_job(s1, job) EXCEPT !.marker = IF quiet THEN db.marker ELSE @]
    IN  IF ~Exists(db, j) THEN s1
        ELSE IF db.jobs[j].state # "delayed" THEN s1
        ELSE sync_repeat_scheduler(s2, job)

promote_each(db, ids, quiet) ==
    LET Promote(st, j) == promote_delayed(st, j, quiet) IN InTurn(Promote, db, ids)

promote_due(db, quiet) ==
    LET due == {j \in db.delayed : Exists(db, j) => db.jobs[j].due}
    IN  refresh_delay_marker(promote_each(db, SetToSeq(due), quiet))

\* The head of the waiting set, once its stale entries are dropped.
drop_stale_waiting(db) ==
    [db EXCEPT !.waiting =
        KeepOnly(@, {e \in ToSet(@) : Exists(db, e.id) /\ db.jobs[e.id].state = "waiting"})]

lease(db, j, token) ==
    LET job == [db.jobs[j] EXCEPT !.state = "active", !.attempts_made = @ + 1]
        s1 == [db EXCEPT !.lock[j] = token, !.jobs[j] = job,
                         !.waiting = RemoveWaiting(@, j), !.active = @ \cup {j},
                         !.claims = @ + 1]
    IN  add_base_marker(sync_repeat_scheduler(s1, job))

-----------------------------------------------------------------------------
(***************************************************************************)
(* Settling a lease: COMPLETE_SCRIPT and FAIL_SCRIPT.                      *)
(***************************************************************************)
\* Fault: any token will do while the job is locked.
HoldsAnyLock(db, j, token) ==
    /\ Exists(db, j)
    /\ db.jobs[j].state = "active"
    /\ db.lock[j] # None

\* The checks all scripts that present a token begin with.
HoldsLock(db, j, token) ==
    /\ Exists(db, j)
    /\ db.jobs[j].state = "active"
    /\ db.lock[j] # None
    /\ db.lock[j] = token

\* Fault: the lock is left to expire.
unlock_later(db, j) == [db EXCEPT !.stalled = @ \ {j}, !.active = @ \ {j}]

unlock(db, j) ==
    [db EXCEPT !.lock[j] = None, !.stalled = @ \ {j}, !.active = @ \ {j}]

can_complete(db, j) == db.deps[j].pending = {} /\ ~HasFailedDependencies(db, j)

\* The next occurrence of a series, unless a parked duplicate has taken its place.
enqueue_repeat_next(db, next) ==
    IF next = None THEN db
    ELSE IF Exists(db, next.id) THEN db
    ELSE enqueue_prepared_job(set_repeat_key(set_deduplication_key(db, next), next), next)

complete_script(db, j, next) ==
    LET job == [db.jobs[j] EXCEPT !.state = "completed", !.deferred_failure = FALSE]
        s1 == release_deduplication_key_on_finalization(unlock(db, j), job)
        s2 == enqueue_deduplicated_next(s1, job)
        s3 == child_completed(finish_completed(s2, job), job)
        s4 == IF enqueued_deduplicated_next(s1, s2) THEN s3 ELSE enqueue_repeat_next(s3, next)
    IN  add_base_marker_if_waiting(release_repeat_key(s4, job))

\* The attempt failed and the job is to be tried again.
retry_later(db, j) ==
    LET job == [db.jobs[j] EXCEPT !.state = "delayed", !.due = FALSE, !.deferred_failure = FALSE]
    IN  add_base_marker_if_waiting(enqueue_delayed(unlock(db, j), job))

\* The end of a job that fails for good, by its worker or by a recovery.
fail_terminally(db, job) ==
    LET s1 == release_deduplication_key_on_finalization(db, job)
        s2 == enqueue_deduplicated_next(release_repeat_key(s1, job), job)
    IN  child_failed(finish_failed(s2, job), job)

fail_script(db, j, retry) ==
    LET job == [db.jobs[j] EXCEPT !.state = "failed", !.deferred_failure = FALSE] IN
    IF retry THEN retry_later(db, j)
    ELSE add_base_marker_if_waiting(fail_terminally(unlock(db, j), job))

delay_active_script(db, j) ==
    LET job == [db.jobs[j] EXCEPT !.state = "delayed", !.due = FALSE, !.deferred_failure = FALSE]
        s1 == add_base_marker_if_waiting(enqueue_delayed(unlock(db, j), job))
    IN  sync_repeat_scheduler(s1, job)

release_active_script(db, j) ==
    LET job == [db.jobs[j] EXCEPT !.state = "waiting", !.due = TRUE, !.deferred_failure = FALSE]
        s1 == [unlock(db, j) EXCEPT !.jobs[j] = job,
                                    !.waiting = PushBackWaiting(@, j, job.options.priority)]
    IN  sync_repeat_scheduler(add_base_marker(s1), job)

-----------------------------------------------------------------------------
(***************************************************************************)
(* RECOVER_STALLED_SCRIPT: the candidates are the jobs that were active in *)
(* the pass before.                                                        *)
(***************************************************************************)
stalls_out(db, job) ==
    /\ job.stalled_count > job.options.max_stalled_count
    /\ ~is_current_repeat_scheduler_job(db, job)

\* The owner key of a series is restored where only the metadata name the job.
restore_repeat_key(db, job) ==
    IF is_current_repeat_scheduler_job(db, job) /\ db.repeat[repeat_key(job)] = None
    THEN [db EXCEPT !.repeat[repeat_key(job)] = job.id] ELSE db

recover_job(db, j) ==
    LET job == [db.jobs[j] EXCEPT !.stalled_count = @ + 1, !.deferred_failure = FALSE]
        s1 == [db EXCEPT !.active = @ \ {j}]
        s2 == IF job.stalled_count > job.options.max_stalled_count
              THEN restore_repeat_key(s1, job) ELSE s1
    IN  IF stalls_out(db, job)
        THEN fail_terminally([s1 EXCEPT !.deps[j].pending = {}], [job EXCEPT !.state = "failed"])
        ELSE enqueue_waiting_job(s2, job)

examine_stalled(db, j) ==
    IF ~Exists(db, j) THEN [db EXCEPT !.active = @ \ {j}]
    ELSE IF db.jobs[j].state # "active" THEN [db EXCEPT !.active = @ \ {j}]
    ELSE IF db.lock[j] # None THEN db
    ELSE recover_job(db, j)

examine_each_stalled(db, ids) == InTurn(examine_stalled, db, ids)

\* Fault: the candidates of the next pass are not noted.
mark_nothing_stalled(db) == db

\* mark_active_jobs_stalled
mark_active_jobs_stalled(db) == [db EXCEPT !.stalled = @ \cup db.active]

recover_stalled_script(db) ==
    mark_active_jobs_stalled(
        examine_each_stalled([db EXCEPT !.stalled = {}], SetToSeq(db.stalled)))

-----------------------------------------------------------------------------
(***************************************************************************)
(* Moves by an operator.                                                   *)
(***************************************************************************)
\* PROMOTE_JOB_SCRIPT on a delayed job.
promote_job_script(db, j) ==
    LET job == [db.jobs[j] EXCEPT !.state = "waiting", !.due = TRUE]
        s1 == refresh_delay_marker([db EXCEPT !.delayed = @ \ {j}])
    IN  sync_repeat_scheduler(enqueue_waiting_job(s1, job), job)

reschedule_job_script(db, j) ==
    LET job == [db.jobs[j] EXCEPT !.due = FALSE] IN
    sync_repeat_scheduler(enqueue_delayed(db, job), job)

\* The dependency sets of a parent without one of its children.
Forget(dependencies, c) == [k \in DOMAIN dependencies |-> dependencies[k] \ {c}]

\* A retried child takes its parent back to waiting_children, unless that runs or has ended.
reclaim_parent(db, job) ==
    LET p == job.parent_id
        c == job.id
        parent == [db.jobs[p] EXCEPT !.state = "waiting_children", !.deferred_failure = FALSE]
        dependencies == [Forget(db.deps[p], c) EXCEPT !.pending = @ \cup {c}]
        s1 == [db EXCEPT !.deps[p] = dependencies, !.jobs[p] = parent,
                         !.waiting = RemoveWaiting(@, p), !.delayed = @ \ {p},
                         !.waiting_children = @ \cup {p}]
    IN  IF ~Exists(db, p) THEN db
        ELSE IF c \notin ToSet(db.jobs[p].child_ids) THEN db
        ELSE IF db.jobs[p].state \in Terminal \cup {"active"} THEN db
        ELSE IF db.jobs[p].state = "delayed" THEN refresh_delay_marker(s1)
        ELSE s1

\* active_deduplication_owner, active_repeat_owner: somebody else owns what the job would take.
RetryIsRefused(db, job) ==
    \/ deduplication_owner(db, deduplication_id(job)) \notin {None, job.id}
    \/ repeat_owner(db, repeat_key(job)) \notin {None, job.id}

\* RETRY_JOB_SCRIPT on a finished job.
retry_job_script(db, j) ==
    LET job == [db.jobs[j] EXCEPT !.state = "waiting", !.due = TRUE, !.deferred_failure = FALSE]
        s1 == prune_repeat_keys(prune_deduplication_key(db, deduplication_id(job)),
                                repeat_key(job))
        s2 == [s1 EXCEPT !.completed = RemoveFrom(@, j), !.failed = RemoveFrom(@, j)]
        s3 == reclaim_parent(enqueue_waiting_job(s2, job), job)
    IN  IF RetryIsRefused(db, job) THEN s1
        ELSE set_repeat_key(set_deduplication_key(s3, job), job)

update_priority_script(db, j, priority, lifo) ==
    LET job == [db.jobs[j] EXCEPT !.options.priority = priority, !.options.lifo = lifo] IN
    IF job.state = "waiting" THEN enqueue_waiting_job(db, job)
    ELSE [db EXCEPT !.jobs[j] = job]

-----------------------------------------------------------------------------
(***************************************************************************)
(* Removal by an operator.                                                 *)
(***************************************************************************)
ActiveLocked(db, j) == db.jobs[j].state = "active" /\ db.lock[j] # None

\* REMOVE_JOB_SCRIPT
remove_job_script(db, j) ==
    IF ~Exists(db, j) THEN remove_dependency_keys(db, j)
    ELSE IF ActiveLocked(db, j) THEN db
    ELSE remove_with_dependency(db, db.jobs[j])

\* The live owner of a series is spared by a clean, the delayed one by a drain.
is_current_repeat_owner(db, job) ==
    job.state \notin Terminal /\ is_current_repeat_scheduler_job(db, job)

Cleanable(db, state) ==
    {j \in JobIds : /\ Exists(db, j) /\ db.jobs[j].state = state
                    /\ ~ActiveLocked(db, j)
                    /\ ~is_current_repeat_owner(db, db.jobs[j])}

Drainable(db, include_delayed) ==
    {j \in JobIds : /\ Exists(db, j)
                    /\ db.jobs[j].state \in {"waiting"} \cup (IF include_delayed THEN {"delayed"} ELSE {})
                    /\ ~(db.jobs[j].state = "delayed" /\ is_current_repeat_owner(db, db.jobs[j]))}

remove_each(db, copies, ids) ==
    LET Discard(st, j) == remove_with_dependency(st, copies[j]) IN InTurn(Discard, db, ids)

\* The candidates are copies, read before the first of them is removed; looking for them
\* restores the missing owner keys of the jobs in these states.
remove_candidates(db, states, candidates) ==
    LET seen == {j \in JobIds : Exists(db, j) /\ db.jobs[j].state \in states \ Terminal}
        Restores(k) == /\ db.repeat[k] = None /\ db.repeat_meta[k] \in seen
                       /\ repeat_key(db.jobs[db.repeat_meta[k]]) = k
        s1 == [db EXCEPT !.repeat = [k \in RepeatKeys |->
                                        IF Restores(k) THEN db.repeat_meta[k] ELSE @[k]]]
    IN  remove_each(s1, db.jobs, SetToSeq(candidates))

\* OBLITERATE_SCRIPT: every key of the queue, the pause included.
obliterate_script(db, force) ==
    IF db.active # {} /\ ~force THEN [db EXCEPT !.paused = TRUE]
    ELSE EmptyDb

\* REMOVE_ORPHANED_JOBS_SCRIPT: a record that no index refers to.
Orphans(db) ==
    {j \in JobIds : Exists(db, j)} \
        (WaitingIds(db) \cup db.delayed \cup db.active \cup db.waiting_children
            \cup ToSet(db.completed) \cup ToSet(db.failed) \cup db.stalled)

remove_orphans(db) ==
    LET Without(f, missing) == [j \in JobIds |-> IF j \in Orphans(db) THEN missing ELSE f[j]] IN
    [db EXCEPT !.jobs = Without(@, None), !.lock = Without(@, None),
               !.deps = Without(@, NoDependencies)]

\* REMOVE_UNPROCESSED_CHILDREN_SCRIPT: all that has not begun, below the parent.
Unprocessed(db, p) ==
    {c \in ToSet(db.jobs[p].child_ids) :
        /\ db.deps[p].pending = {} \/ c \in db.deps[p].pending
        /\ Exists(db, c)
        /\ db.lock[c] = None /\ db.jobs[c].state \notin Terminal \cup {"active"}}

UnprocessedBelow(db, p) ==
    LET Level[n \in 0 .. Cardinality(JobIds)] ==
            IF n = 0 THEN {p}
            ELSE LET above == Level[n - 1] IN above \cup UNION {Unprocessed(db, q) : q \in above}
    IN  Level[Cardinality(JobIds)] \ {p}

remove_each_record(db, copies, ids) ==
    LET Discard(st, c) == remove_job_record(st, copies[c]) IN InTurn(Discard, db, ids)

remove_unprocessed_script(db, p) ==
    LET gone == UnprocessedBelow(db, p)
        missing == {c \in ToSet(db.jobs[p].child_ids) : ~Exists(db, c)}
        s1 == remove_each_record(db, db.jobs, SetToSeq(gone))
        s2 == [s1 EXCEPT !.deps[p].pending = @ \ (gone \cup missing)]
    IN  IF s2.jobs[p].state # "waiting_children" \/ s2.deps[p].pending # {} THEN s2
        ELSE scan_remaining_children(s2, p)

\* REMOVE_CHILD_DEPENDENCY_SCRIPT: parent and child part.
remove_child_dependency_script(db, c) ==
    LET p == db.jobs[c].parent_id
        s1 == [db EXCEPT !.deps[p] = Forget(@, c),
                         !.jobs[p].child_ids = RemoveFrom(@, c),
                         !.jobs[c].parent_id = None]
        related == \/ c \in ToSet(db.jobs[p].child_ids)
                   \/ c \in UNION {db.deps[p][k] : k \in DOMAIN db.deps[p]}
    IN  IF ~Exists(db, p) THEN db
        ELSE IF ~related THEN db
        ELSE IF s1.jobs[p].state # "waiting_children" \/ s1.deps[p].pending # {} THEN s1
        ELSE scan_remaining_children(s1, p)

-----------------------------------------------------------------------------
(***************************************************************************)
(* UPSERT_REPEAT_SCRIPT.                                                   *)
(***************************************************************************)
IsFlowMember(job) == job.parent_id # None \/ job.child_ids # <<>>

upsert_repeat_script(db, job) ==
    LET k == repeat_key(job)
        d == deduplication_id(job)
        owner == repeat_owner(db, k)
        s1 == prune_repeat_keys(db, k)
        other == d # None /\ s1.dedup[d] # None /\ s1.dedup[d].owner # owner
        s2 == IF other THEN prune_deduplication_key(s1, d) ELSE s1
        s3 == IF owner = None THEN s2 ELSE remove_job_record(s2, s2.jobs[owner])
        refused == IF owner = None THEN FALSE
                   ELSE db.jobs[owner].state = "active" \/ IsFlowMember(db.jobs[owner])
    IN  IF refused \/ (Exists(s1, job.id) /\ job.id # owner) THEN s1
        ELSE IF deduplication_owner(s2, d) \notin {None, owner} THEN s2
        ELSE SetRepeat(set_deduplication_key(enqueue_prepared_job(s3, job), job), k, job.id)

=============================================================================
