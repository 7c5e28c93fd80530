----------------------------- MODULE RedisStore -----------------------------
(***************************************************************************)
(* The keys of the Redis job queue (src/job/redis.rs) and the Lua helpers  *)
(* its scripts are made of.                                                *)
(*                                                                         *)
(* Redis runs a script without interruption, so a script of the source is  *)
(* one function from the key space db to the next one, composed of the     *)
(* helpers below; a helper that several scripts repeat is defined once.    *)
(*                                                                         *)
(* There is no clock.  A key with a time to live may expire at any moment  *)
(* and a scheduled instant may be reached at any moment: a job is `due`    *)
(* once its scheduled_at has passed.  Payloads, logs, metrics, events and  *)
(* retention by age are left out.                                          *)
(***************************************************************************)
EXTENDS Integers, FiniteSets, Sequences, SequencesExt

CONSTANTS
    JobIds,      \* job ids, custom and generated
    DedupIds,    \* deduplication ids
    RepeatKeys,  \* repeat-series keys
    None         \* a missing key, field or optional value

\* Ids are numbers in the order in which they are compared.
ASSUME RedisJobIdsAssumption == JobIds \subseteq Nat /\ IsFiniteSet(JobIds)
ASSUME RedisNoneAssumption == None \notin JobIds \cup DedupIds \cup RepeatKeys \cup Nat

-----------------------------------------------------------------------------
(***************************************************************************)
(* Loops.                                                                  *)
(***************************************************************************)
\* One element of s after the other changes x.
InTurn(step(_, _), x, s) ==
    LET After[n \in 0 .. Len(s)] == IF n = 0 THEN x ELSE step(After[n - 1], s[n])
    IN  After[Len(s)]

\* The elements of s that are in K, in the order of s.
KeepOnly(s, K) ==
    LET Take(kept, e) == IF e \in K THEN Append(kept, e) ELSE kept IN InTurn(Take, <<>>, s)

-----------------------------------------------------------------------------
(***************************************************************************)
(* Records and keys.                                                       *)
(***************************************************************************)
Terminal == {"completed", "failed"}

JobState == {"waiting", "delayed", "active", "waiting_children"} \cup Terminal

\* What a failed child means to its parent; validation allows at most one of the four flags.
ChildFailure == {"fail", "ignore", "remove", "continue", "fail_parent"}

DeduplicationOptions ==
    [id : DedupIds, ttl : BOOLEAN, replace : BOOLEAN, keep_last_if_active : BOOLEAN,
     extend : BOOLEAN]

RepeatOptions == [key : RepeatKeys, limit : Nat]

\* `remove_on_complete` and `remove_on_fail` behave as a retention whose count is 0.
JobOptions ==
    [priority : Nat, lifo : BOOLEAN, delay : BOOLEAN, max_retries : Nat,
     max_stalled_count : Nat, on_failure : ChildFailure,
     completion_retention : Nat \cup {None}, failure_retention : Nat \cup {None},
     deduplication : DeduplicationOptions \cup {None}, repeat : RepeatOptions \cup {None}]

Job ==
    [id : JobIds, state : JobState, options : JobOptions, due : BOOLEAN,
     attempts_made : Nat, stalled_count : Nat, deferred_failure : BOOLEAN,
     parent_id : JobIds \cup {None}, child_ids : Seq(JobIds), repeat_count : Nat]

\* A duplicate parked behind the active owner of its deduplication id: a job, or a flow.
Parked == [job : Job, children : Seq(Job)]

ASSUME RedisRecordsAssumption == None \notin Job /\ None \notin Parked

\* pending is the dependency set of a parent, the others its :processed, :failed and
\* :unsuccessful keys.  An empty set is a missing key.
Dependencies ==
    [pending : SUBSET JobIds, processed : SUBSET JobIds,
     failed : SUBSET JobIds, unsuccessful : SUBSET JobIds]

NoDependencies == [pending |-> {}, processed |-> {}, failed |-> {}, unsuccessful |-> {}]

\* The sorted sets waiting, completed and failed are sequences in the order of their
\* scores; the order of the others decides nothing.
EmptyDb ==
    [jobs |-> [j \in JobIds |-> None],
     waiting |-> <<>>, delayed |-> {}, active |-> {}, waiting_children |-> {},
     completed |-> <<>>, failed |-> <<>>,
     lock |-> [j \in JobIds |-> None], stalled |-> {},
     dedup |-> [d \in DedupIds |-> None], dedup_next |-> [d \in DedupIds |-> None],
     repeat |-> [k \in RepeatKeys |-> None], repeat_meta |-> [k \in RepeatKeys |-> None],
     deps |-> [j \in JobIds |-> NoDependencies],
     marker |-> {}, paused |-> FALSE, concurrency |-> 0, claims |-> 0]

Exists(db, j) == j \in JobIds /\ db.jobs[j] # None
WaitingIds(db) == {db.waiting[i].id : i \in DOMAIN db.waiting}

deduplication_id(job) ==
    IF job.options.deduplication = None THEN None ELSE job.options.deduplication.id

repeat_key(job) == IF job.options.repeat = None THEN None ELSE job.options.repeat.key

\* Job::new: the state of a job that waits for nothing but its delay.
new_job(j, options) ==
    [id |-> j, state |-> IF options.delay THEN "delayed" ELSE "waiting",
     options |-> options, due |-> ~options.delay, attempts_made |-> 0, stalled_count |-> 0,
     deferred_failure |-> FALSE, parent_id |-> None, child_ids |-> <<>>, repeat_count |-> 0]

should_retry(job) ==
    job.options.max_retries > 0 /\ job.attempts_made <= job.options.max_retries

-----------------------------------------------------------------------------
(***************************************************************************)
(* Queue indexes and wake-up markers.                                      *)
(***************************************************************************)
\* An entry of the waiting set; `front` is that of push_back_waiting_job.
WaitingEntry(j, priority, front) == [id |-> j, priority |-> priority, front |-> front]

\* waiting_score_for: by priority, a LIFO job before and a FIFO job behind its equals.
InsertWaiting(waiting, j, priority, lifo) ==
    LET rest == {e \in ToSet(waiting) : e.id # j}
        before == {e \in rest : \/ e.priority < priority
                                \/ e.priority = priority /\ (e.front \/ ~lifo)}
    IN  KeepOnly(waiting, before) \o <<WaitingEntry(j, priority, FALSE)>>
            \o KeepOnly(waiting, rest \ before)

\* push_back_waiting_job: the lowest score of the priority, on which ids decide.
PushBackWaiting(waiting, j, priority) ==
    LET rest == {e \in ToSet(waiting) : e.id # j}
        before == {e \in rest : \/ e.priority < priority
                                \/ e.priority = priority /\ e.front /\ e.id < j}
    IN  KeepOnly(waiting, before) \o <<WaitingEntry(j, priority, TRUE)>>
            \o KeepOnly(waiting, rest \ before)

RemoveWaiting(waiting, j) == KeepOnly(waiting, {e \in ToSet(waiting) : e.id # j})

RemoveFrom(list, j) == KeepOnly(list, ToSet(list) \ {j})

add_base_marker(db) == [db EXCEPT !.marker = @ \cup {"base"}]

add_base_marker_if_waiting(db) == IF db.waiting = <<>> THEN db ELSE add_base_marker(db)

refresh_delay_marker(db) ==
    [db EXCEPT !.marker = IF db.delayed = {} THEN @ \ {"delay"} ELSE @ \cup {"delay"}]

\* Fault: no marker for the waiting workers.
enqueue_waiting_without_marker(db, job) ==
    [db EXCEPT !.jobs[job.id] = [job EXCEPT !.state = "waiting"],
               !.waiting = InsertWaiting(@, job.id, job.options.priority, job.options.lifo)]

enqueue_waiting_job(db, job) ==
    add_base_marker(
        [db EXCEPT !.jobs[job.id] = [job EXCEPT !.state = "waiting"],
                   !.waiting = InsertWaiting(@, job.id, job.options.priority,
                                             job.options.lifo)])

enqueue_delayed(db, job) ==
    refresh_delay_marker([db EXCEPT !.jobs[job.id] = [job EXCEPT !.state = "delayed"],
                                    !.delayed = @ \cup {job.id}])

\* enqueue_prepared_job: the index that belongs to the job's state.
enqueue_prepared_job(db, job) ==
    CASE job.state = "waiting" -> enqueue_waiting_job(db, job)
      [] job.state = "delayed" -> enqueue_delayed(db, job)
      [] OTHER -> [db EXCEPT !.jobs[job.id] = job,
                             !.waiting_children = @ \cup {job.id}]

-----------------------------------------------------------------------------
(***************************************************************************)
(* Deduplication keys.                                                     *)
(***************************************************************************)
\* A keep-last owner's key never expires.
deduplication_ttl(job) ==
    job.options.deduplication.ttl /\ ~job.options.deduplication.keep_last_if_active

set_deduplication_key(db, job) ==
    IF deduplication_id(job) = None THEN db
    ELSE [db EXCEPT !.dedup[deduplication_id(job)] =
                        [owner |-> job.id, ttl |-> deduplication_ttl(job)]]

OwnsDeduplicationKey(db, job) ==
    /\ deduplication_id(job) # None
    /\ db.dedup[deduplication_id(job)] # None
    /\ db.dedup[deduplication_id(job)].owner = job.id

\* Fault: the parked duplicate stays without an owner.
release_deduplication_key_only(db, job) ==
    IF OwnsDeduplicationKey(db, job)
    THEN [db EXCEPT !.dedup[deduplication_id(job)] = None] ELSE db

\* An owner that is removed takes the duplicate parked behind it along.
release_deduplication_key(db, job) ==
    IF OwnsDeduplicationKey(db, job)
    THEN [db EXCEPT !.dedup[deduplication_id(job)] = None,
                    !.dedup_next[deduplication_id(job)] = None]
    ELSE db

\* An owner that finishes leaves a key with a time to live behind.
release_deduplication_key_on_finalization(db, job) ==
    IF OwnsDeduplicationKey(db, job) /\ ~db.dedup[deduplication_id(job)].ttl
    THEN [db EXCEPT !.dedup[deduplication_id(job)] = None]
    ELSE db

\* active_deduplicated_raw: a stale key is deleted, a terminal owner counts while its TTL runs.
DeduplicationKeyIsLive(db, d) ==
    /\ db.dedup[d] # None
    /\ Exists(db, db.dedup[d].owner)
    /\ db.jobs[db.dedup[d].owner].state \in Terminal => db.dedup[d].ttl

prune_deduplication_key(db, d) ==
    IF d = None \/ DeduplicationKeyIsLive(db, d) THEN db ELSE [db EXCEPT !.dedup[d] = None]

deduplication_owner(db, d) ==
    IF d # None /\ DeduplicationKeyIsLive(db, d) THEN db.dedup[d].owner ELSE None

-----------------------------------------------------------------------------
(***************************************************************************)
(* Repeat-series keys: the owner key and the scheduler's metadata.         *)
(***************************************************************************)
SetRepeat(db, k, j) == [db EXCEPT !.repeat[k] = j, !.repeat_meta[k] = j]

set_repeat_key(db, job) ==
    IF repeat_key(job) = None THEN db ELSE SetRepeat(db, repeat_key(job), job.id)

release_repeat_key(db, job) ==
    LET k == repeat_key(job)
        owns == k # None /\ db.repeat[k] = job.id
        meta == k # None /\ (db.repeat_meta[k] = job.id \/ (owns /\ db.repeat_meta[k] = None))
        s1 == IF owns THEN [db EXCEPT !.repeat[k] = None] ELSE db
    IN  IF meta THEN [s1 EXCEPT !.repeat_meta[k] = None] ELSE s1

\* The series follows a job that moves, unless another job owns it.
sync_repeat_scheduler(db, job) ==
    LET k == repeat_key(job) IN
    IF \/ k = None
       \/ db.repeat[k] \notin {None, job.id}
       \/ db.repeat[k] = None /\ db.repeat_meta[k] \notin {None, job.id}
    THEN db
    ELSE SetRepeat(db, k, job.id)

IsLiveRepeat(db, k, j) ==
    Exists(db, j) /\ db.jobs[j].state \notin Terminal /\ repeat_key(db.jobs[j]) = k

\* active_repeat_raw: the owner key decides, else the metadata, from which it is restored.
repeat_owner(db, k) ==
    IF k = None THEN None
    ELSE IF IsLiveRepeat(db, k, db.repeat[k]) THEN db.repeat[k]
    ELSE IF IsLiveRepeat(db, k, db.repeat_meta[k]) THEN db.repeat_meta[k]
    ELSE None

prune_repeat_keys(db, k) ==
    LET owner == repeat_owner(db, k) IN
    IF k = None THEN db
    ELSE IF owner # None THEN [db EXCEPT !.repeat[k] = owner]
    ELSE [db EXCEPT !.repeat[k] = None, !.repeat_meta[k] = None]

\* is_current_repeat_scheduler_job: such a job is never failed for stalling.
is_current_repeat_scheduler_job(db, job) ==
    repeat_key(job) # None /\ job.id \in {db.repeat[repeat_key(job)],
                                          db.repeat_meta[repeat_key(job)]}

-----------------------------------------------------------------------------
(***************************************************************************)
(* Finished jobs.                                                          *)
(***************************************************************************)
remove_dependency_keys(db, j) == [db EXCEPT !.deps[j] = NoDependencies]

\* remove_finished_job, for each of them: the record, its dependencies and the series it owns;
\* the index is the caller's business.
remove_finished_jobs(db, gone) ==
    LET Released(k, j) == IF j \in gone /\ Exists(db, j) /\ repeat_key(db.jobs[j]) = k
                          THEN None ELSE j
    IN  [db EXCEPT !.jobs = [j \in JobIds |-> IF j \in gone THEN None ELSE @[j]],
                   !.deps = [j \in JobIds |-> IF j \in gone THEN NoDependencies ELSE @[j]],
                   !.repeat = [k \in RepeatKeys |-> Released(k, @[k])],
                   !.repeat_meta = [k \in RepeatKeys |-> Released(k, @[k])]]

\* Only the newest `keep` members of a finished index stay.
Newest(list, keep) ==
    IF keep = None THEN list
    ELSE KeepOnly(list, {list[i] : i \in {n \in DOMAIN list : n + keep > Len(list)}})

\* remove_finished_jobs_by_max_count
prune_completed(db, keep) ==
    LET kept == Newest(db.completed, keep)
        gone == ToSet(db.completed) \ ToSet(kept)
    IN  [remove_finished_jobs(db, gone) EXCEPT !.completed = kept]

prune_failed(db, keep) ==
    LET kept == Newest(db.failed, keep)
        gone == ToSet(db.failed) \ ToSet(kept)
    IN  [remove_finished_jobs(db, gone) EXCEPT !.failed = kept]

\* The end of COMPLETE_SCRIPT's own transition: drop the job at once, or index and prune.
finish_completed(db, job) ==
    IF job.options.completion_retention = 0 THEN remove_finished_jobs(db, {job.id})
    ELSE prune_completed([db EXCEPT !.jobs[job.id] = job,
                                    !.completed = Append(RemoveFrom(@, job.id), job.id)],
                         job.options.completion_retention)

finish_failed(db, job) ==
    IF job.options.failure_retention = 0 THEN remove_finished_jobs(db, {job.id})
    ELSE prune_failed([db EXCEPT !.jobs[job.id] = job,
                                 !.failed = Append(RemoveFrom(@, job.id), job.id)],
                      job.options.failure_retention)

-----------------------------------------------------------------------------
(***************************************************************************)
(* The duplicate parked behind an owner becomes a job when the owner ends. *)
(***************************************************************************)
\* prepare_deduplicated_next_job: a fresh start from its own delay.
prepare_deduplicated_next_job(job) ==
    [new_job(job.id, job.options) EXCEPT !.parent_id = job.parent_id,
                                         !.child_ids = job.child_ids,
                                         !.repeat_count = job.repeat_count]

\* repeat_keep_last_next_count: None where the duplicate must be dropped.
repeat_keep_last_next_count(owner, next) ==
    LET limit == owner.options.repeat.limit IN
    IF repeat_key(next) = None
    THEN IF repeat_key(owner) = None THEN next.repeat_count ELSE None
    ELSE IF repeat_key(owner) # repeat_key(next) THEN None
    ELSE IF limit > 0 /\ owner.repeat_count + 1 >= limit THEN None
    ELSE owner.repeat_count + 1

enqueue_parked_child(db, parent, child) ==
    LET job == [prepare_deduplicated_next_job(child) EXCEPT !.parent_id = parent,
                                                            !.child_ids = <<>>]
        s1 == [db EXCEPT !.deps[parent].pending = @ \cup {job.id}]
    IN  enqueue_prepared_job(set_deduplication_key(s1, job), job)

enqueue_parked_children(db, parent, children) ==
    LET Enqueue(st, child) == enqueue_parked_child(st, parent, child)
    IN  InTurn(Enqueue, db, children)

\* enqueue_deduplicated_next_flow: all of the flow, or nothing when one of its ids is taken.
enqueue_deduplicated_next_flow(db, d, parked) ==
    LET ids == [i \in DOMAIN parked.children |-> parked.children[i].id]
        parent == [prepare_deduplicated_next_job(parked.job) EXCEPT
                      !.parent_id = None, !.child_ids = ids, !.state = "waiting_children"]
        s1 == enqueue_prepared_job(set_deduplication_key(db, parent), parent)
        s2 == [s1 EXCEPT !.deps[parent.id].pending = {}]
        s3 == enqueue_parked_children(s2, parent.id, parked.children)
        taken == \E j \in {parked.job.id} \cup ToSet(ids) : Exists(db, j)
    IN  [IF taken THEN db ELSE s3 EXCEPT !.dedup_next[d] = None]

\* The parked job's parent waits for it like for any other child.
adopt_parked_job(db, job) ==
    LET p == job.parent_id IN
    IF ~Exists(db, p) THEN db
    ELSE [db EXCEPT !.jobs[p].child_ids =
                        IF job.id \in ToSet(@) THEN @ ELSE Append(@, job.id),
                    !.deps[p].pending = @ \cup {job.id}]

\* enqueue_deduplicated_next for a single job.
enqueue_deduplicated_next_job(db, d, owner, next) ==
    LET count == repeat_keep_last_next_count(owner, next)
        job == [prepare_deduplicated_next_job(next) EXCEPT !.repeat_count = count]
        s1 == set_repeat_key(set_deduplication_key(db, job), job)
        s2 == adopt_parked_job(enqueue_prepared_job(s1, job), job)
    IN  [IF Exists(db, next.id) \/ count = None THEN db ELSE s2 EXCEPT !.dedup_next[d] = None]

enqueue_deduplicated_next(db, owner) ==
    LET d == deduplication_id(owner) IN
    IF d = None THEN db
    ELSE IF db.dedup_next[d] = None THEN db
    ELSE IF db.dedup_next[d].children # <<>>
         THEN enqueue_deduplicated_next_flow(db, d, db.dedup_next[d])
    ELSE enqueue_deduplicated_next_job(db, d, owner, db.dedup_next[d].job)

\* Whether that call put a job into the queue, which then stands in for the next repetition.
enqueued_deduplicated_next(before, after) ==
    \E j \in JobIds : before.jobs[j] = None /\ after.jobs[j] # None

-----------------------------------------------------------------------------
(***************************************************************************)
(* Parents.                                                                *)
(***************************************************************************)
\* The parent leaves waiting_children for the queue, or for the delayed set while it is
\* not yet due.
release_parent(db, p, deferred) ==
    LET s1 == [db EXCEPT !.waiting_children = @ \ {p}]
        parent == [db.jobs[p] EXCEPT !.deferred_failure = deferred]
    IN  IF parent.due THEN enqueue_waiting_job(s1, parent) ELSE enqueue_delayed(s1, parent)

release_parent_when_done(db, p) ==
    release_parent([db EXCEPT !.deps[p].pending = {}], p, FALSE)

\* Fault: the failed parent stays among the waiting ones.
leave_dependencies_only(db, p) == [db EXCEPT !.deps[p].pending = {}]

\* The parent fails for good; nobody tells a parent of its own.
leave_waiting_children(db, p) ==
    [db EXCEPT !.deps[p].pending = {}, !.waiting_children = @ \ {p}]

fail_parent(db, p) ==
    LET parent == [db.jobs[p] EXCEPT !.state = "failed", !.deferred_failure = FALSE]
        s1 == release_deduplication_key_on_finalization(leave_waiting_children(db, p), parent)
    IN  finish_failed(release_repeat_key(s1, parent), parent)

\* remove_finished_job of the scripts that remove jobs: a job that retention pushes out gives up
\* its deduplication key, and the duplicate parked behind it goes along.
RemovedOwner(before, db, d) ==
    LET owner == db.dedup[d].owner IN
    /\ db.dedup[d] # None
    /\ Exists(before, owner) /\ ~Exists(db, owner)
    /\ deduplication_id(before.jobs[owner]) = d

release_removed_owners(before, db) ==
    LET Released(d, key) == IF RemovedOwner(before, db, d) THEN None ELSE key
    IN  [db EXCEPT !.dedup = [d \in DedupIds |-> Released(d, @[d])],
                   !.dedup_next = [d \in DedupIds |-> Released(d, @[d])]]

\* The scripts that remove jobs drop the duplicate parked behind a failed parent instead.
fail_parent_after_removal(db, p) ==
    LET parent == [db.jobs[p] EXCEPT !.state = "failed", !.deferred_failure = FALSE]
        s1 == release_deduplication_key(leave_waiting_children(db, p), parent)
    IN  release_removed_owners(db, finish_failed(release_repeat_key(s1, parent), parent))

\* A failed child that its parent may not outlive.
FailsParent(job) == job.state = "failed" /\ job.options.on_failure \in {"fail", "fail_parent"}

\* The scan of child_ids for a parent without a dependency set stops at the first child
\* that fails the parent or is unfinished.  A child that is gone counts as done.
ChildIn(db, job, c) == IF c = job.id THEN job ELSE db.jobs[c]

Blocking(db, job, c) ==
    LET child == ChildIn(db, job, c) IN
    child # None /\ (FailsParent(child) \/ child.state \notin Terminal)

scan_children(db, p, job) ==
    LET ids == db.jobs[p].child_ids
        blocking == KeepOnly(ids, {c \in ToSet(ids) : Blocking(db, job, c)})
    IN  IF blocking = <<>> THEN release_parent_when_done(db, p)
        ELSE IF FailsParent(ChildIn(db, job, Head(blocking))) THEN fail_parent(db, p)
        ELSE db

\* Fault: the dependency of a completed child stays.
child_completed_forgotten(db, job) == db

\* Fault: the first child to complete releases the parent.
child_completed_releases(db, job) ==
    LET p == job.parent_id IN
    IF ~Exists(db, p) THEN db
    ELSE IF db.jobs[p].state # "waiting_children" THEN db
    ELSE release_parent_when_done(db, p)

\* COMPLETE_SCRIPT, from `local parent_id`: what the parent learns of a completed child.
child_completed(db, job) ==
    LET p == job.parent_id
        had == db.deps[p].pending # {}
        s1 == IF job.id \in db.deps[p].pending
              THEN [db EXCEPT !.deps[p].pending = @ \ {job.id},
                              !.deps[p].processed = @ \cup {job.id}]
              ELSE db
    IN  IF ~Exists(db, p) THEN db
        ELSE IF db.jobs[p].state # "waiting_children" THEN s1
        ELSE IF ~had THEN scan_children(s1, p, job)
        ELSE IF s1.deps[p].pending # {} THEN s1
        ELSE release_parent_when_done(s1, p)

\* What is recorded of a failed child whose options release the dependency.
record_failed_child(db, p, job) ==
    LET s1 == [db EXCEPT !.deps[p].pending = @ \ {job.id}] IN
    CASE job.options.on_failure = "fail_parent" -> [s1 EXCEPT !.deps[p].unsuccessful = @ \cup {job.id}]
      [] job.options.on_failure \in {"ignore", "continue"} -> [s1 EXCEPT !.deps[p].failed = @ \cup {job.id}]
      [] OTHER -> s1

\* FAIL_SCRIPT, from `if parent["state"] == "waiting_children"`.
parent_after_child_failure(db, p, job) ==
    LET policy == job.options.on_failure
        had == db.deps[p].pending # {}
    IN  CASE policy = "fail" -> fail_parent(db, p)
          [] policy = "fail_parent" -> release_parent(record_failed_child(db, p, job), p, TRUE)
          [] policy = "continue" -> release_parent(record_failed_child(db, p, job), p, FALSE)
          [] policy \in {"ignore", "remove"} ->
                LET s2 == record_failed_child(db, p, job) IN
                IF ~had THEN scan_children(db, p, job)
                ELSE IF s2.deps[p].pending # {} THEN s2
                ELSE release_parent_when_done(s2, p)

\* FAIL_SCRIPT, from `local parent_id`.  The first removal may empty the dependency set, and
\* the second part then finds no set.
child_failed(db, job) ==
    LET p == job.parent_id
        releases == job.options.on_failure # "fail"
        s1 == IF releases /\ job.id \in db.deps[p].pending
              THEN record_failed_child(db, p, job) ELSE db
    IN  IF ~Exists(db, p) THEN db
        ELSE IF db.jobs[p].state # "waiting_children" THEN s1
        ELSE parent_after_child_failure(s1, p, job)

-----------------------------------------------------------------------------
(***************************************************************************)
(* Removal by the management scripts.                                      *)
(***************************************************************************)
\* Fault: a job in retention stays listed.
remove_job_record_listed(db, job) ==
    LET s1 == release_repeat_key(release_deduplication_key(db, job), job) IN
    remove_dependency_keys(
        [s1 EXCEPT !.lock[job.id] = None, !.stalled = @ \ {job.id},
                   !.waiting = RemoveWaiting(@, job.id), !.delayed = @ \ {job.id},
                   !.active = @ \ {job.id}, !.waiting_children = @ \ {job.id},
                   !.jobs[job.id] = None], job.id)

\* Every key of a job: lock, stalled mark, owner keys, indexes, record, dependencies.
remove_job_record(db, job) ==
    LET s1 == release_repeat_key(release_deduplication_key(db, job), job)
        s2 == [s1 EXCEPT !.lock[job.id] = None, !.stalled = @ \ {job.id},
                         !.waiting = RemoveWaiting(@, job.id), !.delayed = @ \ {job.id},
                         !.active = @ \ {job.id}, !.waiting_children = @ \ {job.id},
                         !.completed = RemoveFrom(@, job.id), !.failed = RemoveFrom(@, job.id),
                         !.jobs[job.id] = None]
    IN  remove_dependency_keys(s2, job.id)

\* The children that still exist decide, in the order of child_ids.
scan_remaining_children(db, p) ==
    LET Blocks(c) == Exists(db, c) /\ (FailsParent(db.jobs[c]) \/ db.jobs[c].state \notin Terminal)
        ids == db.jobs[p].child_ids
        blocking == KeepOnly(ids, {c \in ToSet(ids) : Blocks(c)})
    IN  IF blocking = <<>> THEN release_parent_when_done(db, p)
        ELSE IF FailsParent(db.jobs[Head(blocking)]) THEN fail_parent_after_removal(db, p)
        ELSE db

\* release_parent_after_removed_child; job has left db already.
release_parent_after_removed_child(db, job) ==
    LET p == job.parent_id
        s1 == [db EXCEPT !.deps[p].pending = @ \ {job.id}]
    IN  IF ~Exists(db, p) THEN db
        ELSE IF db.jobs[p].state # "waiting_children" THEN db
        ELSE IF db.deps[p].pending = {} THEN scan_remaining_children(db, p)
        ELSE IF s1.deps[p].pending # {} THEN s1
        ELSE release_parent_when_done(s1, p)

remove_with_dependency(db, job) ==
    release_parent_after_removed_child(remove_job_record(db, job), job)

=============================================================================
