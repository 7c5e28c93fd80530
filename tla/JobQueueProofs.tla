--------------------------- MODULE JobQueueProofs ---------------------------
(***************************************************************************)
(* Leases in JobQueue, and then the order of the waiting list, repetition, *)
(* deduplication and retention, for every set of job ids, deduplication    *)
(* ids, repeat keys and options and every bound.                           *)
(*                                                                         *)
(* The argument is about what one operation may do to a record of the job  *)
(* table.  Change(S, a, b) says that b differs from a as if the leases of  *)
(* the jobs in S had ended and every other lease were left alone; Gentle   *)
(* adds that no ready job was lost.  Each helper of JobStore is shown to   *)
(* be gentle on a well-locked table, these relations compose, and so does  *)
(* every operation built from the helpers.                                 *)
(***************************************************************************)
EXTENDS JobQueue, FiniteSetTheorems, TLAPS

State == InMemoryJobQueueState

Held(job) == job # None /\ job.state = "Active"
Done(job) == job # None /\ job.state \in Terminal
Ready(job) == job # None /\ job.state \in {"Waiting", "Delayed"}

\* A record without a lease.
Free(job) ==
    /\ job.state # "Active"
    /\ job.lock_token = None
    /\ job.lease_expires_at = None

\* b is what a step that ends the lease of job j leaves of it.
Released(j, b) == b # None => b.id = j /\ Free(b)

\* b is what a step that is not about the lease of job j makes of its record a.
Entry(j, a, b) ==
    /\ b # None => b.id = j
    /\ Held(a) => /\ Held(b)
                  /\ b.lock_token = a.lock_token
                  /\ b.lease_expires_at = a.lease_expires_at
    /\ Held(b) => Held(a)
    /\ b # None /\ ~Held(b) => Free(b)
    /\ Done(b) => Done(a)

Change(S, a, b) ==
    /\ b \in State
    /\ \A j \in JobIds : IF j \in S THEN Released(j, b.jobs[j])
                                    ELSE Entry(j, a.jobs[j], b.jobs[j])

Gentle(S, a, b) ==
    /\ Change(S, a, b)
    /\ \A j \in JobIds : j \notin S /\ Ready(a.jobs[j]) => Ready(b.jobs[j])

\* Locked, with an expiry, exactly while active, and under its own id.
WellLocked(st) ==
    /\ st \in State
    /\ \A j \in JobIds : st.jobs[j] # None =>
        /\ st.jobs[j].id = j
        /\ Held(st.jobs[j]) => /\ st.jobs[j].lock_token # None
                               /\ st.jobs[j].lease_expires_at # None
        /\ ~Held(st.jobs[j]) => Free(st.jobs[j])

-----------------------------------------------------------------------------
(***************************************************************************)
(* The relations compose.                                                  *)
(***************************************************************************)
\* Doing nothing to a well-locked table is gentle.
LEMMA GentleReflexive ==
    ASSUME NEW st, WellLocked(st)
    PROVE  Gentle({}, st, st)
BY DEF WellLocked, Gentle, Change, Entry

\* Ending the leases of S and then leaving leases alone ends the leases of S.
LEMMA ChangeTransitive ==
    ASSUME NEW S, NEW a, NEW b, NEW c, Change(S, a, b), Change({}, b, c)
    PROVE  Change(S, a, c)
BY DEF Change, Entry, Released, Held, Free, Done

\* The same with no ready job lost on the way.
LEMMA GentleTransitive ==
    ASSUME NEW S, NEW a, NEW b, NEW c, Gentle(S, a, b), Gentle({}, b, c)
    PROVE  Gentle(S, a, c)
<1>1. Change(S, a, c)
  BY ChangeTransitive DEF Gentle
<1> QED
  BY <1>1 DEF Gentle

\* A change keeps the table well locked.
LEMMA ChangeWellLocked ==
    ASSUME NEW S, NEW a, NEW b, WellLocked(a), Change(S, a, b)
    PROVE  WellLocked(b)
BY DEF Change, WellLocked, Entry, Released, Held, Free

\* Rewriting the record of one job, its lease left alone, is gentle.
LEMMA PutGentle ==
    ASSUME NEW st, NEW st2, WellLocked(st), st2 \in State,
           NEW j \in JobIds, NEW job,
           st2.jobs = [st.jobs EXCEPT ![j] = job],
           Entry(j, st.jobs[j], job), Ready(st.jobs[j]) => Ready(job)
    PROVE  Gentle({}, st, st2)
<1>1. \A k \in JobIds : st2.jobs[k] = IF k = j THEN job ELSE st.jobs[k]
  BY DEF WellLocked, State, InMemoryJobQueueState
<1> QED
  BY <1>1 DEF WellLocked, Gentle, Change, Entry

\* Ending the lease of one job and touching no other record.
LEMMA PutReleased ==
    ASSUME NEW st, NEW st2, WellLocked(st), st2 \in State,
           NEW j \in JobIds, NEW job,
           st2.jobs = [st.jobs EXCEPT ![j] = job],
           Released(j, job)
    PROVE  Gentle({j}, st, st2)
<1>1. \A k \in JobIds : st2.jobs[k] = IF k = j THEN job ELSE st.jobs[k]
  BY DEF WellLocked, State, InMemoryJobQueueState
<1> QED
  BY <1>1 DEF WellLocked, Gentle, Change, Entry

-----------------------------------------------------------------------------
(***************************************************************************)
(* The helpers of JobStore.                                                *)
(***************************************************************************)
\* The expiry of a deduplication id is a time or absent.
LEMMA ExpirationType ==
    ASSUME NEW options \in JobOptions, NEW t \in Nat
    PROVE  deduplication_expiration(options, t) \in Nat \cup {None}
BY NoneAssumption DEF deduplication_expiration, JobOptions, DeduplicationOptions

\* Job::new makes a ready job without a lease.
LEMMA NewJob ==
    ASSUME NEW id \in JobIds, NEW options \in JobOptions, NEW t \in Nat
    PROVE  /\ new_job(id, options, t) \in Job
           /\ new_job(id, options, t).id = id
           /\ Free(new_job(id, options, t))
           /\ Ready(new_job(id, options, t))
<1>1. options.delay \in Nat
  BY DEF JobOptions
<1>2. new_job(id, options, t) \in Job
  BY <1>1, ExpirationType DEF new_job, Job, state_after_dependencies, JobState
<1> QED
  BY <1>2, NoneAssumption DEF new_job, Free, Ready, state_after_dependencies

\* Inserting a new job where nobody holds one is gentle.
LEMMA InsertGentle ==
    ASSUME NEW st, WellLocked(st), NEW job \in Job, Free(job), Ready(job),
           ~Held(st.jobs[job.id])
    PROVE  Gentle({}, st, insert_job(st, job))
<1> DEFINE numbered == [job EXCEPT !.enqueued_seq = st.sequence + 1]
<1>1. /\ job.id \in JobIds
      /\ st.sequence \in Nat
      /\ st \in State
  BY DEF Job, WellLocked, State, InMemoryJobQueueState
<1>2. /\ numbered \in Job
      /\ numbered.id = job.id
      /\ Free(numbered) /\ Ready(numbered)
  BY <1>1, NoneAssumption DEF Job, Free, Ready
<1>3. CASE job.state = "Waiting"
  <2>1. insert_job(st, job) = [st EXCEPT !.sequence = st.sequence + 1, !.jobs[job.id] = numbered]
    BY <1>3 DEF insert_job
  <2>2. /\ insert_job(st, job) \in State
        /\ insert_job(st, job).jobs = [st.jobs EXCEPT ![job.id] = numbered]
    <3> DEFINE mid == [st EXCEPT !.sequence = st.sequence + 1]
    <3>1. mid \in State /\ mid.jobs = st.jobs
      BY <1>1 DEF State, InMemoryJobQueueState
    <3>2. insert_job(st, job) = [mid EXCEPT !.jobs[job.id] = numbered]
      BY <2>1
    <3> HIDE DEF numbered, mid
    <3> QED
      BY <1>1, <1>2, <3>1, <3>2 DEF State, InMemoryJobQueueState
  <2> QED
    BY <1>1, <1>2, <2>2, PutGentle DEF Entry, Held, Free, Ready, Done, Terminal
<1>4. CASE job.state # "Waiting"
  <2>1. insert_job(st, job) = [st EXCEPT !.jobs[job.id] = job]
    BY <1>4 DEF insert_job
  <2>2. /\ insert_job(st, job) \in State
        /\ insert_job(st, job).jobs = [st.jobs EXCEPT ![job.id] = job]
    BY <1>1, <2>1 DEF State, InMemoryJobQueueState
  <2> QED
    BY <1>1, <2>2, PutGentle DEF Entry, Held, Free, Ready, Done, Terminal
<1> QED
  BY <1>3, <1>4

\* Forgetting that a job was released touches no record.
LEMMA ForgetGentle ==
    ASSUME NEW st, WellLocked(st), NEW job
    PROVE  /\ Gentle({}, st, forget_released_deduplication_owner_locked(st, job))
           /\ forget_released_deduplication_owner_locked(st, job).jobs = st.jobs
<1> DEFINE st2 == forget_released_deduplication_owner_locked(st, job)
<1>1. st2 \in State /\ st2.jobs = st.jobs
  BY DEF forget_released_deduplication_owner_locked, WellLocked, State, InMemoryJobQueueState
<1> QED
  BY <1>1, GentleReflexive DEF Gentle, Change

\* Removing jobs that nobody holds leaves every lease alone, and is gentle if none is ready.
LEMMA RemoveRecords ==
    ASSUME NEW st, WellLocked(st), NEW S, \A j \in S \cap JobIds : ~Held(st.jobs[j])
    PROVE  /\ Change({}, st, remove_job_records(st, S))
           /\ (\A j \in S \cap JobIds : ~Ready(st.jobs[j]))
                 => Gentle({}, st, remove_job_records(st, S))
           /\ \A j \in JobIds : remove_job_records(st, S).jobs[j]
                                   = IF j \in S THEN None ELSE st.jobs[j]
<1> DEFINE st2 == remove_job_records(st, S)
<1>1. /\ st2 \in State
      /\ \A j \in JobIds : st2.jobs[j] = IF j \in S THEN None ELSE st.jobs[j]
  BY DEF remove_job_records, WellLocked, State, InMemoryJobQueueState
<1>2. Change({}, st, st2)
  BY <1>1 DEF Change, Entry, Held, Done, WellLocked
<1> QED
  BY <1>1, <1>2 DEF Gentle

\* Removing one job that nobody holds.
LEMMA RemoveRecord ==
    ASSUME NEW st, WellLocked(st), NEW j \in JobIds, ~Held(st.jobs[j])
    PROVE  /\ Change({}, st, remove_job_record_locked(st, j))
           /\ ~Ready(st.jobs[j]) => Gentle({}, st, remove_job_record_locked(st, j))
           /\ remove_job_record_locked(st, j).jobs[j] = None
           /\ \A k \in JobIds \ {j} :
                 remove_job_record_locked(st, j).jobs[k] = st.jobs[k]
<1> DEFINE mid == forget_released_deduplication_owner_locked(st, st.jobs[j])
           st2 == remove_job_record_locked(st, j)
<1>1. mid \in State /\ mid.jobs = st.jobs
  BY ForgetGentle DEF Gentle, Change
<1>2. st2 = [mid EXCEPT !.jobs[j] = None]
  BY DEF remove_job_record_locked
<1> HIDE DEF mid, st2
<1>3. /\ st2 \in State
      /\ \A k \in JobIds : st2.jobs[k] = IF k = j THEN None ELSE st.jobs[k]
  BY <1>1, <1>2 DEF State, InMemoryJobQueueState
<1>4. Change({}, st, st2)
  BY <1>3 DEF Change, Entry, Held, Done, WellLocked
<1> QED
  BY <1>3, <1>4 DEF Gentle, st2

\* Retention prunes only jobs that are in the state it is applied to.
LEMMA PrunedInState ==
    ASSUME NEW st, NEW state, NEW retention, NEW t
    PROVE  pruned(st, state, retention, t) \subseteq InState(st, state)
BY DEF pruned, FirstOf

\* Applying a retention policy to finished jobs is gentle.
LEMMA RetentionGentle ==
    ASSUME NEW st, WellLocked(st), NEW state \in Terminal, NEW retention, NEW t
    PROVE  Gentle({}, st, apply_finished_retention_locked(st, state, retention, t))
<1>1. \A j \in pruned(st, state, retention, t) \cap JobIds :
          ~Held(st.jobs[j]) /\ ~Ready(st.jobs[j])
  BY PrunedInState DEF InState, Held, Ready, Terminal
<1> QED
  BY <1>1, RemoveRecords DEF apply_finished_retention_locked

\* So is whatever a finished job's own policy does.
LEMMA RetainGentle ==
    ASSUME NEW st, WellLocked(st), NEW job \in Job, job.state \in Terminal,
           st.jobs[job.id] = job, NEW retention, NEW t
    PROVE  Gentle({}, st, retain_finished(st, job, retention, t))
<1>1. job.id \in JobIds /\ ~Held(job) /\ ~Ready(job)
  BY DEF Job, Held, Ready, Terminal
<1> QED
  BY <1>1, GentleReflexive, RetentionGentle, RemoveRecord DEF retain_finished

-----------------------------------------------------------------------------
\* Parking a duplicate changes no lease.
LEMMA StoreNextGentle ==
    ASSUME NEW st, WellLocked(st), NEW candidate \in Job, candidate.options.deduplication # None,
           NEW e \in JobIds, st.jobs[e] # None
    PROVE  Gentle({}, st, store_deduplicated_next_locked(st, candidate, st.jobs[e]))
<1> DEFINE owner == st.jobs[e]
           d == job_deduplication_id(candidate)
           mid == [st EXCEPT !.deduplication_next[d] = candidate]
           freed == [owner EXCEPT !.deduplication_expires_at = None]
           st2 == store_deduplicated_next_locked(st, candidate, owner)
<1>1. owner \in Job /\ owner.id = e /\ st \in State
  BY DEF WellLocked, State, InMemoryJobQueueState
<1>2. d \in DedupIds
  BY DEF job_deduplication_id, Job, JobOptions, DeduplicationOptions
<1>3. mid \in State /\ mid.jobs = st.jobs
  BY <1>1, <1>2 DEF State, InMemoryJobQueueState
<1>4. freed \in Job
  BY <1>1 DEF Job
<1>5. Entry(e, owner, freed) /\ (Ready(owner) => Ready(freed))
  BY <1>1, <1>4, NoneAssumption DEF WellLocked, Entry, Held, Free, Done, Ready, Job
<1>6. CASE deduplication_stores_next_if_active(candidate, owner)
  <2>1. st2 = [mid EXCEPT !.jobs[e] = freed]
    BY <1>1, <1>3, <1>6 DEF store_deduplicated_next_locked
  <2> HIDE DEF mid, freed, st2, owner
  <2>2. st2 \in State /\ st2.jobs = [st.jobs EXCEPT ![e] = freed]
    BY <1>3, <1>4, <2>1 DEF State, InMemoryJobQueueState
  <2> QED
    BY <1>5, <2>2, PutGentle DEF st2, owner
<1>7. CASE ~deduplication_stores_next_if_active(candidate, owner)
  BY <1>7, GentleReflexive DEF store_deduplicated_next_locked
<1> QED
  BY <1>6, <1>7

\* Neither does extending the TTL of an owner.
LEMMA ExtendGentle ==
    ASSUME NEW st, WellLocked(st), NEW candidate \in Job,
           NEW e \in JobIds, st.jobs[e] # None, NEW t \in Nat
    PROVE  Gentle({}, st, extend_deduplication_expiration_locked(st, candidate, e, t))
<1> DEFINE owner == st.jobs[e]
           later == [owner EXCEPT !.deduplication_expires_at =
                        deduplication_expiration(candidate.options, t)]
           st2 == extend_deduplication_expiration_locked(st, candidate, e, t)
<1>1. owner \in Job /\ owner.id = e /\ st \in State
  BY DEF WellLocked, State, InMemoryJobQueueState
<1>2. later \in Job
  <2>1. candidate.options \in JobOptions
    BY DEF Job
  <2>2. deduplication_expiration(candidate.options, t) \in Nat \cup {None}
    BY <2>1, ExpirationType
  <2> QED
    BY <1>1, <2>2 DEF Job
<1>3. Entry(e, owner, later) /\ (Ready(owner) => Ready(later))
  BY <1>1, <1>2, NoneAssumption DEF WellLocked, Entry, Held, Free, Done, Ready, Job
<1>4. CASE deduplication_extends_ttl(candidate)
  <2>1. st2 = [st EXCEPT !.jobs[e] = later]
    BY <1>4 DEF extend_deduplication_expiration_locked
  <2> HIDE DEF later, st2, owner
  <2>2. st2 \in State /\ st2.jobs = [st.jobs EXCEPT ![e] = later]
    BY <1>1, <1>2, <2>1 DEF State, InMemoryJobQueueState
  <2> QED
    BY <1>3, <2>2, PutGentle DEF st2, owner
<1>5. CASE ~deduplication_extends_ttl(candidate)
  BY <1>5, GentleReflexive DEF extend_deduplication_expiration_locked
<1> QED
  BY <1>4, <1>5

\* Turning the parked duplicate of a finished owner into a job is gentle.
LEMMA EnqueueNextGentle ==
    ASSUME NEW st, WellLocked(st), NEW owner \in Job, NEW t \in Nat
    PROVE  Gentle({}, st, enqueue_deduplicated_next_locked(st, owner, t))
<1> DEFINE d == job_deduplication_id(owner)
           parked == st.deduplication_next[d]
           taken == [st EXCEPT !.deduplication_next[d] = None]
           next == prepare_deduplicated_next_job(parked, t)
           counted == IF repeat_key(owner) = None THEN next
                      ELSE [next EXCEPT !.repeat_count = owner.repeat_count + 1]
           st2 == enqueue_deduplicated_next_locked(st, owner, t)
<1>1. CASE d = None
  BY <1>1, GentleReflexive DEF enqueue_deduplicated_next_locked
<1>2. CASE d # None
  <2>1. d \in DedupIds /\ st \in State
    BY <1>2 DEF job_deduplication_id, Job, JobOptions, DeduplicationOptions, WellLocked
  <2>2. taken \in State /\ taken.jobs = st.jobs
    BY <2>1 DEF State, InMemoryJobQueueState
  <2>3. WellLocked(taken) /\ Gentle({}, st, taken)
    <3> HIDE DEF taken
    <3> QED
      BY <2>2, GentleReflexive DEF WellLocked, Gentle, Change
  <2>4. CASE ~enqueues_deduplicated_next(st, owner)
    BY <1>2, <2>3, <2>4 DEF enqueue_deduplicated_next_locked
  <2>5. CASE enqueues_deduplicated_next(st, owner)
    <3>1. parked \in Job /\ st.jobs[parked.id] = None
      BY <2>1, <2>5 DEF enqueues_deduplicated_next, State, InMemoryJobQueueState
    <3>2. /\ next \in Job /\ next.id = parked.id
          /\ Free(next) /\ Ready(next)
      <4>1. parked.id \in JobIds /\ parked.options \in JobOptions
        BY <3>1 DEF Job
      <4> QED
        BY <4>1, NewJob DEF prepare_deduplicated_next_job
    <3>3. /\ counted \in Job /\ counted.id = parked.id
          /\ Free(counted) /\ Ready(counted)
      <4> HIDE DEF next
      <4>1. owner.repeat_count + 1 \in Nat
        BY DEF Job
      <4> QED
        BY <3>2, <4>1, NoneAssumption DEF Job, Free, Ready
    <3> DEFINE forgotten == forget_released_deduplication_owner_locked(taken, counted)
    <3>4. st2 = insert_job(forgotten, counted)
      BY <1>2, <2>5 DEF enqueue_deduplicated_next_locked
    <3> HIDE DEF taken, counted, st2, next, parked
    <3>5. Gentle({}, taken, forgotten) /\ forgotten.jobs = taken.jobs
      BY <2>3, ForgetGentle
    <3> HIDE DEF forgotten
    <3>6. WellLocked(forgotten) /\ Gentle({}, st, forgotten)
      BY <2>3, <3>5, ChangeWellLocked, GentleTransitive DEF Gentle
    <3>7. ~Held(forgotten.jobs[counted.id])
      BY <2>2, <3>1, <3>3, <3>5 DEF Held
    <3>8. Gentle({}, forgotten, insert_job(forgotten, counted))
      BY <3>3, <3>6, <3>7, InsertGentle
    <3>9. Gentle({}, st, st2)
      BY <3>4, <3>6, <3>8, GentleTransitive
    <3> QED
      BY <3>9 DEF st2
  <2> QED
    BY <2>4, <2>5
<1> QED
  BY <1>1, <1>2

\* The next occurrence of a repeat series is a ready job without a lease.
LEMMA NextRepeatJob ==
    ASSUME NEW job \in Job, job.options.repeat # None, NEW id \in JobIds, NEW t \in Nat
    PROVE  /\ next_repeat_job(job, id, t) \in Job
           /\ next_repeat_job(job, id, t).id = id
           /\ Free(next_repeat_job(job, id, t))
           /\ Ready(next_repeat_job(job, id, t))
<1> DEFINE fresh == new_job(id, job.options, t)
           at == t + job.options.repeat.interval
<1>1. job.options \in JobOptions /\ job.repeat_count + 1 \in Nat
  BY DEF Job
<1>2. at \in Nat
  BY <1>1 DEF JobOptions, RepeatOptions
<1>3. fresh \in Job /\ fresh.id = id /\ Free(fresh)
  BY <1>1, NewJob
<1>4. state_after_dependencies(at, t) \in {"Waiting", "Delayed"}
  BY DEF state_after_dependencies
<1>5. next_repeat_job(job, id, t) =
        [fresh EXCEPT !.scheduled_at = at,
                      !.state = state_after_dependencies(at, t),
                      !.repeat_count = job.repeat_count + 1]
  BY DEF next_repeat_job
<1> HIDE DEF fresh, at
<1>6. next_repeat_job(job, id, t) \in Job
  BY <1>1, <1>2, <1>3, <1>4, <1>5 DEF Job, JobState
<1> QED
  BY <1>3, <1>4, <1>5, <1>6, NoneAssumption DEF Free, Ready, Job

\* A set of job ids is finite and has a size.
LEMMA JobIdsCardinality ==
    ASSUME NEW S, S \subseteq JobIds
    PROVE  IsFiniteSet(S) /\ Cardinality(S) \in Nat
BY JobIdsAssumption, FS_Subset, FS_CardinalityType

\* Promoting the due jobs is gentle: they were ready and stay ready.
LEMMA PromoteDueGentle ==
    ASSUME NEW st, WellLocked(st), NEW t \in Nat
    PROVE  /\ Gentle({}, st, promote_due_locked(st, t))
           /\ \A j \in JobIds : \/ promote_due_locked(st, t).jobs[j] = st.jobs[j]
                                \/ Ready(st.jobs[j]) /\ Ready(promote_due_locked(st, t).jobs[j])
<1> DEFINE due == due_jobs(st, t)
           rank(j) == Cardinality({k \in due : DueBefore(st.jobs[k], st.jobs[j])})
           promoted(j) == [st.jobs[j] EXCEPT !.state = "Waiting",
                                       !.enqueued_seq = st.sequence + rank(j) + 1]
           table == [j \in JobIds |-> IF j \in due THEN promoted(j) ELSE st.jobs[j]]
           st2 == promote_due_locked(st, t)
<1>1. st \in State /\ st.sequence \in Nat
  BY DEF WellLocked, State, InMemoryJobQueueState
<1>2. Cardinality(due) \in Nat
  BY JobIdsCardinality DEF due_jobs, InState, Present
<1>3. ASSUME NEW j \in due
      PROVE  /\ st.jobs[j] \in Job /\ promoted(j) \in Job
             /\ Entry(j, st.jobs[j], promoted(j))
             /\ Ready(st.jobs[j]) /\ Ready(promoted(j))
  <2>1. /\ j \in JobIds /\ st.jobs[j] \in Job /\ st.jobs[j].state = "Delayed"
        /\ st.jobs[j].id = j
    BY <1>1, <1>3 DEF due_jobs, InState, Present, State, InMemoryJobQueueState, WellLocked
  <2>2. rank(j) \in Nat
    BY JobIdsCardinality DEF due_jobs, InState, Present
  <2>3. st.sequence + rank(j) + 1 \in Nat
    BY <1>1, <2>2
  <2> HIDE DEF rank
  <2>4. promoted(j) \in Job
    BY <2>1, <2>3 DEF Job, JobState
  <2>5. Free(st.jobs[j])
    BY <2>1, NoneAssumption DEF WellLocked, Held
  <2> QED
    BY <2>1, <2>4, <2>5, NoneAssumption DEF Entry, Held, Free, Done, Ready, Terminal, Job
<1>4. st2 = [st EXCEPT !.sequence = st.sequence + Cardinality(due), !.jobs = table]
  BY DEF promote_due_locked
<1>5. table \in [JobIds -> Job \cup {None}]
  <2> HIDE DEF promoted, due
  <2> QED
    BY <1>1, <1>3 DEF State, InMemoryJobQueueState
<1>6. st2 \in State /\ st2.jobs = table
  <2> DEFINE n == st.sequence + Cardinality(due)
             mid == [st EXCEPT !.sequence = n]
  <2>1. n \in Nat
    BY <1>1, <1>2
  <2>2. mid \in State
    <3> HIDE DEF n
    <3> QED  BY <1>1, <2>1 DEF State, InMemoryJobQueueState
  <2>3. st2 = [mid EXCEPT !.jobs = table]
    BY <1>4
  <2> HIDE DEF mid, table, st2
  <2> QED
    BY <1>5, <2>2, <2>3 DEF State, InMemoryJobQueueState
<1>7. \A j \in JobIds : st2.jobs[j] = IF j \in due THEN promoted(j) ELSE st.jobs[j]
  BY <1>6
<1> HIDE DEF promoted, due, table, st2
<1>8. Gentle({}, st, st2)
  BY <1>3, <1>6, <1>7 DEF Gentle, Change, Entry, WellLocked
<1>9. \A j \in JobIds : st2.jobs[j] = st.jobs[j] \/ (Ready(st.jobs[j]) /\ Ready(st2.jobs[j]))
  <2> TAKE j \in JobIds
  <2>1. CASE j \in due
    <3>1. st2.jobs[j] = promoted(j)
      BY <1>7, <2>1
    <3> QED
      BY <1>3, <2>1, <3>1
  <2>2. CASE j \notin due
    BY <1>7, <2>2
  <2> QED
    BY <2>1, <2>2
<1> QED
  BY <1>8, <1>9 DEF st2

-----------------------------------------------------------------------------
(***************************************************************************)
(* What each operation does to the leases.                                 *)
(***************************************************************************)
Inv == TypeOK /\ LeaseConsistent

LEMMA InvWellLocked ==
    ASSUME Inv
    PROVE  /\ WellLocked(inner)
           /\ now \in Nat /\ issued \in Nat
           /\ \A j \in JobIds : inner.jobs[j] \in Job \cup {None}
BY NoneAssumption
DEF Inv, TypeOK, LeaseConsistent, WellLocked, State, InMemoryJobQueueState, Present, Held, Free

\* A submission whose id is free and whose repeat series has no live occurrence is inserted.
LEMMA InsertUnlessRepeatingGentle ==
    ASSUME NEW st, WellLocked(st), NEW job \in Job, Free(job), Ready(job),
           ~Held(st.jobs[job.id])
    PROVE  Gentle({}, st, insert_unless_repeating(st, job))
<1> DEFINE forgotten == forget_released_deduplication_owner_locked(st, job)
<1>1. Gentle({}, st, forgotten) /\ forgotten.jobs = st.jobs
  BY ForgetGentle
<1> HIDE DEF forgotten
<1>2. WellLocked(forgotten)
  BY <1>1, ChangeWellLocked DEF Gentle
<1>3. Gentle({}, forgotten, insert_job(forgotten, job))
  BY <1>1, <1>2, InsertGentle
<1>4. Gentle({}, st, insert_job(forgotten, job))
  BY <1>1, <1>3, GentleTransitive
<1> QED
  BY <1>4, GentleReflexive DEF insert_unless_repeating, forgotten

\* A candidate that meets the owner of its deduplication id leaves every lease alone.
LEMMA MeetOwnerQuiet ==
    ASSUME Inv, NEW candidate \in Job, candidate.options.deduplication # None,
           Free(candidate), Ready(candidate), inner.jobs[candidate.id] = None,
           NEW e \in JobIds, inner.jobs[e] # None
    PROVE  Change({}, inner, meet_owner(inner, candidate, inner.jobs[e]))
<1> DEFINE owner == inner.jobs[e]
<1>1. WellLocked(inner) /\ now \in Nat /\ owner \in Job /\ owner.id = e
  BY InvWellLocked DEF WellLocked
<1>2. CASE deduplication_replaces_delayed_owner(candidate, owner)
  <2> DEFINE without == remove_job_record_locked(inner, e)
             heir == preserve_replacement_deduplication_expiration(candidate, owner)
  <2>1. ~Held(owner)
    BY <1>2 DEF deduplication_replaces_delayed_owner, Held
  <2>2. Change({}, inner, without) /\ WellLocked(without)
    BY <1>1, <2>1, RemoveRecord, ChangeWellLocked
  <2>3. /\ heir \in Job /\ heir.id = candidate.id
        /\ Free(heir) /\ Ready(heir)
    BY <1>1, NoneAssumption
    DEF preserve_replacement_deduplication_expiration, Job, Free, Ready
  <2>4. without.jobs[candidate.id] = None
    BY <1>1, <2>1, RemoveRecord DEF Job
  <2> HIDE DEF without, heir
  <2>5. Gentle({}, without, insert_unless_repeating(without, heir))
    BY <2>2, <2>3, <2>4, InsertUnlessRepeatingGentle DEF Held
  <2>6. Change({}, inner, insert_unless_repeating(without, heir))
    BY <2>2, <2>5, ChangeTransitive DEF Gentle
  <2> QED
    BY <1>1, <1>2, <2>6 DEF meet_owner, without, heir
<1>3. CASE ~deduplication_replaces_delayed_owner(candidate, owner)
  <2> DEFINE stored == store_deduplicated_next_locked(inner, candidate, owner)
  <2>1. Gentle({}, inner, stored)
    BY <1>1, StoreNextGentle
  <2> HIDE DEF stored
  <2>2. WellLocked(stored)
    BY <1>1, <2>1, ChangeWellLocked DEF Gentle
  <2>3. stored.jobs[e] # None
    <3>1. Held(owner) \/ Ready(owner) \/ Done(owner)
      BY <1>1, NoneAssumption DEF Held, Ready, Done, Job, JobState, Terminal
    <3>2. Held(owner) => Held(stored.jobs[e])
      BY <2>1 DEF Gentle, Change, Entry
    <3>3. stored = inner \/ deduplication_stores_next_if_active(candidate, owner)
      BY DEF store_deduplicated_next_locked, stored
    <3>4. deduplication_stores_next_if_active(candidate, owner) => Held(owner)
      BY DEF deduplication_stores_next_if_active, Held
    <3> QED
      BY <3>2, <3>3, <3>4 DEF Held
  <2>4. Gentle({}, stored, extend_deduplication_expiration_locked(stored, candidate, e, now))
    BY <1>1, <2>2, <2>3, ExtendGentle
  <2>5. Change({}, inner, extend_deduplication_expiration_locked(stored, candidate, e, now))
    BY <2>1, <2>4, ChangeTransitive DEF Gentle
  <2> QED
    BY <1>1, <1>3, <2>5 DEF meet_owner, stored
<1> QED
  BY <1>2, <1>3

LEMMA AddQuiet ==
    ASSUME Inv, NEW j \in JobIds, NEW o \in Options, add_at(j, o)
    PROVE  Change({}, inner, inner') /\ UNCHANGED <<now, issued, todo>>
<1> DEFINE candidate == new_job(j, o, now)
           d == active_deduplication_id(candidate, now)
           owners == find_active_deduplication_id(inner, d, now)
<1>1. /\ WellLocked(inner) /\ now \in Nat
      /\ o \in JobOptions /\ inner.jobs[j] = None
  BY InvWellLocked, OptionsAssumption DEF add_at
<1>2. /\ candidate \in Job /\ candidate.id = j
      /\ Free(candidate) /\ Ready(candidate)
  BY <1>1, NewJob
<1>3. CASE Commit(insert_unless_repeating(inner, candidate))
  <2> HIDE DEF candidate
  <2>1. Gentle({}, inner, insert_unless_repeating(inner, candidate))
    BY <1>1, <1>2, InsertUnlessRepeatingGentle DEF Held
  <2> QED
    BY <1>3, <2>1 DEF Commit, CommitAs, Gentle
<1>4. ASSUME NEW e \in owners, Commit(meet_owner(inner, candidate, inner.jobs[e]))
      PROVE  Change({}, inner, inner') /\ UNCHANGED <<now, issued, todo>>
  <2>1. e \in JobIds /\ inner.jobs[e] # None /\ d # None
    BY <1>4 DEF find_active_deduplication_id, Present
  <2>2. candidate.options.deduplication # None
    <3> HIDE DEF candidate
    <3> QED
      BY <2>1 DEF active_deduplication_id, job_deduplication_id
  <2> HIDE DEF candidate
  <2>3. Change({}, inner, meet_owner(inner, candidate, inner.jobs[e]))
    BY <1>1, <1>2, <2>1, <2>2, MeetOwnerQuiet
  <2> QED
    BY <1>4, <2>3 DEF Commit, CommitAs
<1> QED
  BY <1>3, <1>4 DEF add_at

LEMMA UpsertRepeatQuiet ==
    ASSUME Inv, NEW j \in JobIds, NEW o \in Options, upsert_repeat(j, o)
    PROVE  Change({}, inner, inner') /\ UNCHANGED <<now, issued, todo>>
<1> DEFINE job == new_job(j, o, now)
           owners == find_active_repeat_key(inner, repeat_key(job))
<1>1. WellLocked(inner) /\ now \in Nat /\ o \in JobOptions
  BY InvWellLocked, OptionsAssumption
<1>2. job \in Job /\ job.id = j /\ Free(job) /\ Ready(job)
  BY <1>1, NewJob
<1>3. PICK current \in IF owners = {} THEN {{}} ELSE {{x} : x \in owners} :
          /\ \A x \in current : require_removable(inner.jobs[x])
          /\ inner.jobs[j] # None => j \in current
          /\ Commit(insert_job(forget_released_deduplication_owner_locked(
                        remove_job_records(inner, current), job), job))
  BY DEF upsert_repeat
<1> HIDE DEF job
<1>4. current \subseteq Present(inner)
  BY <1>3 DEF find_active_repeat_key
<1>5. \A x \in current \cap JobIds : ~Held(inner.jobs[x])
  BY <1>1, <1>3, <1>4 DEF Present, require_removable, WellLocked, Held
<1> DEFINE without == remove_job_records(inner, current)
           forgotten == forget_released_deduplication_owner_locked(without, job)
<1>6. Change({}, inner, without) /\ without.jobs[j] = None
  BY <1>1, <1>3, <1>5, RemoveRecords
<1> HIDE DEF without
<1>7. Gentle({}, without, forgotten) /\ forgotten.jobs = without.jobs
  BY <1>1, <1>6, ForgetGentle, ChangeWellLocked
<1> HIDE DEF forgotten
<1>8. WellLocked(forgotten) /\ Change({}, inner, forgotten)
  BY <1>1, <1>6, <1>7, ChangeWellLocked, ChangeTransitive DEF Gentle
<1>9. Gentle({}, forgotten, insert_job(forgotten, job))
  BY <1>2, <1>6, <1>7, <1>8, InsertGentle DEF Held
<1>10. Change({}, inner, insert_job(forgotten, job))
  BY <1>8, <1>9, ChangeTransitive DEF Gentle
<1> QED
  BY <1>3, <1>10 DEF Commit, CommitAs, forgotten, without

-----------------------------------------------------------------------------
\* A worker's word ends the lease of its job and of no other, and loses no ready job.
SettlesLease(j) ==
    /\ Held(inner.jobs[j])
    /\ Gentle({j}, inner, inner')
    /\ presented' = inner.jobs[j].lock_token
    /\ UNCHANGED <<now, issued, todo>>

\* The holder of the token has the job active.
LEMMA TokenHolds ==
    ASSUME Inv, NEW j \in JobIds, NEW token, inner.jobs[j] # None,
           require_lock_token(inner.jobs[j], token)
    PROVE  /\ inner.jobs[j] \in Job /\ inner.jobs[j].id = j
           /\ Held(inner.jobs[j]) /\ inner \in State
           /\ inner.jobs[j].lock_token = token
BY InvWellLocked DEF require_lock_token, Held, WellLocked

\* The record without its lease.
LEMMA UnleasedJob ==
    ASSUME NEW job \in Job
    PROVE  /\ unleased(job) \in Job /\ unleased(job).id = job.id
           /\ unleased(job).lock_token = None /\ unleased(job).lease_expires_at = None
           /\ unleased(job).options = job.options
BY DEF unleased, Job

\* Putting a released record in place of a held one.
LEMMA ReleaseGentle ==
    ASSUME Inv, NEW j \in JobIds, NEW job \in Job, job.id = j, Free(job)
    PROVE  /\ Gentle({j}, inner, [inner EXCEPT !.jobs[j] = job])
           /\ WellLocked([inner EXCEPT !.jobs[j] = job])
           /\ [inner EXCEPT !.jobs[j] = job].jobs[j] = job
<1> DEFINE st == [inner EXCEPT !.jobs[j] = job]
<1>1. WellLocked(inner) /\ inner \in State
  BY InvWellLocked DEF WellLocked
<1>2. st \in State /\ st.jobs = [inner.jobs EXCEPT ![j] = job] /\ st.jobs[j] = job
  BY <1>1 DEF State, InMemoryJobQueueState
<1> HIDE DEF st
<1>3. Gentle({j}, inner, st)
  BY <1>1, <1>2, PutReleased DEF Released
<1>4. WellLocked(st)
  BY <1>1, <1>3, ChangeWellLocked DEF Gentle
<1> QED
  BY <1>2, <1>3, <1>4 DEF st

LEMMA DelaySettles ==
    ASSUME Inv, NEW j \in JobIds, NEW token, NEW delay \in Durations,
           delay_active(j, token, delay)
    PROVE  SettlesLease(j)
<1> DEFINE u == unleased(inner.jobs[j])
           job == [u EXCEPT !.state = "Delayed", !.options.delay = delay,
                            !.scheduled_at = now + delay, !.processed_at = None]
<1>1. /\ inner.jobs[j].lock_token = token
      /\ inner.jobs[j] \in Job /\ inner.jobs[j].id = j
      /\ Held(inner.jobs[j]) /\ now \in Nat /\ delay \in Nat /\ inner \in State
  BY TokenHolds, InvWellLocked, DurationsAssumption DEF delay_active
<1>2. /\ u \in Job /\ u.id = j
      /\ u.lock_token = None /\ u.lease_expires_at = None
  BY <1>1, UnleasedJob
<1>3. inner' = [inner EXCEPT !.jobs[j] = job] /\ presented' = token /\ UNCHANGED <<now, issued, todo>>
  BY <1>1 DEF delay_active, Commit, CommitAs, State, InMemoryJobQueueState
<1>4. [u.options EXCEPT !.delay = delay] \in JobOptions
  BY <1>1, <1>2 DEF Job, JobOptions
<1>5. now + delay \in Nat
  BY <1>1
<1> HIDE DEF u
<1>6. job \in Job
  BY <1>2, <1>4, <1>5 DEF Job, JobState
<1>7. job.id = j /\ Free(job)
  BY <1>2, <1>6 DEF Free, Job
<1> QED
  BY <1>1, <1>3, <1>6, <1>7, ReleaseGentle DEF SettlesLease

LEMMA ReleaseSettles ==
    ASSUME Inv, NEW j \in JobIds, NEW token, release_active(j, token)
    PROVE  SettlesLease(j)
<1> DEFINE u == unleased(inner.jobs[j])
           job == [u EXCEPT !.state = "Waiting", !.scheduled_at = now,
                            !.processed_at = None, !.enqueued_seq = 0]
<1>1. /\ inner.jobs[j].lock_token = token
      /\ inner.jobs[j] \in Job /\ inner.jobs[j].id = j
      /\ Held(inner.jobs[j]) /\ now \in Nat /\ inner \in State
  BY TokenHolds, InvWellLocked DEF release_active
<1>2. /\ u \in Job /\ u.id = j
      /\ u.lock_token = None /\ u.lease_expires_at = None
  BY <1>1, UnleasedJob
<1>3. inner' = [inner EXCEPT !.jobs[j] = job] /\ presented' = token /\ UNCHANGED <<now, issued, todo>>
  BY <1>1 DEF release_active, Commit, CommitAs, State, InMemoryJobQueueState
<1> HIDE DEF u
<1>4. job \in Job /\ job.id = j /\ Free(job)
  BY <1>1, <1>2 DEF Job, JobState, Free
<1> QED
  BY <1>1, <1>3, <1>4, ReleaseGentle DEF SettlesLease

\* The terminal part of a failure: retention, then the parked duplicate.
LEMMA FailedTerminallyGentle ==
    ASSUME Inv, NEW job \in Job, Free(job), job.state \in Terminal
    PROVE  Gentle({job.id}, inner, failed_terminally(inner, job))
<1> DEFINE put == [inner EXCEPT !.jobs[job.id] = job]
           kept == retain_finished(put, job, job.options.failure_retention, now)
<1>1. job.id \in JobIds /\ now \in Nat
  BY InvWellLocked DEF Job
<1>2. Gentle({job.id}, inner, put) /\ WellLocked(put) /\ put.jobs[job.id] = job
  BY <1>1, ReleaseGentle
<1> HIDE DEF put
<1>3. Gentle({}, put, kept)
  BY <1>2, RetainGentle
<1> HIDE DEF kept
<1>4. Gentle({job.id}, inner, kept) /\ WellLocked(kept)
  BY <1>2, <1>3, GentleTransitive, ChangeWellLocked DEF Gentle
<1>5. Gentle({}, kept, enqueue_deduplicated_next_locked(kept, job, now))
  BY <1>1, <1>4, EnqueueNextGentle
<1>6. Gentle({job.id}, inner, enqueue_deduplicated_next_locked(kept, job, now))
  BY <1>4, <1>5, GentleTransitive
<1> QED
  BY <1>6 DEF failed_terminally, kept, put

LEMMA FailSettles ==
    ASSUME Inv, NEW j \in JobIds, NEW token, NEW allow_retry \in BOOLEAN,
           fail_active_job(j, token, allow_retry)
    PROVE  SettlesLease(j)
<1> DEFINE u == unleased(inner.jobs[j])
           delayed == [u EXCEPT !.state = "Delayed",
                                !.scheduled_at = now + u.options.retry_delay,
                                !.finished_at = None]
           failed == [u EXCEPT !.state = "Failed", !.finished_at = now]
<1>1. /\ inner.jobs[j].lock_token = token
      /\ inner.jobs[j] \in Job /\ inner.jobs[j].id = j
      /\ Held(inner.jobs[j]) /\ now \in Nat
  BY TokenHolds, InvWellLocked DEF fail_active_job
<1>2. /\ u \in Job /\ u.id = j
      /\ u.lock_token = None /\ u.lease_expires_at = None
  BY <1>1, UnleasedJob
<1>3. /\ \/ inner' = [inner EXCEPT !.jobs[j] = delayed]
         \/ inner' = failed_terminally(inner, failed)
      /\ presented' = token /\ UNCHANGED <<now, issued, todo>>
  BY DEF fail_active_job, Commit, CommitAs
<1> HIDE DEF u
<1>4. now + u.options.retry_delay \in Nat
  BY <1>1, <1>2 DEF Job, JobOptions
<1>5. delayed \in Job /\ delayed.id = j /\ Free(delayed)
  BY <1>2, <1>4 DEF Job, JobState, Free
<1>6. failed \in Job /\ failed.id = j /\ Free(failed) /\ failed.state \in Terminal
  BY <1>1, <1>2 DEF Job, JobState, Free, Terminal
<1> HIDE DEF delayed, failed
<1>7. Gentle({j}, inner, [inner EXCEPT !.jobs[j] = delayed])
  BY <1>5, ReleaseGentle
<1>8. Gentle({j}, inner, failed_terminally(inner, failed))
  BY <1>6, FailedTerminallyGentle
<1> QED
  BY <1>1, <1>3, <1>7, <1>8 DEF SettlesLease

LEMMA CompleteSettles ==
    ASSUME Inv, NEW j \in JobIds, NEW token, NEW successor \in JobIds,
           complete_job(j, token, successor)
    PROVE  SettlesLease(j)
<1> DEFINE u == unleased(inner.jobs[j])
           job == [u EXCEPT !.state = "Completed", !.finished_at = now]
           put == [inner EXCEPT !.jobs[j] = job]
           kept == retain_finished(put, job, job.options.completion_retention, now)
           nexted == enqueue_deduplicated_next_locked(kept, job, now)
           next == next_repeat_job(job, successor, now)
           forgotten == forget_released_deduplication_owner_locked(nexted, next)
<1>1. /\ inner.jobs[j].lock_token = token
      /\ inner.jobs[j] \in Job /\ inner.jobs[j].id = j
      /\ Held(inner.jobs[j]) /\ now \in Nat
  BY TokenHolds, InvWellLocked DEF complete_job
<1>2. /\ u \in Job /\ u.id = j
      /\ u.lock_token = None /\ u.lease_expires_at = None
  BY <1>1, UnleasedJob
<1>3. /\ \/ inner' = nexted
         \/ /\ inner' = insert_job(forgotten, next)
            /\ ~enqueues_deduplicated_next(kept, job) /\ repeats(job, now)
            /\ successor \in fresh_ids
      /\ presented' = token /\ UNCHANGED <<now, issued, todo>>
  BY DEF complete_job, Commit, CommitAs
<1> HIDE DEF u
<1>4. job \in Job /\ job.id = j /\ Free(job) /\ job.state \in Terminal
  BY <1>1, <1>2 DEF Job, JobState, Free, Terminal
<1> HIDE DEF job
<1>5. Gentle({j}, inner, put) /\ WellLocked(put) /\ put.jobs[j] = job
  BY <1>4, ReleaseGentle
<1> HIDE DEF put
<1>6. Gentle({}, put, kept)
  BY <1>4, <1>5, RetainGentle
<1> HIDE DEF kept
<1>7. Gentle({j}, inner, kept) /\ WellLocked(kept)
  BY <1>5, <1>6, GentleTransitive, ChangeWellLocked DEF Gentle
<1>8. Gentle({}, kept, nexted)
  BY <1>1, <1>4, <1>7, EnqueueNextGentle
<1> HIDE DEF nexted
<1>9. Gentle({j}, inner, nexted) /\ WellLocked(nexted)
  BY <1>7, <1>8, GentleTransitive, ChangeWellLocked DEF Gentle
<1>10. CASE inner' = nexted
  BY <1>1, <1>3, <1>9, <1>10 DEF SettlesLease
<1>11. CASE inner' = insert_job(forgotten, next) /\ repeats(job, now) /\ successor \in fresh_ids
  <2>1. next \in Job /\ next.id = successor /\ Free(next) /\ Ready(next)
    BY <1>1, <1>4, <1>11, NextRepeatJob DEF repeats
  <2> HIDE DEF next
  <2>2. Gentle({}, nexted, forgotten) /\ forgotten.jobs = nexted.jobs
    BY <1>9, ForgetGentle
  <2> HIDE DEF forgotten
  <2>3. WellLocked(forgotten) /\ Gentle({j}, inner, forgotten)
    BY <1>9, <2>2, ChangeWellLocked, GentleTransitive DEF Gentle
  <2>4. ~Held(forgotten.jobs[successor])
    BY <1>1, <1>11, <2>3 DEF fresh_ids, Gentle, Change, Entry, Held
  <2>5. Gentle({}, forgotten, insert_job(forgotten, next))
    BY <2>1, <2>3, <2>4, InsertGentle
  <2>6. Gentle({j}, inner, inner')
    BY <1>11, <2>3, <2>5, GentleTransitive
  <2> QED
    BY <1>1, <1>3, <2>6 DEF SettlesLease
<1> QED
  BY <1>3, <1>10, <1>11

-----------------------------------------------------------------------------
\* Recovery ends the leases that have run out, and no other.
RecoversLeases ==
    /\ Gentle(stalled_jobs, inner, inner')
    /\ \A job \in todo' : \E j \in stalled_jobs : job = inner.jobs[j]
    /\ UNCHANGED <<now, issued>>

LEMMA StalledJobs ==
    ASSUME Inv, NEW j \in stalled_jobs
    PROVE  /\ j \in JobIds /\ inner.jobs[j] \in Job /\ inner.jobs[j].id = j
           /\ Held(inner.jobs[j])
BY InvWellLocked DEF stalled_jobs, InState, Present, Held, WellLocked

\* What recovery makes of a stalled job that may not stall again.
LEMMA StalledFailedJob ==
    ASSUME NEW job \in Job, now \in Nat
    PROVE  /\ stalled_failed(job) \in Job
           /\ stalled_failed(job).id = job.id
           /\ stalled_failed(job).state = "Failed"
           /\ Free(stalled_failed(job))
<1> DEFINE u == unleased(job)
           n == u.stalled_count + 1
<1>1. /\ u \in Job /\ u.id = job.id
      /\ u.lock_token = None /\ u.lease_expires_at = None
  BY UnleasedJob
<1>2. n \in Nat
  BY <1>1 DEF Job
<1>3. stalled_failed(job)
        = [u EXCEPT !.stalled_count = n, !.state = "Failed", !.finished_at = now]
  BY DEF stalled_failed
<1> HIDE DEF u, n
<1> QED
  BY <1>1, <1>2, <1>3 DEF Job, JobState, Free

\* What it makes of one that goes back to the waiting list.
LEMMA StalledRequeuedJob ==
    ASSUME NEW job \in Job, NEW seq \in Nat
    PROVE  /\ stalled_requeued(job, seq) \in Job
           /\ stalled_requeued(job, seq).id = job.id
           /\ Free(stalled_requeued(job, seq))
<1> DEFINE u == unleased(job)
           n == u.stalled_count + 1
<1>1. /\ u \in Job /\ u.id = job.id
      /\ u.lock_token = None /\ u.lease_expires_at = None
  BY UnleasedJob
<1>2. n \in Nat
  BY <1>1 DEF Job
<1>3. stalled_requeued(job, seq)
        = [u EXCEPT !.stalled_count = n, !.state = "Waiting",
                    !.processed_at = None, !.enqueued_seq = seq]
  BY DEF stalled_requeued
<1> HIDE DEF u, n
<1> QED
  BY <1>1, <1>2, <1>3 DEF Job, JobState, Free

LEMMA RecoverRecovers ==
    ASSUME Inv, recover_stalled_jobs
    PROVE  RecoversLeases
<1> DEFINE out == {j \in stalled_jobs : stalls_out(inner.jobs[j])}
           back == stalled_jobs \ out
           rank(j) == Cardinality({k \in back : StalledBefore(inner.jobs[k], inner.jobs[j])})
           seq(j) == inner.sequence + rank(j) + 1
           table == [j \in JobIds |-> IF j \in out THEN stalled_failed(inner.jobs[j])
                                      ELSE IF j \in back
                                      THEN stalled_requeued(inner.jobs[j], seq(j))
                                      ELSE inner.jobs[j]]
           moved == [inner EXCEPT !.sequence = inner.sequence + Cardinality(back),
                                  !.jobs = table]
           gone == {j \in out : removes_failed_immediately(inner.jobs[j])}
<1>1. WellLocked(inner) /\ inner \in State /\ inner.sequence \in Nat /\ now \in Nat
  BY InvWellLocked DEF WellLocked, State, InMemoryJobQueueState
<1>2. /\ inner' = remove_job_records(moved, gone)
      /\ todo' = {inner.jobs[j] : j \in out}
      /\ UNCHANGED <<now, issued>>
  BY DEF recover_stalled_jobs
<1>3. back \subseteq JobIds
  BY StalledJobs
<1>4. \A j : seq(j) \in Nat
  <2> TAKE j
  <2>1. rank(j) \in Nat
    BY <1>3, JobIdsCardinality
  <2> QED
    BY <1>1, <2>1
<1>5. ASSUME NEW j \in out
      PROVE  /\ stalled_failed(inner.jobs[j]) \in Job
             /\ Released(j, stalled_failed(inner.jobs[j]))
             /\ ~Ready(stalled_failed(inner.jobs[j]))
  <2>1. inner.jobs[j] \in Job /\ inner.jobs[j].id = j
    BY StalledJobs
  <2> QED
    BY <1>1, <2>1, StalledFailedJob DEF Released, Ready
<1>6. ASSUME NEW j \in back
      PROVE  /\ stalled_requeued(inner.jobs[j], seq(j)) \in Job
             /\ Released(j, stalled_requeued(inner.jobs[j], seq(j)))
  <2>1. inner.jobs[j] \in Job /\ inner.jobs[j].id = j
    BY StalledJobs
  <2>2. seq(j) \in Nat
    BY <1>4
  <2> HIDE DEF seq
  <2> QED
    BY <2>1, <2>2, StalledRequeuedJob DEF Released
<1> HIDE DEF seq
<1>7. table \in [JobIds -> Job \cup {None}]
  BY <1>1, <1>5, <1>6 DEF State, InMemoryJobQueueState
<1>8. moved \in State /\ moved.jobs = table
  <2> DEFINE n == inner.sequence + Cardinality(back)
             mid == [inner EXCEPT !.sequence = n]
  <2>1. n \in Nat
    BY <1>1, <1>3, JobIdsCardinality
  <2>2. mid \in State
    <3> HIDE DEF n
    <3> QED  BY <1>1, <2>1 DEF State, InMemoryJobQueueState
  <2>3. moved = [mid EXCEPT !.jobs = table]
    OBVIOUS
  <2> HIDE DEF mid, table, moved
  <2> QED
    BY <1>7, <2>2, <2>3 DEF State, InMemoryJobQueueState
<1>9. \A j \in JobIds :
        /\ j \in stalled_jobs => Released(j, moved.jobs[j])
        /\ j \notin stalled_jobs => moved.jobs[j] = inner.jobs[j]
        /\ j \in gone => ~Ready(moved.jobs[j])
  BY <1>5, <1>6, <1>8
<1> HIDE DEF moved, table
<1>10. Gentle(stalled_jobs, inner, moved) /\ WellLocked(moved)
  <2>1. Gentle(stalled_jobs, inner, moved)
    BY <1>1, <1>8, <1>9, GentleReflexive DEF Gentle, Change
  <2> QED
    BY <1>1, <2>1, ChangeWellLocked DEF Gentle
<1>11. \A j \in gone \cap JobIds : ~Held(moved.jobs[j]) /\ ~Ready(moved.jobs[j])
  BY <1>9 DEF Released, Free, Held
<1>12. Gentle({}, moved, inner')
  BY <1>2, <1>10, <1>11, RemoveRecords
<1> QED
  BY <1>2, <1>10, <1>12, GentleTransitive DEF RecoversLeases

\* Settling what a recovery failed touches no lease.
LEMMA SettleStalledGentle ==
    ASSUME Inv, settle_stalled
    PROVE  Gentle({}, inner, inner') /\ todo' \subseteq todo /\ UNCHANGED <<now, issued>>
<1>1. WellLocked(inner) /\ now \in Nat
  BY InvWellLocked
<1>2. PICK job \in todo :
        LET failed == stalled_failed(job)
            nexted == enqueue_deduplicated_next_locked(inner, failed, now)
        IN  /\ \/ inner' = nexted
               \/ inner' = apply_finished_retention_locked(
                              nexted, "Failed", failed.options.failure_retention, now)
            /\ todo' = todo \ {job}
            /\ UNCHANGED <<now, issued>>
  BY DEF settle_stalled
<1> DEFINE failed == stalled_failed(job)
           nexted == enqueue_deduplicated_next_locked(inner, failed, now)
<1>3. failed \in Job
  <2>1. job \in Job
    BY DEF Inv, TypeOK
  <2> QED
    BY <1>1, <2>1, StalledFailedJob
<1> HIDE DEF failed
<1>4. Gentle({}, inner, nexted)
  BY <1>1, <1>3, EnqueueNextGentle
<1> HIDE DEF nexted
<1>5. WellLocked(nexted)
  BY <1>1, <1>4, ChangeWellLocked DEF Gentle
<1>6. Gentle({}, nexted, apply_finished_retention_locked(
                  nexted, "Failed", failed.options.failure_retention, now))
  BY <1>5, RetentionGentle DEF Terminal
<1>7. Gentle({}, inner, apply_finished_retention_locked(
                  nexted, "Failed", failed.options.failure_retention, now))
  BY <1>4, <1>6, GentleTransitive
<1> QED
  BY <1>2, <1>4, <1>7 DEF failed, nexted

-----------------------------------------------------------------------------
\* A claim gives a new token to one ready job and leaves every other lease alone; st is the
\* table after the due jobs were promoted.
Granted(st, j, end) ==
    /\ Gentle({}, inner, st) /\ WellLocked(st)
    /\ \A k \in JobIds : \/ st.jobs[k] = inner.jobs[k]
                         \/ Ready(inner.jobs[k]) /\ Ready(st.jobs[k])
    /\ Ready(inner.jobs[j]) /\ Ready(st.jobs[j])
    /\ inner' \in State
    /\ Held(inner'.jobs[j]) /\ inner'.jobs[j].id = j
    /\ inner'.jobs[j].lock_token = issued + 1
    /\ inner'.jobs[j].lease_expires_at = end
    /\ \A k \in JobIds \ {j} : inner'.jobs[k] = st.jobs[k]

GrantsLease ==
    /\ \E st \in State, j \in JobIds, end \in Nat : end >= now /\ Granted(st, j, end)
    /\ issued' = issued + 1
    /\ UNCHANGED <<now, todo>>

LEMMA ClaimGrants ==
    ASSUME Inv, NEW lease_for \in Durations, claim_next(lease_for)
    PROVE  GrantsLease
<1> DEFINE st == promote_due_locked(inner, now)
<1>1. /\ WellLocked(inner) /\ now \in Nat /\ issued \in Nat /\ lease_for \in Nat
      /\ \A j \in JobIds : inner.jobs[j] \in Job \cup {None}
  BY InvWellLocked, DurationsAssumption
<1>2. /\ Gentle({}, inner, st) /\ WellLocked(st)
      /\ \A k \in JobIds : \/ st.jobs[k] = inner.jobs[k]
                           \/ Ready(inner.jobs[k]) /\ Ready(st.jobs[k])
  BY <1>1, PromoteDueGentle, ChangeWellLocked DEF Gentle
<1>3. PICK j \in InState(st, "Waiting") :
        inner' = [st EXCEPT !.jobs[j] = claimed(st.jobs[j], issued + 1, lease_for)]
  BY DEF claim_next
<1>4. issued' = issued + 1 /\ UNCHANGED <<now, todo>>
  BY DEF claim_next
<1> HIDE DEF st
<1>5. /\ j \in JobIds /\ st.jobs[j] \in Job /\ st.jobs[j].state = "Waiting"
      /\ st.jobs[j].id = j /\ st \in State
  BY <1>2, <1>3 DEF InState, Present, WellLocked, State, InMemoryJobQueueState
<1>6. Ready(inner.jobs[j])
  <2>1. Held(inner.jobs[j]) \/ Done(inner.jobs[j]) \/ Ready(inner.jobs[j])
                            \/ inner.jobs[j] = None
    BY <1>1, <1>5 DEF Held, Done, Ready, Job, JobState, Terminal
  <2>2. ~Held(inner.jobs[j])
    BY <1>2, <1>5 DEF Gentle, Change, Entry, Held
  <2>3. inner.jobs[j] # None /\ ~Done(inner.jobs[j])
    BY <1>5 DEF st, promote_due_locked, due_jobs, InState, Present, Done, Terminal
  <2> QED
    BY <2>1, <2>2, <2>3
<1> DEFINE job == claimed(st.jobs[j], issued + 1, lease_for)
<1>7. /\ job \in Job /\ job.id = j /\ job.state = "Active"
      /\ job.lock_token = issued + 1 /\ job.lease_expires_at = now + lease_for
  <2> DEFINE w == st.jobs[j]
             n == w.attempts_made + 1
             token == issued + 1
             end == now + lease_for
  <2>1. token \in Nat /\ end \in Nat /\ n \in Nat
    BY <1>1, <1>5 DEF Job
  <2>2. job = [w EXCEPT !.state = "Active", !.attempts_made = n, !.processed_at = now,
                        !.lock_token = token, !.lease_expires_at = end]
    BY DEF claimed
  <2>3. w \in Job /\ w.id = j
    BY <1>5
  <2> HIDE DEF w, n, token, end, job
  <2>4. /\ job \in Job /\ job.id = j /\ job.state = "Active"
        /\ job.lock_token = token /\ job.lease_expires_at = end
    BY <1>1, <2>1, <2>2, <2>3 DEF Job, JobState
  <2> QED
    BY <2>4 DEF token, end
<1> HIDE DEF job
<1>8. /\ inner' \in State
      /\ \A k \in JobIds : inner'.jobs[k] = IF k = j THEN job ELSE st.jobs[k]
  BY <1>3, <1>5, <1>7 DEF State, InMemoryJobQueueState, job
<1>9. Ready(st.jobs[j]) /\ Held(inner'.jobs[j])
  BY <1>5, <1>7, <1>8, NoneAssumption DEF Ready, Held
<1> QED
  <2>1. Granted(st, j, now + lease_for)
    BY <1>2, <1>5, <1>6, <1>7, <1>8, <1>9 DEF Granted
  <2>2. now + lease_for \in Nat /\ now + lease_for >= now
    BY <1>1
  <2> QED
    BY <1>4, <1>5, <2>1, <2>2 DEF GrantsLease

\* A renewal moves the expiry of one held job.
Extended(j, end) ==
    /\ Held(inner.jobs[j]) /\ presented' = inner.jobs[j].lock_token
    /\ inner' \in State
    /\ Held(inner'.jobs[j]) /\ inner'.jobs[j].id = j
    /\ inner'.jobs[j].lock_token = inner.jobs[j].lock_token
    /\ inner'.jobs[j].lease_expires_at = end
    /\ \A k \in JobIds \ {j} : inner'.jobs[k] = inner.jobs[k]

ExtendsLease ==
    /\ \E j \in JobIds, end \in Nat : end >= now /\ Extended(j, end)
    /\ UNCHANGED <<now, issued, todo>>

LEMMA RenewExtends ==
    ASSUME Inv, NEW j \in JobIds, NEW token, NEW lease_for \in Durations,
           renew(j, token, lease_for)
    PROVE  ExtendsLease
<1> DEFINE job == [inner.jobs[j] EXCEPT !.lease_expires_at = now + lease_for]
<1>1. /\ inner.jobs[j].lock_token = token
      /\ inner.jobs[j] \in Job /\ inner.jobs[j].id = j /\ inner \in State
      /\ Held(inner.jobs[j]) /\ now \in Nat /\ lease_for \in Nat
  BY TokenHolds, InvWellLocked, DurationsAssumption DEF renew
<1>2. inner' = [inner EXCEPT !.jobs[j] = job] /\ presented' = token /\ UNCHANGED <<now, issued, todo>>
  BY <1>1 DEF renew, Commit, CommitAs
<1>3. /\ job \in Job /\ job.id = j /\ job.state = "Active"
      /\ job.lock_token = inner.jobs[j].lock_token
      /\ job.lease_expires_at = now + lease_for
  BY <1>1 DEF Job, Held
<1> HIDE DEF job
<1>4. /\ inner' \in State
      /\ \A k \in JobIds : inner'.jobs[k] = IF k = j THEN job ELSE inner.jobs[k]
  BY <1>1, <1>2, <1>3 DEF State, InMemoryJobQueueState
<1> QED
  <2>1. Extended(j, now + lease_for)
    BY <1>1, <1>2, <1>3, <1>4, NoneAssumption DEF Extended, Held
  <2>2. now + lease_for \in Nat /\ now + lease_for >= now
    BY <1>1
  <2> QED
    BY <1>2, <2>1, <2>2 DEF ExtendsLease

-----------------------------------------------------------------------------
\* The management operations leave every lease alone.
LEMMA RewriteQuiet ==
    ASSUME Inv, NEW j \in JobIds, inner.jobs[j] # None, NEW job \in Job,
           Entry(j, inner.jobs[j], job), NEW st \in State,
           st.jobs = [inner.jobs EXCEPT ![j] = job], Ready(inner.jobs[j]) => Ready(job)
    PROVE  Change({}, inner, st)
BY InvWellLocked, PutGentle DEF Gentle

LEMMA PromoteQuiet ==
    ASSUME Inv, NEW j \in JobIds, promote(j)
    PROVE  Change({}, inner, inner') /\ UNCHANGED <<now, issued, todo>>
<1> DEFINE n == inner.sequence + 1
           mid == [inner EXCEPT !.sequence = n]
           w == inner.jobs[j]
           job == [w EXCEPT !.state = "Waiting", !.scheduled_at = now, !.enqueued_seq = n]
<1>1. /\ inner \in State /\ n \in Nat /\ now \in Nat
      /\ w \in Job /\ w.id = j /\ w.state = "Delayed" /\ Free(w)
  BY InvWellLocked, NoneAssumption
  DEF promote, InState, Present, WellLocked, State, InMemoryJobQueueState, Held
<1>2. mid \in State /\ mid.jobs = inner.jobs
  <2> HIDE DEF n
  <2> QED  BY <1>1 DEF State, InMemoryJobQueueState
<1>3. inner' = [mid EXCEPT !.jobs[j] = job] /\ UNCHANGED <<now, issued, todo>>
  BY <1>1, <1>2 DEF promote, Commit, CommitAs, State, InMemoryJobQueueState
<1> HIDE DEF n, mid, w
<1>4. job \in Job /\ Entry(j, w, job) /\ Ready(job)
  <2>1. job \in Job
    BY <1>1 DEF Job, JobState
  <2>2. job.id = j /\ Free(job) /\ job.state = "Waiting" /\ ~Held(w)
    BY <1>1 DEF Free, Held, Job
  <2> QED
    BY <2>1, <2>2, NoneAssumption DEF Entry, Held, Done, Terminal, Ready
<1> HIDE DEF job
<1>5. inner' \in State /\ inner'.jobs = [inner.jobs EXCEPT ![j] = job]
  BY <1>2, <1>3, <1>4 DEF State, InMemoryJobQueueState
<1>6. w # None
  BY <1>1, NoneAssumption
<1> QED
  BY <1>3, <1>4, <1>5, <1>6, RewriteQuiet DEF w

LEMMA RescheduleQuiet ==
    ASSUME Inv, NEW j \in JobIds, NEW delay \in Durations, reschedule(j, delay)
    PROVE  Change({}, inner, inner') /\ UNCHANGED <<now, issued, todo>>
<1> DEFINE w == inner.jobs[j]
           job == [w EXCEPT !.options.delay = delay, !.scheduled_at = now + delay]
<1>1. /\ inner \in State /\ now + delay \in Nat /\ delay \in Nat
      /\ w \in Job /\ w.id = j /\ w.state = "Delayed" /\ Free(w)
  BY InvWellLocked, NoneAssumption, DurationsAssumption
  DEF reschedule, InState, Present, WellLocked, State, InMemoryJobQueueState, Held
<1>2. inner' = [inner EXCEPT !.jobs[j] = job] /\ UNCHANGED <<now, issued, todo>>
  BY <1>1 DEF reschedule, Commit, CommitAs, State, InMemoryJobQueueState
<1>3. [w.options EXCEPT !.delay = delay] \in JobOptions
  BY <1>1 DEF Job, JobOptions
<1> HIDE DEF w
<1>4. job \in Job /\ Entry(j, w, job) /\ Ready(job)
  <2>1. job \in Job
    BY <1>1, <1>3 DEF Job
  <2>2. job.id = j /\ Free(job) /\ job.state = "Delayed" /\ ~Held(w)
    BY <1>1 DEF Free, Held, Job
  <2> QED
    BY <2>1, <2>2, NoneAssumption DEF Entry, Held, Done, Terminal, Ready
<1> HIDE DEF job
<1>5. inner' \in State /\ inner'.jobs = [inner.jobs EXCEPT ![j] = job]
  BY <1>1, <1>2, <1>4 DEF State, InMemoryJobQueueState
<1>6. w # None
  BY <1>1, NoneAssumption
<1> QED
  BY <1>2, <1>4, <1>5, <1>6, RewriteQuiet DEF w

LEMMA RetryQuiet ==
    ASSUME Inv, NEW j \in JobIds, retry(j)
    PROVE  Change({}, inner, inner') /\ UNCHANGED <<now, issued, todo>>
<1> DEFINE w == inner.jobs[j]
           u == unleased(w)
           n == inner.sequence + 1
           e == deduplication_expiration(w.options, now)
           forgotten == forget_released_deduplication_owner_locked(inner, w)
           mid == [forgotten EXCEPT !.sequence = n]
           job == [u EXCEPT !.state = "Waiting", !.scheduled_at = now,
                            !.deduplication_expires_at = e, !.processed_at = None,
                            !.finished_at = None, !.enqueued_seq = n]
<1>1. /\ WellLocked(inner) /\ inner \in State /\ n \in Nat /\ now \in Nat
      /\ w # None /\ w \in Job /\ w.id = j /\ w.state \in Terminal
  BY InvWellLocked DEF retry, WellLocked, State, InMemoryJobQueueState
<1>2. /\ u \in Job /\ u.id = j
      /\ u.lock_token = None /\ u.lease_expires_at = None
  BY <1>1, UnleasedJob
<1>3. e \in Nat \cup {None}
  <2>1. w.options \in JobOptions
    BY <1>1 DEF Job
  <2> QED
    BY <1>1, <2>1, ExpirationType
<1>4. /\ forgotten \in State /\ forgotten.jobs = inner.jobs
      /\ forgotten.sequence = inner.sequence
  BY <1>1, ForgetGentle
  DEF Gentle, Change, forget_released_deduplication_owner_locked, State, InMemoryJobQueueState
<1>5. mid \in State /\ mid.jobs = inner.jobs
  <2> HIDE DEF n, forgotten
  <2> QED  BY <1>1, <1>4 DEF State, InMemoryJobQueueState
<1>6. inner' = [mid EXCEPT !.jobs[j] = job] /\ UNCHANGED <<now, issued, todo>>
  <2> HIDE DEF forgotten, e, u
  <2>1. /\ inner' = [forgotten EXCEPT !.sequence = forgotten.sequence + 1, !.jobs[j] = job]
        /\ UNCHANGED <<now, issued, todo>>
    BY DEF retry, Commit, CommitAs, forgotten, e, u
  <2> QED
    BY <1>4, <2>1
<1> HIDE DEF n, mid, u, e, w, forgotten
<1>7. job \in Job
  BY <1>1, <1>2, <1>3 DEF Job, JobState
<1>8. /\ job.id = j /\ Free(job) /\ job.state = "Waiting" /\ ~Held(w)
  BY <1>1, <1>2 DEF Free, Held, Job, Terminal
<1> HIDE DEF job
<1>9. Entry(j, w, job) /\ Ready(job)
  BY <1>7, <1>8, NoneAssumption DEF Entry, Held, Done, Terminal, Ready
<1>10. inner' \in State /\ inner'.jobs = [inner.jobs EXCEPT ![j] = job]
  BY <1>5, <1>6, <1>7 DEF State, InMemoryJobQueueState
<1> QED
  BY <1>1, <1>6, <1>7, <1>9, <1>10, RewriteQuiet DEF w

LEMMA SetPriorityQuiet ==
    ASSUME Inv, NEW j \in JobIds, NEW p \in Priorities, NEW lifo \in BOOLEAN,
           set_priority_order(j, p, lifo)
    PROVE  Change({}, inner, inner') /\ UNCHANGED <<now, issued, todo>>
<1> DEFINE w == inner.jobs[j]
           waiting == j \in InState(inner, "Waiting")
           n == IF waiting THEN inner.sequence + 1 ELSE inner.sequence
           seq == IF waiting THEN inner.sequence + 1 ELSE w.enqueued_seq
           mid == [inner EXCEPT !.sequence = n]
           opts == [w.options EXCEPT !.priority = p, !.lifo = lifo]
           job == [w EXCEPT !.options = opts, !.enqueued_seq = seq]
<1>1. /\ WellLocked(inner) /\ inner \in State /\ inner.sequence \in Nat
      /\ w # None /\ w \in Job /\ w.id = j
  BY InvWellLocked DEF set_priority_order, WellLocked, State, InMemoryJobQueueState
<1>2. p \in Nat
  BY OptionsAssumption DEF Priorities, JobOptions
<1>3. n \in Nat /\ seq \in Nat
  BY <1>1 DEF Job
<1>4. opts \in JobOptions
  BY <1>1, <1>2 DEF Job, JobOptions
<1>5. mid \in State /\ mid.jobs = inner.jobs
  <2> HIDE DEF n
  <2> QED  BY <1>1, <1>3 DEF State, InMemoryJobQueueState
<1>6. inner' = [mid EXCEPT !.jobs[j] = job] /\ UNCHANGED <<now, issued, todo>>
  <2>1. /\ inner' = [inner EXCEPT !.sequence = n, !.jobs[j] = [inner.jobs[j] EXCEPT
                          !.options = opts, !.enqueued_seq = seq]]
        /\ UNCHANGED <<now, issued, todo>>
    BY <1>1 DEF set_priority_order, Commit, CommitAs, State, InMemoryJobQueueState, Job
  <2> QED
    BY <1>5, <2>1
<1> HIDE DEF n, mid, seq, opts, waiting
<1>7. job \in Job
  BY <1>1, <1>3, <1>4 DEF Job
<1>8. /\ job.id = j /\ job.state = w.state
      /\ job.lock_token = w.lock_token /\ job.lease_expires_at = w.lease_expires_at
  BY <1>1 DEF Job
<1>9. ~Held(w) => Free(w)
  BY <1>1 DEF WellLocked
<1> HIDE DEF job, w
<1>10. Entry(j, w, job) /\ (Ready(w) => Ready(job))
  BY <1>1, <1>7, <1>8, <1>9, NoneAssumption DEF Entry, Held, Free, Done, Ready
<1>11. inner' \in State /\ inner'.jobs = [inner.jobs EXCEPT ![j] = job]
  BY <1>5, <1>6, <1>7 DEF State, InMemoryJobQueueState
<1> QED
  BY <1>1, <1>6, <1>7, <1>10, <1>11, RewriteQuiet DEF w

LEMMA RemoveQuiet ==
    ASSUME Inv, NEW j \in JobIds, remove(j)
    PROVE  Change({}, inner, inner') /\ UNCHANGED <<now, issued, todo>>
<1>1. ~Held(inner.jobs[j]) /\ WellLocked(inner)
  BY InvWellLocked DEF remove, require_removable, WellLocked, Held
<1>2. inner' = remove_job_record_locked(inner, j) /\ UNCHANGED <<now, issued, todo>>
  BY DEF remove, Commit, CommitAs
<1> QED
  BY <1>1, <1>2, RemoveRecord

\* Without a change of the job table no lease changes.
LEMMA SameTableQuiet ==
    ASSUME Inv, NEW st \in State, st.jobs = inner.jobs
    PROVE  Change({}, inner, st)
BY InvWellLocked, GentleReflexive DEF Gentle, Change

LEMMA RemoveKeyQuiet ==
    ASSUME Inv, NEW d \in DedupIds, remove_deduplication_key(d)
    PROVE  Change({}, inner, inner') /\ UNCHANGED <<now, issued, todo>>
<1>1. inner \in State
  BY InvWellLocked DEF WellLocked
<1>2. PICK j \in JobIds :
        /\ inner' = [inner EXCEPT !.released_deduplication_owners = @ \cup {<<d, j>>},
                                  !.deduplication_next[d] = None]
        /\ UNCHANGED <<now, issued, todo>>
  BY DEF remove_deduplication_key, Commit, CommitAs, find_active_deduplication_id, Present
<1> DEFINE mid == [inner EXCEPT !.released_deduplication_owners = @ \cup {<<d, j>>}]
<1>3. mid \in State /\ mid.jobs = inner.jobs
  BY <1>1 DEF State, InMemoryJobQueueState
<1>4. inner' = [mid EXCEPT !.deduplication_next[d] = None]
  BY <1>2
<1> HIDE DEF mid
<1>5. inner' \in State /\ inner'.jobs = inner.jobs
  BY <1>3, <1>4 DEF State, InMemoryJobQueueState
<1> QED
  BY <1>2, <1>5, SameTableQuiet

LEMMA CleanQuiet ==
    ASSUME Inv, NEW state, NEW grace, NEW limit, clean(state, grace, limit)
    PROVE  Change({}, inner, inner') /\ UNCHANGED <<now, issued, todo>>
<1>1. WellLocked(inner)
  BY InvWellLocked
<1>2. \A j \in cleanable(state, grace, limit) :
         j \in Present(inner) /\ require_removable(inner.jobs[j])
  BY DEF cleanable, FirstOf, InState
<1>3. \A j \in cleanable(state, grace, limit) \cap JobIds : ~Held(inner.jobs[j])
  BY <1>1, <1>2 DEF require_removable, WellLocked, Held, Present
<1>4. /\ inner' = remove_job_records(inner, cleanable(state, grace, limit))
      /\ UNCHANGED <<now, issued, todo>>
  BY DEF clean, Commit, CommitAs
<1> QED
  BY <1>1, <1>3, <1>4, RemoveRecords

LEMMA DrainQuiet ==
    ASSUME Inv, NEW include_delayed \in BOOLEAN, drain(include_delayed)
    PROVE  Change({}, inner, inner') /\ UNCHANGED <<now, issued, todo>>
<1>1. WellLocked(inner)
  BY InvWellLocked
<1>2. PICK S : /\ \A j \in S : j \in InState(inner, "Waiting") \cup InState(inner, "Delayed")
               /\ inner' = remove_job_records(inner, S)
               /\ UNCHANGED <<now, issued, todo>>
  <2>1. PICK owner \in [RepeatKeys -> JobIds] :
          Commit(remove_job_records(inner,
              InState(inner, "Waiting")
                \cup IF include_delayed
                     THEN {j \in InState(inner, "Delayed") :
                             repeat_key(inner.jobs[j]) # None =>
                                 owner[repeat_key(inner.jobs[j])] # j}
                     ELSE {}))
    BY DEF drain
  <2> QED
    BY <2>1 DEF Commit, CommitAs
<1>3. \A j \in S \cap JobIds : ~Held(inner.jobs[j])
  BY <1>2 DEF InState, Held
<1> QED
  BY <1>1, <1>2, <1>3, RemoveRecords

LEMMA PauseQuiet ==
    ASSUME Inv, pause \/ resume
    PROVE  Change({}, inner, inner') /\ UNCHANGED <<now, issued, todo>>
<1>1. inner' \in State /\ inner'.jobs = inner.jobs /\ UNCHANGED <<now, issued, todo>>
  BY InvWellLocked DEF pause, resume, Commit, CommitAs, WellLocked, State, InMemoryJobQueueState
<1> QED
  BY <1>1, SameTableQuiet

LEMMA PromoteDueJobsQuiet ==
    ASSUME Inv, promote_due_jobs
    PROVE  Change({}, inner, inner') /\ UNCHANGED <<now, issued, todo>>
BY InvWellLocked, PromoteDueGentle DEF promote_due_jobs, Commit, CommitAs, Gentle

\* A refused obliterate only pauses the queue; a granted one ends every lease with its job.
WipesLeases ==
    /\ Change(JobIds, inner, inner')
    /\ \A j \in JobIds : inner'.jobs[j] = None
    /\ UNCHANGED <<now, issued, todo>>

LEMMA ObliterateWipes ==
    ASSUME Inv, NEW force \in BOOLEAN, obliterate(force)
    PROVE  \/ Change({}, inner, inner') /\ UNCHANGED <<now, issued, todo>>
           \/ WipesLeases
<1>1. inner \in State /\ inner.sequence \in Nat
  BY InvWellLocked DEF WellLocked, State, InMemoryJobQueueState
<1>2. CASE InState(inner, "Active") # {} /\ ~force
  <2>1. inner' \in State /\ inner'.jobs = inner.jobs /\ UNCHANGED <<now, issued, todo>>
    BY <1>1, <1>2 DEF obliterate, Commit, CommitAs, State, InMemoryJobQueueState
  <2> QED
    BY <2>1, SameTableQuiet
<1>3. CASE ~(InState(inner, "Active") # {} /\ ~force)
  <2>1. /\ inner' = [EmptyQueue EXCEPT !.sequence = inner.sequence]
        /\ UNCHANGED <<now, issued, todo>>
    BY <1>3 DEF obliterate, Commit, CommitAs
  <2>2. inner' \in State /\ \A j \in JobIds : inner'.jobs[j] = None
    BY <1>1, <2>1 DEF EmptyQueue, State, InMemoryJobQueueState
  <2> QED
    BY <2>1, <2>2 DEF WipesLeases, Change, Released
<1> QED
  BY <1>2, <1>3

-----------------------------------------------------------------------------
(***************************************************************************)
(* Every step is one of eight kinds.                                       *)
(***************************************************************************)
Quiet == Change({}, inner, inner') /\ UNCHANGED <<issued, now, todo>>

Settled == Gentle({}, inner, inner') /\ todo' \subseteq todo /\ UNCHANGED <<now, issued>>

Ticks == now' = now + 1 /\ UNCHANGED <<inner, issued, todo>>

\* What a step without a lock token does.
TokenlessKinds ==
    Quiet \/ Settled \/ Ticks \/ RecoversLeases \/ GrantsLease \/ WipesLeases

Kinds ==
    \/ presented' = None /\ TokenlessKinds
    \/ ExtendsLease
    \/ \E j \in JobIds : SettlesLease(j)

\* Only the calls of a lease holder come with a token.
LEMMA NoTokenPresented ==
    ASSUME \/ Tick \/ Submission \/ Recovery \/ Management
           \/ \E lease_for \in Durations : claim_next(lease_for)
    PROVE  presented' = None
<1>1. CASE Tick
  BY <1>1 DEF Tick
<1>2. CASE Submission
  BY <1>2 DEF Submission, add_at, upsert_repeat, Commit, CommitAs
<1>3. CASE Recovery
  BY <1>3 DEF Recovery, recover_stalled_jobs, settle_stalled
<1>4. CASE Management
  <2>1. ASSUME NEW j \in JobIds,
               \/ promote(j) \/ retry(j) \/ remove(j)
               \/ \E delay \in Durations : reschedule(j, delay)
               \/ \E p \in Priorities, lifo \in BOOLEAN : set_priority_order(j, p, lifo)
        PROVE  presented' = None
    BY <2>1 DEF promote, retry, remove, reschedule, set_priority_order, Commit, CommitAs
  <2>2. ASSUME NEW key \in RepeatKeys, remove_repeat(key)
        PROVE  presented' = None
    BY <2>2 DEF remove_repeat, remove, Commit, CommitAs
  <2>3. ASSUME \/ promote_due_jobs
               \/ \E d \in DedupIds : remove_deduplication_key(d)
               \/ \E state \in JobState, grace \in Durations,
                     limit \in 1 .. Cardinality(JobIds) : clean(state, grace, limit)
               \/ \E include_delayed \in BOOLEAN : drain(include_delayed)
               \/ \E force \in BOOLEAN : obliterate(force)
               \/ pause \/ resume
        PROVE  presented' = None
    BY <2>3 DEF promote_due_jobs, remove_deduplication_key, clean, drain, obliterate, pause,
                resume, Commit, CommitAs
  <2> QED
    BY <1>4, <2>1, <2>2, <2>3 DEF Management
<1>5. CASE \E lease_for \in Durations : claim_next(lease_for)
  BY <1>5 DEF claim_next
<1> QED
  BY <1>1, <1>2, <1>3, <1>4, <1>5

LEMMA EveryStepHasAKind ==
    ASSUME Inv, Next
    PROVE  Kinds
<1>1. CASE Tick
  BY <1>1, NoTokenPresented DEF Tick, Ticks, TokenlessKinds, Kinds
<1>2. CASE Submission
  BY <1>2, AddQuiet, UpsertRepeatQuiet, NoTokenPresented
  DEF Submission, Quiet, TokenlessKinds, Kinds
<1>3. CASE Worker
  <2>1. ASSUME NEW lease_for \in Durations, claim_next(lease_for)
        PROVE  Kinds
    BY <2>1, ClaimGrants, NoTokenPresented DEF TokenlessKinds, Kinds
  <2>2. ASSUME NEW j \in JobIds, NEW token \in Tokens, NEW lease_for \in Durations,
               renew(j, token, lease_for)
        PROVE  Kinds
    BY <2>2, RenewExtends DEF Kinds
  <2>3. ASSUME NEW j \in JobIds, NEW token \in Tokens,
               \/ \E successor \in JobIds : complete_job(j, token, successor)
               \/ \E allow_retry \in BOOLEAN : fail_active_job(j, token, allow_retry)
               \/ \E delay \in Durations : delay_active(j, token, delay)
               \/ release_active(j, token)
        PROVE  Kinds
    BY <2>3, CompleteSettles, FailSettles, DelaySettles, ReleaseSettles DEF Kinds
  <2> QED
    BY <1>3, <2>1, <2>2, <2>3 DEF Worker
<1>4. CASE Recovery
  BY <1>4, RecoverRecovers, SettleStalledGentle, NoTokenPresented
  DEF Recovery, Settled, TokenlessKinds, Kinds
<1>5. CASE Management
  <2>1. ASSUME NEW j \in JobIds,
               \/ promote(j) \/ retry(j) \/ remove(j)
               \/ \E delay \in Durations : reschedule(j, delay)
               \/ \E p \in Priorities, lifo \in BOOLEAN : set_priority_order(j, p, lifo)
        PROVE  TokenlessKinds
    BY <2>1, PromoteQuiet, RetryQuiet, RemoveQuiet, RescheduleQuiet, SetPriorityQuiet
    DEF Quiet, TokenlessKinds
  <2>2. ASSUME NEW key \in RepeatKeys, remove_repeat(key)
        PROVE  TokenlessKinds
    BY <2>2, RemoveQuiet DEF remove_repeat, find_active_repeat_key, Present, Quiet, TokenlessKinds
  <2>3. ASSUME \/ promote_due_jobs
               \/ \E d \in DedupIds : remove_deduplication_key(d)
               \/ \E state \in JobState, grace \in Durations,
                     limit \in 1 .. Cardinality(JobIds) : clean(state, grace, limit)
               \/ \E include_delayed \in BOOLEAN : drain(include_delayed)
               \/ pause \/ resume
        PROVE  TokenlessKinds
    BY <2>3, PromoteDueJobsQuiet, RemoveKeyQuiet, CleanQuiet, DrainQuiet, PauseQuiet
    DEF Quiet, TokenlessKinds
  <2>4. ASSUME NEW force \in BOOLEAN, obliterate(force)
        PROVE  TokenlessKinds
    BY <2>4, ObliterateWipes DEF Quiet, TokenlessKinds
  <2> QED
    BY <1>5, <2>1, <2>2, <2>3, <2>4, NoTokenPresented DEF Management, Kinds
<1> QED
  BY <1>1, <1>2, <1>3, <1>4, <1>5 DEF Next

-----------------------------------------------------------------------------
(***************************************************************************)
(* The invariant.                                                          *)
(***************************************************************************)
\* Every token that was handed out and is not live stays that way.
DeadStayDead == \A token \in Tokens : ~Live(token) => ~Live(token)'

\* A step that only ends leases or leaves them alone keeps the invariant.
LEMMA ChangeKeepsLeases ==
    ASSUME Inv, NEW S, Change(S, inner, inner'), issued' = issued,
           \A job \in todo' : job \in todo
                              \/ \E j \in S \cap JobIds : Held(inner.jobs[j]) /\ job = inner.jobs[j]
    PROVE  LeaseConsistent' /\ DeadStayDead /\ todo' \subseteq Job
<1>1. WellLocked(inner) /\ WellLocked(inner') /\ inner' \in State
  BY InvWellLocked, ChangeWellLocked DEF Change
<1>2. ASSUME NEW j \in JobIds, inner'.jobs[j] # None, inner'.jobs[j].lock_token # None
      PROVE  /\ j \notin S /\ Held(inner.jobs[j])
             /\ inner'.jobs[j].lock_token = inner.jobs[j].lock_token
  BY <1>1, <1>2 DEF Change, Entry, Released, Free, Held, WellLocked
<1>3. Tokens' = Tokens /\ None \notin Tokens
  BY NoneAssumption DEF Tokens, Inv, TypeOK
<1>4. \A j \in JobIds : Held(inner.jobs[j]) =>
         j \in Present(inner) /\ inner.jobs[j].lock_token # None
                              /\ inner.jobs[j].lock_token \in Tokens
                              /\ inner.jobs[j] \in Job
  BY InvWellLocked, <1>1 DEF Inv, LeaseConsistent, Present, Held, WellLocked
<1>5. DeadStayDead
  BY <1>2, <1>3, <1>4 DEF DeadStayDead, Live, Present
<1>6. \A j \in Present(inner') :
        LET job == inner'.jobs[j] IN
        /\ job.id = j
        /\ (job.state = "Active") <=> (job.lock_token # None)
        /\ (job.state = "Active") <=> (job.lease_expires_at # None)
        /\ job.lock_token # None => job.lock_token \in Tokens'
  BY <1>1, <1>2, <1>3, <1>4 DEF Present, WellLocked, Held, Free
<1>7. \A j, k \in Present(inner') :
        inner'.jobs[j].lock_token = inner'.jobs[k].lock_token
            => j = k \/ inner'.jobs[j].lock_token = None
  BY <1>2, <1>4 DEF Present, Inv, LeaseConsistent
<1>8. ASSUME NEW job \in todo'
      PROVE  job \in Job /\ job.lock_token \in Tokens' /\ ~Live(job.lock_token)'
  <2>1. CASE job \in todo
    BY <1>3, <1>5, <2>1 DEF Inv, TypeOK, LeaseConsistent, DeadStayDead
  <2>2. CASE \E j \in S \cap JobIds : Held(inner.jobs[j]) /\ job = inner.jobs[j]
    <3>1. PICK j \in S \cap JobIds : Held(inner.jobs[j]) /\ job = inner.jobs[j]
      BY <2>2
    <3>2. ASSUME NEW k \in JobIds, inner'.jobs[k] # None,
                 inner'.jobs[k].lock_token = job.lock_token
          PROVE  FALSE
      <4>1. job.lock_token # None
        BY <1>4, <3>1
      <4>2. k \notin S /\ Held(inner.jobs[k]) /\ inner.jobs[k].lock_token = job.lock_token
        BY <1>2, <3>2, <4>1
      <4>3. j \in Present(inner) /\ k \in Present(inner)
        BY <1>4, <3>1, <4>2
      <4>4. j = k
        BY <3>1, <4>1, <4>2, <4>3 DEF Inv, LeaseConsistent
      <4> QED
        BY <3>1, <4>2, <4>4
    <3> QED
      BY <1>3, <1>4, <3>1, <3>2 DEF Live, Present
  <2> QED
    BY <1>8, <2>1, <2>2
<1> QED
  BY <1>5, <1>6, <1>7, <1>8 DEF LeaseConsistent

\* A claim keeps it: the token is new and the job had none.
LEMMA GrantKeepsLeases ==
    ASSUME Inv, GrantsLease
    PROVE  LeaseConsistent' /\ DeadStayDead /\ inner' \in State
<1>1. WellLocked(inner) /\ issued \in Nat /\ issued' = issued + 1 /\ todo' = todo
  BY InvWellLocked DEF GrantsLease
<1>2. PICK st \in State, j \in JobIds, end \in Nat : Granted(st, j, end)
  BY DEF GrantsLease
<1>3. /\ Tokens \subseteq Tokens' /\ issued + 1 \in Tokens' /\ issued + 1 \notin Tokens
      /\ None \notin Tokens'
  BY <1>1, NoneAssumption DEF Tokens
<1>4. ASSUME NEW k \in JobIds \ {j}, inner'.jobs[k] # None
      PROVE  /\ inner'.jobs[k].id = k
             /\ Held(inner'.jobs[k]) => /\ Held(inner.jobs[k])
                                        /\ inner'.jobs[k].lock_token = inner.jobs[k].lock_token
                                        /\ inner'.jobs[k].lease_expires_at # None
                                        /\ inner'.jobs[k].lock_token # None
             /\ ~Held(inner'.jobs[k]) => Free(inner'.jobs[k])
  BY <1>2, <1>4 DEF Granted, Gentle, Change, Entry, WellLocked
<1>5. \A k \in JobIds : Held(inner.jobs[k]) =>
         k \in Present(inner) /\ inner.jobs[k].lock_token \in Tokens
  BY <1>1 DEF Inv, LeaseConsistent, Present, Held, WellLocked
<1>6. /\ inner'.jobs[j] # None /\ inner'.jobs[j].id = j
      /\ inner'.jobs[j].state = "Active" /\ inner'.jobs[j].lock_token = issued + 1
      /\ inner'.jobs[j].lease_expires_at # None
  BY <1>2, NoneAssumption DEF Granted, Held
<1>7. \A k \in JobIds \ {j} : inner'.jobs[k] # None /\ inner'.jobs[k].lock_token # None =>
        /\ Held(inner'.jobs[k]) /\ Held(inner.jobs[k])
        /\ inner'.jobs[k].lock_token = inner.jobs[k].lock_token
        /\ inner'.jobs[k].lock_token \in Tokens
  BY <1>4, <1>5 DEF Free
<1>8. DeadStayDead
  BY <1>3, <1>5, <1>6, <1>7, NoneAssumption DEF DeadStayDead, Live, Present, Tokens
<1>9. \A k \in Present(inner') :
        LET job == inner'.jobs[k] IN
        /\ job.id = k
        /\ (job.state = "Active") <=> (job.lock_token # None)
        /\ (job.state = "Active") <=> (job.lease_expires_at # None)
        /\ job.lock_token # None => job.lock_token \in Tokens'
  BY <1>3, <1>4, <1>6, <1>7 DEF Present, Held, Free
<1>10. \A k, l \in Present(inner') :
        inner'.jobs[k].lock_token = inner'.jobs[l].lock_token
            => k = l \/ inner'.jobs[k].lock_token = None
  BY <1>3, <1>5, <1>6, <1>7 DEF Present, Inv, LeaseConsistent
<1>11. \A job \in todo' : job.lock_token \in Tokens' /\ ~Live(job.lock_token)'
  BY <1>1, <1>3, <1>8 DEF Inv, LeaseConsistent, DeadStayDead
<1> QED
  BY <1>2, <1>8, <1>9, <1>10, <1>11 DEF LeaseConsistent, Granted

\* A renewal keeps it: no token changes hands.
LEMMA ExtendKeepsLeases ==
    ASSUME Inv, ExtendsLease
    PROVE  LeaseConsistent' /\ DeadStayDead /\ inner' \in State
<1>1. WellLocked(inner) /\ issued' = issued /\ todo' = todo
  BY InvWellLocked DEF ExtendsLease
<1>2. PICK j \in JobIds, end \in Nat : Extended(j, end)
  BY DEF ExtendsLease
<1>3. \A k \in JobIds : /\ inner'.jobs[k] # None => inner.jobs[k] # None
                        /\ inner'.jobs[k] # None =>
                              inner'.jobs[k].lock_token = inner.jobs[k].lock_token
  BY <1>2 DEF Extended, Held
<1>4. Tokens' = Tokens
  BY <1>1 DEF Tokens
<1>5. DeadStayDead
  BY <1>3 DEF DeadStayDead, Live, Present
<1>6. \A k \in Present(inner') :
        LET job == inner'.jobs[k] IN
        /\ job.id = k
        /\ (job.state = "Active") <=> (job.lock_token # None)
        /\ (job.state = "Active") <=> (job.lease_expires_at # None)
        /\ job.lock_token # None => job.lock_token \in Tokens'
  <2>1. \A k \in JobIds \ {j} : inner'.jobs[k] = inner.jobs[k]
    BY <1>2 DEF Extended
  <2>2. /\ inner'.jobs[j].id = j /\ inner'.jobs[j].state = "Active"
        /\ inner'.jobs[j].lease_expires_at # None
        /\ inner'.jobs[j].lock_token = inner.jobs[j].lock_token
        /\ inner.jobs[j].lock_token # None /\ inner.jobs[j].lock_token \in Tokens
    BY <1>1, <1>2, NoneAssumption
    DEF Extended, Held, WellLocked, Inv, LeaseConsistent, Present
  <2> QED
    BY <1>4, <2>1, <2>2 DEF Present, Inv, LeaseConsistent
<1>7. \A k, l \in Present(inner') :
        inner'.jobs[k].lock_token = inner'.jobs[l].lock_token
            => k = l \/ inner'.jobs[k].lock_token = None
  BY <1>3 DEF Present, Inv, LeaseConsistent
<1>8. \A job \in todo' : job.lock_token \in Tokens' /\ ~Live(job.lock_token)'
  BY <1>1, <1>4, <1>5 DEF Inv, LeaseConsistent, DeadStayDead
<1> QED
  BY <1>2, <1>5, <1>6, <1>7, <1>8 DEF LeaseConsistent, Extended

\* The conjunction of type and lease invariants is inductive, and no step revives a token.
LEMMA StepKeepsInv ==
    ASSUME Inv, Next
    PROVE  Inv' /\ DeadStayDead
<1>1. /\ inner \in State /\ now \in Nat /\ issued \in Nat /\ todo \in SUBSET Job
      /\ WellLocked(inner)
      /\ \A j \in JobIds : inner.jobs[j] \in Job \cup {None}
  BY InvWellLocked DEF Inv, TypeOK, State
<1>2. CASE presented' = None /\ Quiet
  <2>1. LeaseConsistent' /\ DeadStayDead /\ todo' \subseteq Job
    BY <1>2, ChangeKeepsLeases DEF Quiet
  <2> QED
    BY <1>1, <1>2, <2>1 DEF Quiet, Change, Inv, TypeOK, State
<1>3. CASE presented' = None /\ Settled
  <2>1. LeaseConsistent' /\ DeadStayDead /\ todo' \subseteq Job
    BY <1>3, ChangeKeepsLeases DEF Settled, Gentle
  <2> QED
    BY <1>1, <1>3, <2>1 DEF Settled, Gentle, Change, Inv, TypeOK, State
<1>4. CASE presented' = None /\ Ticks
  <2>1. Change({}, inner, inner')
    BY <1>1, <1>4, GentleReflexive DEF Ticks, Gentle
  <2>2. LeaseConsistent' /\ DeadStayDead
    BY <1>4, <2>1, ChangeKeepsLeases DEF Ticks
  <2> QED
    BY <1>1, <1>4, <2>2 DEF Ticks, Inv, TypeOK, State
<1>5. CASE presented' = None /\ RecoversLeases
  <2>1. \A job \in todo' : \E j \in stalled_jobs \cap JobIds :
                               Held(inner.jobs[j]) /\ job = inner.jobs[j]
    BY <1>5, StalledJobs DEF RecoversLeases
  <2>2. LeaseConsistent' /\ DeadStayDead /\ todo' \subseteq Job
    BY <1>5, <2>1, ChangeKeepsLeases DEF RecoversLeases, Gentle
  <2> QED
    BY <1>1, <1>5, <2>2 DEF RecoversLeases, Gentle, Change, Inv, TypeOK, State
<1>6. CASE presented' = None /\ GrantsLease
  <2>1. issued' \in Nat /\ now' \in Nat /\ todo' \in SUBSET Job
    BY <1>1, <1>6 DEF GrantsLease
  <2> QED
    BY <1>6, <2>1, GrantKeepsLeases DEF Inv, TypeOK, State
<1>7. CASE ExtendsLease
  <2>1. /\ issued' \in Nat /\ now' \in Nat /\ todo' \in SUBSET Job
        /\ presented' \in Nat \cup {None}
    BY <1>1, <1>7 DEF ExtendsLease, Extended, Held, Job
  <2> QED
    BY <1>7, <2>1, ExtendKeepsLeases DEF Inv, TypeOK, State
<1>8. CASE presented' = None /\ WipesLeases
  <2>1. LeaseConsistent' /\ DeadStayDead /\ todo' \subseteq Job
    BY <1>8, ChangeKeepsLeases DEF WipesLeases
  <2> QED
    BY <1>1, <1>8, <2>1 DEF WipesLeases, Change, Inv, TypeOK, State
<1>9. ASSUME NEW j \in JobIds, SettlesLease(j)
      PROVE  Inv' /\ DeadStayDead
  <2>1. LeaseConsistent' /\ DeadStayDead /\ todo' \subseteq Job
    BY <1>9, ChangeKeepsLeases DEF SettlesLease, Gentle
  <2>2. presented' \in Nat \cup {None}
    BY <1>1, <1>9 DEF SettlesLease, Held, Job
  <2> QED
    BY <1>1, <1>9, <2>1, <2>2 DEF SettlesLease, Gentle, Change, Inv, TypeOK, State
<1> QED
  BY <1>2, <1>3, <1>4, <1>5, <1>6, <1>7, <1>8, <1>9, EveryStepHasAKind
  DEF Kinds, TokenlessKinds

LEMMA InitInv == Init => Inv
<1> SUFFICES ASSUME Init PROVE Inv
  OBVIOUS
<1>1. inner \in InMemoryJobQueueState /\ Present(inner) = {}
  BY DEF Init, EmptyQueue, InMemoryJobQueueState, Present
<1> QED
  BY <1>1 DEF Init, Inv, TypeOK, LeaseConsistent

LEMMA StutterKeepsInv ==
    ASSUME Inv, UNCHANGED vars
    PROVE  Inv' /\ DeadStayDead
BY DEF Inv, TypeOK, LeaseConsistent, DeadStayDead, Live, Tokens, Present, vars

\* Every reachable state is well typed and its leases are consistent.
THEOREM Invariance == Spec => []Inv
<1>1. Inv /\ [Next]_vars => Inv'
  BY StepKeepsInv, StutterKeepsInv
<1> QED
  BY <1>1, InitInv, PTL DEF Spec

\* The state of the queue keeps its shape under every operation of src/job/memory.rs.
THEOREM TypeCorrect == Spec => []TypeOK
BY Invariance, PTL DEF Inv

\* A job is locked exactly while it is active, no two jobs share a lock token, and the
\* tokens of recovered jobs are dead, so require_lock_token admits the one holder.
THEOREM LeasesConsistent == Spec => []LeaseConsistent
BY Invariance, PTL DEF Inv

\* A token that lost its job never owns one again: a worker whose lease was recovered is
\* locked out for good.
THEOREM TokensNeverRevive == Spec => TokenNeverRevives
<1>1. Inv /\ [Next]_vars => [\A token \in Tokens : ~Live(token) => ~Live(token)']_vars
  BY StepKeepsInv DEF DeadStayDead
<1> QED
  BY <1>1, Invariance, PTL DEF Spec, TokenNeverRevives

-----------------------------------------------------------------------------
(***************************************************************************)
(* The refinement: every step of the queue is a step, or a stutter, of     *)
(* JobLifecycle under the mapping of life, holder and expiry.              *)
(***************************************************************************)
LifeOf(job) ==
    IF job = None THEN "absent"
    ELSE IF job.state = "Active" THEN "held"
    ELSE IF job.state \in Terminal THEN "done"
    ELSE "ready"

LEMMA LifeOfJob ==
    ASSUME NEW job \in Job \cup {None}
    PROVE  /\ LifeOf(job) = "held" <=> Held(job)
           /\ LifeOf(job) = "done" <=> Done(job)
           /\ LifeOf(job) = "ready" <=> Ready(job)
           /\ LifeOf(job) = "absent" <=> job = None
BY DEF LifeOf, Held, Done, Ready, Job, JobState, Terminal

HolderOf(job) == IF job = None THEN None ELSE job.lock_token
ExpiryOf(job) == IF job = None THEN None ELSE job.lease_expires_at

\* The mapping, job by job, before and after a step.
LEMMA MappingForm ==
    /\ life = [j \in JobIds |-> LifeOf(inner.jobs[j])]
    /\ holder = [j \in JobIds |-> HolderOf(inner.jobs[j])]
    /\ expiry = [j \in JobIds |-> ExpiryOf(inner.jobs[j])]
    /\ life' = [j \in JobIds |-> LifeOf(inner'.jobs[j])]
    /\ holder' = [j \in JobIds |-> HolderOf(inner'.jobs[j])]
    /\ expiry' = [j \in JobIds |-> ExpiryOf(inner'.jobs[j])]
<1>1. life = [j \in JobIds |-> LifeOf(inner.jobs[j])]
  BY DEF life, LifeOf
<1>2. holder = [j \in JobIds |-> HolderOf(inner.jobs[j])]
  BY DEF holder, HolderOf
<1>3. expiry = [j \in JobIds |-> ExpiryOf(inner.jobs[j])]
  BY DEF expiry, ExpiryOf
<1>4. life' = [j \in JobIds |-> LifeOf(inner'.jobs[j])]
  BY DEF life, LifeOf
<1>5. holder' = [j \in JobIds |-> HolderOf(inner'.jobs[j])]
  BY DEF holder, HolderOf
<1>6. expiry' = [j \in JobIds |-> ExpiryOf(inner'.jobs[j])]
  BY DEF expiry, ExpiryOf
<1> QED
  BY <1>1, <1>2, <1>3, <1>4, <1>5, <1>6

LEMMA Mapping ==
    \A j \in JobIds : /\ life[j] = LifeOf(inner.jobs[j])
                      /\ holder[j] = HolderOf(inner.jobs[j])
                      /\ expiry[j] = ExpiryOf(inner.jobs[j])
                      /\ life'[j] = LifeOf(inner'.jobs[j])
                      /\ holder'[j] = HolderOf(inner'.jobs[j])
                      /\ expiry'[j] = ExpiryOf(inner'.jobs[j])
BY MappingForm

\* A record that a step treated as Entry allows keeps its abstract lease.
LEMMA EntryMaps ==
    ASSUME Inv, NEW j \in JobIds, inner' \in State,
           Entry(j, inner.jobs[j], inner'.jobs[j])
    PROVE  /\ Lifecycle!SameLease(j) /\ Lifecycle!NotFinished(j)
           /\ (Ready(inner.jobs[j]) => Ready(inner'.jobs[j])) => Lifecycle!NotDropped(j)
<1>1. /\ WellLocked(inner) /\ inner.jobs[j] \in Job \cup {None}
      /\ inner'.jobs[j] \in Job \cup {None}
  BY InvWellLocked DEF State, InMemoryJobQueueState
<1>2. holder'[j] = holder[j] /\ expiry'[j] = expiry[j]
  <2>1. CASE Held(inner.jobs[j])
    BY <2>1, Mapping DEF Entry, Held, HolderOf, ExpiryOf
  <2>2. CASE ~Held(inner.jobs[j])
    BY <1>1, <2>2, Mapping DEF Entry, Held, Free, WellLocked, HolderOf, ExpiryOf
  <2> QED
    BY <2>1, <2>2
<1>3. life'[j] = "held" <=> life[j] = "held"
  BY <1>1, Mapping, LifeOfJob DEF Entry
<1> QED
  BY <1>1, <1>2, <1>3, Mapping, LifeOfJob
  DEF Entry, Lifecycle!SameLease, Lifecycle!NotFinished, Lifecycle!NotDropped

\* A record whose lease ended is unheld.
LEMMA ReleasedMaps ==
    ASSUME NEW j \in JobIds, inner' \in State, Released(j, inner'.jobs[j])
    PROVE  Lifecycle!Unheld(j)
<1>1. inner'.jobs[j] \in Job \cup {None}
  BY DEF State, InMemoryJobQueueState
<1>2. holder'[j] = None /\ expiry'[j] = None
  BY Mapping DEF Released, Free, HolderOf, ExpiryOf
<1>3. life'[j] # "held"
  BY <1>1, Mapping, LifeOfJob DEF Released, Free, Held
<1> QED
  BY <1>2, <1>3 DEF Lifecycle!Unheld

\* A gentle step that ends the leases of the held jobs in S.
LEMMA GentleEnds ==
    ASSUME Inv, NEW S \in SUBSET JobIds, \A j \in S : Held(inner.jobs[j]),
           Gentle(S, inner, inner'), UNCHANGED <<now, issued>>
    PROVE  Lifecycle!End(S)
<1>1. inner' \in State
  BY DEF Gentle, Change
<1>2. \A j \in S : life[j] = "held" /\ Lifecycle!Unheld(j)
  <2> TAKE j \in S
  <2>1. life[j] = "held"
    BY InvWellLocked, Mapping, LifeOfJob
  <2>2. Lifecycle!Unheld(j)
    BY <1>1, ReleasedMaps DEF Gentle, Change
  <2> QED
    BY <2>1, <2>2
<1>3. \A k \in JobIds \ S : /\ Lifecycle!SameLease(k) /\ Lifecycle!NotFinished(k)
                            /\ Lifecycle!NotDropped(k)
  BY <1>1, EntryMaps DEF Gentle, Change
<1> QED
  BY <1>2, <1>3 DEF Lifecycle!End

LEMMA QuietManages ==
    ASSUME Inv, Change({}, inner, inner'), presented' = None, UNCHANGED <<now, issued>>
    PROVE  Lifecycle!Manage
BY EntryMaps DEF Change, Lifecycle!Manage

LEMMA GrantMaps ==
    ASSUME Inv, GrantsLease, presented' = None
    PROVE  Lifecycle!Grant
<1>1. PICK st \in State, j \in JobIds, end \in Nat : end >= now /\ Granted(st, j, end)
  BY DEF GrantsLease
<1>2. WellLocked(inner) /\ \A k \in JobIds : inner.jobs[k] \in Job \cup {None}
  BY InvWellLocked
<1>3. \A k \in JobIds : st.jobs[k] \in Job \cup {None} /\ inner'.jobs[k] \in Job \cup {None}
  BY <1>1 DEF Granted, State, InMemoryJobQueueState
<1>4. /\ life[j] = "ready" /\ life'[j] = "held"
      /\ holder'[j] = issued + 1 /\ expiry'[j] = end
  BY <1>1, <1>2, <1>3, Mapping, LifeOfJob DEF Granted, HolderOf, ExpiryOf, Held
<1>5. ASSUME NEW k \in JobIds \ {j}
      PROVE  life'[k] = life[k] /\ holder'[k] = holder[k] /\ expiry'[k] = expiry[k]
  <2>1. inner'.jobs[k] = st.jobs[k]
    BY <1>1 DEF Granted
  <2>2. CASE st.jobs[k] = inner.jobs[k]
    BY <2>1, <2>2, Mapping
  <2>3. CASE Ready(inner.jobs[k]) /\ Ready(st.jobs[k])
    <3>1. Free(inner.jobs[k]) /\ Free(st.jobs[k])
      BY <1>1, <1>2, <2>3 DEF Granted, WellLocked, Ready, Held
    <3>2. LifeOf(inner.jobs[k]) = "ready" /\ LifeOf(st.jobs[k]) = "ready"
      BY <1>2, <1>3, <2>3, LifeOfJob
    <3> QED
      BY <2>1, <2>3, <3>1, <3>2, Mapping DEF Free, Ready, HolderOf, ExpiryOf
  <2> QED
    BY <1>1, <2>2, <2>3 DEF Granted
<1>6. life' = [life EXCEPT ![j] = "held"] /\ holder' = [holder EXCEPT ![j] = issued + 1]
  <2>1. life' = [life EXCEPT ![j] = "held"]
    BY <1>4, <1>5, MappingForm
  <2>2. holder' = [holder EXCEPT ![j] = issued + 1]
    BY <1>4, <1>5, MappingForm
  <2> QED
    BY <2>1, <2>2
<1> QED
  BY <1>1, <1>4, <1>5, <1>6 DEF GrantsLease, Lifecycle!Grant

LEMMA ExtendMaps ==
    ASSUME Inv, ExtendsLease
    PROVE  Lifecycle!Extend
<1>1. PICK j \in JobIds, end \in Nat : end >= now /\ Extended(j, end)
  BY DEF ExtendsLease
<1>2. \A k \in JobIds : inner.jobs[k] \in Job \cup {None} /\ inner'.jobs[k] \in Job \cup {None}
  BY <1>1, InvWellLocked DEF Extended, State, InMemoryJobQueueState
<1>3. /\ life[j] = "held" /\ life'[j] = "held"
      /\ holder'[j] = holder[j] /\ expiry'[j] = end /\ presented' = holder[j]
  BY <1>1, <1>2, Mapping, LifeOfJob DEF Extended, HolderOf, ExpiryOf, Held
<1>4. \A k \in JobIds \ {j} :
         life'[k] = life[k] /\ holder'[k] = holder[k] /\ expiry'[k] = expiry[k]
  BY <1>1, Mapping DEF Extended
<1>5. life' = life /\ holder' = holder
  <2>1. life' = life
    BY <1>3, <1>4, MappingForm
  <2>2. holder' = holder
    BY <1>3, <1>4, MappingForm
  <2> QED
    BY <2>1, <2>2
<1> QED
  BY <1>1, <1>3, <1>4, <1>5 DEF ExtendsLease, Lifecycle!Extend

LEMMA WipeMaps ==
    ASSUME Inv, WipesLeases, presented' = None
    PROVE  Lifecycle!Wipe
<1>1. \A j \in JobIds : Lifecycle!Unheld(j)
  BY ReleasedMaps DEF WipesLeases, Change, Released
<1>2. \A j \in JobIds : life'[j] = "absent"
  BY Mapping DEF WipesLeases, LifeOf
<1> QED
  BY <1>1, <1>2 DEF WipesLeases, Lifecycle!Wipe

LEMMA StepRefines ==
    ASSUME Inv, Next
    PROVE  Lifecycle!Next
<1>1. CASE presented' = None /\ Quiet
  BY <1>1, QuietManages DEF Quiet, Lifecycle!Next
<1>2. CASE presented' = None /\ Settled
  BY <1>2, QuietManages DEF Settled, Gentle, Lifecycle!Next
<1>3. CASE presented' = None /\ Ticks
  <2>1. life' = life /\ holder' = holder /\ expiry' = expiry
    BY <1>3 DEF Ticks, life, holder, expiry
  <2> QED
    BY <1>3, <2>1 DEF Ticks, Lifecycle!Next, Lifecycle!Tick
<1>4. CASE presented' = None /\ RecoversLeases
  <2>1. /\ stalled_jobs \in SUBSET JobIds
        /\ \A j \in stalled_jobs : Held(inner.jobs[j])
    BY StalledJobs
  <2>2. Lifecycle!End(stalled_jobs)
    BY <1>4, <2>1, GentleEnds DEF RecoversLeases
  <2>3. \A j \in stalled_jobs : life[j] = "held" /\ expiry[j] <= now
    <3> TAKE j \in stalled_jobs
    <3>1. life[j] = "held"
      BY <2>2 DEF Lifecycle!End
    <3>2. expiry[j] = inner.jobs[j].lease_expires_at
      BY <2>1, Mapping DEF ExpiryOf, Held
    <3> QED
      BY <3>1, <3>2 DEF stalled_jobs
  <2>4. Lifecycle!Recall
    BY <1>4, <2>1, <2>2, <2>3 DEF Lifecycle!Recall
  <2> QED
    BY <2>4 DEF Lifecycle!Next
<1>5. CASE presented' = None /\ GrantsLease
  BY <1>5, GrantMaps DEF Lifecycle!Next
<1>6. CASE ExtendsLease
  BY <1>6, ExtendMaps DEF Lifecycle!Next
<1>7. CASE presented' = None /\ WipesLeases
  BY <1>7, WipeMaps DEF Lifecycle!Next
<1>8. ASSUME NEW j \in JobIds, SettlesLease(j)
      PROVE  Lifecycle!Next
  <2>1. Lifecycle!End({j})
    BY <1>8, GentleEnds DEF SettlesLease
  <2>2. presented' = holder[j]
    BY <1>8, Mapping DEF SettlesLease, HolderOf, Held
  <2> QED
    BY <2>1, <2>2 DEF Lifecycle!Settle, Lifecycle!Next
<1> QED
  BY <1>1, <1>2, <1>3, <1>4, <1>5, <1>6, <1>7, <1>8, EveryStepHasAKind
  DEF Kinds, TokenlessKinds

LEMMA InitRefines == Init => Lifecycle!Init
BY DEF Init, EmptyQueue, Lifecycle!Init, life, holder, expiry

\* The in-memory queue implements the lease contract: a lease ends only by its holder, by
\* expiry or by a wipe, only a held job becomes done, and ending a lease loses no ready job.
THEOREM Refinement == Spec => RefinesLifecycle
<1>1. Inv /\ [Next]_vars => [Lifecycle!Next]_(Lifecycle!vars)
  <2> SUFFICES ASSUME Inv, [Next]_vars PROVE [Lifecycle!Next]_(Lifecycle!vars)
    OBVIOUS
  <2>1. CASE Next
    BY <2>1, StepRefines
  <2>2. CASE UNCHANGED vars
    BY <2>2 DEF vars, Lifecycle!vars, life, holder, expiry
  <2> QED
    BY <2>1, <2>2
<1> QED
  BY <1>1, InitRefines, Invariance, PTL DEF Spec, Lifecycle!Spec, RefinesLifecycle

-----------------------------------------------------------------------------
(***************************************************************************)
(* The order of the waiting list, repetition, deduplication and retention. *)
(* Sound(st, t) is what holds of the job table at time t; Orderly(S, a, b) *)
(* says what an operation that ends the leases of the jobs in S may do to  *)
(* the waiting list and to the finished jobs.  Each helper of JobStore is  *)
(* shown to keep the table sound and to be orderly, and so is every        *)
(* operation built from the helpers.  That the table is well locked all    *)
(* along is what was shown above.                                          *)
(***************************************************************************)

-----------------------------------------------------------------------------
(***************************************************************************)
(* What the results on repetition and deduplication ask of the options     *)
(* that jobs are added with; the order and retention need none of it.      *)
(***************************************************************************)
SharesId(o, p) ==
    o.deduplication # None /\ p.deduplication # None /\ o.deduplication.id = p.deduplication.id

SeriesKey(options) == IF options.repeat = None THEN None ELSE options.repeat.key

\* Jobs with the same deduplication id belong to the same repeat series, or to none.
SameKey == \A o, p \in Options : SharesId(o, p) => SeriesKey(o) = SeriesKey(p)

\* Jobs of one series with the same deduplication id have the same limit.
SameLimit ==
    \A o, p \in Options :
        SharesId(o, p) /\ SeriesKey(o) # None /\ SeriesKey(o) = SeriesKey(p)
            => o.repeat.limit = p.repeat.limit

\* Simple deduplication: a job with an id neither parks its duplicates nor repeats.
SimpleIds ==
    \A o \in Options : o.deduplication # None =>
        ~o.deduplication.keep_last_if_active /\ o.repeat = None

-----------------------------------------------------------------------------
(***************************************************************************)
(* A sound table.                                                          *)
(***************************************************************************)
\* The deduplication and repeat options of a job are as it was added.
Sourced(job) ==
    \E o \in Options : o.deduplication = job.options.deduplication
                       /\ o.repeat = job.options.repeat

Limited(job) ==
    SameLimit /\ job.options.repeat # None =>
        job.options.repeat.limit = 0 \/ job.repeat_count < job.options.repeat.limit

GoodRecord(job) ==
    /\ Sourced(job)
    /\ Limited(job)
    /\ job.state \in Terminal => job.finished_at # None
    /\ job.state = "Active" => job.processed_at # None

GoodTable(st) == \A j \in JobIds : st.jobs[j] # None => GoodRecord(st.jobs[j])

\* Only a duplicate that asks for it is parked, and under its own id.
GoodParked(st) ==
    \A d \in DedupIds :
        LET next == st.deduplication_next[d] IN
        next # None => /\ Sourced(next)
                       /\ next.options.deduplication # None
                       /\ next.options.deduplication.id = d
                       /\ next.options.deduplication.keep_last_if_active

Waits(st, j) == st.jobs[j] # None /\ st.jobs[j].state = "Waiting"
Ended(st, j) == st.jobs[j] # None /\ st.jobs[j].state \in Terminal

\* Waiting numbers were given out and are not shared, except for the number 0 of released jobs.
Numbered(st) ==
    /\ \A j \in JobIds : Waits(st, j) => st.jobs[j].enqueued_seq <= st.sequence
    /\ \A j, k \in JobIds :
        /\ j # k /\ Waits(st, j) /\ Waits(st, k)
        /\ st.jobs[j].enqueued_seq = st.jobs[k].enqueued_seq
        => st.jobs[j].enqueued_seq = 0

\* The series that a job keeps going.
LiveKey(job) == IF job = None THEN None ELSE active_repeat_key(job)

OneLive(st) ==
    SameKey => \A j, k \in JobIds :
        LiveKey(st.jobs[j]) # None /\ LiveKey(st.jobs[j]) = LiveKey(st.jobs[k]) => j = k

\* The deduplication id that a job owns at time t.
Owned(st, j, t) ==
    IF st.jobs[j] = None THEN None
    ELSE LET d == active_deduplication_id(st.jobs[j], t) IN
         IF <<d, j>> \in st.released_deduplication_owners THEN None ELSE d

OneOwner(st, t) ==
    SimpleIds => \A j, k \in JobIds :
        Owned(st, j, t) # None /\ Owned(st, j, t) = Owned(st, k, t) => j = k

Sound(st, t) ==
    /\ WellLocked(st)
    /\ GoodTable(st) /\ GoodParked(st)
    /\ Numbered(st) /\ OneLive(st) /\ OneOwner(st, t)

-----------------------------------------------------------------------------
(***************************************************************************)
(* An orderly change.                                                      *)
(***************************************************************************)
Stays(a, b, j) ==
    Waits(a, j) /\ Waits(b, j) /\ b.jobs[j].enqueued_seq = a.jobs[j].enqueued_seq

\* Job j has a number that was given out between a and b.
Later(a, b, j) ==
    a.sequence < b.jobs[j].enqueued_seq /\ b.jobs[j].enqueued_seq <= b.sequence

\* The retention that a finished job asks for.
Keeps(job) == IF job.state = "Completed" THEN job.options.completion_retention
                                         ELSE job.options.failure_retention

Orderly(S, a, b) ==
    /\ a.sequence <= b.sequence
    /\ \A j \in JobIds : Waits(b, j) =>
        Stays(a, b, j) \/ Later(a, b, j) \/ (j \in S /\ b.jobs[j].enqueued_seq = 0)
    /\ \A j \in JobIds \ S : Ended(b, j) =>
        /\ Ended(a, j)
        /\ b.jobs[j].state = a.jobs[j].state
        /\ Keeps(b.jobs[j]) = Keeps(a.jobs[j])

\* The numbers of a well-locked table are natural numbers.
LEMMA Numbers ==
    ASSUME NEW st, WellLocked(st)
    PROVE  /\ st \in State /\ st.sequence \in Nat
           /\ \A j \in JobIds : st.jobs[j] # None =>
                 /\ st.jobs[j] \in Job /\ st.jobs[j].id = j
                 /\ st.jobs[j].enqueued_seq \in Nat
BY DEF WellLocked, State, InMemoryJobQueueState, Job

\* Doing nothing is orderly.
LEMMA OrderlyReflexive ==
    ASSUME NEW st, WellLocked(st)
    PROVE  Orderly({}, st, st)
BY Numbers DEF Orderly, Stays, Waits, Ended

\* Ending leases and then doing something orderly is orderly.
LEMMA OrderlyTransitive ==
    ASSUME NEW S, NEW a, NEW b, NEW c, WellLocked(a), WellLocked(b), WellLocked(c),
           Orderly(S, a, b), Orderly({}, b, c)
    PROVE  Orderly(S, a, c)
<1>1. a.sequence \in Nat /\ b.sequence \in Nat /\ c.sequence \in Nat
  BY Numbers
<1>2. a.sequence <= c.sequence
  BY <1>1 DEF Orderly
<1>3. ASSUME NEW j \in JobIds, Waits(c, j)
      PROVE  Stays(a, c, j) \/ Later(a, c, j) \/ (j \in S /\ c.jobs[j].enqueued_seq = 0)
  <2>1. Stays(b, c, j) \/ Later(b, c, j)
    BY <1>3 DEF Orderly
  <2>2. c.jobs[j].enqueued_seq \in Nat
    BY <1>3, Numbers DEF Waits
  <2>3. CASE Later(b, c, j)
    BY <1>1, <2>2, <2>3 DEF Later, Orderly
  <2>4. CASE Stays(b, c, j)
    <3>1. Waits(b, j) /\ c.jobs[j].enqueued_seq = b.jobs[j].enqueued_seq
      BY <2>4 DEF Stays
    <3>2. Stays(a, b, j) \/ Later(a, b, j) \/ (j \in S /\ b.jobs[j].enqueued_seq = 0)
      BY <3>1 DEF Orderly
    <3> QED
      BY <1>1, <1>3, <2>2, <3>1, <3>2 DEF Stays, Later, Orderly
  <2> QED
    BY <2>1, <2>3, <2>4
<1>4. \A j \in JobIds \ S : Ended(c, j) =>
        /\ Ended(a, j)
        /\ c.jobs[j].state = a.jobs[j].state
        /\ Keeps(c.jobs[j]) = Keeps(a.jobs[j])
  BY DEF Orderly
<1> QED
  BY <1>2, <1>3, <1>4 DEF Orderly

\* What becomes of the numbers in an orderly change that gives no number twice.
LEMMA OrderlyNumbered ==
    ASSUME NEW S, NEW a, NEW b, WellLocked(a), WellLocked(b), Numbered(a), Orderly(S, a, b),
           \A j, k \in JobIds :
               /\ Waits(b, j) /\ Waits(b, k) /\ Later(a, b, j) /\ Later(a, b, k)
               /\ b.jobs[j].enqueued_seq = b.jobs[k].enqueued_seq
               => j = k
    PROVE  Numbered(b)
<1>1. /\ a.sequence \in Nat /\ b.sequence \in Nat /\ a.sequence <= b.sequence
      /\ \A j \in JobIds : Waits(b, j) => b.jobs[j].enqueued_seq \in Nat
      /\ \A j \in JobIds : Waits(a, j) => a.jobs[j].enqueued_seq \in Nat
  BY Numbers DEF Orderly, Waits
<1>2. \A j \in JobIds : Waits(b, j) =>
        \/ /\ Waits(a, j) /\ b.jobs[j].enqueued_seq = a.jobs[j].enqueued_seq
           /\ b.jobs[j].enqueued_seq <= a.sequence
        \/ Later(a, b, j)
        \/ b.jobs[j].enqueued_seq = 0
  BY DEF Orderly, Stays, Numbered
<1>3. \A j \in JobIds : Waits(b, j) => b.jobs[j].enqueued_seq <= b.sequence
  BY <1>1, <1>2 DEF Later
<1>4. ASSUME NEW j \in JobIds, NEW k \in JobIds, j # k, Waits(b, j), Waits(b, k),
             b.jobs[j].enqueued_seq = b.jobs[k].enqueued_seq, b.jobs[j].enqueued_seq # 0
      PROVE  FALSE
  <2>1. \/ Later(a, b, j)
        \/ /\ Waits(a, j) /\ b.jobs[j].enqueued_seq = a.jobs[j].enqueued_seq
           /\ b.jobs[j].enqueued_seq <= a.sequence
    BY <1>2, <1>4
  <2>2. \/ Later(a, b, k)
        \/ /\ Waits(a, k) /\ b.jobs[k].enqueued_seq = a.jobs[k].enqueued_seq
           /\ b.jobs[k].enqueued_seq <= a.sequence
    BY <1>2, <1>4
  <2>3. ~(Later(a, b, j) /\ b.jobs[k].enqueued_seq <= a.sequence)
    BY <1>1, <1>4 DEF Later
  <2>4. ~(Later(a, b, k) /\ b.jobs[j].enqueued_seq <= a.sequence)
    BY <1>1, <1>4 DEF Later
  <2> QED
    BY <1>4, <2>1, <2>2, <2>3, <2>4 DEF Numbered
<1> QED
  BY <1>3, <1>4 DEF Numbered

-----------------------------------------------------------------------------
(***************************************************************************)
(* Changes of one record, and changes that only remove.                    *)
(***************************************************************************)
\* The rest of the table and the ownership of deduplication ids outside job j are left alone,
\* or some other owner has lost its id.
OnlyAt(j, a, b, t) ==
    \A k \in JobIds \ {j} :
        /\ b.jobs[k] = a.jobs[k]
        /\ Owned(b, k, t) = None \/ Owned(b, k, t) = Owned(a, k, t)

\* The new record of job j keeps its series, or no other job is live in it.
KeyIsFree(j, a, b) ==
    SameKey => \/ LiveKey(b.jobs[j]) = None
               \/ LiveKey(b.jobs[j]) = LiveKey(a.jobs[j])
               \/ \A k \in JobIds \ {j} : LiveKey(a.jobs[k]) # LiveKey(b.jobs[j])

\* Job j keeps its deduplication id, or no other job owns it.
IdIsFree(j, a, b, t) ==
    SimpleIds => \/ Owned(b, j, t) = None
                 \/ Owned(b, j, t) = Owned(a, j, t)
                 \/ \A k \in JobIds \ {j} : Owned(a, k, t) # Owned(b, j, t)

\* Rewriting one record.
LEMMA PutSound ==
    ASSUME NEW t, NEW a, NEW b, Sound(a, t), WellLocked(b), NEW j \in JobIds,
           OnlyAt(j, a, b, t), a.sequence <= b.sequence, GoodParked(b),
           b.jobs[j] # None => GoodRecord(b.jobs[j]),
           Waits(b, j) => Stays(a, b, j) \/ Later(a, b, j) \/ b.jobs[j].enqueued_seq = 0,
           KeyIsFree(j, a, b), IdIsFree(j, a, b, t)
    PROVE  Sound(b, t) /\ Orderly({j}, a, b)
<1>1. WellLocked(a) /\ Numbered(a) /\ GoodTable(a) /\ OneLive(a) /\ OneOwner(a, t)
  BY DEF Sound
<1>2. \A k \in JobIds \ {j} : b.jobs[k] = a.jobs[k]
  BY DEF OnlyAt
<1>3. Orderly({j}, a, b)
  BY <1>2 DEF Orderly, Stays, Waits, Ended
<1>4. \A k \in JobIds \ {j} : Waits(b, k) => ~Later(a, b, k)
  <2> TAKE k \in JobIds \ {j}
  <2>1. HAVE Waits(b, k)
  <2>2. Waits(a, k) /\ b.jobs[k].enqueued_seq = a.jobs[k].enqueued_seq
    BY <1>2, <2>1 DEF Waits
  <2>3. a.jobs[k].enqueued_seq <= a.sequence
    BY <1>1, <2>2 DEF Numbered
  <2>4. a.jobs[k].enqueued_seq \in Nat /\ a.sequence \in Nat
    BY <1>1, <2>2, Numbers DEF Waits
  <2> QED
    BY <2>2, <2>3, <2>4 DEF Later
<1>5. Numbered(b)
  BY <1>1, <1>3, <1>4, OrderlyNumbered
<1>6. GoodTable(b)
  BY <1>1, <1>2 DEF GoodTable
<1>7. OneLive(b)
  BY <1>1, <1>2 DEF OneLive, KeyIsFree
<1>8. OneOwner(b, t)
  BY <1>1 DEF OneOwner, IdIsFree, OnlyAt
<1> QED
  BY <1>3, <1>5, <1>6, <1>7, <1>8 DEF Sound

\* A rewritten record that neither ends nor is released leaves the others where they were.
LEMMA PutOrderly ==
    ASSUME NEW a, NEW b, NEW j, Orderly({j}, a, b),
           Waits(b, j) => Stays(a, b, j) \/ Later(a, b, j),
           Ended(b, j) => /\ Ended(a, j)
                          /\ b.jobs[j].state = a.jobs[j].state
                          /\ Keeps(b.jobs[j]) = Keeps(a.jobs[j])
    PROVE  Orderly({}, a, b)
BY DEF Orderly

\* Removing jobs and parked duplicates, and taking ids away.
Thinned(a, b, t) ==
    /\ b.sequence = a.sequence
    /\ \A j \in JobIds :
        /\ b.jobs[j] = None \/ b.jobs[j] = a.jobs[j]
        /\ Owned(b, j, t) = None \/ Owned(b, j, t) = Owned(a, j, t)
    /\ \A d \in DedupIds :
        b.deduplication_next[d] = None \/ b.deduplication_next[d] = a.deduplication_next[d]

LEMMA ThinSound ==
    ASSUME NEW t, NEW a, NEW b, Sound(a, t), WellLocked(b), Thinned(a, b, t)
    PROVE  Sound(b, t) /\ Orderly({}, a, b)
<1>1. /\ WellLocked(a) /\ Numbered(a) /\ GoodTable(a) /\ GoodParked(a) /\ OneLive(a)
      /\ OneOwner(a, t)
  BY DEF Sound
<1>2. \A j \in JobIds : b.jobs[j] = None \/ b.jobs[j] = a.jobs[j]
  BY DEF Thinned
<1>3. a.sequence \in Nat /\ b.sequence = a.sequence
  BY <1>1, Numbers DEF Thinned
<1>4. Orderly({}, a, b)
  BY <1>2, <1>3 DEF Orderly, Stays, Waits, Ended
<1>5. Numbered(b)
  BY <1>1, <1>2, <1>3 DEF Numbered, Waits
<1>6. GoodTable(b) /\ GoodParked(b)
  BY <1>1, <1>2 DEF GoodTable, GoodParked, Thinned
<1>7. OneLive(b)
  BY <1>1, <1>2 DEF OneLive, LiveKey
<1>8. OneOwner(b, t)
  BY <1>1 DEF OneOwner, Thinned
<1> QED
  BY <1>4, <1>5, <1>6, <1>7, <1>8 DEF Sound

\* A job whose record is kept owns no more than before when nobody forgets that it was released.
LEMMA OwnedFewer ==
    ASSUME NEW t, NEW a, NEW b, NEW j, b.jobs[j] = None \/ b.jobs[j] = a.jobs[j],
           b.jobs[j] # None => \A d : <<d, j>> \in a.released_deduplication_owners
                                        => <<d, j>> \in b.released_deduplication_owners
    PROVE  Owned(b, j, t) = None \/ Owned(b, j, t) = Owned(a, j, t)
BY DEF Owned

-----------------------------------------------------------------------------
(***************************************************************************)
(* The helpers of JobStore that remove.                                    *)
(***************************************************************************)
\* remove_job_records thins the table.
LEMMA RemoveRecordsThin ==
    ASSUME NEW t, NEW st, WellLocked(st), NEW S
    PROVE  Thinned(st, remove_job_records(st, S), t)
<1> DEFINE st2 == remove_job_records(st, S)
           gone == {<<job_deduplication_id(st.jobs[j]), j>> : j \in S}
<1>1. /\ st2.sequence = st.sequence
      /\ \A j \in JobIds : st2.jobs[j] = IF j \in S THEN None ELSE st.jobs[j]
      /\ st2.deduplication_next = st.deduplication_next
      /\ st2.released_deduplication_owners = st.released_deduplication_owners \ gone
  BY DEF remove_job_records, WellLocked, State, InMemoryJobQueueState
<1>2. \A j : j \notin S => \A d : <<d, j>> \notin gone
  OBVIOUS
<1> HIDE DEF st2, gone
<1>3. \A j \in JobIds : Owned(st2, j, t) = None \/ Owned(st2, j, t) = Owned(st, j, t)
  <2> TAKE j \in JobIds
  <2>1. CASE j \in S
    BY <1>1, <2>1 DEF Owned
  <2>2. CASE j \notin S
    BY <1>1, <1>2, <2>2, OwnedFewer
  <2> QED
    BY <2>1, <2>2
<1>4. Thinned(st, st2, t)
  BY <1>1, <1>3 DEF Thinned
<1> QED
  BY <1>4 DEF st2

\* So the removal of jobs that nobody holds keeps the table sound.
LEMMA RemoveRecordsSound ==
    ASSUME NEW t, NEW st, Sound(st, t), NEW S, \A j \in S \cap JobIds : ~Held(st.jobs[j])
    PROVE  /\ Sound(remove_job_records(st, S), t)
           /\ Orderly({}, st, remove_job_records(st, S))
<1>1. WellLocked(st)
  BY DEF Sound
<1>2. WellLocked(remove_job_records(st, S))
  BY <1>1, RemoveRecords, ChangeWellLocked
<1> QED
  BY <1>1, <1>2, RemoveRecordsThin, ThinSound

\* Removing one job is the same as removing a set of one.
LEMMA RemoveRecordIsSet ==
    ASSUME NEW st \in State, NEW j \in JobIds, st.jobs[j] # None, st.jobs[j].id = j
    PROVE  remove_job_record_locked(st, j) = remove_job_records(st, {j})
<1> DEFINE pair == <<job_deduplication_id(st.jobs[j]), j>>
           mid == [st EXCEPT !.released_deduplication_owners = @ \ {pair}]
           table == [k \in JobIds |-> IF k \in {j} THEN None ELSE st.jobs[k]]
<1>1. {<<job_deduplication_id(st.jobs[k]), k>> : k \in {j}} = {pair}
  OBVIOUS
<1>2. [st.jobs EXCEPT ![j] = None] = table
  BY DEF State, InMemoryJobQueueState
<1>3. remove_job_record_locked(st, j) = [mid EXCEPT !.jobs[j] = None]
  BY DEF remove_job_record_locked, forget_released_deduplication_owner_locked
<1>4. remove_job_records(st, {j})
        = [st EXCEPT !.jobs = table, !.released_deduplication_owners = @ \ {pair}]
  BY <1>1 DEF remove_job_records
<1> HIDE DEF pair, table
<1> QED
  BY <1>2, <1>3, <1>4 DEF State, InMemoryJobQueueState

-----------------------------------------------------------------------------
(***************************************************************************)
(* The helpers of JobStore that insert.                                    *)
(***************************************************************************)
\* What forgetting a released owner leaves alone.
LEMMA ForgetFields ==
    ASSUME NEW st \in State, NEW job
    PROVE  LET b == forget_released_deduplication_owner_locked(st, job) IN
           /\ b \in State
           /\ b.jobs = st.jobs /\ b.sequence = st.sequence
           /\ b.deduplication_next = st.deduplication_next
           /\ \A k : k # job.id => \A d : <<d, k>> \in st.released_deduplication_owners
                                     => <<d, k>> \in b.released_deduplication_owners
BY DEF forget_released_deduplication_owner_locked, State, InMemoryJobQueueState

\* The record that insert_job stores.
Inserted(st, job) ==
    IF job.state = "Waiting" THEN [job EXCEPT !.enqueued_seq = st.sequence + 1] ELSE job

\* What insert_job changes.
LEMMA InsertFields ==
    ASSUME NEW st \in State, NEW job \in Job
    PROVE  LET b == insert_job(st, job) IN
           /\ b.jobs = [st.jobs EXCEPT ![job.id] = Inserted(st, job)]
           /\ b.sequence = IF job.state = "Waiting" THEN st.sequence + 1 ELSE st.sequence
           /\ b.deduplication_next = st.deduplication_next
           /\ b.released_deduplication_owners = st.released_deduplication_owners
<1> DEFINE new == Inserted(st, job)
           n == st.sequence + 1
<1>1. CASE job.state = "Waiting"
  <2>1. insert_job(st, job) = [st EXCEPT !.sequence = n, !.jobs[job.id] = new]
    BY <1>1 DEF insert_job, Inserted
  <2> HIDE DEF new, n
  <2>2. /\ insert_job(st, job).jobs = [st.jobs EXCEPT ![job.id] = new]
        /\ insert_job(st, job).sequence = n
        /\ insert_job(st, job).deduplication_next = st.deduplication_next
        /\ insert_job(st, job).released_deduplication_owners = st.released_deduplication_owners
    BY <2>1 DEF State, InMemoryJobQueueState
  <2> QED
    BY <1>1, <2>2 DEF new, n
<1>2. CASE job.state # "Waiting"
  BY <1>2 DEF insert_job, Inserted, State, InMemoryJobQueueState
<1> QED
  BY <1>1, <1>2

\* The stored record differs from the job in its number only.
LEMMA InsertedRecord ==
    ASSUME NEW st \in State, NEW job \in Job
    PROVE  LET new == Inserted(st, job) IN
           /\ new # None /\ new \in Job
           /\ new.id = job.id /\ new.options = job.options /\ new.state = job.state
           /\ new.deduplication_expires_at = job.deduplication_expires_at
           /\ new.repeat_count = job.repeat_count /\ new.finished_at = job.finished_at
           /\ new.state = "Waiting" => new.enqueued_seq = st.sequence + 1
<1> DEFINE n == st.sequence + 1
<1>1. n \in Nat
  BY DEF State, InMemoryJobQueueState
<1>2. Inserted(st, job) = IF job.state = "Waiting" THEN [job EXCEPT !.enqueued_seq = n] ELSE job
  BY DEF Inserted
<1> HIDE DEF n
<1>3. LET new == Inserted(st, job) IN
      /\ new \in Job
      /\ new.id = job.id /\ new.options = job.options /\ new.state = job.state
      /\ new.deduplication_expires_at = job.deduplication_expires_at
      /\ new.repeat_count = job.repeat_count /\ new.finished_at = job.finished_at
      /\ new.state = "Waiting" => new.enqueued_seq = n
  BY <1>1, <1>2 DEF Job
<1> QED
  BY <1>3, NoneAssumption DEF n

\* No live job of the table belongs to the series of `job`, and none owns its id.
NoRival(st, job, t) ==
    /\ SameKey => \/ active_repeat_key(job) = None
                  \/ \A k \in JobIds : LiveKey(st.jobs[k]) # active_repeat_key(job)
    /\ SimpleIds => \/ active_deduplication_id(job, t) = None
                    \/ \A k \in JobIds : Owned(st, k, t) # active_deduplication_id(job, t)

\* A new job that has no rival may be inserted under an id that is free.
LEMMA InsertSound ==
    ASSUME NEW t, NEW st, Sound(st, t), NEW job \in Job, Free(job), Ready(job),
           Sourced(job), Limited(job), st.jobs[job.id] = None, NoRival(st, job, t)
    PROVE  LET b == insert_job(forget_released_deduplication_owner_locked(st, job), job) IN
           Sound(b, t) /\ Orderly({}, st, b)
<1> DEFINE mid == forget_released_deduplication_owner_locked(st, job)
           b == insert_job(mid, job)
           new == Inserted(mid, job)
           j == job.id
<1>1. /\ WellLocked(st) /\ st \in State /\ st.sequence \in Nat /\ j \in JobIds
      /\ GoodParked(st)
  BY Numbers DEF Sound, Job
<1>2. /\ mid \in State /\ mid.jobs = st.jobs /\ mid.sequence = st.sequence
      /\ mid.deduplication_next = st.deduplication_next
      /\ \A k : k # j => \A d : <<d, k>> \in st.released_deduplication_owners
                           => <<d, k>> \in mid.released_deduplication_owners
  BY <1>1, ForgetFields
<1>3. WellLocked(b)
  <2>1. WellLocked(mid)
    BY <1>1, ForgetGentle, ChangeWellLocked DEF Gentle
  <2>2. ~Held(mid.jobs[job.id])
    BY <1>2 DEF Held
  <2> HIDE DEF mid
  <2> QED
    BY <2>1, <2>2, InsertGentle, ChangeWellLocked DEF Gentle
<1> HIDE DEF mid
<1>4. /\ b.jobs = [st.jobs EXCEPT ![j] = new]
      /\ b.sequence = IF job.state = "Waiting" THEN st.sequence + 1 ELSE st.sequence
      /\ b.deduplication_next = st.deduplication_next
      /\ b.released_deduplication_owners = mid.released_deduplication_owners
  BY <1>2, InsertFields
<1>5. /\ new # None /\ new.options = job.options /\ new.state = job.state
      /\ new.deduplication_expires_at = job.deduplication_expires_at
      /\ new.repeat_count = job.repeat_count
      /\ new.state = "Waiting" => new.enqueued_seq = st.sequence + 1
  BY <1>2, InsertedRecord
<1> HIDE DEF b, new
<1>6. b.jobs[j] = new /\ \A k \in JobIds \ {j} : b.jobs[k] = st.jobs[k]
  BY <1>1, <1>4 DEF State, InMemoryJobQueueState
<1>7. GoodRecord(new)
  BY <1>5 DEF GoodRecord, Sourced, Limited, Ready, Terminal
<1>8. OnlyAt(j, st, b, t)
  <2> SUFFICES ASSUME NEW k \in JobIds \ {j}
               PROVE  Owned(b, k, t) = None \/ Owned(b, k, t) = Owned(st, k, t)
    BY <1>6 DEF OnlyAt
  <2>1. b.jobs[k] = st.jobs[k]
    BY <1>6
  <2>2. \A d : <<d, k>> \in st.released_deduplication_owners
                => <<d, k>> \in b.released_deduplication_owners
    BY <1>2, <1>4
  <2> QED
    BY <2>1, <2>2, OwnedFewer
<1>9. KeyIsFree(j, st, b)
  <2>1. LiveKey(b.jobs[j]) = active_repeat_key(job)
    BY <1>5, <1>6 DEF LiveKey, active_repeat_key, repeat_key
  <2> QED
    BY <2>1 DEF KeyIsFree, NoRival
<1>10. IdIsFree(j, st, b, t)
  <2>1. active_deduplication_id(new, t) = active_deduplication_id(job, t)
    BY <1>5 DEF active_deduplication_id, job_deduplication_id
  <2>2. Owned(b, j, t) = None \/ Owned(b, j, t) = active_deduplication_id(job, t)
    BY <1>6, <2>1 DEF Owned
  <2> QED
    BY <2>2 DEF IdIsFree, NoRival
<1>11. st.sequence <= b.sequence /\ (Waits(b, j) => Later(st, b, j))
  BY <1>1, <1>4, <1>5, <1>6 DEF Waits, Later
<1>12. GoodParked(b)
  BY <1>1, <1>4 DEF GoodParked
<1>13. Sound(b, t) /\ Orderly({j}, st, b)
  BY <1>1, <1>3, <1>6, <1>7, <1>8, <1>9, <1>10, <1>11, <1>12, PutSound
<1>14. ~Ended(b, j)
  BY <1>5, <1>6 DEF Ended, Ready, Terminal
<1>15. Orderly({}, st, b)
  BY <1>11, <1>13, <1>14, PutOrderly
<1> QED
  BY <1>13, <1>15 DEF b, mid

\* A new job with the options of a job that was added is sound.
LEMMA NewRecord ==
    ASSUME NEW id \in JobIds, NEW options \in JobOptions, NEW t \in Nat,
           \E o \in Options : o.deduplication = options.deduplication /\ o.repeat = options.repeat
    PROVE  LET job == new_job(id, options, t) IN
           /\ Sourced(job) /\ Limited(job)
           /\ job.options = options /\ job.repeat_count = 0
<1>1. /\ new_job(id, options, t).options = options
      /\ new_job(id, options, t).repeat_count = 0
  BY DEF new_job
<1>2. options.repeat # None => options.repeat.limit \in Nat
  BY DEF JobOptions, RepeatOptions
<1> QED
  BY <1>1, <1>2 DEF Sourced, Limited

\* A candidate whose series is not live is inserted, and otherwise nothing happens.
LEMMA InsertUnlessRepeatingSound ==
    ASSUME NEW t, NEW st, Sound(st, t), NEW job \in Job, Free(job), Ready(job),
           Sourced(job), Limited(job), st.jobs[job.id] = None,
           SimpleIds => \/ active_deduplication_id(job, t) = None
                        \/ \A k \in JobIds : Owned(st, k, t) # active_deduplication_id(job, t)
    PROVE  LET b == insert_unless_repeating(st, job) IN Sound(b, t) /\ Orderly({}, st, b)
<1>1. CASE find_active_repeat_key(st, active_repeat_key(job)) # {}
  BY <1>1, OrderlyReflexive DEF insert_unless_repeating, Sound
<1>2. CASE find_active_repeat_key(st, active_repeat_key(job)) = {}
  <2>1. NoRival(st, job, t)
    BY <1>2 DEF NoRival, find_active_repeat_key, Present, LiveKey
  <2> QED
    BY <1>2, <2>1, InsertSound DEF insert_unless_repeating
<1> QED
  BY <1>1, <1>2

\* A job owns no id but its own.
LEMMA OwnedIsOwnId ==
    ASSUME NEW st, NEW j, NEW t
    PROVE  \/ Owned(st, j, t) = None
           \/ Owned(st, j, t) = job_deduplication_id(st.jobs[j])
BY DEF Owned, active_deduplication_id

\* Moving the expiry of an owner of a deduplication id, or parking a duplicate behind it.
LEMMA ExpirySound ==
    ASSUME NEW t, NEW a, NEW b, Sound(a, t), WellLocked(b), NEW e \in JobIds,
           a.jobs[e] # None, b.jobs[e] # None, Owned(a, e, t) # None,
           b.sequence = a.sequence, GoodParked(b),
           b.released_deduplication_owners = a.released_deduplication_owners,
           \A k \in JobIds \ {e} : b.jobs[k] = a.jobs[k],
           b.jobs[e].options = a.jobs[e].options, b.jobs[e].state = a.jobs[e].state,
           b.jobs[e].enqueued_seq = a.jobs[e].enqueued_seq,
           b.jobs[e].repeat_count = a.jobs[e].repeat_count,
           b.jobs[e].finished_at = a.jobs[e].finished_at,
           b.jobs[e].processed_at = a.jobs[e].processed_at
    PROVE  Sound(b, t) /\ Orderly({}, a, b)
<1>1. GoodRecord(a.jobs[e]) /\ a.sequence \in Nat
  BY Numbers DEF Sound, GoodTable
<1>2. GoodRecord(b.jobs[e])
  BY <1>1 DEF GoodRecord, Sourced, Limited
<1>3. OnlyAt(e, a, b, t)
  BY DEF OnlyAt, Owned
<1>4. KeyIsFree(e, a, b)
  BY DEF KeyIsFree, LiveKey, active_repeat_key, repeat_key
<1>5. IdIsFree(e, a, b, t)
  <2>1. job_deduplication_id(a.jobs[e]) = job_deduplication_id(b.jobs[e])
    BY DEF job_deduplication_id
  <2> QED
    BY <2>1, OwnedIsOwnId DEF IdIsFree
<1>6. Waits(b, e) => Stays(a, b, e)
  BY DEF Waits, Stays
<1>7. a.sequence <= b.sequence
  BY <1>1
<1>8. Sound(b, t) /\ Orderly({e}, a, b)
  BY <1>2, <1>3, <1>4, <1>5, <1>6, <1>7, PutSound
<1> QED
  BY <1>6, <1>8, PutOrderly DEF Ended, Keeps

\* Parking a duplicate behind the owner of its id.
LEMMA StoreNextSound ==
    ASSUME NEW t, NEW st, Sound(st, t), NEW candidate \in Job, Sourced(candidate),
           candidate.options.deduplication # None,
           NEW e \in JobIds, st.jobs[e] # None, Owned(st, e, t) # None
    PROVE  LET b == store_deduplicated_next_locked(st, candidate, st.jobs[e]) IN
           Sound(b, t) /\ Orderly({}, st, b) /\ b.jobs[e] # None /\ Owned(b, e, t) # None
<1> DEFINE owner == st.jobs[e]
           d == job_deduplication_id(candidate)
           mid == [st EXCEPT !.deduplication_next[d] = candidate]
           freed == [owner EXCEPT !.deduplication_expires_at = None]
           b == store_deduplicated_next_locked(st, candidate, owner)
<1>1. /\ WellLocked(st) /\ st \in State /\ owner \in Job /\ owner.id = e /\ GoodParked(st)
  BY Numbers DEF Sound
<1>2. d \in DedupIds /\ d = candidate.options.deduplication.id
  BY DEF job_deduplication_id, Job, JobOptions, DeduplicationOptions
<1>3. CASE ~deduplication_stores_next_if_active(candidate, owner)
  BY <1>1, <1>3, OrderlyReflexive DEF store_deduplicated_next_locked
<1>4. CASE deduplication_stores_next_if_active(candidate, owner)
  <2>1. /\ mid \in State /\ mid.jobs = st.jobs /\ mid.sequence = st.sequence
        /\ mid.released_deduplication_owners = st.released_deduplication_owners
        /\ mid.deduplication_next = [st.deduplication_next EXCEPT ![d] = candidate]
    BY <1>1, <1>2 DEF State, InMemoryJobQueueState
  <2>2. b = [mid EXCEPT !.jobs[e] = freed]
    BY <1>1, <1>4, <2>1 DEF store_deduplicated_next_locked
  <2>3. /\ freed \in Job /\ freed.options = owner.options /\ freed.state = owner.state
        /\ freed.enqueued_seq = owner.enqueued_seq
        /\ freed.repeat_count = owner.repeat_count /\ freed.finished_at = owner.finished_at
        /\ freed.deduplication_expires_at = None /\ freed.processed_at = owner.processed_at
    BY <1>1 DEF Job
  <2>4. WellLocked(b)
    BY <1>1, StoreNextGentle, ChangeWellLocked DEF Gentle
  <2> HIDE DEF mid, freed, b
  <2>5. /\ b.jobs = [st.jobs EXCEPT ![e] = freed] /\ b.sequence = st.sequence
        /\ b.released_deduplication_owners = st.released_deduplication_owners
        /\ b.deduplication_next = [st.deduplication_next EXCEPT ![d] = candidate]
    BY <2>1, <2>2 DEF State, InMemoryJobQueueState
  <2>6. b.jobs[e] = freed /\ \A k \in JobIds \ {e} : b.jobs[k] = st.jobs[k]
    BY <1>1, <2>5 DEF State, InMemoryJobQueueState
  <2>7. freed # None
    BY <2>3, NoneAssumption
  <2>8. GoodParked(b)
    <3>1. candidate.options.deduplication.keep_last_if_active
      BY <1>4 DEF deduplication_stores_next_if_active
    <3>2. \A x \in DedupIds : b.deduplication_next[x]
                                = IF x = d THEN candidate ELSE st.deduplication_next[x]
      BY <1>1, <2>5 DEF State, InMemoryJobQueueState
    <3> HIDE DEF d
    <3> QED
      BY <1>1, <1>2, <3>1, <3>2 DEF GoodParked
  <2>9. Sound(b, t) /\ Orderly({}, st, b)
    <3>1. /\ b.jobs[e].options = st.jobs[e].options /\ b.jobs[e].state = st.jobs[e].state
          /\ b.jobs[e].enqueued_seq = st.jobs[e].enqueued_seq
          /\ b.jobs[e].repeat_count = st.jobs[e].repeat_count
          /\ b.jobs[e].finished_at = st.jobs[e].finished_at
          /\ b.jobs[e].processed_at = st.jobs[e].processed_at
      BY <2>3, <2>6
    <3>2. b.jobs[e] # None /\ \A k \in JobIds \ {e} : b.jobs[k] = st.jobs[k]
      BY <2>6, <2>7
    <3> QED
      BY <2>4, <2>5, <2>8, <3>1, <3>2, ExpirySound
  <2>10. Owned(b, e, t) # None
    <3>1. owner.state = "Active"
      BY <1>4 DEF deduplication_stores_next_if_active
    <3>2. active_deduplication_id(freed, t) = job_deduplication_id(owner)
      BY <2>3, <3>1 DEF active_deduplication_id, job_deduplication_id, Terminal
    <3>3. /\ Owned(st, e, t) = active_deduplication_id(owner, t)
          /\ <<active_deduplication_id(owner, t), e>> \notin st.released_deduplication_owners
      BY DEF Owned
    <3>4. active_deduplication_id(owner, t) = job_deduplication_id(owner)
      BY <3>3 DEF active_deduplication_id
    <3> QED
      BY <2>5, <2>6, <2>7, <3>2, <3>3, <3>4 DEF Owned
  <2> QED
    BY <2>6, <2>7, <2>9, <2>10 DEF b
<1> QED
  BY <1>3, <1>4

\* Extending the TTL of an owner.
LEMMA ExtendSound ==
    ASSUME NEW t \in Nat, NEW st, Sound(st, t), NEW candidate \in Job,
           NEW e \in JobIds, st.jobs[e] # None, Owned(st, e, t) # None
    PROVE  LET b == extend_deduplication_expiration_locked(st, candidate, e, t) IN
           Sound(b, t) /\ Orderly({}, st, b)
<1> DEFINE owner == st.jobs[e]
           x == deduplication_expiration(candidate.options, t)
           later == [owner EXCEPT !.deduplication_expires_at = x]
           b == extend_deduplication_expiration_locked(st, candidate, e, t)
<1>1. WellLocked(st) /\ st \in State /\ owner \in Job /\ GoodParked(st)
  BY Numbers DEF Sound
<1>2. CASE ~deduplication_extends_ttl(candidate)
  BY <1>1, <1>2, OrderlyReflexive DEF extend_deduplication_expiration_locked
<1>3. CASE deduplication_extends_ttl(candidate)
  <2>1. b = [st EXCEPT !.jobs[e] = later]
    BY <1>3 DEF extend_deduplication_expiration_locked
  <2>2. WellLocked(b)
    BY <1>1, ExtendGentle, ChangeWellLocked DEF Gentle
  <2>3. x \in Nat \cup {None}
    <3>1. candidate.options \in JobOptions
      BY DEF Job
    <3> QED
      BY <3>1, ExpirationType
  <2> HIDE DEF x
  <2>4. /\ later \in Job /\ later.options = owner.options /\ later.state = owner.state
        /\ later.enqueued_seq = owner.enqueued_seq
        /\ later.repeat_count = owner.repeat_count /\ later.finished_at = owner.finished_at
        /\ later.processed_at = owner.processed_at
    BY <1>1, <2>3 DEF Job
  <2> HIDE DEF later, b
  <2>5. /\ b.sequence = st.sequence /\ b.deduplication_next = st.deduplication_next
        /\ b.released_deduplication_owners = st.released_deduplication_owners
        /\ b.jobs[e] = later /\ \A k \in JobIds \ {e} : b.jobs[k] = st.jobs[k]
    BY <1>1, <2>1 DEF State, InMemoryJobQueueState
  <2>6. later # None /\ GoodParked(b)
    BY <1>1, <2>4, <2>5, NoneAssumption DEF GoodParked
  <2> QED
    BY <1>1, <2>2, <2>4, <2>5, <2>6, ExpirySound DEF b
<1> QED
  BY <1>2, <1>3

\* The repeat key of a job is that of its options.
LEMMA KeyOfOptions ==
    ASSUME NEW job \in Job
    PROVE  /\ repeat_key(job) = SeriesKey(job.options)
           /\ repeat_key(job) # None <=> job.options.repeat # None
BY NoneAssumption DEF repeat_key, SeriesKey, Job, JobOptions, RepeatOptions

\* Turning the parked duplicate of a finished owner into a job, when the owner's series has no
\* other live job.
LEMMA EnqueueNextSound ==
    ASSUME NEW t \in Nat, NEW st, Sound(st, t), NEW owner \in Job, Sourced(owner),
           SameKey => \/ repeat_key(owner) = None
                      \/ \A k \in JobIds : LiveKey(st.jobs[k]) # repeat_key(owner)
    PROVE  LET b == enqueue_deduplicated_next_locked(st, owner, t) IN
           /\ Sound(b, t) /\ Orderly({}, st, b)
           /\ ~enqueues_deduplicated_next(st, owner) => b.jobs = st.jobs
<1> DEFINE d == job_deduplication_id(owner)
           parked == st.deduplication_next[d]
           taken == [st EXCEPT !.deduplication_next[d] = None]
           next == prepare_deduplicated_next_job(parked, t)
           counted == IF repeat_key(owner) = None THEN next
                      ELSE [next EXCEPT !.repeat_count = owner.repeat_count + 1]
           b == enqueue_deduplicated_next_locked(st, owner, t)
<1>1. WellLocked(st) /\ st \in State
  BY Numbers DEF Sound
<1>2. CASE d = None
  BY <1>1, <1>2, OrderlyReflexive DEF enqueue_deduplicated_next_locked
<1>3. CASE d # None
  <2>1. d \in DedupIds /\ owner.options.deduplication # None /\ d = owner.options.deduplication.id
    BY <1>3 DEF job_deduplication_id, Job, JobOptions, DeduplicationOptions
  <2>2. /\ taken \in State /\ taken.jobs = st.jobs /\ taken.sequence = st.sequence
        /\ taken.released_deduplication_owners = st.released_deduplication_owners
        /\ taken.deduplication_next = [st.deduplication_next EXCEPT ![d] = None]
    BY <1>1, <2>1 DEF State, InMemoryJobQueueState
  <2>3. Sound(taken, t) /\ Orderly({}, st, taken)
    <3> HIDE DEF taken
    <3>1. WellLocked(taken)
      BY <1>1, <2>2 DEF WellLocked
    <3>2. \A x \in DedupIds : \/ taken.deduplication_next[x] = None
                              \/ taken.deduplication_next[x] = st.deduplication_next[x]
      BY <1>1, <2>2 DEF State, InMemoryJobQueueState
    <3>3. Thinned(st, taken, t)
      BY <2>2, <3>2 DEF Thinned, Owned
    <3> QED
      BY <3>1, <3>3, ThinSound
  <2>4. CASE ~enqueues_deduplicated_next(st, owner)
    BY <1>3, <2>2, <2>3, <2>4 DEF enqueue_deduplicated_next_locked
  <2>5. CASE enqueues_deduplicated_next(st, owner)
    <3>1. /\ parked # None /\ parked \in Job /\ st.jobs[parked.id] = None
          /\ keep_last_continues(owner, parked)
      BY <1>1, <2>1, <2>5 DEF enqueues_deduplicated_next, State, InMemoryJobQueueState
    <3>2. /\ Sourced(parked) /\ parked.options.deduplication # None
          /\ parked.options.deduplication.id = d
          /\ parked.options.deduplication.keep_last_if_active
      BY <2>1, <3>1 DEF Sound, GoodParked
    <3>3. parked.id \in JobIds /\ parked.options \in JobOptions
      BY <3>1 DEF Job
    <3>4. /\ next \in Job /\ next.id = parked.id /\ Free(next) /\ Ready(next)
          /\ Sourced(next) /\ Limited(next) /\ next.options = parked.options
      <4>1. \E o \in Options : /\ o.deduplication = parked.options.deduplication
                               /\ o.repeat = parked.options.repeat
        BY <3>2 DEF Sourced
      <4> QED
        BY <3>3, <4>1, NewJob, NewRecord DEF prepare_deduplicated_next_job
    <3>5. owner.repeat_count + 1 \in Nat
      BY DEF Job
    <3> HIDE DEF next
    <3>6. /\ counted \in Job /\ counted.id = parked.id /\ Free(counted) /\ Ready(counted)
          /\ counted.options = parked.options
          /\ repeat_key(owner) = None => counted = next
          /\ repeat_key(owner) # None => counted.repeat_count = owner.repeat_count + 1
      BY <3>4, <3>5, NoneAssumption DEF Job, Free, Ready
    <3> HIDE DEF counted, parked
    <3>7. Sourced(counted)
      BY <3>2, <3>6 DEF Sourced
    <3>8. PICK o \in Options : /\ o.deduplication = parked.options.deduplication
                               /\ o.repeat = parked.options.repeat
      BY <3>2 DEF Sourced
    <3>9. PICK p \in Options : /\ p.deduplication = owner.options.deduplication
                               /\ p.repeat = owner.options.repeat
      BY DEF Sourced
    <3>10. /\ SharesId(p, o) /\ SeriesKey(o) = SeriesKey(parked.options)
           /\ SeriesKey(p) = SeriesKey(owner.options)
      BY <2>1, <3>2, <3>8, <3>9 DEF SharesId, SeriesKey
    <3>11. Limited(counted)
      <4>1. CASE repeat_key(owner) = None
        BY <3>4, <3>6, <4>1
      <4>2. CASE repeat_key(owner) # None
        <5>1. repeat_key(parked) = repeat_key(owner) /\ repeat_within_limit(owner)
          BY <3>1, <4>2 DEF keep_last_continues
        <5>2. SeriesKey(p) # None /\ SeriesKey(p) = SeriesKey(o)
          BY <3>1, <3>10, <4>2, <5>1, KeyOfOptions
        <5>3. SameLimit => p.repeat.limit = o.repeat.limit
          BY <3>10, <5>2 DEF SameLimit
        <5> QED
          BY <3>6, <3>8, <3>9, <4>2, <5>1, <5>3 DEF Limited, repeat_within_limit
      <4> QED
        BY <4>1, <4>2
    <3>12. NoRival(taken, counted, t)
      <4>1. SameKey => repeat_key(owner) = repeat_key(counted)
        BY <3>6, <3>10, KeyOfOptions DEF SameKey
      <4>2. active_repeat_key(counted) = repeat_key(counted)
        BY <3>6 DEF active_repeat_key, Ready, Terminal
      <4>3. ~SimpleIds
        BY <3>2, <3>8 DEF SimpleIds
      <4> QED
        BY <2>2, <4>1, <4>2, <4>3 DEF NoRival
    <3> DEFINE c == insert_job(forget_released_deduplication_owner_locked(taken, counted), counted)
    <3>13. b = c
      BY <1>3, <2>5 DEF enqueue_deduplicated_next_locked, counted, next, parked
    <3> HIDE DEF taken
    <3>14. taken.jobs[counted.id] = None
      BY <2>2, <3>1, <3>6
    <3>15. Sound(c, t) /\ Orderly({}, taken, c)
      BY <2>3, <3>6, <3>7, <3>11, <3>12, <3>14, InsertSound
    <3>16. Orderly({}, st, c)
      BY <2>3, <3>15, OrderlyTransitive DEF Sound
    <3> QED
      BY <2>5, <3>13, <3>15, <3>16
  <2> QED
    BY <2>4, <2>5
<1> QED
  BY <1>2, <1>3

-----------------------------------------------------------------------------
(***************************************************************************)
(* Ranks.                                                                  *)
(***************************************************************************)
\* The places in a finite set that is ordered one way are all different.
LEMMA RanksDistinct ==
    ASSUME NEW S, IsFiniteSet(S), NEW ahead,
           \A j \in S : ahead[j] \subseteq S /\ j \notin ahead[j],
           \A j, k \in S : j # k => \/ j \in ahead[k] /\ ahead[j] \subseteq ahead[k]
                                    \/ k \in ahead[j] /\ ahead[k] \subseteq ahead[j]
    PROVE  /\ \A j \in S : /\ Cardinality(ahead[j]) \in Nat
                           /\ Cardinality(ahead[j]) < Cardinality(S)
           /\ \A j, k \in S : Cardinality(ahead[j]) = Cardinality(ahead[k]) => j = k
<1>1. ASSUME NEW j \in S
      PROVE  /\ IsFiniteSet(ahead[j]) /\ Cardinality(ahead[j]) \in Nat
             /\ Cardinality(ahead[j]) < Cardinality(S)
  <2>1. IsFiniteSet(ahead[j]) /\ Cardinality(ahead[j]) <= Cardinality(S)
        /\ Cardinality(ahead[j]) # Cardinality(S)
    BY <1>1, FS_Subset
  <2>2. Cardinality(ahead[j]) \in Nat /\ Cardinality(S) \in Nat
    BY <2>1, FS_CardinalityType
  <2> QED
    BY <2>1, <2>2
<1>2. ASSUME NEW j \in S, NEW k \in S, j \in ahead[k], ahead[j] \subseteq ahead[k]
      PROVE  Cardinality(ahead[j]) # Cardinality(ahead[k])
  BY <1>1, <1>2, FS_Subset
<1> QED
  BY <1>1, <1>2

\* The order of promotion: due time, creation time and id leave no tie.
LEMMA DueOrder ==
    ASSUME NEW a \in Job, NEW b \in Job, a.id # b.id
    PROVE  /\ ~DueBefore(a, a)
           /\ DueBefore(a, b) \/ DueBefore(b, a)
           /\ \A c \in Job : DueBefore(c, a) /\ DueBefore(a, b) => DueBefore(c, b)
           /\ \A c \in Job : DueBefore(c, b) /\ DueBefore(b, a) => DueBefore(c, a)
<1>1. \A x \in Job : x.scheduled_at \in Nat /\ x.created_at \in Nat /\ x.id \in Nat
  BY JobIdsAssumption DEF Job
<1> QED
  BY <1>1 DEF DueBefore

\* What promotion changes.
LEMMA PromoteFields ==
    ASSUME NEW st, WellLocked(st), NEW t \in Nat
    PROVE  LET b == promote_due_locked(st, t)
               due == due_jobs(st, t)
               rank(j) == Cardinality({k \in due : DueBefore(st.jobs[k], st.jobs[j])})
           IN  /\ b.sequence = st.sequence + Cardinality(due)
               /\ b.deduplication_next = st.deduplication_next
               /\ b.released_deduplication_owners = st.released_deduplication_owners
               /\ \A j \in JobIds \ due : b.jobs[j] = st.jobs[j]
               /\ \A j \in due :
                    /\ b.jobs[j] \in Job /\ b.jobs[j].state = "Waiting"
                    /\ b.jobs[j].enqueued_seq = st.sequence + rank(j) + 1
                    /\ b.jobs[j].options = st.jobs[j].options
                    /\ b.jobs[j].repeat_count = st.jobs[j].repeat_count
                    /\ b.jobs[j].deduplication_expires_at = st.jobs[j].deduplication_expires_at
<1> DEFINE due == due_jobs(st, t)
           rank(j) == Cardinality({k \in due : DueBefore(st.jobs[k], st.jobs[j])})
           seq(j) == st.sequence + rank(j) + 1
           promoted(j) == [st.jobs[j] EXCEPT !.state = "Waiting", !.enqueued_seq = seq(j)]
           table == [j \in JobIds |-> IF j \in due THEN promoted(j) ELSE st.jobs[j]]
           n == st.sequence + Cardinality(due)
           b == promote_due_locked(st, t)
<1>1. st \in State /\ st.sequence \in Nat /\ due \subseteq JobIds
  BY Numbers DEF due_jobs, InState, Present
<1>2. \A j \in due : st.jobs[j] \in Job /\ seq(j) \in Nat
  <2> TAKE j \in due
  <2>1. rank(j) \in Nat
    BY <1>1, JobIdsCardinality
  <2>2. st.jobs[j] \in Job
    BY <1>1, Numbers DEF due_jobs, InState, Present
  <2> QED
    BY <1>1, <2>1, <2>2
<1>3. b = [st EXCEPT !.sequence = n, !.jobs = table]
  BY DEF promote_due_locked
<1> HIDE DEF n
<1>4. \A j \in due :
        /\ promoted(j) \in Job /\ promoted(j).state = "Waiting"
        /\ promoted(j).enqueued_seq = seq(j)
        /\ promoted(j).options = st.jobs[j].options
        /\ promoted(j).repeat_count = st.jobs[j].repeat_count
        /\ promoted(j).deduplication_expires_at = st.jobs[j].deduplication_expires_at
  <2> HIDE DEF seq, due
  <2> QED
    BY <1>2 DEF Job, JobState
<1>5. /\ b.sequence = n /\ b.jobs = table
      /\ b.deduplication_next = st.deduplication_next
      /\ b.released_deduplication_owners = st.released_deduplication_owners
  <2> HIDE DEF table
  <2> QED
    BY <1>1, <1>3 DEF State, InMemoryJobQueueState
<1>6. /\ \A j \in JobIds \ due : b.jobs[j] = st.jobs[j]
      /\ \A j \in due : b.jobs[j] = promoted(j)
  <2> HIDE DEF promoted, due
  <2> QED
    BY <1>1, <1>5
<1> HIDE DEF promoted, b
<1> QED
  BY <1>4, <1>5, <1>6 DEF n, b

\* Promotion gives every due job a number of its own behind all others.
LEMMA PromoteDueSound ==
    ASSUME NEW t \in Nat, NEW st, Sound(st, t)
    PROVE  LET b == promote_due_locked(st, t) IN Sound(b, t) /\ Orderly({}, st, b)
<1> DEFINE due == due_jobs(st, t)
           ahead == [j \in due |-> {k \in due : DueBefore(st.jobs[k], st.jobs[j])}]
           b == promote_due_locked(st, t)
<1>1. /\ WellLocked(st) /\ st \in State /\ st.sequence \in Nat
      /\ due \subseteq JobIds /\ IsFiniteSet(due) /\ Cardinality(due) \in Nat
  BY Numbers, JobIdsCardinality DEF due_jobs, InState, Present, Sound
<1>2. WellLocked(b)
  BY <1>1, PromoteDueGentle, ChangeWellLocked DEF Gentle
<1>3. /\ b.sequence = st.sequence + Cardinality(due)
      /\ b.deduplication_next = st.deduplication_next
      /\ b.released_deduplication_owners = st.released_deduplication_owners
      /\ \A j \in JobIds \ due : b.jobs[j] = st.jobs[j]
  BY <1>1, PromoteFields
<1>4. \A j \in due :
        /\ b.jobs[j] # None /\ b.jobs[j].state = "Waiting"
        /\ b.jobs[j].enqueued_seq = st.sequence + Cardinality(ahead[j]) + 1
        /\ b.jobs[j].options = st.jobs[j].options
        /\ b.jobs[j].repeat_count = st.jobs[j].repeat_count
        /\ b.jobs[j].deduplication_expires_at = st.jobs[j].deduplication_expires_at
  <2> TAKE j \in due
  <2>1. ahead[j] = {k \in due : DueBefore(st.jobs[k], st.jobs[j])}
    OBVIOUS
  <2>2. b.jobs[j] \in Job
    BY <1>1, PromoteFields
  <2>3. b.jobs[j] # None
    BY <2>2, NoneAssumption
  <2>4. b.jobs[j].enqueued_seq
           = st.sequence + Cardinality({k \in due : DueBefore(st.jobs[k], st.jobs[j])}) + 1
    BY <1>1, PromoteFields
  <2>5. b.jobs[j].state = "Waiting"
    <3>1. WellLocked(st) /\ j \in due_jobs(st, t)
      BY <1>1
    <3> QED
      BY <3>1, PromoteFields, Zenon
  <2>6. b.jobs[j].options = st.jobs[j].options
    BY <1>1, PromoteFields
  <2>7. b.jobs[j].repeat_count = st.jobs[j].repeat_count
    BY <1>1, PromoteFields
  <2>8. b.jobs[j].deduplication_expires_at = st.jobs[j].deduplication_expires_at
    BY <1>1, PromoteFields
  <2> QED
    BY <2>1, <2>3, <2>4, <2>5, <2>6, <2>7, <2>8
<1>5. \A j \in due : st.jobs[j] \in Job /\ st.jobs[j] # None /\ st.jobs[j].id = j
                     /\ st.jobs[j].state = "Delayed"
  BY <1>1, Numbers DEF due_jobs, InState, Present
<1>6. /\ \A j \in due : Cardinality(ahead[j]) \in Nat /\ Cardinality(ahead[j]) < Cardinality(due)
      /\ \A j, k \in due : Cardinality(ahead[j]) = Cardinality(ahead[k]) => j = k
  <2>1. \A j \in due : ahead[j] \subseteq due /\ j \notin ahead[j]
    <3>1. \A j \in due : ~DueBefore(st.jobs[j], st.jobs[j])
      <4>1. \A j \in due : st.jobs[j].scheduled_at \in Nat /\ st.jobs[j].created_at \in Nat
                           /\ st.jobs[j].id \in Nat
        BY <1>5, JobIdsAssumption DEF Job
      <4> QED
        BY <4>1 DEF DueBefore
    <3> QED
      BY <3>1
  <2>2. \A j, k \in due : j # k => \/ j \in ahead[k] /\ ahead[j] \subseteq ahead[k]
                                   \/ k \in ahead[j] /\ ahead[k] \subseteq ahead[j]
    BY <1>5, DueOrder
  <2> HIDE DEF ahead, due
  <2> QED
    BY <1>1, <2>1, <2>2, RanksDistinct
<1> HIDE DEF b, due, ahead
<1>7. st.sequence <= b.sequence /\ \A j \in due : Later(st, b, j)
  BY <1>1, <1>3, <1>4, <1>6 DEF Later
<1>8. Orderly({}, st, b)
  <2>1. \A j \in JobIds : Waits(b, j) => Stays(st, b, j) \/ Later(st, b, j)
    BY <1>3, <1>7 DEF Waits, Stays
  <2>2. \A j \in JobIds : Ended(b, j) => b.jobs[j] = st.jobs[j]
    BY <1>3, <1>4 DEF Ended, Terminal
  <2> QED
    BY <1>7, <2>1, <2>2 DEF Orderly, Ended
<1>9. Numbered(b)
  <2>1. \A j \in JobIds : Waits(b, j) /\ Later(st, b, j) => j \in due
    <3> TAKE j \in JobIds
    <3>1. HAVE Waits(b, j) /\ Later(st, b, j)
    <3>2. SUFFICES ASSUME j \notin due PROVE FALSE
      OBVIOUS
    <3>3. Waits(st, j) /\ b.jobs[j].enqueued_seq = st.jobs[j].enqueued_seq
      BY <1>3, <3>1, <3>2 DEF Waits
    <3>4. st.jobs[j].enqueued_seq <= st.sequence /\ st.jobs[j].enqueued_seq \in Nat
      BY <1>1, <3>3, Numbers DEF Sound, Numbered, Waits
    <3> QED
      BY <1>1, <3>1, <3>3, <3>4 DEF Later
  <2>2. \A j, k \in due : b.jobs[j].enqueued_seq = b.jobs[k].enqueued_seq => j = k
    BY <1>1, <1>4, <1>6
  <2> QED
    BY <1>1, <1>2, <1>8, <2>1, <2>2, OrderlyNumbered DEF Sound
<1>10. GoodTable(b) /\ GoodParked(b)
  <2>1. \A j \in due : GoodRecord(b.jobs[j])
    <3> TAKE j \in due
    <3>1. GoodRecord(st.jobs[j])
      BY <1>1, <1>5 DEF Sound, GoodTable
    <3> QED
      BY <1>4, <3>1 DEF GoodRecord, Sourced, Limited, Terminal
  <2> QED
    BY <1>3, <2>1 DEF Sound, GoodTable, GoodParked
<1>11. \A j \in JobIds : LiveKey(b.jobs[j]) = LiveKey(st.jobs[j])
  <2>1. \A j \in due : LiveKey(b.jobs[j]) = LiveKey(st.jobs[j])
    BY <1>4, <1>5 DEF LiveKey, active_repeat_key, repeat_key, Terminal
  <2> QED
    BY <1>3, <2>1
<1>12. \A j \in JobIds : Owned(b, j, t) = Owned(st, j, t)
  <2>1. \A j \in due : Owned(b, j, t) = Owned(st, j, t)
    <3> TAKE j \in due
    <3>1. active_deduplication_id(b.jobs[j], t) = active_deduplication_id(st.jobs[j], t)
      BY <1>4, <1>5 DEF active_deduplication_id, job_deduplication_id, Terminal
    <3> QED
      BY <1>3, <1>4, <1>5, <3>1 DEF Owned
  <2>2. \A j \in JobIds \ due : Owned(b, j, t) = Owned(st, j, t)
    BY <1>3 DEF Owned
  <2> QED
    BY <2>1, <2>2
<1>13. OneLive(b) /\ OneOwner(b, t)
  BY <1>11, <1>12 DEF Sound, OneLive, OneOwner
<1> QED
  BY <1>2, <1>8, <1>9, <1>10, <1>13 DEF Sound, b

-----------------------------------------------------------------------------
(***************************************************************************)
(* Retention.                                                              *)
(***************************************************************************)
\* FirstOf takes at most n when no two members have the same place.
LEMMA FirstOfBounded ==
    ASSUME NEW S, IsFiniteSet(S), NEW n \in Nat, NEW ahead,
           \A j \in S : j \notin ahead[j],
           \A j, k \in S : j # k =>
               \/ j \in ahead[k] /\ S \cap ahead[j] \subseteq ahead[k]
               \/ k \in ahead[j] /\ S \cap ahead[k] \subseteq ahead[j]
    PROVE  Cardinality(FirstOf(S, n, ahead)) <= n
<1> DEFINE before == [j \in S |-> S \cap ahead[j]]
           first == FirstOf(S, n, ahead)
           f == [j \in first |-> Cardinality(S \cap ahead[j])]
<1>1. /\ \A j \in S : before[j] \subseteq S /\ j \notin before[j]
      /\ \A j, k \in S : j # k => \/ j \in before[k] /\ before[j] \subseteq before[k]
                                  \/ k \in before[j] /\ before[k] \subseteq before[j]
  OBVIOUS
<1>2. \A j \in S : before[j] = S \cap ahead[j]
  OBVIOUS
<1> HIDE DEF before
<1>3. /\ \A j \in S : Cardinality(before[j]) \in Nat
      /\ \A j, k \in S : Cardinality(before[j]) = Cardinality(before[k]) => j = k
  BY <1>1, RanksDistinct
<1>4. /\ first \subseteq S
      /\ \A j \in first : Cardinality(S \cap ahead[j]) < n
  BY DEF FirstOf
<1> HIDE DEF first
<1>5. f \in [first -> 0 .. n - 1] /\ \A j, k \in first : f[j] = f[k] => j = k
  <2>1. \A j \in first : /\ f[j] = Cardinality(before[j])
                          /\ Cardinality(before[j]) \in 0 .. n - 1
    <3> TAKE j \in first
    <3>1. before[j] = S \cap ahead[j]
      BY <1>2, <1>4
    <3>2. f[j] = Cardinality(before[j])
      BY <3>1
    <3>3. Cardinality(before[j]) \in Nat
      BY <1>3, <1>4
    <3>4. Cardinality(before[j]) < n
      BY <1>4, <3>1
    <3> QED
      BY <3>2, <3>3, <3>4
  <2>2. \A j \in first : f[j] \in 0 .. n - 1
    BY <2>1
  <2>3. f \in [first -> 0 .. n - 1]
    BY <2>2
  <2> HIDE DEF f
  <2> QED
    BY <1>3, <1>4, <2>1, <2>3
<1> HIDE DEF f
<1>6. f \in Injection(first, 0 .. n - 1)
  BY <1>5 DEF Injection, IsInjective
<1>7. IsFiniteSet(0 .. n - 1) /\ Cardinality(0 .. n - 1) = n
  BY FS_Interval
<1> QED
  BY <1>6, <1>7, FS_Injection DEF first

\* Finishing times and ids leave no tie.
LEMMA NewestOrder ==
    ASSUME NEW st, NEW j \in JobIds, NEW k \in JobIds, j # k,
           st.jobs[j].finished_at \in Nat, st.jobs[k].finished_at \in Nat
    PROVE  /\ ~NewestFirst(st, j, j)
           /\ NewestFirst(st, j, k) \/ NewestFirst(st, k, j)
           /\ \A i \in JobIds : /\ st.jobs[i].finished_at \in Nat
                                /\ NewestFirst(st, i, j) /\ NewestFirst(st, j, k)
                                => NewestFirst(st, i, k)
<1>1. \A i \in JobIds : i \in Nat
  BY JobIdsAssumption
<1> QED
  BY <1>1 DEF NewestFirst

\* A retention that is applied to the finished jobs of a state leaves no more than it keeps.
LEMMA RetentionCaps ==
    ASSUME NEW t, NEW st, Sound(st, t), NEW state \in Terminal,
           NEW retention \in JobRetention, retention.count # None
    PROVE  LET b == apply_finished_retention_locked(st, state, retention, t) IN
           Cardinality(InState(b, state)) <= retention.count
<1> DEFINE finished == {j \in InState(st, state) : st.jobs[j].finished_at # None}
           newer == [j \in finished |-> {k \in finished : NewestFirst(st, k, j)}]
           aged == {j \in finished : retention.age > 0
                                     /\ st.jobs[j].finished_at <= t - retention.age}
           expired == FirstOf(aged, retention.limit, newer)
           left == finished \ expired
           b == apply_finished_retention_locked(st, state, retention, t)
<1>1. retention.count \in Nat
  BY DEF JobRetention
<1>2. WellLocked(st) /\ st \in State
  BY Numbers DEF Sound
<1>3. finished = InState(st, state) /\ finished \subseteq JobIds
  BY DEF Sound, GoodTable, GoodRecord, InState, Present
<1>4. \A j \in finished : st.jobs[j].finished_at \in Nat
  BY <1>2, Numbers DEF InState, Present, Job
<1>5. pruned(st, state, retention, t)
        = expired \cup (left \ FirstOf(left, retention.count, newer))
  BY DEF pruned
<1>6. InState(b, state) \subseteq InState(st, state) \ pruned(st, state, retention, t)
  <2> DEFINE S == pruned(st, state, retention, t)
  <2> HIDE DEF S
  <2>1. b = remove_job_records(st, S)
    BY DEF apply_finished_retention_locked, S
  <2> HIDE DEF b
  <2>2. \A j \in JobIds : b.jobs[j] = IF j \in S THEN None ELSE st.jobs[j]
    BY <1>2, <2>1 DEF remove_job_records, State, InMemoryJobQueueState
  <2> QED
    BY <2>2 DEF InState, Present, S
<1>7. \A j \in left : newer[j] = {k \in finished : NewestFirst(st, k, j)}
  OBVIOUS
<1>8. left \subseteq finished /\ left \subseteq JobIds /\ IsFiniteSet(left)
  BY <1>3, JobIdsCardinality
<1> HIDE DEF b, newer, expired
<1>9. /\ \A j \in left : j \notin newer[j]
      /\ \A j, k \in left : j # k =>
               \/ j \in newer[k] /\ left \cap newer[j] \subseteq newer[k]
               \/ k \in newer[j] /\ left \cap newer[k] \subseteq newer[j]
  <2>1. \A j \in left : ~NewestFirst(st, j, j)
    <3>1. \A j \in left : st.jobs[j].finished_at \in Nat /\ j \in Nat
      BY <1>4, <1>8, JobIdsAssumption
    <3> QED
      BY <3>1 DEF NewestFirst
  <2>2. ASSUME NEW j \in left, NEW k \in left, j # k, NewestFirst(st, j, k)
        PROVE  j \in newer[k] /\ newer[j] \subseteq newer[k]
    BY <1>3, <1>4, <1>7, <1>8, <2>2, NewestOrder
  <2>3. \A j, k \in left : j # k => NewestFirst(st, j, k) \/ NewestFirst(st, k, j)
    BY <1>4, <1>8, NewestOrder
  <2> HIDE DEF left
  <2> QED
    BY <1>7, <2>1, <2>2, <2>3
<1> DEFINE first == FirstOf(left, retention.count, newer)
<1>10. Cardinality(first) <= retention.count
  <2> HIDE DEF left
  <2> QED
    BY <1>1, <1>8, <1>9, FirstOfBounded
<1>11. InState(b, state) \subseteq first
  BY <1>3, <1>5, <1>6
<1>12. first \subseteq JobIds
  BY <1>8 DEF FirstOf
<1> HIDE DEF first
<1>13. Cardinality(InState(b, state)) <= Cardinality(first) /\ Cardinality(first) \in Nat
       /\ Cardinality(InState(b, state)) \in Nat
  BY <1>11, <1>12, FS_Subset, JobIdsCardinality DEF InState, Present
<1>14. Cardinality(InState(b, state)) <= retention.count
  BY <1>1, <1>10, <1>13
<1> QED
  BY <1>14 DEF b

\* A sound table has no more finished jobs after an orderly change than before.
LEMMA OrderlyFewer ==
    ASSUME NEW a, NEW b, Orderly({}, a, b), NEW state \in Terminal
    PROVE  /\ InState(b, state) \subseteq InState(a, state)
           /\ Cardinality(InState(b, state)) <= Cardinality(InState(a, state))
           /\ Cardinality(InState(b, state)) \in Nat /\ Cardinality(InState(a, state)) \in Nat
<1>1. InState(b, state) \subseteq InState(a, state)
  BY DEF Orderly, Ended, InState, Present
<1>2. InState(a, state) \subseteq JobIds
  BY DEF InState, Present
<1> QED
  BY <1>1, <1>2, FS_Subset, JobIdsCardinality

\* As many jobs are kept in the state of job j as it asks for, if it asks.
Capped(st, j) ==
    LET retention == Keeps(st.jobs[j]) IN
    retention # None => \/ retention.count = None
                        \/ Cardinality(InState(st, st.jobs[j].state)) <= retention.count

\* What the policy of a finished job does keeps the table sound, and if it keeps the job it
\* keeps no more than the policy says.
LEMMA RetainSound ==
    ASSUME NEW t, NEW st, Sound(st, t), NEW job \in Job, job.state \in Terminal,
           st.jobs[job.id] = job
    PROVE  LET b == retain_finished(st, job, Keeps(job), t) IN
           /\ Sound(b, t) /\ Orderly({}, st, b)
           /\ \A k \in JobIds : b.jobs[k] = None \/ b.jobs[k] = st.jobs[k]
           /\ b.jobs[job.id] # None => Capped(b, job.id)
<1> DEFINE retention == Keeps(job)
           j == job.id
           b == retain_finished(st, job, retention, t)
<1>1. WellLocked(st) /\ st \in State /\ j \in JobIds /\ job # None
  BY Numbers, NoneAssumption DEF Sound, Job
<1>2. retention \in JobRetention \cup {None}
  BY DEF Keeps, Job, JobOptions
<1> HIDE DEF retention
<1>3. CASE retention = None
  BY <1>1, <1>3, OrderlyReflexive DEF retain_finished, Capped, retention
<1>4. CASE retention # None /\ retention.count = 0
  <2>1. b = remove_job_records(st, {j})
    BY <1>1, <1>4, RemoveRecordIsSet DEF retain_finished
  <2>2. \A x \in {j} \cap JobIds : ~Held(st.jobs[x])
    BY DEF Held, Terminal
  <2>3. \A k \in JobIds : b.jobs[k] = IF k \in {j} THEN None ELSE st.jobs[k]
    BY <1>1, <2>1 DEF remove_job_records, State, InMemoryJobQueueState
  <2>4. Sound(b, t) /\ Orderly({}, st, b)
    BY <2>1, <2>2, RemoveRecordsSound
  <2> HIDE DEF b
  <2>5. b.jobs[j] = None
    BY <1>1, <2>3
  <2> QED
    BY <2>3, <2>4, <2>5 DEF b, retention
<1>5. CASE retention # None /\ retention.count # 0
  <2> DEFINE S == pruned(st, job.state, retention, t)
  <2>1. b = apply_finished_retention_locked(st, job.state, retention, t)
    BY <1>5 DEF retain_finished
  <2>2. b = remove_job_records(st, S)
    BY <2>1 DEF apply_finished_retention_locked
  <2>3. \A x \in S \cap JobIds : ~Held(st.jobs[x])
    BY PrunedInState DEF InState, Held, Terminal
  <2> HIDE DEF S
  <2>4. Sound(b, t) /\ Orderly({}, st, b)
    BY <2>2, <2>3, RemoveRecordsSound
  <2>5. \A k \in JobIds : b.jobs[k] = IF k \in S THEN None ELSE st.jobs[k]
    BY <1>1, <2>2 DEF remove_job_records, State, InMemoryJobQueueState
  <2>6. b.jobs[j] # None => b.jobs[j] = job
    BY <1>1, <2>5
  <2>7. retention.count = None \/ Cardinality(InState(b, job.state)) <= retention.count
    BY <1>2, <1>5, <2>1, RetentionCaps
  <2> HIDE DEF b
  <2>8. b.jobs[j] # None => Capped(b, j)
    BY <2>6, <2>7 DEF Capped, retention
  <2> QED
    BY <2>4, <2>5, <2>8 DEF b, retention
<1> QED
  BY <1>3, <1>4, <1>5

\* A cap survives orderly changes.
LEMMA CapStays ==
    ASSUME NEW a, NEW b, Orderly({}, a, b), NEW j \in JobIds, Ended(b, j),
           a \in State, Capped(a, j)
    PROVE  Capped(b, j)
<1> DEFINE state == a.jobs[j].state
           retention == Keeps(a.jobs[j])
<1>1. /\ Ended(a, j) /\ b.jobs[j].state = state /\ Keeps(b.jobs[j]) = retention
      /\ state \in Terminal
  BY DEF Orderly, Ended
<1>2. /\ Cardinality(InState(b, state)) <= Cardinality(InState(a, state))
      /\ Cardinality(InState(b, state)) \in Nat /\ Cardinality(InState(a, state)) \in Nat
  BY <1>1, OrderlyFewer
<1>3. retention \in JobRetention \cup {None}
  BY <1>1 DEF Ended, Keeps, State, InMemoryJobQueueState, Job, JobOptions
<1>4. retention # None /\ retention.count # None => retention.count \in Nat
  BY <1>3 DEF JobRetention
<1> HIDE DEF state, retention
<1>5. retention # None => \/ retention.count = None
                          \/ Cardinality(InState(a, state)) <= retention.count
  BY DEF Capped, state, retention
<1> QED
  BY <1>1, <1>2, <1>4, <1>5 DEF Capped

-----------------------------------------------------------------------------
(***************************************************************************)
(* What each operation does to the table.                                  *)
(***************************************************************************)
\* The jobs that a recovery in progress has still to settle.
Settling == {job.id : job \in todo}

\* They are not repeating, and those still in the table have failed and await their retention.
TodoInv ==
    \A job \in todo :
        /\ Sourced(job) /\ repeat_key(job) = None
        /\ Ended(inner, job.id) =>
            /\ inner.jobs[job.id].state = "Failed"
            /\ Keeps(inner.jobs[job.id]) = job.options.failure_retention
            /\ ~removes_failed_immediately(job)

\* The finished jobs that ask for n of their kind to be kept are at most n.
Kept(state, n) ==
    {j \in InState(inner, state) : /\ Keeps(inner.jobs[j]) # None
                                   /\ Keeps(inner.jobs[j]).count = n}

Retained == \A state \in Terminal, n \in Nat : Cardinality(Kept(state, n) \ Settling) <= n

TableInv == Sound(inner, now) /\ TodoInv /\ Retained

\* A step that ends the leases of S: every other waiting job keeps its place or takes one
\* behind, and a job that finishes is capped once it is settled.
Tidy(S) ==
    /\ \A j \in S : Held(inner.jobs[j])
    /\ Orderly(S, inner, inner')
    /\ Sound(inner', now')
    /\ TodoInv'
    /\ \A j \in JobIds : Ended(inner', j) /\ j \notin Settling' =>
        Capped(inner', j) \/ (j \notin S /\ j \notin Settling)

\* A tidy step keeps the invariant.
LEMMA TidyKeepsInv ==
    ASSUME TableInv, NEW S, Tidy(S), WellLocked(inner')
    PROVE  TableInv'
<1> SUFFICES ASSUME NEW state \in Terminal, NEW n \in Nat
             PROVE  Cardinality(Kept(state, n)' \ Settling') <= n
  BY DEF TableInv, Tidy, Retained
<1> DEFINE b == Kept(state, n)' \ Settling'
           a == Kept(state, n) \ Settling
<1>1. /\ b \subseteq JobIds /\ b \subseteq InState(inner', state)
      /\ IsFiniteSet(InState(inner', state)) /\ IsFiniteSet(a)
      /\ Cardinality(b) \in Nat /\ Cardinality(a) \in Nat
      /\ Cardinality(InState(inner', state)) \in Nat
  BY JobIdsCardinality DEF Kept, InState, Present
<1>2. \A j \in b : /\ Ended(inner', j) /\ inner'.jobs[j].state = state /\ j \notin Settling'
                   /\ Keeps(inner'.jobs[j]) # None /\ Keeps(inner'.jobs[j]).count = n
  BY DEF Kept, InState, Present, Ended
<1>3. CASE \E j \in b : Capped(inner', j)
  <2>1. Cardinality(InState(inner', state)) <= n
    BY <1>2, <1>3, NoneAssumption DEF Capped
  <2>2. Cardinality(b) <= Cardinality(InState(inner', state))
    BY <1>1, FS_Subset
  <2> HIDE DEF b
  <2> QED
    BY <1>1, <2>1, <2>2 DEF b
<1>4. CASE \A j \in b : ~Capped(inner', j)
  <2>1. \A j \in b : j \notin S /\ j \notin Settling
    BY <1>1, <1>2, <1>4 DEF Tidy
  <2>2. \A j \in b : /\ Ended(inner, j) /\ inner.jobs[j].state = state
                     /\ Keeps(inner.jobs[j]) = Keeps(inner'.jobs[j])
    BY <1>1, <1>2, <2>1 DEF Tidy, Orderly
  <2>3. b \subseteq a
    BY <1>1, <1>2, <2>1, <2>2 DEF Kept, InState, Present, Ended
  <2>4. Cardinality(b) <= Cardinality(a) /\ Cardinality(a) <= n
    BY <1>1, <2>3, FS_Subset DEF TableInv, Retained
  <2> HIDE DEF a, b
  <2> QED
    BY <1>1, <2>4 DEF b
<1> QED
  BY <1>3, <1>4

\* A step that ends no lease and is orderly is tidy.
LEMMA CalmIsTidy ==
    ASSUME Unlocked, todo' = todo, now' = now,
           Sound(inner', now), Orderly({}, inner, inner')
    PROVE  Tidy({})
BY DEF Tidy, Unlocked, Settling, TodoInv

\* As time passes ids only lose their owners.
LEMMA TickTidy ==
    ASSUME Inv, TableInv, Tick
    PROVE  Tidy({})
<1>1. /\ WellLocked(inner) /\ now \in Nat /\ now' = now + 1 /\ inner' = inner /\ todo' = todo
      /\ Unlocked
  BY InvWellLocked DEF Tick
<1>2. \A j \in JobIds : \/ Owned(inner, j, now + 1) = None
                        \/ Owned(inner, j, now + 1) = Owned(inner, j, now)
  <2> TAKE j \in JobIds
  <2>1. CASE inner.jobs[j] = None
    BY <2>1 DEF Owned
  <2>2. CASE inner.jobs[j] # None
    <3> DEFINE at == inner.jobs[j].deduplication_expires_at
    <3>1. at \in Nat \cup {None}
      BY <1>1, <2>2, Numbers DEF Job
    <3>2. at # None /\ at <= now => at <= now + 1
      BY <1>1, <3>1
    <3>3. \/ active_deduplication_id(inner.jobs[j], now + 1) = None
          \/ active_deduplication_id(inner.jobs[j], now + 1)
               = active_deduplication_id(inner.jobs[j], now)
      BY <3>2 DEF active_deduplication_id
    <3> QED
      BY <2>2, <3>3 DEF Owned
  <2> QED
    BY <2>1, <2>2
<1>4. OneOwner(inner, now + 1)
  BY <1>2 DEF TableInv, Sound, OneOwner
<1>5. Sound(inner, now + 1)
  BY <1>4 DEF TableInv, Sound
<1>6. Orderly({}, inner, inner)
  BY <1>1, OrderlyReflexive
<1> QED
  BY <1>1, <1>5, <1>6 DEF Tidy, Unlocked, Settling, TodoInv

\* Operations that remove jobs nobody holds.
LEMMA RemovalTidy ==
    ASSUME Inv, TableInv, NEW S, \A j \in S \cap JobIds : ~Held(inner.jobs[j]),
           Commit(remove_job_records(inner, S))
    PROVE  Tidy({})
<1>1. /\ Unlocked /\ todo' = todo /\ now' = now
      /\ inner' = remove_job_records(inner, S)
  BY DEF Commit, CommitAs
<1>2. Sound(inner', now) /\ Orderly({}, inner, inner')
  BY <1>1, RemoveRecordsSound DEF TableInv
<1> QED
  BY <1>1, <1>2, CalmIsTidy

LEMMA RemoveTidy ==
    ASSUME Inv, TableInv, NEW j \in JobIds, remove(j)
    PROVE  Tidy({})
<1>1. /\ WellLocked(inner) /\ inner \in State /\ inner.jobs[j] # None /\ inner.jobs[j].id = j
      /\ require_removable(inner.jobs[j])
  BY InvWellLocked, Numbers DEF remove
<1>2. ~Held(inner.jobs[j])
  BY <1>1 DEF require_removable, Held, WellLocked
<1>3. Commit(remove_job_records(inner, {j}))
  BY <1>1, RemoveRecordIsSet DEF remove
<1> QED
  BY <1>2, <1>3, RemovalTidy

LEMMA CleanTidy ==
    ASSUME Inv, TableInv, NEW state, NEW grace, NEW limit, clean(state, grace, limit)
    PROVE  Tidy({})
<1> DEFINE S == cleanable(state, grace, limit)
<1>1. WellLocked(inner)
  BY InvWellLocked
<1>2. \A j \in S : inner.jobs[j] # None /\ require_removable(inner.jobs[j])
  BY DEF cleanable, FirstOf, InState, Present
<1>3. Commit(remove_job_records(inner, S))
  BY DEF clean
<1> HIDE DEF S
<1>4. \A j \in S \cap JobIds : ~Held(inner.jobs[j])
  BY <1>1, <1>2 DEF require_removable, Held, WellLocked
<1> QED
  BY <1>3, <1>4, RemovalTidy

LEMMA DrainTidy ==
    ASSUME Inv, TableInv, NEW include_delayed \in BOOLEAN, drain(include_delayed)
    PROVE  Tidy({})
<1>1. PICK S : /\ S \subseteq InState(inner, "Waiting") \cup InState(inner, "Delayed")
               /\ Commit(remove_job_records(inner, S))
  BY DEF drain
<1>2. \A j \in S \cap JobIds : ~Held(inner.jobs[j])
  BY <1>1 DEF InState, Held
<1> QED
  BY <1>1, <1>2, RemovalTidy

\* Operations that thin the table in other ways.
LEMMA ThinningTidy ==
    ASSUME Inv, TableInv, WellLocked(inner'), Unlocked, todo' = todo, now' = now,
           Thinned(inner, inner', now)
    PROVE  Tidy({})
BY ThinSound, CalmIsTidy DEF TableInv

LEMMA RemoveKeyTidy ==
    ASSUME Inv, TableInv, WellLocked(inner'), NEW d \in DedupIds, remove_deduplication_key(d)
    PROVE  Tidy({})
<1>1. PICK j \in find_active_deduplication_id(inner, d, now) :
          Commit([inner EXCEPT !.released_deduplication_owners = @ \cup {<<d, j>>},
                               !.deduplication_next[d] = None])
  BY DEF remove_deduplication_key
<1> DEFINE r == inner.released_deduplication_owners \cup {<<d, j>>}
<1>2. inner \in State
  BY InvWellLocked, Numbers
<1>3. /\ Unlocked /\ todo' = todo /\ now' = now
      /\ inner' = [inner EXCEPT !.released_deduplication_owners = r,
                                !.deduplication_next[d] = None]
  BY <1>1 DEF Commit, CommitAs
<1> HIDE DEF r
<1>4. /\ inner'.jobs = inner.jobs /\ inner'.sequence = inner.sequence
      /\ inner'.released_deduplication_owners = r
      /\ inner'.deduplication_next = [inner.deduplication_next EXCEPT ![d] = None]
  BY <1>2, <1>3 DEF State, InMemoryJobQueueState
<1>5. \A k \in JobIds : \/ Owned(inner', k, now) = None
                        \/ Owned(inner', k, now) = Owned(inner, k, now)
  <2>1. \A x : x \in inner.released_deduplication_owners
                 => x \in inner'.released_deduplication_owners
    BY <1>4 DEF r
  <2> QED
    BY <1>4, <2>1, OwnedFewer
<1>6. Thinned(inner, inner', now)
  BY <1>2, <1>4, <1>5 DEF Thinned, State, InMemoryJobQueueState
<1> QED
  BY <1>3, <1>6, ThinningTidy

LEMMA PauseTidy ==
    ASSUME Inv, TableInv, WellLocked(inner'), pause \/ resume
    PROVE  Tidy({})
<1>1. inner \in State
  BY InvWellLocked, Numbers
<1>2. /\ Unlocked /\ todo' = todo /\ now' = now
      /\ inner'.jobs = inner.jobs /\ inner'.sequence = inner.sequence
      /\ inner'.released_deduplication_owners = inner.released_deduplication_owners
      /\ inner'.deduplication_next = inner.deduplication_next
  BY <1>1 DEF pause, resume, Commit, CommitAs, State, InMemoryJobQueueState
<1>3. Thinned(inner, inner', now)
  BY <1>2 DEF Thinned, Owned
<1> QED
  BY <1>2, <1>3, ThinningTidy

LEMMA ObliterateTidy ==
    ASSUME Inv, TableInv, WellLocked(inner'), NEW force \in BOOLEAN, obliterate(force)
    PROVE  Tidy({})
<1>1. inner \in State
  BY InvWellLocked, Numbers
<1>2. CASE InState(inner, "Active") # {} /\ ~force
  <2>1. pause
    BY <1>2 DEF obliterate, pause
  <2> QED
    BY <2>1, PauseTidy
<1>3. CASE ~(InState(inner, "Active") # {} /\ ~force)
  <2>1. /\ Unlocked /\ todo' = todo /\ now' = now
        /\ inner'.sequence = inner.sequence
        /\ \A j \in JobIds : inner'.jobs[j] = None
        /\ \A d \in DedupIds : inner'.deduplication_next[d] = None
    BY <1>3 DEF obliterate, Commit, CommitAs, EmptyQueue
  <2>2. Thinned(inner, inner', now)
    BY <2>1 DEF Thinned, Owned
  <2> QED
    BY <2>1, <2>2, ThinningTidy
<1> QED
  BY <1>2, <1>3

-----------------------------------------------------------------------------
\* The record y of a job that was x: its series, its deduplication id and the expiry of that
\* are the same, and it was not finished before or is finished as before.
Kin(x, y) ==
    /\ y # None
    /\ y.options.deduplication = x.options.deduplication
    /\ y.options.repeat = x.options.repeat
    /\ y.repeat_count = x.repeat_count
    /\ y.deduplication_expires_at = x.deduplication_expires_at
    /\ x.state \notin Terminal \/ y.state = x.state
    /\ y.state \in Terminal => y.finished_at # None
    /\ y.state = "Active" => y.processed_at # None

\* Such a record keeps its series and its id, or gives them up.
LEMMA KinRecord ==
    ASSUME NEW x, NEW y, NEW t, x # None, GoodRecord(x), Kin(x, y)
    PROVE  /\ GoodRecord(y)
           /\ LiveKey(y) = None \/ LiveKey(y) = LiveKey(x)
           /\ \/ active_deduplication_id(y, t) = None
              \/ active_deduplication_id(y, t) = active_deduplication_id(x, t)
<1>1. GoodRecord(y)
  BY DEF GoodRecord, Kin, Sourced, Limited
<1>2. LiveKey(y) = None \/ LiveKey(y) = LiveKey(x)
  BY DEF Kin, LiveKey, active_repeat_key, repeat_key
<1>3. \/ active_deduplication_id(y, t) = None
      \/ active_deduplication_id(y, t) = active_deduplication_id(x, t)
  <2>1. job_deduplication_id(y) = job_deduplication_id(x)
    BY DEF Kin, job_deduplication_id
  <2> QED
    BY <2>1 DEF Kin, active_deduplication_id
<1> QED
  BY <1>1, <1>2, <1>3

\* What it owns follows.
LEMMA KinOwned ==
    ASSUME NEW a, NEW b, NEW t, NEW j, a.jobs[j] # None, GoodRecord(a.jobs[j]),
           Kin(a.jobs[j], b.jobs[j]),
           b.released_deduplication_owners = a.released_deduplication_owners
    PROVE  Owned(b, j, t) = None \/ Owned(b, j, t) = Owned(a, j, t)
<1>1. \/ active_deduplication_id(b.jobs[j], t) = None
      \/ active_deduplication_id(b.jobs[j], t) = active_deduplication_id(a.jobs[j], t)
  BY KinRecord
<1>2. b.jobs[j] # None
  BY DEF Kin
<1> QED
  BY <1>1, <1>2 DEF Owned

\* Rewriting one record in this way.
LEMMA RewriteSound ==
    ASSUME NEW t, NEW a, NEW b, Sound(a, t), WellLocked(b), NEW j \in JobIds,
           a.jobs[j] # None, Kin(a.jobs[j], b.jobs[j]),
           \A k \in JobIds \ {j} : b.jobs[k] = a.jobs[k],
           b.released_deduplication_owners = a.released_deduplication_owners,
           b.deduplication_next = a.deduplication_next,
           a.sequence <= b.sequence,
           Waits(b, j) => Stays(a, b, j) \/ Later(a, b, j) \/ b.jobs[j].enqueued_seq = 0
    PROVE  Sound(b, t) /\ Orderly({j}, a, b)
<1>1. GoodRecord(a.jobs[j]) /\ GoodParked(a)
  BY DEF Sound, GoodTable
<1>2. GoodRecord(b.jobs[j]) /\ (LiveKey(b.jobs[j]) = None \/ LiveKey(b.jobs[j]) = LiveKey(a.jobs[j]))
  BY <1>1, KinRecord
<1>3. Owned(b, j, t) = None \/ Owned(b, j, t) = Owned(a, j, t)
  BY <1>1, KinOwned
<1>4. OnlyAt(j, a, b, t)
  BY DEF OnlyAt, Owned
<1>5. KeyIsFree(j, a, b) /\ IdIsFree(j, a, b, t)
  BY <1>2, <1>3 DEF KeyIsFree, IdIsFree
<1>6. GoodParked(b)
  BY <1>1 DEF GoodParked
<1> QED
  BY <1>2, <1>4, <1>5, <1>6, PutSound

\* The fields of a table in which one record and the sequence were changed.
LEMMA PutFields ==
    ASSUME NEW st \in State, NEW j \in JobIds, NEW job, NEW n
    PROVE  LET b == [st EXCEPT !.sequence = n, !.jobs[j] = job] IN
           /\ b.sequence = n /\ b.jobs[j] = job
           /\ \A k \in JobIds \ {j} : b.jobs[k] = st.jobs[k]
           /\ b.released_deduplication_owners = st.released_deduplication_owners
           /\ b.deduplication_next = st.deduplication_next
BY DEF State, InMemoryJobQueueState

\* The same without the sequence.
LEMMA PutRecordFields ==
    ASSUME NEW st \in State, NEW j \in JobIds, NEW job
    PROVE  LET b == [st EXCEPT !.jobs[j] = job] IN
           /\ b.sequence = st.sequence /\ b.jobs[j] = job
           /\ \A k \in JobIds \ {j} : b.jobs[k] = st.jobs[k]
           /\ b.released_deduplication_owners = st.released_deduplication_owners
           /\ b.deduplication_next = st.deduplication_next
BY DEF State, InMemoryJobQueueState

LEMMA PromoteTidy ==
    ASSUME Inv, TableInv, WellLocked(inner'), NEW j \in JobIds, promote(j)
    PROVE  Tidy({})
<1> DEFINE n == inner.sequence + 1
           w == inner.jobs[j]
           job == [w EXCEPT !.state = "Waiting", !.scheduled_at = now, !.enqueued_seq = n]
<1>1. /\ WellLocked(inner) /\ inner \in State /\ inner.sequence \in Nat /\ now \in Nat
      /\ w # None /\ w \in Job /\ w.state = "Delayed"
  BY InvWellLocked, Numbers DEF promote, InState, Present
<1>2. n \in Nat /\ inner.sequence < n /\ inner.sequence <= n
  BY <1>1
<1>3. /\ inner' = [inner EXCEPT !.sequence = n, !.jobs[j] = job]
      /\ Unlocked /\ todo' = todo /\ now' = now
  BY <1>1 DEF promote, Commit, CommitAs, State, InMemoryJobQueueState
<1> HIDE DEF n, w
<1>4. /\ Kin(w, job) /\ job # None /\ job.state = "Waiting" /\ job.enqueued_seq = n
  <2>1. /\ job.options = w.options /\ job.repeat_count = w.repeat_count /\ job.state = "Waiting"
        /\ job.deduplication_expires_at = w.deduplication_expires_at /\ job.enqueued_seq = n
        /\ job \in Job
    BY <1>1, <1>2 DEF Job, JobState
  <2>2. job # None
    BY <2>1, NoneAssumption
  <2> QED
    BY <1>1, <2>1, <2>2 DEF Kin, Terminal
<1> HIDE DEF job
<1>5. /\ inner'.sequence = n /\ inner'.jobs[j] = job
      /\ \A k \in JobIds \ {j} : inner'.jobs[k] = inner.jobs[k]
      /\ inner'.released_deduplication_owners = inner.released_deduplication_owners
      /\ inner'.deduplication_next = inner.deduplication_next
  BY <1>1, <1>3, PutFields
<1>6. Later(inner, inner', j)
  BY <1>2, <1>4, <1>5 DEF Later
<1>7. Sound(inner', now) /\ Orderly({j}, inner, inner')
  BY <1>1, <1>2, <1>4, <1>5, <1>6, RewriteSound DEF TableInv, w
<1>8. Orderly({}, inner, inner')
  BY <1>4, <1>5, <1>6, <1>7, PutOrderly DEF Ended, Terminal
<1> QED
  BY <1>3, <1>7, <1>8, CalmIsTidy

LEMMA RescheduleTidy ==
    ASSUME Inv, TableInv, WellLocked(inner'), NEW j \in JobIds, NEW delay \in Durations,
           reschedule(j, delay)
    PROVE  Tidy({})
<1> DEFINE w == inner.jobs[j]
           at == now + delay
           opts == [w.options EXCEPT !.delay = delay]
           job == [w EXCEPT !.options = opts, !.scheduled_at = at]
<1>1. /\ WellLocked(inner) /\ inner \in State /\ inner.sequence \in Nat
      /\ at \in Nat /\ delay \in Nat
      /\ w # None /\ w \in Job /\ w.state = "Delayed"
  BY InvWellLocked, Numbers, DurationsAssumption DEF reschedule, InState, Present
<1>2. /\ inner' = [inner EXCEPT !.jobs[j] = job]
      /\ Unlocked /\ todo' = todo /\ now' = now
  BY <1>1 DEF reschedule, Commit, CommitAs, State, InMemoryJobQueueState
<1>3. /\ opts \in JobOptions /\ opts.deduplication = w.options.deduplication
      /\ opts.repeat = w.options.repeat
  BY <1>1 DEF Job, JobOptions
<1> HIDE DEF w, at, opts
<1>4. /\ job \in Job /\ job.options = opts /\ job.repeat_count = w.repeat_count
      /\ job.state = "Delayed" /\ job.deduplication_expires_at = w.deduplication_expires_at
  BY <1>1, <1>3 DEF Job
<1> HIDE DEF job
<1>5. Kin(w, job) /\ job # None
  BY <1>1, <1>3, <1>4, NoneAssumption DEF Kin, Terminal
<1>6. /\ inner'.sequence = inner.sequence /\ inner'.jobs[j] = job
      /\ \A k \in JobIds \ {j} : inner'.jobs[k] = inner.jobs[k]
      /\ inner'.released_deduplication_owners = inner.released_deduplication_owners
      /\ inner'.deduplication_next = inner.deduplication_next
  BY <1>1, <1>2, PutRecordFields
<1>7. ~Waits(inner', j) /\ ~Ended(inner', j) /\ inner.sequence <= inner'.sequence
  BY <1>1, <1>4, <1>6 DEF Waits, Ended, Terminal
<1>8. Sound(inner', now) /\ Orderly({j}, inner, inner')
  BY <1>1, <1>5, <1>6, <1>7, RewriteSound DEF TableInv, w
<1>9. Orderly({}, inner, inner')
  BY <1>7, <1>8, PutOrderly
<1> QED
  BY <1>2, <1>8, <1>9, CalmIsTidy

LEMMA SetPriorityTidy ==
    ASSUME Inv, TableInv, WellLocked(inner'), NEW j \in JobIds, NEW p \in Priorities,
           NEW lifo \in BOOLEAN, set_priority_order(j, p, lifo)
    PROVE  Tidy({})
<1> DEFINE w == inner.jobs[j]
           waiting == j \in InState(inner, "Waiting")
           n == IF waiting THEN inner.sequence + 1 ELSE inner.sequence
           seq == IF waiting THEN inner.sequence + 1 ELSE w.enqueued_seq
           opts == [w.options EXCEPT !.priority = p, !.lifo = lifo]
           job == [w EXCEPT !.options = opts, !.enqueued_seq = seq]
<1>1. /\ WellLocked(inner) /\ inner \in State /\ inner.sequence \in Nat
      /\ w # None /\ w \in Job /\ GoodRecord(w)
  BY InvWellLocked, Numbers DEF set_priority_order, TableInv, Sound, GoodTable
<1>2. p \in Nat
  BY OptionsAssumption DEF Priorities, JobOptions
<1>3. /\ n \in Nat /\ seq \in Nat /\ inner.sequence <= n
      /\ waiting => seq = n /\ inner.sequence < n
      /\ waiting <=> Waits(inner, j)
  BY <1>1 DEF Job, InState, Present, Waits
<1>4. /\ opts \in JobOptions /\ opts.deduplication = w.options.deduplication
      /\ opts.repeat = w.options.repeat
      /\ opts.completion_retention = w.options.completion_retention
      /\ opts.failure_retention = w.options.failure_retention
  BY <1>1, <1>2 DEF Job, JobOptions
<1>5. /\ inner' = [inner EXCEPT !.sequence = n, !.jobs[j] = job]
      /\ Unlocked /\ todo' = todo /\ now' = now
  BY <1>1 DEF set_priority_order, Commit, CommitAs, State, InMemoryJobQueueState, Job
<1> HIDE DEF w, n, seq, opts, waiting
<1>6. /\ job \in Job /\ job.options = opts /\ job.repeat_count = w.repeat_count
      /\ job.state = w.state /\ job.deduplication_expires_at = w.deduplication_expires_at
      /\ job.finished_at = w.finished_at /\ job.enqueued_seq = seq
      /\ job.processed_at = w.processed_at
  BY <1>1, <1>3, <1>4 DEF Job
<1> HIDE DEF job
<1>7. Kin(w, job) /\ job # None /\ Keeps(job) = Keeps(w)
  BY <1>1, <1>4, <1>6, NoneAssumption DEF Kin, GoodRecord, Keeps
<1>8. /\ inner'.sequence = n /\ inner'.jobs[j] = job
      /\ \A k \in JobIds \ {j} : inner'.jobs[k] = inner.jobs[k]
      /\ inner'.released_deduplication_owners = inner.released_deduplication_owners
      /\ inner'.deduplication_next = inner.deduplication_next
  BY <1>1, <1>5, PutFields
<1>9. Waits(inner', j) => Later(inner, inner', j)
  BY <1>1, <1>3, <1>6, <1>8 DEF Waits, Later, w
<1>10. Sound(inner', now) /\ Orderly({j}, inner, inner')
  BY <1>1, <1>3, <1>7, <1>8, <1>9, RewriteSound DEF TableInv, w
<1>11. Orderly({}, inner, inner')
  BY <1>1, <1>6, <1>7, <1>8, <1>9, <1>10, PutOrderly DEF Ended, w
<1> QED
  BY <1>5, <1>10, <1>11, CalmIsTidy

LEMMA RenewTidy ==
    ASSUME Inv, TableInv, WellLocked(inner'), NEW j \in JobIds, NEW token,
           NEW lease_for \in Durations, renew(j, token, lease_for)
    PROVE  Tidy({})
<1> DEFINE w == inner.jobs[j]
           end == now + lease_for
           job == [w EXCEPT !.lease_expires_at = end]
<1>1. /\ WellLocked(inner) /\ inner \in State /\ inner.sequence \in Nat /\ end \in Nat
      /\ w # None /\ w \in Job /\ w.state = "Active" /\ GoodRecord(w)
  BY InvWellLocked, Numbers, DurationsAssumption
  DEF renew, require_lock_token, TableInv, Sound, GoodTable
<1>2. /\ inner' = [inner EXCEPT !.jobs[j] = job]
      /\ Unlocked /\ todo' = todo /\ now' = now
  BY <1>1 DEF renew, CommitAs, State, InMemoryJobQueueState
<1> HIDE DEF w, end
<1>3. /\ job \in Job /\ job.options = w.options /\ job.repeat_count = w.repeat_count
      /\ job.state = "Active" /\ job.deduplication_expires_at = w.deduplication_expires_at
      /\ job.processed_at = w.processed_at
  BY <1>1 DEF Job
<1> HIDE DEF job
<1>4. Kin(w, job) /\ job # None
  BY <1>1, <1>3, NoneAssumption DEF Kin, Terminal, GoodRecord
<1>5. /\ inner'.sequence = inner.sequence /\ inner'.jobs[j] = job
      /\ \A k \in JobIds \ {j} : inner'.jobs[k] = inner.jobs[k]
      /\ inner'.released_deduplication_owners = inner.released_deduplication_owners
      /\ inner'.deduplication_next = inner.deduplication_next
  BY <1>1, <1>2, PutRecordFields
<1>6. ~Waits(inner', j) /\ ~Ended(inner', j) /\ inner.sequence <= inner'.sequence
  BY <1>1, <1>3, <1>5 DEF Waits, Ended, Terminal
<1>7. Sound(inner', now) /\ Orderly({j}, inner, inner')
  BY <1>1, <1>4, <1>5, <1>6, RewriteSound DEF TableInv, w
<1>8. Orderly({}, inner, inner')
  BY <1>6, <1>7, PutOrderly
<1> QED
  BY <1>2, <1>7, <1>8, CalmIsTidy

LEMMA ClaimTidy ==
    ASSUME Inv, TableInv, WellLocked(inner'), NEW lease_for \in Durations,
           claim_next(lease_for)
    PROVE  Tidy({})
<1> DEFINE st == promote_due_locked(inner, now)
<1>1. WellLocked(inner) /\ now \in Nat /\ issued \in Nat /\ lease_for \in Nat
  BY InvWellLocked, DurationsAssumption
<1>2. Sound(st, now) /\ Orderly({}, inner, st)
  BY <1>1, PromoteDueSound DEF TableInv
<1>3. /\ Unlocked /\ todo' = todo /\ now' = now
      /\ \E j \in InState(st, "Waiting") :
            inner' = [st EXCEPT !.jobs[j] = claimed(@, issued + 1, lease_for)]
  BY DEF claim_next
<1>4. PICK j \in InState(st, "Waiting") :
            inner' = [st EXCEPT !.jobs[j] = claimed(@, issued + 1, lease_for)]
  BY <1>3
<1> HIDE DEF st
<1> DEFINE w == st.jobs[j]
           end == now + lease_for
           token == issued + 1
           attempts == w.attempts_made + 1
           job == [w EXCEPT !.state = "Active", !.attempts_made = attempts,
                            !.processed_at = now, !.lock_token = token,
                            !.lease_expires_at = end]
<1>5. /\ WellLocked(st) /\ st \in State /\ st.sequence \in Nat /\ j \in JobIds
      /\ w # None /\ w \in Job /\ w.state = "Waiting"
  BY <1>2, Numbers DEF Sound, InState, Present
<1>6. end \in Nat /\ token \in Nat /\ attempts \in Nat
  BY <1>1, <1>5 DEF Job
<1>7. inner' = [st EXCEPT !.jobs[j] = job]
  BY <1>4, <1>5 DEF claimed, State, InMemoryJobQueueState
<1> HIDE DEF w, end, token, attempts
<1>8. /\ job \in Job /\ job.options = w.options /\ job.repeat_count = w.repeat_count
      /\ job.state = "Active" /\ job.deduplication_expires_at = w.deduplication_expires_at
      /\ job.processed_at = now
  BY <1>1, <1>5, <1>6 DEF Job, JobState
<1> HIDE DEF job
<1>9. Kin(w, job) /\ job # None
  BY <1>1, <1>5, <1>8, NoneAssumption DEF Kin, Terminal
<1>10. /\ inner'.sequence = st.sequence /\ inner'.jobs[j] = job
       /\ \A k \in JobIds \ {j} : inner'.jobs[k] = st.jobs[k]
       /\ inner'.released_deduplication_owners = st.released_deduplication_owners
       /\ inner'.deduplication_next = st.deduplication_next
  BY <1>5, <1>7, PutRecordFields
<1>11. ~Waits(inner', j) /\ ~Ended(inner', j) /\ st.sequence <= inner'.sequence
  BY <1>5, <1>8, <1>10 DEF Waits, Ended, Terminal
<1>12. Sound(inner', now) /\ Orderly({j}, st, inner')
  BY <1>2, <1>5, <1>9, <1>10, <1>11, RewriteSound DEF w
<1>13. Orderly({}, st, inner')
  BY <1>11, <1>12, PutOrderly
<1>14. Orderly({}, inner, inner')
  BY <1>1, <1>2, <1>5, <1>13, OrderlyTransitive
<1> QED
  BY <1>3, <1>12, <1>14, CalmIsTidy

LEMMA PromoteDueTidy ==
    ASSUME Inv, TableInv, promote_due_jobs
    PROVE  Tidy({})
<1>1. /\ now \in Nat /\ Unlocked /\ todo' = todo /\ now' = now
      /\ inner' = promote_due_locked(inner, now)
  BY InvWellLocked DEF promote_due_jobs, Commit, CommitAs
<1>2. Sound(inner', now) /\ Orderly({}, inner, inner')
  BY <1>1, PromoteDueSound DEF TableInv
<1> QED
  BY <1>1, <1>2, CalmIsTidy

-----------------------------------------------------------------------------
\* A worker's word ends the lease of its job.
LEMMA EndIsTidy ==
    ASSUME Unlocked, todo' = todo, now' = now, NEW j \in JobIds, Held(inner.jobs[j]),
           Sound(inner', now), Orderly({j}, inner, inner'),
           Ended(inner', j) => Capped(inner', j)
    PROVE  Tidy({j})
BY DEF Tidy, Unlocked, Settling, TodoInv

\* A job that its worker gives back, for later or at the head of the waiting list.
GivenBack(job) ==
    \/ job.state = "Delayed"
    \/ job.state = "Waiting" /\ job.enqueued_seq = 0

\* What the record of a held job becomes when its lease ends and the job does not.
LEMMA EndedLease ==
    ASSUME Inv, TableInv, WellLocked(inner'), Unlocked, todo' = todo, now' = now,
           NEW j \in JobIds, Held(inner.jobs[j]), NEW job,
           Kin(inner.jobs[j], job), inner' = [inner EXCEPT !.jobs[j] = job],
           GivenBack(job)
    PROVE  Tidy({j})
<1>1. WellLocked(inner) /\ inner \in State /\ inner.sequence \in Nat
  BY InvWellLocked, Numbers
<1>2. /\ inner'.sequence = inner.sequence /\ inner'.jobs[j] = job
      /\ \A k \in JobIds \ {j} : inner'.jobs[k] = inner.jobs[k]
      /\ inner'.released_deduplication_owners = inner.released_deduplication_owners
      /\ inner'.deduplication_next = inner.deduplication_next
  BY <1>1, PutRecordFields
<1>3. /\ Waits(inner', j) => inner'.jobs[j].enqueued_seq = 0
      /\ ~Ended(inner', j) /\ inner.sequence <= inner'.sequence
  BY <1>1, <1>2 DEF Waits, Ended, Terminal, GivenBack
<1>4. Sound(inner', now) /\ Orderly({j}, inner, inner')
  BY <1>1, <1>2, <1>3, RewriteSound DEF TableInv, Held
<1> QED
  BY <1>3, <1>4, EndIsTidy

LEMMA DelayTidy ==
    ASSUME Inv, TableInv, WellLocked(inner'), NEW j \in JobIds, NEW token,
           NEW delay \in Durations, delay_active(j, token, delay)
    PROVE  Tidy({j})
<1> DEFINE w == inner.jobs[j]
           u == unleased(w)
           at == now + delay
           opts == [u.options EXCEPT !.delay = delay]
           job == [u EXCEPT !.state = "Delayed", !.options = opts, !.scheduled_at = at,
                            !.processed_at = None]
<1>1. /\ w \in Job /\ Held(w) /\ inner \in State /\ at \in Nat /\ delay \in Nat
  BY TokenHolds, InvWellLocked, DurationsAssumption DEF delay_active
<1>2. /\ inner' = [inner EXCEPT !.jobs[j] = job]
      /\ Unlocked /\ todo' = todo /\ now' = now
  BY <1>1 DEF delay_active, CommitAs, State, InMemoryJobQueueState
<1>3. /\ u \in Job /\ u.options = w.options /\ u.repeat_count = w.repeat_count
      /\ u.deduplication_expires_at = w.deduplication_expires_at
  BY <1>1 DEF unleased, Job
<1>4. /\ opts \in JobOptions /\ opts.deduplication = w.options.deduplication
      /\ opts.repeat = w.options.repeat
  BY <1>1, <1>3 DEF Job, JobOptions
<1> HIDE DEF w, u, at, opts
<1>5. /\ job \in Job /\ job.options = opts /\ job.repeat_count = u.repeat_count
      /\ job.state = "Delayed" /\ job.deduplication_expires_at = u.deduplication_expires_at
  BY <1>1, <1>3, <1>4 DEF Job, JobState
<1> HIDE DEF job
<1>6. Kin(w, job)
  BY <1>1, <1>3, <1>4, <1>5, NoneAssumption DEF Kin, Terminal, Held
<1>7. Held(inner.jobs[j]) /\ Kin(inner.jobs[j], job) /\ GivenBack(job)
  BY <1>1, <1>5, <1>6 DEF w, GivenBack
<1> QED
  BY <1>2, <1>7, EndedLease

LEMMA ReleaseTidy ==
    ASSUME Inv, TableInv, WellLocked(inner'), NEW j \in JobIds, NEW token,
           release_active(j, token)
    PROVE  Tidy({j})
<1> DEFINE w == inner.jobs[j]
           u == unleased(w)
           job == [u EXCEPT !.state = "Waiting", !.scheduled_at = now,
                            !.processed_at = None, !.enqueued_seq = 0]
<1>1. /\ w \in Job /\ Held(w) /\ inner \in State /\ now \in Nat
  BY TokenHolds, InvWellLocked DEF release_active
<1>2. /\ inner' = [inner EXCEPT !.jobs[j] = job]
      /\ Unlocked /\ todo' = todo /\ now' = now
  BY <1>1 DEF release_active, CommitAs, State, InMemoryJobQueueState
<1>3. /\ u \in Job /\ u.options = w.options /\ u.repeat_count = w.repeat_count
      /\ u.deduplication_expires_at = w.deduplication_expires_at
  BY <1>1 DEF unleased, Job
<1> HIDE DEF w, u
<1>4. /\ job \in Job /\ job.options = u.options /\ job.repeat_count = u.repeat_count
      /\ job.state = "Waiting" /\ job.deduplication_expires_at = u.deduplication_expires_at
      /\ job.enqueued_seq = 0
  BY <1>1, <1>3 DEF Job, JobState
<1> HIDE DEF job
<1>5. Kin(w, job)
  BY <1>1, <1>3, <1>4, NoneAssumption DEF Kin, Terminal, Held
<1>6. GivenBack(job)
  BY <1>4 DEF GivenBack
<1> QED
  BY <1>1, <1>2, <1>5, <1>6, EndedLease DEF w

\* A held job reaches its end: its record, the policy it asks for and the duplicate parked
\* behind it.
LEMMA FinishSound ==
    ASSUME Inv, TableInv, NEW j \in JobIds, Held(inner.jobs[j]), NEW job \in Job,
           Kin(inner.jobs[j], job), job.id = j, Free(job), job.state \in Terminal
    PROVE  LET base == [inner EXCEPT !.jobs[j] = job]
               kept == retain_finished(base, job, Keeps(job), now)
               nexted == enqueue_deduplicated_next_locked(kept, job, now)
           IN  /\ Sound(nexted, now) /\ Orderly({j}, inner, nexted)
               /\ Ended(nexted, j) => Capped(nexted, j)
               /\ ~enqueues_deduplicated_next(kept, job) =>
                     \A k \in JobIds : nexted.jobs[k] = None \/ nexted.jobs[k] = base.jobs[k]
               /\ Sourced(job) /\ Limited(job)
               /\ SameKey => \/ repeat_key(job) = None
                             \/ \A k \in JobIds : LiveKey(base.jobs[k]) # repeat_key(job)
<1> DEFINE w == inner.jobs[j]
           base == [inner EXCEPT !.jobs[j] = job]
           kept == retain_finished(base, job, Keeps(job), now)
           nexted == enqueue_deduplicated_next_locked(kept, job, now)
<1>1. /\ WellLocked(inner) /\ inner \in State /\ inner.sequence \in Nat /\ now \in Nat
      /\ w # None /\ w.state = "Active" /\ GoodRecord(w) /\ job # None
  BY InvWellLocked, Numbers, NoneAssumption DEF Held, TableInv, Sound, GoodTable
<1>2. WellLocked(base)
  BY ReleaseGentle
<1>3. /\ base.sequence = inner.sequence /\ base.jobs[j] = job
      /\ \A k \in JobIds \ {j} : base.jobs[k] = inner.jobs[k]
      /\ base.released_deduplication_owners = inner.released_deduplication_owners
      /\ base.deduplication_next = inner.deduplication_next
  BY <1>1, PutRecordFields
<1> HIDE DEF base
<1>4. ~Waits(base, j) /\ inner.sequence <= base.sequence
  BY <1>1, <1>3 DEF Waits, Terminal
<1>5. Sound(base, now) /\ Orderly({j}, inner, base)
  BY <1>1, <1>2, <1>3, <1>4, RewriteSound DEF TableInv
<1>6. Sourced(job) /\ Limited(job)
  BY <1>1, KinRecord DEF GoodRecord
<1>7. SameKey => \/ repeat_key(job) = None
                 \/ \A k \in JobIds : LiveKey(base.jobs[k]) # repeat_key(job)
  <2>1. repeat_key(job) = repeat_key(w)
    BY DEF Kin, repeat_key
  <2>2. LiveKey(w) = repeat_key(w)
    BY <1>1 DEF LiveKey, active_repeat_key, Terminal
  <2>3. LiveKey(base.jobs[j]) = None
    BY <1>1, <1>3 DEF LiveKey, active_repeat_key
  <2> QED
    BY <1>3, <2>1, <2>2, <2>3 DEF TableInv, Sound, OneLive
<1>8. /\ Sound(kept, now) /\ Orderly({}, base, kept)
      /\ \A k \in JobIds : kept.jobs[k] = None \/ kept.jobs[k] = base.jobs[k]
      /\ kept.jobs[j] # None => Capped(kept, j)
  BY <1>3, <1>5, RetainSound
<1> HIDE DEF kept
<1>9. SameKey => \/ repeat_key(job) = None
                 \/ \A k \in JobIds : LiveKey(kept.jobs[k]) # repeat_key(job)
  BY <1>7, <1>8 DEF LiveKey
<1>10. /\ Sound(nexted, now) /\ Orderly({}, kept, nexted)
       /\ ~enqueues_deduplicated_next(kept, job) => nexted.jobs = kept.jobs
  BY <1>1, <1>6, <1>8, <1>9, EnqueueNextSound
<1> HIDE DEF nexted
<1>11. Orderly({j}, inner, nexted)
  <2>1. WellLocked(kept) /\ WellLocked(nexted)
    BY <1>8, <1>10 DEF Sound
  <2>2. Orderly({j}, inner, kept)
    BY <1>1, <1>2, <1>5, <1>8, <2>1, OrderlyTransitive
  <2> QED
    BY <1>1, <1>10, <2>1, <2>2, OrderlyTransitive
<1>12. Ended(nexted, j) => Capped(nexted, j)
  <2> HAVE Ended(nexted, j)
  <2>1. Ended(kept, j) /\ kept \in State
    BY <1>8, <1>10, Numbers DEF Orderly, Sound
  <2>2. Capped(kept, j)
    BY <1>8, <2>1 DEF Ended
  <2> QED
    BY <1>10, <2>1, <2>2, CapStays
<1>13. ~enqueues_deduplicated_next(kept, job) =>
         \A k \in JobIds : nexted.jobs[k] = None \/ nexted.jobs[k] = base.jobs[k]
  BY <1>8, <1>10
<1> QED
  BY <1>6, <1>7, <1>10, <1>11, <1>12, <1>13 DEF base, kept, nexted

LEMMA FailTidy ==
    ASSUME Inv, TableInv, WellLocked(inner'), NEW j \in JobIds, NEW token,
           NEW allow_retry \in BOOLEAN, fail_active_job(j, token, allow_retry)
    PROVE  Tidy({j})
<1> DEFINE w == inner.jobs[j]
           u == unleased(w)
           at == now + u.options.retry_delay
           delayed == [u EXCEPT !.state = "Delayed", !.scheduled_at = at,
                                !.finished_at = None]
           failed == [u EXCEPT !.state = "Failed", !.finished_at = now]
<1>1. w \in Job /\ w.id = j /\ Held(w) /\ inner \in State /\ now \in Nat
  BY TokenHolds, InvWellLocked DEF fail_active_job
<1>2. /\ u \in Job /\ u.id = j /\ u.options = w.options /\ u.repeat_count = w.repeat_count
      /\ u.deduplication_expires_at = w.deduplication_expires_at
      /\ u.lock_token = None /\ u.lease_expires_at = None
  BY <1>1 DEF unleased, Job
<1>3. /\ \/ inner' = [inner EXCEPT !.jobs[j] = delayed]
         \/ inner' = failed_terminally(inner, failed)
      /\ Unlocked /\ todo' = todo /\ now' = now
  BY DEF fail_active_job, CommitAs
<1>4. at \in Nat
  BY <1>1, <1>2 DEF Job, JobOptions
<1> HIDE DEF u, at
<1>5. CASE inner' = [inner EXCEPT !.jobs[j] = delayed]
  <2>1. /\ delayed \in Job /\ delayed.options = u.options /\ delayed.state = "Delayed"
        /\ delayed.repeat_count = u.repeat_count
        /\ delayed.deduplication_expires_at = u.deduplication_expires_at
    BY <1>2, <1>4 DEF Job, JobState
  <2> HIDE DEF delayed
  <2>2. Kin(w, delayed)
    BY <1>1, <1>2, <2>1, NoneAssumption DEF Kin, Terminal, Held
  <2>3. GivenBack(delayed)
    BY <2>1 DEF GivenBack
  <2> QED
    BY <1>1, <1>3, <1>5, <2>2, <2>3, EndedLease
<1>6. CASE inner' = failed_terminally(inner, failed)
  <2>1. /\ failed \in Job /\ failed.id = j /\ failed.options = u.options
        /\ failed.state = "Failed" /\ failed.repeat_count = u.repeat_count
        /\ failed.deduplication_expires_at = u.deduplication_expires_at
        /\ failed.finished_at = now /\ Free(failed)
    BY <1>1, <1>2 DEF Job, JobState, Free
  <2> HIDE DEF failed
  <2>2. Kin(w, failed) /\ failed.state \in Terminal
    BY <1>1, <1>2, <2>1, NoneAssumption DEF Kin, Terminal, Held
  <2>3. Keeps(failed) = failed.options.failure_retention
    BY <2>1 DEF Keeps
  <2> DEFINE base == [inner EXCEPT !.jobs[j] = failed]
             kept == retain_finished(base, failed, Keeps(failed), now)
             nexted == enqueue_deduplicated_next_locked(kept, failed, now)
  <2>4. inner' = nexted
    BY <1>6, <2>1, <2>3 DEF failed_terminally
  <2>5. /\ Sound(nexted, now) /\ Orderly({j}, inner, nexted)
        /\ Ended(nexted, j) => Capped(nexted, j)
    BY <1>1, <2>1, <2>2, FinishSound
  <2> HIDE DEF nexted
  <2> QED
    BY <1>1, <1>3, <2>4, <2>5, EndIsTidy
<1> QED
  BY <1>3, <1>5, <1>6

\* The next occurrence of a series whose last one is over and not counted any more.
LEMMA SuccessorSound ==
    ASSUME NEW t \in Nat, NEW st, Sound(st, t), NEW job \in Job, Sourced(job), Limited(job),
           repeats(job, t), NEW id \in JobIds, st.jobs[id] = None,
           SameKey => \/ repeat_key(job) = None
                      \/ \A k \in JobIds : LiveKey(st.jobs[k]) # repeat_key(job)
    PROVE  LET next == next_repeat_job(job, id, t)
               b == insert_job(forget_released_deduplication_owner_locked(st, next), next)
           IN  Sound(b, t) /\ Orderly({}, st, b)
<1> DEFINE next == next_repeat_job(job, id, t)
           fresh == new_job(id, job.options, t)
           at == t + job.options.repeat.interval
           n == job.repeat_count + 1
<1>1. job.options.repeat # None /\ repeat_within_limit(job)
  BY DEF repeats
<1>2. next \in Job /\ next.id = id /\ Free(next) /\ Ready(next)
  BY <1>1, NextRepeatJob
<1>3. fresh \in Job /\ fresh.options = job.options
  <2>1. job.options \in JobOptions
    BY DEF Job
  <2>2. fresh.options = job.options
    BY DEF new_job
  <2> QED
    BY <2>1, <2>2, NewJob
<1>4. next = [fresh EXCEPT !.scheduled_at = at, !.state = state_after_dependencies(at, t),
                           !.repeat_count = n]
  BY DEF next_repeat_job
<1> HIDE DEF next, fresh, at, n
<1>5. next.options = job.options /\ next.repeat_count = n
  BY <1>3, <1>4 DEF Job
<1>6. Sourced(next)
  BY <1>5 DEF Sourced
<1>7. Limited(next)
  BY <1>1, <1>5 DEF Limited, repeat_within_limit, n
<1>8. NoRival(st, next, t)
  <2>1. active_repeat_key(next) = repeat_key(job)
    BY <1>2, <1>5 DEF active_repeat_key, repeat_key, Ready, Terminal
  <2>2. SimpleIds => job.options.deduplication = None
    BY <1>1 DEF SimpleIds, Sourced
  <2>3. SimpleIds => active_deduplication_id(next, t) = None
    BY <1>5, <2>2 DEF active_deduplication_id, job_deduplication_id
  <2> QED
    BY <2>1, <2>3 DEF NoRival
<1> QED
  BY <1>2, <1>6, <1>7, <1>8, InsertSound DEF next

LEMMA CompleteTidy ==
    ASSUME Inv, TableInv, WellLocked(inner'), NEW j \in JobIds, NEW token,
           NEW successor \in JobIds, complete_job(j, token, successor)
    PROVE  Tidy({j})
<1> DEFINE w == inner.jobs[j]
           u == unleased(w)
           job == [u EXCEPT !.state = "Completed", !.finished_at = now]
<1>1. w \in Job /\ w.id = j /\ Held(w) /\ inner \in State /\ now \in Nat
      /\ WellLocked(inner)
  BY TokenHolds, InvWellLocked DEF complete_job
<1>2. /\ u \in Job /\ u.id = j /\ u.options = w.options /\ u.repeat_count = w.repeat_count
      /\ u.deduplication_expires_at = w.deduplication_expires_at
      /\ u.lock_token = None /\ u.lease_expires_at = None
  BY <1>1 DEF unleased, Job
<1> DEFINE base == [inner EXCEPT !.jobs[j] = job]
           kept == retain_finished(base, job, Keeps(job), now)
           nexted == enqueue_deduplicated_next_locked(kept, job, now)
           next == next_repeat_job(job, successor, now)
           after == insert_job(forget_released_deduplication_owner_locked(nexted, next), next)
<1>3. Keeps(job) = job.options.completion_retention
  <2>1. job.state = "Completed"
    BY <1>2 DEF Job
  <2> HIDE DEF job
  <2> QED
    BY <2>1 DEF Keeps
<1>4. /\ \/ inner' = nexted
         \/ /\ inner' = after
            /\ ~enqueues_deduplicated_next(kept, job) /\ repeats(job, now)
            /\ inner.jobs[successor] = None
      /\ Unlocked /\ todo' = todo /\ now' = now
  BY <1>3 DEF complete_job, CommitAs, fresh_ids
<1> HIDE DEF u
<1>5. /\ job \in Job /\ job.id = j /\ job.options = u.options
      /\ job.state = "Completed" /\ job.repeat_count = u.repeat_count
      /\ job.deduplication_expires_at = u.deduplication_expires_at
      /\ job.finished_at = now /\ Free(job)
  BY <1>1, <1>2 DEF Job, JobState, Free
<1> HIDE DEF job
<1>6. Kin(w, job) /\ job.state \in Terminal
  BY <1>1, <1>2, <1>5, NoneAssumption DEF Kin, Terminal, Held
<1>7. /\ Sound(nexted, now) /\ Orderly({j}, inner, nexted)
      /\ Ended(nexted, j) => Capped(nexted, j)
      /\ ~enqueues_deduplicated_next(kept, job) =>
            \A k \in JobIds : nexted.jobs[k] = None \/ nexted.jobs[k] = base.jobs[k]
      /\ Sourced(job) /\ Limited(job)
      /\ SameKey => \/ repeat_key(job) = None
                    \/ \A k \in JobIds : LiveKey(base.jobs[k]) # repeat_key(job)
  BY <1>1, <1>5, <1>6, FinishSound
<1>8. \A k \in JobIds \ {j} : base.jobs[k] = inner.jobs[k]
  BY <1>1, PutRecordFields
<1> HIDE DEF base, kept, nexted
<1>9. CASE inner' = nexted
  BY <1>1, <1>4, <1>7, <1>9, EndIsTidy
<1>10. CASE /\ inner' = after
            /\ ~enqueues_deduplicated_next(kept, job) /\ repeats(job, now)
            /\ inner.jobs[successor] = None
  <2>1. nexted.jobs[successor] = None
    BY <1>1, <1>7, <1>8, <1>10 DEF Held
  <2>2. SameKey => \/ repeat_key(job) = None
                   \/ \A k \in JobIds : LiveKey(nexted.jobs[k]) # repeat_key(job)
    BY <1>7, <1>10 DEF LiveKey
  <2>3. Sound(after, now) /\ Orderly({}, nexted, after)
    BY <1>1, <1>5, <1>7, <1>10, <2>1, <2>2, SuccessorSound
  <2> HIDE DEF after
  <2>4. Orderly({j}, inner, inner')
    BY <1>1, <1>7, <1>10, <2>3, OrderlyTransitive DEF Sound
  <2>5. Ended(inner', j) => Capped(inner', j)
    <3> HAVE Ended(inner', j)
    <3>1. Ended(nexted, j) /\ nexted \in State
      BY <1>7, <1>10, <2>3, Numbers DEF Orderly, Sound
    <3> QED
      BY <1>7, <1>10, <2>3, <3>1, CapStays
  <2> QED
    BY <1>1, <1>4, <1>10, <2>3, <2>4, <2>5, EndIsTidy
<1> QED
  BY <1>4, <1>9, <1>10

-----------------------------------------------------------------------------
LEMMA RetryTidy ==
    ASSUME Inv, TableInv, WellLocked(inner'), NEW j \in JobIds, retry(j)
    PROVE  Tidy({})
<1> DEFINE w == inner.jobs[j]
           u == unleased(w)
           n == inner.sequence + 1
           e == deduplication_expiration(w.options, now)
           mid == forget_released_deduplication_owner_locked(inner, w)
           job == [u EXCEPT !.state = "Waiting", !.scheduled_at = now,
                            !.deduplication_expires_at = e, !.processed_at = None,
                            !.finished_at = None, !.enqueued_seq = n]
<1>1. /\ WellLocked(inner) /\ inner \in State /\ inner.sequence \in Nat /\ now \in Nat
      /\ w # None /\ w \in Job /\ w.id = j /\ GoodRecord(w) /\ GoodParked(inner)
  BY InvWellLocked, Numbers DEF retry, TableInv, Sound, GoodTable
<1>2. /\ u \in Job /\ u.id = j /\ u.options = w.options /\ u.repeat_count = w.repeat_count
  BY <1>1 DEF unleased, Job
<1>3. e \in Nat \cup {None} /\ n \in Nat /\ inner.sequence < n /\ inner.sequence <= n
  <2>1. w.options \in JobOptions
    BY <1>1 DEF Job
  <2> QED
    BY <1>1, <2>1, ExpirationType
<1>4. /\ mid \in State /\ mid.jobs = inner.jobs /\ mid.sequence = inner.sequence
      /\ mid.deduplication_next = inner.deduplication_next
      /\ \A k : k # j => \A d : <<d, k>> \in inner.released_deduplication_owners
                           => <<d, k>> \in mid.released_deduplication_owners
  BY <1>1, ForgetFields
<1>5. /\ find_active_deduplication_id(inner, job_deduplication_id(w), now) \subseteq {j}
      /\ find_active_repeat_key(inner, repeat_key(w)) \subseteq {j}
  BY DEF retry
<1> HIDE DEF mid, u, e
<1>6. /\ inner' = [mid EXCEPT !.sequence = n, !.jobs[j] = job]
      /\ Unlocked /\ todo' = todo /\ now' = now
  <2>1. inner' = [mid EXCEPT !.sequence = mid.sequence + 1, !.jobs[j] = job]
    BY DEF retry, Commit, CommitAs, mid, u, e
  <2> QED
    BY <1>4, <2>1 DEF retry, Commit, CommitAs
<1> HIDE DEF w, n
<1>7. /\ job \in Job /\ job.options = u.options /\ job.repeat_count = u.repeat_count
      /\ job.state = "Waiting" /\ job.enqueued_seq = n
  BY <1>1, <1>2, <1>3 DEF Job, JobState
<1>8. job # None
  BY <1>7, NoneAssumption
<1> HIDE DEF job
<1>9. /\ inner'.sequence = n /\ inner'.jobs[j] = job
      /\ \A k \in JobIds \ {j} : inner'.jobs[k] = inner.jobs[k]
      /\ inner'.released_deduplication_owners = mid.released_deduplication_owners
      /\ inner'.deduplication_next = inner.deduplication_next
  BY <1>4, <1>6, PutFields
<1>10. GoodRecord(job)
  BY <1>1, <1>2, <1>7 DEF GoodRecord, Sourced, Limited, Terminal
<1>11. OnlyAt(j, inner, inner', now)
  <2> SUFFICES ASSUME NEW k \in JobIds \ {j}
               PROVE  Owned(inner', k, now) = None \/ Owned(inner', k, now) = Owned(inner, k, now)
    BY <1>9 DEF OnlyAt
  <2>1. inner'.jobs[k] = inner.jobs[k]
    BY <1>9
  <2>2. \A d : <<d, k>> \in inner.released_deduplication_owners
                => <<d, k>> \in inner'.released_deduplication_owners
    BY <1>4, <1>9
  <2> QED
    BY <2>1, <2>2, OwnedFewer
<1>12. KeyIsFree(j, inner, inner')
  <2>1. LiveKey(inner'.jobs[j]) = repeat_key(w)
    BY <1>2, <1>7, <1>8, <1>9 DEF LiveKey, active_repeat_key, repeat_key, Terminal
  <2>2. repeat_key(w) = None \/ \A k \in JobIds \ {j} : LiveKey(inner.jobs[k]) # repeat_key(w)
    BY <1>5 DEF find_active_repeat_key, Present, LiveKey
  <2> QED
    BY <2>1, <2>2 DEF KeyIsFree
<1>13. IdIsFree(j, inner, inner', now)
  <2> DEFINE d == job_deduplication_id(w)
  <2>1. Owned(inner', j, now) = None \/ Owned(inner', j, now) = d
    BY <1>2, <1>7, <1>9, OwnedIsOwnId DEF job_deduplication_id
  <2>2. d = None \/ \A k \in JobIds \ {j} : Owned(inner, k, now) # d
    BY <1>5 DEF find_active_deduplication_id, Present, Owned
  <2> HIDE DEF d
  <2> QED
    BY <2>1, <2>2 DEF IdIsFree
<1>14. Later(inner, inner', j) /\ inner.sequence <= inner'.sequence
  BY <1>3, <1>7, <1>9 DEF Later, n
<1>15. GoodParked(inner')
  BY <1>1, <1>9 DEF GoodParked
<1>16. Sound(inner', now) /\ Orderly({j}, inner, inner')
  BY <1>9, <1>10, <1>11, <1>12, <1>13, <1>14, <1>15, PutSound DEF TableInv
<1>17. Orderly({}, inner, inner')
  BY <1>7, <1>9, <1>14, <1>16, PutOrderly DEF Ended, Terminal
<1> QED
  BY <1>6, <1>16, <1>17, CalmIsTidy

\* A candidate that meets the owner of its deduplication id.
LEMMA MeetOwnerSound ==
    ASSUME Inv, TableInv, NEW j \in JobIds, NEW o \in Options, inner.jobs[j] = None,
           NEW e \in find_active_deduplication_id(
                         inner, active_deduplication_id(new_job(j, o, now), now), now)
    PROVE  LET b == meet_owner(inner, new_job(j, o, now), inner.jobs[e]) IN
           Sound(b, now) /\ Orderly({}, inner, b)
<1> DEFINE candidate == new_job(j, o, now)
           owner == inner.jobs[e]
           d == active_deduplication_id(candidate, now)
           heir == preserve_replacement_deduplication_expiration(candidate, owner)
           b == meet_owner(inner, candidate, owner)
<1>1. /\ WellLocked(inner) /\ inner \in State /\ now \in Nat /\ o \in JobOptions
      /\ Sound(inner, now)
  BY InvWellLocked, Numbers, OptionsAssumption DEF TableInv
<1>2. /\ candidate \in Job /\ candidate.id = j /\ Free(candidate) /\ Ready(candidate)
      /\ Sourced(candidate) /\ Limited(candidate)
  BY <1>1, NewJob, NewRecord
<1>3. /\ e \in JobIds /\ owner # None /\ d # None /\ Owned(inner, e, now) = d
  BY DEF find_active_deduplication_id, Present, Owned
<1>4. owner \in Job /\ owner.id = e
  BY <1>1, <1>3, Numbers
<1> HIDE DEF candidate, owner
<1>5. candidate.options.deduplication # None
  BY <1>3 DEF active_deduplication_id, job_deduplication_id
<1>6. CASE deduplication_replaces_delayed_owner(candidate, owner)
  <2> DEFINE mid == remove_job_records(inner, {e})
  <2>1. mid = remove_job_record_locked(inner, e)
    BY <1>1, <1>3, <1>4, RemoveRecordIsSet DEF owner
  <2>2. \A k \in {e} \cap JobIds : ~Held(inner.jobs[k])
    BY <1>6 DEF deduplication_replaces_delayed_owner, Held, owner
  <2>3. Sound(mid, now) /\ Orderly({}, inner, mid)
    BY <1>1, <2>2, RemoveRecordsSound
  <2>4. Thinned(inner, mid, now)
    BY <1>1, RemoveRecordsThin
  <2>5. mid.jobs[e] = None
    BY <1>1, <1>3 DEF remove_job_records, State, InMemoryJobQueueState
  <2>6. b = insert_unless_repeating(mid, heir)
    BY <1>4, <1>6, <2>1 DEF meet_owner
  <2> HIDE DEF mid
  <2>7. /\ heir \in Job /\ heir.id = j /\ Free(heir) /\ Ready(heir)
        /\ heir.options = candidate.options /\ heir.repeat_count = candidate.repeat_count
    <3> DEFINE x == owner.deduplication_expires_at
    <3>1. x \in Nat \cup {None}
      BY <1>4 DEF Job
    <3>2. heir = candidate \/ heir = [candidate EXCEPT !.deduplication_expires_at = x]
      BY DEF preserve_replacement_deduplication_expiration
    <3> HIDE DEF x, heir
    <3>3. /\ heir \in Job /\ heir.id = j /\ heir.state = candidate.state
          /\ heir.lock_token = candidate.lock_token
          /\ heir.lease_expires_at = candidate.lease_expires_at
          /\ heir.options = candidate.options /\ heir.repeat_count = candidate.repeat_count
      BY <1>2, <3>1, <3>2 DEF Job
    <3> QED
      BY <1>2, <3>3, NoneAssumption DEF Free, Ready
  <2> HIDE DEF heir
  <2>8. Sourced(heir) /\ Limited(heir)
    BY <1>2, <2>7 DEF Sourced, Limited
  <2>9. mid.jobs[heir.id] = None
    BY <2>4, <2>7 DEF Thinned
  <2>10. SimpleIds => \/ active_deduplication_id(heir, now) = None
                      \/ \A k \in JobIds : Owned(mid, k, now) # active_deduplication_id(heir, now)
    <3>1. \/ active_deduplication_id(heir, now) = None
          \/ active_deduplication_id(heir, now) = d
      BY <1>3, <2>7 DEF active_deduplication_id, job_deduplication_id
    <3>2. SimpleIds => \A k \in JobIds : Owned(inner, k, now) = d => k = e
      BY <1>1, <1>3 DEF Sound, OneOwner
    <3>3. Owned(mid, e, now) = None
      BY <2>5 DEF Owned
    <3>4. \A k \in JobIds : Owned(mid, k, now) = None \/ Owned(mid, k, now) = Owned(inner, k, now)
      BY <2>4 DEF Thinned
    <3> HIDE DEF d
    <3> QED
      BY <1>3, <3>1, <3>2, <3>3, <3>4
  <2>11. Sound(b, now) /\ Orderly({}, mid, b)
    BY <2>3, <2>6, <2>7, <2>8, <2>9, <2>10, InsertUnlessRepeatingSound
  <2>12. Orderly({}, inner, b)
    BY <1>1, <2>3, <2>11, OrderlyTransitive DEF Sound
  <2> QED
    BY <2>11, <2>12 DEF candidate, owner
<1>7. CASE ~deduplication_replaces_delayed_owner(candidate, owner)
  <2> DEFINE mid == store_deduplicated_next_locked(inner, candidate, inner.jobs[e])
  <2>1. b = extend_deduplication_expiration_locked(mid, candidate, e, now)
    BY <1>4, <1>7 DEF meet_owner, owner
  <2>2. /\ Sound(mid, now) /\ Orderly({}, inner, mid) /\ mid.jobs[e] # None
        /\ Owned(mid, e, now) # None
    BY <1>1, <1>2, <1>3, <1>5, StoreNextSound DEF owner
  <2> HIDE DEF mid
  <2>3. Sound(b, now) /\ Orderly({}, mid, b)
    BY <1>1, <1>2, <1>3, <2>1, <2>2, ExtendSound
  <2>4. Orderly({}, inner, b)
    BY <1>1, <2>2, <2>3, OrderlyTransitive DEF Sound
  <2> QED
    BY <2>3, <2>4 DEF candidate, owner
<1> QED
  BY <1>6, <1>7

LEMMA AddTidy ==
    ASSUME Inv, TableInv, NEW j \in JobIds, NEW o \in Options, add_at(j, o)
    PROVE  Tidy({})
<1> DEFINE candidate == new_job(j, o, now)
           d == active_deduplication_id(candidate, now)
           owners == find_active_deduplication_id(inner, d, now)
<1>1. now \in Nat /\ o \in JobOptions /\ Sound(inner, now) /\ inner.jobs[j] = None
  BY InvWellLocked, OptionsAssumption DEF TableInv, add_at
<1>2. /\ candidate \in Job /\ candidate.id = j /\ Free(candidate) /\ Ready(candidate)
      /\ Sourced(candidate) /\ Limited(candidate)
  BY <1>1, NewJob, NewRecord
<1>3. CASE owners = {} /\ Commit(insert_unless_repeating(inner, candidate))
  <2>1. d = None \/ \A k \in JobIds : Owned(inner, k, now) # d
    BY <1>3 DEF find_active_deduplication_id, Present, Owned
  <2>2. inner' = insert_unless_repeating(inner, candidate)
        /\ Unlocked /\ todo' = todo /\ now' = now
    BY <1>3 DEF Commit, CommitAs
  <2> HIDE DEF candidate
  <2>3. Sound(inner', now) /\ Orderly({}, inner, inner')
    BY <1>1, <1>2, <2>1, <2>2, InsertUnlessRepeatingSound
  <2> QED
    BY <2>2, <2>3, CalmIsTidy
<1>4. ASSUME NEW e \in owners, Commit(meet_owner(inner, candidate, inner.jobs[e]))
      PROVE  Tidy({})
  <2>1. inner' = meet_owner(inner, candidate, inner.jobs[e])
        /\ Unlocked /\ todo' = todo /\ now' = now
    BY <1>4 DEF Commit, CommitAs
  <2>2. Sound(inner', now) /\ Orderly({}, inner, inner')
    BY <1>1, <1>4, <2>1, MeetOwnerSound
  <2> QED
    BY <2>1, <2>2, CalmIsTidy
<1> QED
  BY <1>3, <1>4 DEF add_at

LEMMA UpsertRepeatTidy ==
    ASSUME Inv, TableInv, NEW j \in JobIds, NEW o \in Options, upsert_repeat(j, o)
    PROVE  Tidy({})
<1> DEFINE job == new_job(j, o, now)
           owners == find_active_repeat_key(inner, repeat_key(job))
<1>1. /\ WellLocked(inner) /\ inner \in State /\ now \in Nat /\ o \in JobOptions
      /\ Sound(inner, now) /\ o.repeat # None
  BY InvWellLocked, Numbers, OptionsAssumption DEF TableInv, upsert_repeat
<1>2. /\ job \in Job /\ job.id = j /\ Free(job) /\ Ready(job)
      /\ Sourced(job) /\ Limited(job) /\ job.options = o
  BY <1>1, NewJob, NewRecord
<1>3. PICK current \in IF owners = {} THEN {{}} ELSE {{x} : x \in owners} :
          /\ \A x \in current : require_removable(inner.jobs[x])
          /\ inner.jobs[j] # None => j \in current
          /\ Commit(insert_job(forget_released_deduplication_owner_locked(
                        remove_job_records(inner, current), job), job))
  BY DEF upsert_repeat
<1> HIDE DEF job
<1>4. current \subseteq Present(inner)
  BY <1>3 DEF find_active_repeat_key
<1>5. \A x \in current \cap JobIds : ~Held(inner.jobs[x])
  BY <1>1, <1>3, <1>4 DEF Present, require_removable, WellLocked, Held
<1> DEFINE mid == remove_job_records(inner, current)
           after == insert_job(forget_released_deduplication_owner_locked(mid, job), job)
<1>6. /\ inner' = after /\ Unlocked /\ todo' = todo /\ now' = now
  BY <1>3 DEF Commit, CommitAs
<1>7. Sound(mid, now) /\ Orderly({}, inner, mid)
  BY <1>1, <1>5, RemoveRecordsSound
<1>8. \A k \in JobIds : mid.jobs[k] = IF k \in current THEN None ELSE inner.jobs[k]
  BY <1>1 DEF remove_job_records, State, InMemoryJobQueueState
<1> HIDE DEF mid
<1>9. mid.jobs[job.id] = None
  BY <1>2, <1>3, <1>8
<1>10. NoRival(mid, job, now)
  <2>1. active_repeat_key(job) = repeat_key(job)
    BY <1>2 DEF active_repeat_key, Ready, Terminal
  <2>2. ASSUME SameKey, repeat_key(job) # None, NEW k \in JobIds
        PROVE  LiveKey(mid.jobs[k]) # repeat_key(job)
    <3> SUFFICES ASSUME LiveKey(mid.jobs[k]) = repeat_key(job) PROVE FALSE
      OBVIOUS
    <3>1. k \notin current /\ LiveKey(inner.jobs[k]) = repeat_key(job) /\ inner.jobs[k] # None
      BY <1>8, <2>2 DEF LiveKey
    <3>2. k \in owners
      BY <2>2, <3>1 DEF find_active_repeat_key, Present, LiveKey
    <3>3. PICK x \in owners : current = {x}
      BY <1>3, <3>2
    <3>4. x \in JobIds /\ LiveKey(inner.jobs[x]) = repeat_key(job)
      BY <3>3 DEF find_active_repeat_key, Present, LiveKey
    <3>5. x = k
      BY <1>1, <2>2, <3>1, <3>4 DEF Sound, OneLive
    <3> QED
      BY <3>1, <3>3, <3>5
  <2>3. SimpleIds => o.deduplication = None
    BY <1>1 DEF SimpleIds
  <2>4. SimpleIds => active_deduplication_id(job, now) = None
    BY <1>2, <2>3 DEF active_deduplication_id, job_deduplication_id
  <2> QED
    BY <2>1, <2>2, <2>4 DEF NoRival
<1>11. Sound(after, now) /\ Orderly({}, mid, after)
  BY <1>2, <1>7, <1>9, <1>10, InsertSound
<1> HIDE DEF after
<1>12. Orderly({}, inner, after)
  BY <1>1, <1>7, <1>11, OrderlyTransitive DEF Sound
<1> QED
  BY <1>6, <1>11, <1>12, CalmIsTidy

-----------------------------------------------------------------------------
\* The order of recovery: expiry, start and id leave no tie.
LEMMA StalledOrder ==
    ASSUME NEW S \in SUBSET Job, \A x \in S : x.lease_expires_at \in Nat /\ x.processed_at \in Nat,
           NEW a \in S, NEW b \in S, a.id # b.id
    PROVE  /\ StalledBefore(a, b) \/ StalledBefore(b, a)
           /\ \A c \in S : StalledBefore(c, a) /\ StalledBefore(a, b) => StalledBefore(c, b)
<1>1. \A x \in S : x.lease_expires_at \in Nat /\ x.processed_at \in Nat /\ x.id \in Nat
  BY JobIdsAssumption DEF Job
<1> QED
  BY <1>1 DEF StalledBefore

\* What recovery makes of the record of a stalled job.
LEMMA StalledKin ==
    ASSUME NEW job \in Job, Held(job), now \in Nat, NEW seq \in Nat
    PROVE  /\ Kin(job, stalled_failed(job))
           /\ stalled_failed(job).options = job.options
           /\ Kin(job, stalled_requeued(job, seq))
           /\ stalled_requeued(job, seq).state = "Waiting"
           /\ stalled_requeued(job, seq).enqueued_seq = seq
<1> DEFINE u == unleased(job)
           n == u.stalled_count + 1
           f == stalled_failed(job)
           r == stalled_requeued(job, seq)
<1>1. /\ u \in Job /\ u.options = job.options /\ u.repeat_count = job.repeat_count
      /\ u.deduplication_expires_at = job.deduplication_expires_at
  BY DEF unleased, Job
<1>2. n \in Nat
  BY <1>1 DEF Job
<1>3. f = [u EXCEPT !.stalled_count = n, !.state = "Failed", !.finished_at = now]
  BY DEF stalled_failed
<1>4. r = [u EXCEPT !.stalled_count = n, !.state = "Waiting",
                    !.processed_at = None, !.enqueued_seq = seq]
  BY DEF stalled_requeued
<1>5. f \in Job /\ r \in Job
  BY StalledFailedJob, StalledRequeuedJob
<1> HIDE DEF u, n, f, r
<1>6. /\ f.options = u.options /\ f.repeat_count = u.repeat_count /\ f.state = "Failed"
      /\ f.deduplication_expires_at = u.deduplication_expires_at /\ f.finished_at = now
  BY <1>1, <1>3 DEF Job
<1>7. /\ r.options = u.options /\ r.repeat_count = u.repeat_count /\ r.state = "Waiting"
      /\ r.deduplication_expires_at = u.deduplication_expires_at /\ r.enqueued_seq = seq
  BY <1>1, <1>4 DEF Job
<1>8. f # None /\ r # None /\ now # None
  BY <1>5, NoneAssumption
<1>9. Kin(job, f) /\ f.options = job.options
  BY <1>1, <1>6, <1>8 DEF Kin, Held, Terminal
<1>10. Kin(job, r)
  BY <1>1, <1>7, <1>8 DEF Kin, Held, Terminal
<1> QED
  BY <1>7, <1>9, <1>10 DEF f, r

\* Changing many records in such ways, with a new number for each that enters the waiting list.
LEMMA ManySound ==
    ASSUME NEW t, NEW S, NEW a, NEW b, Sound(a, t), WellLocked(b), Orderly(S, a, b),
           b.released_deduplication_owners = a.released_deduplication_owners,
           b.deduplication_next = a.deduplication_next,
           \A j \in JobIds : \/ b.jobs[j] = a.jobs[j]
                             \/ a.jobs[j] # None /\ Kin(a.jobs[j], b.jobs[j]),
           \A j, k \in JobIds :
               /\ Waits(b, j) /\ Waits(b, k) /\ Later(a, b, j) /\ Later(a, b, k)
               /\ b.jobs[j].enqueued_seq = b.jobs[k].enqueued_seq
               => j = k
    PROVE  Sound(b, t)
<1>1. /\ WellLocked(a) /\ GoodTable(a) /\ GoodParked(a) /\ Numbered(a) /\ OneLive(a)
      /\ OneOwner(a, t)
  BY DEF Sound
<1>2. Numbered(b)
  BY <1>1, OrderlyNumbered
<1>3. ASSUME NEW j \in JobIds
      PROVE  /\ b.jobs[j] # None => GoodRecord(b.jobs[j])
             /\ LiveKey(b.jobs[j]) = None \/ LiveKey(b.jobs[j]) = LiveKey(a.jobs[j])
             /\ Owned(b, j, t) = None \/ Owned(b, j, t) = Owned(a, j, t)
  <2>1. CASE b.jobs[j] = a.jobs[j]
    BY <1>1, <2>1 DEF GoodTable, Owned
  <2>2. CASE a.jobs[j] # None /\ Kin(a.jobs[j], b.jobs[j])
    <3>1. GoodRecord(a.jobs[j])
      BY <1>1, <2>2 DEF GoodTable
    <3>2. /\ GoodRecord(b.jobs[j])
          /\ LiveKey(b.jobs[j]) = None \/ LiveKey(b.jobs[j]) = LiveKey(a.jobs[j])
      BY <2>2, <3>1, KinRecord
    <3>3. Owned(b, j, t) = None \/ Owned(b, j, t) = Owned(a, j, t)
      BY <2>2, <3>1, KinOwned
    <3> QED
      BY <3>2, <3>3
  <2> QED
    BY <2>1, <2>2
<1>4. GoodTable(b) /\ GoodParked(b)
  BY <1>1, <1>3 DEF GoodTable, GoodParked
<1>5. OneLive(b)
  BY <1>1, <1>3 DEF OneLive
<1>6. OneOwner(b, t)
  BY <1>1, <1>3 DEF OneOwner
<1> QED
  BY <1>2, <1>4, <1>5, <1>6 DEF Sound

\* The first step of a recovery.
LEMMA RecoverTidy ==
    ASSUME Inv, TableInv, WellLocked(inner'), recover_stalled_jobs
    PROVE  \E S \in SUBSET JobIds : Tidy(S)
<1> DEFINE out == {j \in stalled_jobs : stalls_out(inner.jobs[j])}
           back == stalled_jobs \ out
           ahead == [j \in back |-> {k \in back : StalledBefore(inner.jobs[k], inner.jobs[j])}]
           rank(j) == Cardinality({k \in back : StalledBefore(inner.jobs[k], inner.jobs[j])})
           seq(j) == inner.sequence + rank(j) + 1
           table == [j \in JobIds |-> IF j \in out THEN stalled_failed(inner.jobs[j])
                                      ELSE IF j \in back
                                      THEN stalled_requeued(inner.jobs[j], seq(j))
                                      ELSE inner.jobs[j]]
           n == inner.sequence + Cardinality(back)
           moved == [inner EXCEPT !.sequence = n, !.jobs = table]
           gone == {j \in out : removes_failed_immediately(inner.jobs[j])}
<1>1. /\ WellLocked(inner) /\ inner \in State /\ inner.sequence \in Nat /\ now \in Nat
      /\ Sound(inner, now)
  BY InvWellLocked, Numbers DEF TableInv
<1>2. /\ inner' = remove_job_records(moved, gone)
      /\ todo' = {inner.jobs[j] : j \in out}
      /\ now' = now /\ Unlocked
  BY DEF recover_stalled_jobs
<1>3. \A j \in stalled_jobs :
        /\ j \in JobIds /\ inner.jobs[j] # None /\ inner.jobs[j] \in Job
        /\ inner.jobs[j].id = j /\ Held(inner.jobs[j]) /\ GoodRecord(inner.jobs[j])
        /\ inner.jobs[j].lease_expires_at \in Nat /\ inner.jobs[j].processed_at \in Nat
  <2> TAKE j \in stalled_jobs
  <2>1. j \in JobIds /\ inner.jobs[j] \in Job /\ inner.jobs[j].id = j /\ Held(inner.jobs[j])
    BY StalledJobs
  <2>2. inner.jobs[j] # None /\ inner.jobs[j].state = "Active" /\ GoodRecord(inner.jobs[j])
    BY <1>1, <2>1 DEF Held, Sound, GoodTable
  <2>3. inner.jobs[j].lease_expires_at # None /\ inner.jobs[j].processed_at # None
    BY <1>1, <2>1, <2>2 DEF WellLocked, GoodRecord
  <2> QED
    BY <2>1, <2>2, <2>3 DEF Job
<1>4. /\ out \subseteq JobIds /\ back \subseteq JobIds /\ IsFiniteSet(back)
      /\ Cardinality(back) \in Nat /\ n \in Nat
  BY <1>1, <1>3, JobIdsCardinality
<1>5. /\ \A j \in back : Cardinality(ahead[j]) \in Nat /\ Cardinality(ahead[j]) < Cardinality(back)
      /\ \A j, k \in back : Cardinality(ahead[j]) = Cardinality(ahead[k]) => j = k
  <2> DEFINE S == {inner.jobs[j] : j \in back}
  <2>1. S \in SUBSET Job /\ \A x \in S : x.lease_expires_at \in Nat /\ x.processed_at \in Nat
    BY <1>3
  <2>2. \A j \in back : ahead[j] \subseteq back /\ j \notin ahead[j]
    <3>1. \A j \in back : /\ inner.jobs[j].lease_expires_at \in Nat
                          /\ inner.jobs[j].processed_at \in Nat /\ inner.jobs[j].id \in Nat
      BY <1>3, JobIdsAssumption
    <3>2. \A j \in back : ~StalledBefore(inner.jobs[j], inner.jobs[j])
      BY <3>1 DEF StalledBefore
    <3> QED
      BY <3>2
  <2>3. \A j \in back : inner.jobs[j] \in S /\ inner.jobs[j].id = j
    BY <1>3
  <2> HIDE DEF S
  <2>4. \A j, k \in back : j # k =>
          \/ StalledBefore(inner.jobs[j], inner.jobs[k])
          \/ StalledBefore(inner.jobs[k], inner.jobs[j])
    BY <2>1, <2>3, StalledOrder
  <2>5. ASSUME NEW j \in back, NEW k \in back, j # k,
               StalledBefore(inner.jobs[j], inner.jobs[k])
        PROVE  j \in ahead[k] /\ ahead[j] \subseteq ahead[k]
    <3>1. \A i \in back : StalledBefore(inner.jobs[i], inner.jobs[j])
                            => StalledBefore(inner.jobs[i], inner.jobs[k])
      BY <2>1, <2>3, <2>5, StalledOrder
    <3> QED
      BY <2>5, <3>1
  <2> HIDE DEF ahead, back
  <2> QED
    BY <1>4, <2>2, <2>4, <2>5, RanksDistinct
<1>6. \A j \in back : /\ seq(j) = inner.sequence + Cardinality(ahead[j]) + 1
                      /\ seq(j) \in Nat /\ inner.sequence < seq(j) /\ seq(j) <= n
  <2> TAKE j \in back
  <2>1. seq(j) = inner.sequence + Cardinality(ahead[j]) + 1
    OBVIOUS
  <2> HIDE DEF seq, ahead, back
  <2> QED
    BY <1>1, <1>4, <1>5, <2>1
<1>7. \A j, k \in back : seq(j) = seq(k) => j = k
  <2> HIDE DEF seq, ahead, back
  <2> QED
    BY <1>1, <1>5, <1>6
<1>8. /\ moved.sequence = n /\ moved.jobs = table
      /\ moved.deduplication_next = inner.deduplication_next
      /\ moved.released_deduplication_owners = inner.released_deduplication_owners
  <2> HIDE DEF table, n
  <2> QED
    BY <1>1 DEF State, InMemoryJobQueueState
<1>9. /\ \A j \in out : moved.jobs[j] = stalled_failed(inner.jobs[j])
      /\ \A j \in back : moved.jobs[j] = stalled_requeued(inner.jobs[j], seq(j))
      /\ \A j \in JobIds \ stalled_jobs : moved.jobs[j] = inner.jobs[j]
  <2> HIDE DEF moved, seq
  <2> QED
    BY <1>4, <1>8
<1> HIDE DEF moved, table, seq, ahead, n
<1>10. \A j \in out : /\ Kin(inner.jobs[j], moved.jobs[j]) /\ moved.jobs[j].state = "Failed"
                      /\ moved.jobs[j].id = j /\ Free(moved.jobs[j])
                      /\ moved.jobs[j].options = inner.jobs[j].options
                      /\ moved.jobs[j] \in Job
  <2> TAKE j \in out
  <2>1. inner.jobs[j] \in Job /\ inner.jobs[j].id = j /\ Held(inner.jobs[j])
    BY <1>3
  <2>2. 0 \in Nat
    OBVIOUS
  <2> QED
    BY <1>1, <1>9, <2>1, <2>2, StalledKin, StalledFailedJob
<1>11. \A j \in back : /\ Kin(inner.jobs[j], moved.jobs[j]) /\ moved.jobs[j].state = "Waiting"
                       /\ moved.jobs[j].enqueued_seq = seq(j)
                       /\ moved.jobs[j].id = j /\ Free(moved.jobs[j])
                       /\ moved.jobs[j] \in Job
  <2> TAKE j \in back
  <2>1. inner.jobs[j] \in Job /\ inner.jobs[j].id = j /\ Held(inner.jobs[j]) /\ seq(j) \in Nat
    BY <1>3, <1>6
  <2>2. moved.jobs[j] = stalled_requeued(inner.jobs[j], seq(j))
    BY <1>9
  <2>3. /\ Kin(inner.jobs[j], moved.jobs[j]) /\ moved.jobs[j].state = "Waiting"
        /\ moved.jobs[j].enqueued_seq = seq(j)
    BY <1>1, <2>1, <2>2, StalledKin
  <2>4. moved.jobs[j].id = j /\ Free(moved.jobs[j]) /\ moved.jobs[j] \in Job
    BY <2>1, <2>2, StalledRequeuedJob
  <2> QED
    BY <2>3, <2>4
<1>12. stalled_jobs = out \cup back
  OBVIOUS
<1> HIDE DEF out, back
<1>13. moved \in State
  <2>1. table \in [JobIds -> Job \cup {None}]
    <3>1. \A j \in JobIds : moved.jobs[j] \in Job \cup {None}
      BY <1>1, <1>9, <1>10, <1>11, <1>12 DEF State, InMemoryJobQueueState
    <3>2. table = [j \in JobIds |-> table[j]]
      BY DEF table
    <3> QED
      BY <1>8, <3>1, <3>2
  <2> QED
    BY <1>1, <1>4, <2>1 DEF moved, State, InMemoryJobQueueState
<1>14. WellLocked(moved)
  BY <1>1, <1>9, <1>10, <1>11, <1>12, <1>13 DEF WellLocked, Held, Free
<1>15. \A j \in back : Later(inner, moved, j)
  BY <1>6, <1>8, <1>11 DEF Later
<1>16. Orderly(out, inner, moved)
  <2>1. inner.sequence <= moved.sequence
    BY <1>1, <1>4, <1>8 DEF n
  <2>2. \A j \in JobIds : Waits(moved, j) => Stays(inner, moved, j) \/ Later(inner, moved, j)
    BY <1>9, <1>10, <1>12, <1>15 DEF Waits, Stays
  <2>3. \A j \in JobIds \ out : Ended(moved, j) =>
          /\ Ended(inner, j) /\ moved.jobs[j] = inner.jobs[j]
    BY <1>9, <1>11, <1>12 DEF Ended, Terminal
  <2> QED
    BY <2>1, <2>2, <2>3 DEF Orderly
<1>17. \A j \in JobIds : Waits(moved, j) /\ Later(inner, moved, j) => j \in back
  <2> TAKE j \in JobIds
  <2>1. HAVE Waits(moved, j) /\ Later(inner, moved, j)
  <2>2. SUFFICES ASSUME j \notin back PROVE FALSE
    OBVIOUS
  <2>3. moved.jobs[j] = inner.jobs[j]
    BY <1>9, <1>10, <1>12, <2>1, <2>2 DEF Waits
  <2>4. Waits(inner, j) /\ inner.jobs[j].enqueued_seq <= inner.sequence
        /\ inner.jobs[j].enqueued_seq \in Nat
    BY <1>1, <2>1, <2>3, Numbers DEF Waits, Sound, Numbered
  <2> QED
    BY <1>1, <2>1, <2>3, <2>4 DEF Later
<1>18. Sound(moved, now)
  <2>1. \A j \in JobIds : \/ moved.jobs[j] = inner.jobs[j]
                          \/ inner.jobs[j] # None /\ Kin(inner.jobs[j], moved.jobs[j])
    BY <1>3, <1>9, <1>10, <1>11, <1>12
  <2>2. \A j, k \in JobIds :
          /\ Waits(moved, j) /\ Waits(moved, k) /\ Later(inner, moved, j) /\ Later(inner, moved, k)
          /\ moved.jobs[j].enqueued_seq = moved.jobs[k].enqueued_seq
          => j = k
    BY <1>7, <1>11, <1>17
  <2> QED
    BY <1>1, <1>8, <1>14, <1>16, <2>1, <2>2, ManySound
<1>19. Sound(inner', now) /\ Orderly({}, moved, inner')
  <2>1. \A j \in gone \cap JobIds : ~Held(moved.jobs[j])
    BY <1>10 DEF Free, Held
  <2> QED
    BY <1>2, <1>18, <2>1, RemoveRecordsSound
<1>20. Orderly(out, inner, inner')
  BY <1>1, <1>14, <1>16, <1>19, OrderlyTransitive
<1>21. \A j \in JobIds : inner'.jobs[j] = IF j \in gone THEN None ELSE moved.jobs[j]
  BY <1>2, <1>13 DEF remove_job_records, State, InMemoryJobQueueState
<1>22. TodoInv'
  <2> SUFFICES ASSUME NEW j \in out
               PROVE  /\ Sourced(inner.jobs[j]) /\ repeat_key(inner.jobs[j]) = None
                      /\ Ended(inner', j) =>
                          /\ inner'.jobs[j].state = "Failed"
                          /\ Keeps(inner'.jobs[j]) = inner.jobs[j].options.failure_retention
                          /\ ~removes_failed_immediately(inner.jobs[j])
    BY <1>2, <1>3, <1>12 DEF TodoInv
  <2>1. Sourced(inner.jobs[j]) /\ inner.jobs[j].state = "Active"
    BY <1>3, <1>12 DEF GoodRecord, Held
  <2>2. repeat_key(inner.jobs[j]) = None
    BY <2>1 DEF out, stalls_out, is_repeat_scheduler_job, active_repeat_key, Terminal
  <2>3. Ended(inner', j) => j \notin gone /\ inner'.jobs[j] = moved.jobs[j]
    BY <1>4, <1>21 DEF Ended
  <2>4. Keeps(moved.jobs[j]) = inner.jobs[j].options.failure_retention
    BY <1>10 DEF Keeps
  <2> QED
    BY <1>10, <2>1, <2>2, <2>3, <2>4
<1>23. Settling' = out /\ Settling = {}
  BY <1>2, <1>3, <1>12 DEF Settling, Unlocked
<1>24. Tidy(out)
  <2>1. \A j \in out : Held(inner.jobs[j])
    BY <1>3, <1>12
  <2> QED
    BY <1>2, <1>19, <1>20, <1>22, <1>23, <2>1 DEF Tidy
<1> QED
  BY <1>4, <1>24

\* A later step of a recovery: what follows the failure of one job.
LEMMA SettleStalledTidy ==
    ASSUME Inv, TableInv, settle_stalled
    PROVE  Tidy({})
<1>1. /\ WellLocked(inner) /\ now \in Nat /\ Sound(inner, now) /\ now' = now
  BY InvWellLocked DEF TableInv, settle_stalled
<1>2. PICK job \in todo :
        LET failed == stalled_failed(job)
            nexted == enqueue_deduplicated_next_locked(inner, failed, now)
        IN  /\ inner' = IF failed.options.failure_retention = None
                           \/ removes_failed_immediately(failed) THEN nexted
                        ELSE apply_finished_retention_locked(
                                nexted, "Failed", failed.options.failure_retention, now)
            /\ todo' = todo \ {job}
  BY DEF settle_stalled
<1> DEFINE failed == stalled_failed(job)
           retention == job.options.failure_retention
           nexted == enqueue_deduplicated_next_locked(inner, failed, now)
           pruning == apply_finished_retention_locked(nexted, "Failed", retention, now)
<1>3. /\ job \in Job /\ Sourced(job) /\ repeat_key(job) = None
      /\ \A x \in todo : Ended(inner, x.id) =>
            /\ inner.jobs[x.id].state = "Failed"
            /\ Keeps(inner.jobs[x.id]) = x.options.failure_retention
            /\ ~removes_failed_immediately(x)
  BY DEF Inv, TypeOK, TableInv, TodoInv
<1>4. failed \in Job /\ failed.options = job.options
  <2>1. failed \in Job
    BY <1>1, <1>3, StalledFailedJob
  <2>2. unleased(job) \in Job /\ unleased(job).options = job.options
    BY <1>3, UnleasedJob
  <2>3. failed.options = unleased(job).options
    BY <2>2 DEF stalled_failed, Job
  <2> QED
    BY <2>1, <2>2, <2>3
<1> HIDE DEF failed
<1>5. Sourced(failed) /\ repeat_key(failed) = None
  BY <1>3, <1>4 DEF Sourced, repeat_key
<1>6. Sound(nexted, now) /\ Orderly({}, inner, nexted)
  BY <1>1, <1>4, <1>5, EnqueueNextSound
<1>7. /\ inner' = IF retention = None \/ removes_failed_immediately(job) THEN nexted ELSE pruning
      /\ todo' = todo \ {job}
  BY <1>2, <1>4 DEF failed, removes_failed_immediately
<1>8. retention \in JobRetention \cup {None}
  BY <1>3 DEF Job, JobOptions
<1> HIDE DEF nexted, retention
<1>9. /\ Sound(pruning, now) /\ Orderly({}, nexted, pruning)
      /\ retention # None => \/ retention.count = None
                             \/ Cardinality(InState(pruning, "Failed")) <= retention.count
  <2> DEFINE S == pruned(nexted, "Failed", retention, now)
  <2>1. \A j \in S \cap JobIds : ~Held(nexted.jobs[j])
    BY PrunedInState DEF InState, Held
  <2>2. pruning = remove_job_records(nexted, S)
    BY DEF apply_finished_retention_locked
  <2>3. Sound(pruning, now) /\ Orderly({}, nexted, pruning)
    BY <1>6, <2>1, <2>2, RemoveRecordsSound
  <2> QED
    BY <1>6, <1>8, <2>3, RetentionCaps DEF Terminal
<1>10. Orderly({}, inner, pruning)
  BY <1>1, <1>6, <1>9, OrderlyTransitive DEF Sound
<1> HIDE DEF pruning
<1>11. Sound(inner', now) /\ Orderly({}, inner, inner')
  BY <1>6, <1>7, <1>9, <1>10
<1>12. \A x \in todo : Ended(inner', x.id) =>
         /\ inner'.jobs[x.id].state = "Failed"
         /\ Keeps(inner'.jobs[x.id]) = x.options.failure_retention
         /\ ~removes_failed_immediately(x)
  <2> SUFFICES ASSUME NEW x \in todo, Ended(inner', x.id)
               PROVE  /\ inner'.jobs[x.id].state = "Failed"
                      /\ Keeps(inner'.jobs[x.id]) = x.options.failure_retention
                      /\ ~removes_failed_immediately(x)
    OBVIOUS
  <2>1. x.id \in JobIds
    BY DEF Inv, TypeOK, Job
  <2>2. /\ Ended(inner, x.id) /\ inner'.jobs[x.id].state = inner.jobs[x.id].state
        /\ Keeps(inner'.jobs[x.id]) = Keeps(inner.jobs[x.id])
    BY <1>11, <2>1 DEF Orderly
  <2> QED
    BY <1>3, <2>2
<1>13. TodoInv'
  BY <1>7, <1>12 DEF TodoInv, TableInv
<1>14. ASSUME NEW j \in JobIds, Ended(inner', j), j \notin Settling', j \in Settling
       PROVE  Capped(inner', j)
  <2>1. j = job.id
    BY <1>7, <1>14 DEF Settling
  <2>2. /\ inner'.jobs[j].state = "Failed" /\ Keeps(inner'.jobs[j]) = retention
        /\ ~removes_failed_immediately(job)
    BY <1>12, <1>14, <2>1 DEF retention
  <2> QED
    BY <1>7, <1>9, <2>2 DEF Capped
<1> QED
  BY <1>1, <1>11, <1>13, <1>14 DEF Tidy

-----------------------------------------------------------------------------
(***************************************************************************)
(* The invariant and what follows from it.                                 *)
(***************************************************************************)
LEMMA EveryStepIsTidy ==
    ASSUME Inv, TableInv, Next
    PROVE  WellLocked(inner') /\ \E S \in SUBSET JobIds : Tidy(S)
<1>1. Inv'
  BY StepKeepsInv
<1>2. WellLocked(inner')
  BY <1>1, NoneAssumption
  DEF Inv, TypeOK, LeaseConsistent, WellLocked, State, InMemoryJobQueueState, Present, Held, Free
<1> SUFFICES Tidy({}) \/ (\E j \in JobIds : Tidy({j})) \/ \E S \in SUBSET JobIds : Tidy(S)
  BY <1>2
<1>3. CASE Tick
  BY <1>3, TickTidy
<1>4. CASE Submission
  BY <1>4, AddTidy, UpsertRepeatTidy DEF Submission
<1>5. CASE Worker
  <2>1. ASSUME NEW lease_for \in Durations, claim_next(lease_for)
        PROVE  Tidy({})
    BY <1>2, <2>1, ClaimTidy
  <2>2. ASSUME NEW j \in JobIds, NEW token \in Tokens, NEW lease_for \in Durations,
               renew(j, token, lease_for)
        PROVE  Tidy({})
    BY <1>2, <2>2, RenewTidy
  <2>3. ASSUME NEW j \in JobIds, NEW token \in Tokens,
               \/ \E successor \in JobIds : complete_job(j, token, successor)
               \/ \E allow_retry \in BOOLEAN : fail_active_job(j, token, allow_retry)
               \/ \E delay \in Durations : delay_active(j, token, delay)
               \/ release_active(j, token)
        PROVE  Tidy({j})
    BY <1>2, <2>3, CompleteTidy, FailTidy, DelayTidy, ReleaseTidy
  <2> QED
    BY <1>5, <2>1, <2>2, <2>3 DEF Worker
<1>6. CASE Recovery
  BY <1>2, <1>6, RecoverTidy, SettleStalledTidy DEF Recovery
<1>7. CASE Management
  <2>1. ASSUME NEW j \in JobIds,
               \/ promote(j) \/ retry(j) \/ remove(j)
               \/ \E delay \in Durations : reschedule(j, delay)
               \/ \E p \in Priorities, lifo \in BOOLEAN : set_priority_order(j, p, lifo)
        PROVE  Tidy({})
    BY <1>2, <2>1, PromoteTidy, RetryTidy, RemoveTidy, RescheduleTidy, SetPriorityTidy
  <2>2. ASSUME NEW key \in RepeatKeys, remove_repeat(key)
        PROVE  Tidy({})
    BY <2>2, RemoveTidy DEF remove_repeat, find_active_repeat_key, Present
  <2>3. ASSUME \/ promote_due_jobs
               \/ \E d \in DedupIds : remove_deduplication_key(d)
               \/ \E state \in JobState, grace \in Durations,
                     limit \in 1 .. Cardinality(JobIds) : clean(state, grace, limit)
               \/ \E include_delayed \in BOOLEAN : drain(include_delayed)
               \/ \E force \in BOOLEAN : obliterate(force)
               \/ pause \/ resume
        PROVE  Tidy({})
    BY <1>2, <2>3, PromoteDueTidy, RemoveKeyTidy, CleanTidy, DrainTidy, ObliterateTidy, PauseTidy
  <2> QED
    BY <1>7, <2>1, <2>2, <2>3 DEF Management
<1> QED
  BY <1>3, <1>4, <1>5, <1>6, <1>7 DEF Next

LEMMA StutterKeepsTable ==
    ASSUME TableInv, UNCHANGED vars
    PROVE  TableInv'
BY DEF TableInv, TodoInv, Retained, Kept, Settling, vars

LEMMA InitTable == Init => TableInv
<1> SUFFICES ASSUME Init PROVE TableInv
  OBVIOUS
<1>1. /\ \A j \in JobIds : inner.jobs[j] = None
      /\ \A d \in DedupIds : inner.deduplication_next[d] = None
      /\ todo = {}
  BY DEF Init, EmptyQueue
<1>2. WellLocked(inner)
  BY InitInv, InvWellLocked
<1>3. Sound(inner, now)
  BY <1>1, <1>2 DEF Sound, GoodTable, GoodParked, Numbered, Waits, OneLive, LiveKey, OneOwner, Owned
<1>4. TodoInv
  BY <1>1 DEF TodoInv
<1>5. Retained
  <2>1. \A state \in Terminal, n \in Nat : Kept(state, n) \ Settling = {}
    BY <1>1 DEF Kept, InState, Present
  <2> QED
    BY <2>1, FS_EmptySet DEF Retained
<1> QED
  BY <1>3, <1>4, <1>5 DEF TableInv

\* The job table of every reachable state is sound, and retention was applied to every job
\* that has finished.
THEOREM TableInvariance == Spec => [](Inv /\ TableInv)
<1>1. Inv /\ TableInv /\ [Next]_vars => Inv' /\ TableInv'
  <2>1. ASSUME Inv, TableInv, Next PROVE TableInv'
    BY <2>1, EveryStepIsTidy, TidyKeepsInv
  <2> QED
    BY <2>1, StepKeepsInv, StutterKeepsInv, StutterKeepsTable
<1> QED
  BY <1>1, InitInv, InitTable, PTL DEF Spec

\* Any two waiting jobs are ordered one way, so claim_next has exactly one candidate.
THEOREM ClaimsAreDetermined == Spec => []WaitingOrderIsTotal
<1>1. ASSUME Inv, TableInv PROVE WaitingOrderIsTotal
  <2> SUFFICES ASSUME NEW j \in InState(inner, "Waiting"), NEW k \in InState(inner, "Waiting"),
                      j # k
               PROVE  compare_claim_order(inner.jobs[j], inner.jobs[k])
                        <=> ~compare_claim_order(inner.jobs[k], inner.jobs[j])
    BY DEF WaitingOrderIsTotal
  <2> DEFINE a == inner.jobs[j]
             b == inner.jobs[k]
  <2>1. j \in JobIds /\ k \in JobIds /\ Waits(inner, j) /\ Waits(inner, k)
    BY DEF InState, Present, Waits
  <2>2. /\ a \in Job /\ a.id = j /\ a.enqueued_seq \in Nat
        /\ b \in Job /\ b.id = k /\ b.enqueued_seq \in Nat
    BY <1>1, <2>1, InvWellLocked, Numbers DEF Waits
  <2>3. a.enqueued_seq = b.enqueued_seq => a.enqueued_seq = 0
    BY <1>1, <2>1 DEF TableInv, Sound, Numbered
  <2>4. /\ a.options.priority \in Nat /\ b.options.priority \in Nat
        /\ a.options.lifo \in BOOLEAN /\ b.options.lifo \in BOOLEAN
        /\ a.id \in Nat /\ b.id \in Nat /\ a.id # b.id
    BY <2>1, <2>2, JobIdsAssumption DEF Job, JobOptions
  <2> HIDE DEF a, b
  <2>5. compare_waiting_order(a, b) <=> ~compare_waiting_order(b, a)
    <3>1. CASE a.enqueued_seq = 0 \/ b.enqueued_seq = 0
      BY <2>2, <2>4, <3>1 DEF compare_waiting_order
    <3>2. CASE a.enqueued_seq # 0 /\ b.enqueued_seq # 0 /\ a.options.lifo # b.options.lifo
      BY <2>4, <3>2 DEF compare_waiting_order
    <3>3. CASE a.enqueued_seq # 0 /\ b.enqueued_seq # 0 /\ a.options.lifo = b.options.lifo
      BY <2>2, <2>3, <3>3 DEF compare_waiting_order
    <3> QED
      BY <3>1, <3>2, <3>3
  <2>6. compare_claim_order(a, b) <=> ~compare_claim_order(b, a)
    BY <2>4, <2>5 DEF compare_claim_order
  <2> QED
    BY <2>6 DEF a, b
<1> QED
  BY <1>1, TableInvariance, PTL

\* A job that enters the waiting list comes behind the jobs of its priority that were waiting,
\* unless it is LIFO or its worker released it.
THEOREM NobodyOvertakes == Spec => NoOvertaking
<1> DEFINE remains(j) == /\ j \in InState(inner, "Waiting")
                         /\ j \in InState(inner', "Waiting")
                         /\ inner'.jobs[j].enqueued_seq = inner.jobs[j].enqueued_seq
           given_back(j) == j \in InState(inner, "Active") /\ inner'.jobs[j].enqueued_seq = 0
           Behind == \A j, k \in InState(inner', "Waiting") :
                        /\ remains(j) /\ ~remains(k) /\ ~given_back(k)
                        /\ ~inner'.jobs[k].options.lifo
                        /\ inner'.jobs[j].options.priority = inner'.jobs[k].options.priority
                        => compare_waiting_order(inner'.jobs[j], inner'.jobs[k])
<1>1. ASSUME Inv, TableInv, Next PROVE Behind
  <2>1. PICK S \in SUBSET JobIds : Tidy(S)
    BY <1>1, EveryStepIsTidy
  <2>2. WellLocked(inner) /\ WellLocked(inner')
    BY <1>1, EveryStepIsTidy, InvWellLocked
  <2> SUFFICES ASSUME NEW j \in InState(inner', "Waiting"), NEW k \in InState(inner', "Waiting"),
                      remains(j), ~remains(k), ~given_back(k), ~inner'.jobs[k].options.lifo
               PROVE  compare_waiting_order(inner'.jobs[j], inner'.jobs[k])
    OBVIOUS
  <2> DEFINE a == inner'.jobs[j]
             b == inner'.jobs[k]
  <2>3. /\ j \in JobIds /\ k \in JobIds /\ Waits(inner', j) /\ Waits(inner', k)
        /\ Waits(inner, j) /\ a.enqueued_seq = inner.jobs[j].enqueued_seq
    BY DEF InState, Present, Waits
  <2>4. /\ inner.sequence \in Nat /\ a.enqueued_seq \in Nat /\ b.enqueued_seq \in Nat
    BY <2>2, <2>3, Numbers DEF Waits
  <2>5. a.enqueued_seq <= inner.sequence
    BY <1>1, <2>3 DEF TableInv, Sound, Numbered
  <2>6. Stays(inner, inner', k) \/ Later(inner, inner', k) \/ (k \in S /\ b.enqueued_seq = 0)
    BY <2>1, <2>3 DEF Tidy, Orderly
  <2>7. ~Stays(inner, inner', k)
    BY <2>3 DEF Stays, Waits, InState, Present
  <2>8. ~(k \in S /\ b.enqueued_seq = 0)
    BY <2>1, <2>3 DEF Tidy, Held, InState, Present
  <2>9. inner.sequence < b.enqueued_seq
    BY <2>6, <2>7, <2>8 DEF Later
  <2>10. a.options.lifo \in BOOLEAN /\ b.options.lifo \in BOOLEAN
    <3>1. a \in Job /\ b \in Job
      BY <2>2, <2>3, Numbers DEF Waits
    <3> QED
      BY <3>1 DEF Job, JobOptions
  <2>11. ~b.options.lifo
    OBVIOUS
  <2> HIDE DEF a, b
  <2>12. compare_waiting_order(a, b)
    <3>1. CASE a.enqueued_seq = 0
      BY <2>4, <2>9, <3>1 DEF compare_waiting_order
    <3>2. CASE a.enqueued_seq # 0
      BY <2>4, <2>5, <2>9, <2>10, <2>11, <3>2 DEF compare_waiting_order
    <3> QED
      BY <3>1, <3>2
  <2> QED
    BY <2>12 DEF a, b
<1>2. Inv /\ TableInv /\ [Next]_vars =>
        [LET stays(j) == /\ j \in InState(inner, "Waiting")
                         /\ j \in InState(inner', "Waiting")
                         /\ inner'.jobs[j].enqueued_seq = inner.jobs[j].enqueued_seq
             released(j) == /\ j \in InState(inner, "Active")
                            /\ inner'.jobs[j].enqueued_seq = 0
         IN  \A j, k \in InState(inner', "Waiting") :
                /\ stays(j) /\ ~stays(k) /\ ~released(k)
                /\ ~inner'.jobs[k].options.lifo
                /\ inner'.jobs[j].options.priority = inner'.jobs[k].options.priority
                => compare_waiting_order(inner'.jobs[j], inner'.jobs[k])]_vars
  BY <1>1
<1> QED
  BY <1>2, TableInvariance, PTL DEF Spec, NoOvertaking

\* When every finished job of a kind asks that at most n be kept, at most n are.
THEOREM RetentionIsExact == Spec => []RetentionHolds
<1>1. ASSUME TableInv PROVE RetentionHolds
  <2> SUFFICES ASSUME NEW state \in Terminal, NEW n \in 0 .. Cardinality(JobIds), Unlocked,
                      \A j \in InState(inner, state) :
                         Keeps(inner.jobs[j]) # None /\ Keeps(inner.jobs[j]).count = n
               PROVE  Cardinality(InState(inner, state)) <= n
    BY DEF RetentionHolds, Keeps
  <2>1. Kept(state, n) \ Settling = InState(inner, state)
    BY DEF Kept, Settling, Unlocked
  <2>2. n \in Nat
    BY JobIdsCardinality
  <2> QED
    BY <1>1, <2>1, <2>2 DEF TableInv, Retained
<1> QED
  BY <1>1, TableInvariance, PTL

\* No occurrence of a series is numbered at or past its limit, when duplicates agree on it.
THEOREM LimitsHold == SameLimit => (Spec => []RepeatWithinLimit)
<1> SUFFICES ASSUME SameLimit PROVE Spec => []RepeatWithinLimit
  OBVIOUS
<1>1. ASSUME TableInv PROVE RepeatWithinLimit
  <2> SUFFICES ASSUME NEW j \in Present(inner), repeat_key(inner.jobs[j]) # None
               PROVE  \/ inner.jobs[j].options.repeat.limit = 0
                      \/ inner.jobs[j].repeat_count < inner.jobs[j].options.repeat.limit
    BY DEF RepeatWithinLimit
  <2>1. Limited(inner.jobs[j]) /\ inner.jobs[j].options.repeat # None
    BY <1>1 DEF Present, TableInv, Sound, GoodTable, GoodRecord, repeat_key
  <2> QED
    BY <2>1 DEF Limited
<1> QED
  BY <1>1, TableInvariance, PTL

\* A set of jobs in which any two are the same job has at most one member.
LEMMA AtMostOne ==
    ASSUME NEW S, \A j, k \in S : j = k
    PROVE  Cardinality(S) <= 1
<1>1. CASE S = {}
  BY <1>1, FS_EmptySet
<1>2. CASE S # {}
  <2>1. PICK x \in S : S = {x}
    BY <1>2
  <2> QED
    BY <2>1, FS_Singleton
<1> QED
  BY <1>1, <1>2

\* A repeat series has one live occurrence, when duplicates belong to one series.
THEOREM SeriesHaveOneOwner == SameKey => (Spec => []RepeatSingleOwner)
<1> SUFFICES ASSUME SameKey PROVE Spec => []RepeatSingleOwner
  OBVIOUS
<1>1. ASSUME TableInv PROVE RepeatSingleOwner
  <2> SUFFICES ASSUME NEW key \in RepeatKeys
               PROVE  Cardinality(find_active_repeat_key(inner, key)) <= 1
    BY DEF RepeatSingleOwner
  <2>1. \A j \in find_active_repeat_key(inner, key) :
          j \in JobIds /\ LiveKey(inner.jobs[j]) = key /\ key # None
    BY DEF find_active_repeat_key, Present, LiveKey
  <2>2. \A j, k \in find_active_repeat_key(inner, key) : j = k
    BY <1>1, <2>1 DEF TableInv, Sound, OneLive
  <2> QED
    BY <2>2, AtMostOne
<1> QED
  BY <1>1, TableInvariance, PTL

\* A deduplication id has one owner, when jobs with an id neither park duplicates nor repeat.
THEOREM IdsHaveOneOwner == SimpleIds => (Spec => []DedupSingleOwner)
<1> SUFFICES ASSUME SimpleIds PROVE Spec => []DedupSingleOwner
  OBVIOUS
<1>1. ASSUME TableInv PROVE DedupSingleOwner
  <2> SUFFICES ASSUME NEW d \in DedupIds
               PROVE  Cardinality(find_active_deduplication_id(inner, d, now)) <= 1
    BY DEF DedupSingleOwner
  <2>1. \A j \in find_active_deduplication_id(inner, d, now) :
          j \in JobIds /\ Owned(inner, j, now) = d /\ d # None
    BY DEF find_active_deduplication_id, Present, Owned
  <2>2. \A j, k \in find_active_deduplication_id(inner, d, now) : j = k
    BY <1>1, <2>1 DEF TableInv, Sound, OneOwner
  <2> QED
    BY <2>2, AtMostOne
<1> QED
  BY <1>1, TableInvariance, PTL

-----------------------------------------------------------------------------
(***************************************************************************)
(* The latest duplicate runs.                                              *)
(***************************************************************************)
\* The parked duplicate has become a job of its own.
Runs(st, parked) ==
    /\ st.jobs[parked.id] # None
    /\ st.jobs[parked.id].state \in {"Waiting", "Delayed"}
    /\ st.jobs[parked.id].options = parked.options
    /\ st.jobs[parked.id].created_at = now

LEMMA EnqueueNextRuns ==
    ASSUME NEW st, WellLocked(st), now \in Nat, NEW owner \in Job, NEW d \in DedupIds,
           job_deduplication_id(owner) = d, st.deduplication_next[d] # None,
           st.jobs[st.deduplication_next[d].id] = None,
           keep_last_continues(owner, st.deduplication_next[d])
    PROVE  Runs(enqueue_deduplicated_next_locked(st, owner, now), st.deduplication_next[d])
<1> DEFINE parked == st.deduplication_next[d]
           taken == [st EXCEPT !.deduplication_next[d] = None]
           next == prepare_deduplicated_next_job(parked, now)
           n == owner.repeat_count + 1
           counted == IF repeat_key(owner) = None THEN next
                      ELSE [next EXCEPT !.repeat_count = n]
           room == forget_released_deduplication_owner_locked(taken, counted)
<1>1. st \in State /\ parked \in Job /\ d # None
  BY NoneAssumption DEF WellLocked, State, InMemoryJobQueueState
<1>2. taken \in State
  BY <1>1 DEF State, InMemoryJobQueueState
<1>3. enqueue_deduplicated_next_locked(st, owner, now) = insert_job(room, counted)
  BY <1>1 DEF enqueue_deduplicated_next_locked, enqueues_deduplicated_next
<1>4. /\ next \in Job /\ next.id = parked.id /\ next.options = parked.options
      /\ next.created_at = now /\ next.state \in {"Waiting", "Delayed"}
  <2>1. parked.id \in JobIds /\ parked.options \in JobOptions
    BY <1>1 DEF Job
  <2>2. next \in Job /\ Ready(next)
    BY <2>1, NewJob DEF prepare_deduplicated_next_job
  <2> QED
    BY <2>2 DEF prepare_deduplicated_next_job, new_job, Ready
<1>5. n \in Nat
  BY DEF Job
<1> HIDE DEF next, n, taken
<1>6. /\ counted \in Job /\ counted.id = parked.id /\ counted.options = parked.options
      /\ counted.created_at = now /\ counted.state \in {"Waiting", "Delayed"}
  BY <1>4, <1>5 DEF Job
<1> HIDE DEF counted
<1>7. room \in State
  BY <1>2, ForgetFields
<1> HIDE DEF room
<1>8. insert_job(room, counted).jobs = [room.jobs EXCEPT ![parked.id] = Inserted(room, counted)]
  BY <1>6, <1>7, InsertFields
<1>9. insert_job(room, counted).jobs[parked.id] = Inserted(room, counted)
  BY <1>1, <1>7, <1>8 DEF State, InMemoryJobQueueState, Job
<1>10. Inserted(room, counted) # None /\ Inserted(room, counted).state = counted.state
       /\ Inserted(room, counted).options = counted.options
  BY <1>6, <1>7, InsertedRecord
<1>11. Inserted(room, counted).created_at = counted.created_at
  BY <1>6 DEF Inserted, Job
<1> QED
  BY <1>3, <1>6, <1>9, <1>10, <1>11 DEF Runs

\* Retention takes no parked duplicate and puts no job into the table.
LEMMA RemoveRecordsFields ==
    ASSUME NEW st \in State, NEW S
    PROVE  LET b == remove_job_records(st, S) IN
           /\ b.deduplication_next = st.deduplication_next
           /\ \A k \in JobIds : b.jobs[k] = IF k \in S THEN None ELSE st.jobs[k]
BY DEF remove_job_records, State, InMemoryJobQueueState

LEMMA RetainFields ==
    ASSUME NEW st \in State, NEW job \in Job, NEW retention, NEW t
    PROVE  LET b == retain_finished(st, job, retention, t) IN
           /\ b.deduplication_next = st.deduplication_next
           /\ \A k \in JobIds : b.jobs[k] = None \/ b.jobs[k] = st.jobs[k]
<1>1. CASE retention = None
  BY <1>1 DEF retain_finished
<1>2. CASE retention # None /\ retention.count = 0
  <2>1. retain_finished(st, job, retention, t) = remove_job_record_locked(st, job.id)
    BY <1>2 DEF retain_finished
  <2> DEFINE room == forget_released_deduplication_owner_locked(st, st.jobs[job.id])
  <2>2. room \in State /\ room.jobs = st.jobs /\ room.deduplication_next = st.deduplication_next
    BY ForgetFields
  <2> HIDE DEF room
  <2>3. remove_job_record_locked(st, job.id) = [room EXCEPT !.jobs[job.id] = None]
    BY DEF remove_job_record_locked, room
  <2> QED
    BY <2>1, <2>2, <2>3 DEF State, InMemoryJobQueueState
<1>3. CASE retention # None /\ retention.count # 0
  BY <1>3, RemoveRecordsFields DEF retain_finished, apply_finished_retention_locked
<1> QED
  BY <1>1, <1>2, <1>3

\* The end of a job by its own worker.
LEMMA FinishRuns ==
    ASSUME Inv, NEW j \in JobIds, Held(inner.jobs[j]), NEW job \in Job, NEW retention,
           job.id = j, Free(job), job.state \in Terminal, job.options = inner.jobs[j].options,
           job.repeat_count = inner.jobs[j].repeat_count,
           NEW d \in DedupIds, job_deduplication_id(inner.jobs[j]) = d,
           inner.deduplication_next[d] # None,
           inner.jobs[inner.deduplication_next[d].id] = None,
           keep_last_continues(inner.jobs[j], inner.deduplication_next[d])
    PROVE  LET base == [inner EXCEPT !.jobs[j] = job]
               kept == retain_finished(base, job, retention, now)
           IN  /\ Runs(enqueue_deduplicated_next_locked(kept, job, now),
                       inner.deduplication_next[d])
               /\ enqueues_deduplicated_next(kept, job)
<1> DEFINE parked == inner.deduplication_next[d]
           base == [inner EXCEPT !.jobs[j] = job]
           kept == retain_finished(base, job, retention, now)
<1>1. inner \in State /\ now \in Nat /\ parked \in Job /\ parked.id \in JobIds
  BY InvWellLocked DEF Inv, TypeOK, State, InMemoryJobQueueState, Job
<1>2. /\ WellLocked(base) /\ base \in State /\ base.jobs[j] = job
      /\ base.deduplication_next = inner.deduplication_next
      /\ base.jobs[parked.id] = None
  <2>1. WellLocked(base)
    BY ReleaseGentle
  <2>2. parked.id # j
    BY DEF Held
  <2> QED
    BY <1>1, <2>1, <2>2 DEF WellLocked, State, InMemoryJobQueueState
<1> HIDE DEF base
<1>3. WellLocked(kept)
  BY <1>2, RetainGentle, ChangeWellLocked DEF Gentle
<1>4. kept.deduplication_next[d] = parked /\ kept.jobs[parked.id] = None
  BY <1>1, <1>2, RetainFields
<1> HIDE DEF kept
<1>5. job_deduplication_id(job) = d /\ keep_last_continues(job, parked)
  BY DEF job_deduplication_id, keep_last_continues, repeat_key, repeat_within_limit
<1>6. Runs(enqueue_deduplicated_next_locked(kept, job, now), parked)
  BY <1>1, <1>3, <1>4, <1>5, EnqueueNextRuns
<1>7. enqueues_deduplicated_next(kept, job)
  BY <1>4, <1>5, NoneAssumption DEF enqueues_deduplicated_next
<1> QED
  BY <1>6, <1>7 DEF kept, base

\* The duplicate d parks is free to run when owner ends.
Due(d, owner) ==
    /\ inner.deduplication_next[d] # None
    /\ inner.jobs[inner.deduplication_next[d].id] = None
    /\ job_deduplication_id(owner) = d
    /\ keep_last_continues(owner, inner.deduplication_next[d])

LEMMA CompleteRuns ==
    ASSUME Inv, NEW j \in JobIds, NEW token, NEW successor \in JobIds,
           complete_job(j, token, successor), NEW d \in DedupIds, Due(d, inner.jobs[j])
    PROVE  Runs(inner', inner.deduplication_next[d])
<1> DEFINE w == inner.jobs[j]
           u == unleased(w)
           job == [u EXCEPT !.state = "Completed", !.finished_at = now]
           base == [inner EXCEPT !.jobs[j] = job]
           kept == retain_finished(base, job, job.options.completion_retention, now)
           nexted == enqueue_deduplicated_next_locked(kept, job, now)
<1>1. w \in Job /\ w.id = j /\ Held(w) /\ now \in Nat
  BY TokenHolds, InvWellLocked DEF complete_job
<1>2. /\ u \in Job /\ u.id = j /\ u.options = w.options /\ u.repeat_count = w.repeat_count
      /\ u.lock_token = None /\ u.lease_expires_at = None
  BY <1>1 DEF unleased, Job
<1>3. enqueues_deduplicated_next(kept, job) => inner' = nexted
  BY DEF complete_job, CommitAs
<1> HIDE DEF u
<1>4. /\ job \in Job /\ job.id = j /\ job.options = w.options /\ Free(job)
      /\ job.state \in Terminal /\ job.repeat_count = w.repeat_count
  BY <1>1, <1>2 DEF Job, JobState, Free, Terminal
<1> HIDE DEF job
<1>5. Runs(nexted, inner.deduplication_next[d]) /\ enqueues_deduplicated_next(kept, job)
  BY <1>1, <1>4, FinishRuns DEF Due
<1> QED
  BY <1>3, <1>5

LEMMA FailRuns ==
    ASSUME Inv, NEW j \in JobIds, NEW token, NEW allow_retry \in BOOLEAN,
           fail_active_job(j, token, allow_retry),
           inner'.jobs[j] # None => inner'.jobs[j].state \in Terminal,
           NEW d \in DedupIds, Due(d, inner.jobs[j])
    PROVE  Runs(inner', inner.deduplication_next[d])
<1> DEFINE w == inner.jobs[j]
           u == unleased(w)
           at == now + u.options.retry_delay
           delayed == [u EXCEPT !.state = "Delayed", !.scheduled_at = at,
                                !.finished_at = None]
           failed == [u EXCEPT !.state = "Failed", !.finished_at = now]
           base == [inner EXCEPT !.jobs[j] = failed]
           kept == retain_finished(base, failed, failed.options.failure_retention, now)
           nexted == enqueue_deduplicated_next_locked(kept, failed, now)
<1>1. w \in Job /\ w.id = j /\ Held(w) /\ now \in Nat /\ inner \in State
  BY TokenHolds, InvWellLocked DEF fail_active_job
<1>2. /\ u \in Job /\ u.id = j /\ u.options = w.options /\ u.repeat_count = w.repeat_count
      /\ u.lock_token = None /\ u.lease_expires_at = None
  BY <1>1 DEF unleased, Job
<1>3. \/ inner' = [inner EXCEPT !.jobs[j] = delayed]
      \/ inner' = failed_terminally(inner, failed)
  BY DEF fail_active_job, CommitAs
<1> HIDE DEF u
<1>3a. at \in Nat
  BY <1>1, <1>2 DEF Job, JobOptions
<1> HIDE DEF at
<1>4. /\ failed \in Job /\ failed.id = j /\ failed.options = w.options /\ Free(failed)
      /\ failed.state \in Terminal /\ failed.repeat_count = w.repeat_count
  BY <1>1, <1>2 DEF Job, JobState, Free, Terminal
<1>5. inner' # [inner EXCEPT !.jobs[j] = delayed]
  <2>1. delayed.state = "Delayed" /\ delayed \in Job
    BY <1>3a, <1>2 DEF Job, JobState
  <2> HIDE DEF delayed
  <2> SUFFICES ASSUME inner' = [inner EXCEPT !.jobs[j] = delayed] PROVE FALSE
    OBVIOUS
  <2>2. inner'.jobs[j] = delayed
    BY <1>1 DEF State, InMemoryJobQueueState
  <2>3. delayed # None
    BY <2>1, NoneAssumption
  <2> QED
    BY <2>1, <2>2, <2>3 DEF Terminal
<1> HIDE DEF failed
<1>6. inner' = nexted
  BY <1>3, <1>4, <1>5 DEF failed_terminally
<1>7. Runs(nexted, inner.deduplication_next[d])
  BY <1>1, <1>4, FinishRuns DEF Due
<1> QED
  BY <1>6, <1>7

LEMMA SettleRuns ==
    ASSUME Inv, settle_stalled, NEW owner \in todo \ todo', NEW d \in DedupIds, Due(d, owner)
    PROVE  Runs(inner', inner.deduplication_next[d])
<1> DEFINE failed == stalled_failed(owner)
           retention == failed.options.failure_retention
           nexted == enqueue_deduplicated_next_locked(inner, failed, now)
           parked == inner.deduplication_next[d]
<1>1. \/ inner' = nexted
      \/ inner' = remove_job_records(nexted, pruned(nexted, "Failed", retention, now))
  BY DEF settle_stalled, apply_finished_retention_locked
<1>2. owner \in Job /\ now \in Nat /\ WellLocked(inner)
  BY InvWellLocked DEF Inv, TypeOK
<1>3. failed \in Job
  BY <1>2, StalledFailedJob
<1>4. failed.options = owner.options /\ failed.repeat_count = owner.repeat_count
  BY <1>2 DEF stalled_failed, unleased, Job
<1> HIDE DEF failed
<1>5. job_deduplication_id(failed) = d /\ keep_last_continues(failed, parked)
  BY <1>4 DEF Due, job_deduplication_id, keep_last_continues, repeat_key, repeat_within_limit
<1>6. Runs(nexted, parked)
  BY <1>2, <1>3, <1>5, EnqueueNextRuns DEF Due
<1>7. nexted \in State /\ parked.id \in JobIds
  <2>1. nexted \in State
    BY <1>2, <1>3, EnqueueNextGentle DEF Gentle, Change
  <2>2. parked \in Job
    BY <1>2 DEF WellLocked, State, InMemoryJobQueueState, Due
  <2> QED
    BY <2>1, <2>2 DEF Job
<1> HIDE DEF nexted
<1>8. ASSUME NEW S, S = pruned(nexted, "Failed", retention, now),
             inner' = remove_job_records(nexted, S)
      PROVE  Runs(inner', parked)
  <2>1. S \subseteq InState(nexted, "Failed")
    BY <1>8, PrunedInState
  <2>2. parked.id \notin S
    BY <1>6, <2>1 DEF Runs, InState
  <2>3. inner'.jobs[parked.id] = nexted.jobs[parked.id]
    BY <1>7, <1>8, <2>2, RemoveRecordsFields
  <2> QED
    BY <1>6, <2>3 DEF Runs
<1> QED
  BY <1>1, <1>6, <1>8

\* Every other step ends no job with a token and settles none.
EndsNobody ==
    /\ todo \subseteq todo'
    /\ \A j \in InState(inner, "Active") : presented' = inner.jobs[j].lock_token =>
           inner'.jobs[j] # None /\ inner'.jobs[j].state \notin Terminal

LEMMA TokenNamesJob ==
    ASSUME Inv, NEW j \in JobIds, NEW k \in JobIds, Held(inner.jobs[j]), Held(inner.jobs[k]),
           inner.jobs[j].lock_token = inner.jobs[k].lock_token
    PROVE  j = k
BY DEF Inv, LeaseConsistent, Present, Held

LEMMA TokenlessEndsNobody ==
    ASSUME Inv, \/ Tick \/ Submission \/ recover_stalled_jobs \/ Management
                \/ \E lease_for \in Durations : claim_next(lease_for)
    PROVE  EndsNobody
<1>1. presented' = None
  BY NoTokenPresented DEF Recovery
<1>2. \A j \in InState(inner, "Active") : inner.jobs[j].lock_token # None
  BY InvWellLocked DEF WellLocked, InState, Present, Held
<1>3. todo \subseteq todo'
  <2>1. CASE Tick \/ Submission
    BY <2>1 DEF Tick, Submission, add_at, upsert_repeat, Commit, CommitAs
  <2>2. CASE recover_stalled_jobs
    BY <2>2 DEF recover_stalled_jobs, Unlocked
  <2>3. CASE \E lease_for \in Durations : claim_next(lease_for)
    BY <2>3 DEF claim_next
  <2>4. CASE Management
    <3>1. ASSUME NEW j \in JobIds,
                 \/ promote(j) \/ retry(j) \/ remove(j)
                 \/ \E delay \in Durations : reschedule(j, delay)
                 \/ \E p \in Priorities, lifo \in BOOLEAN : set_priority_order(j, p, lifo)
          PROVE  todo' = todo
      BY <3>1 DEF promote, retry, remove, reschedule, set_priority_order, Commit, CommitAs
    <3>2. ASSUME NEW key \in RepeatKeys, remove_repeat(key)
          PROVE  todo' = todo
      BY <3>2 DEF remove_repeat, remove, Commit, CommitAs
    <3>3. ASSUME \/ promote_due_jobs
                 \/ \E d \in DedupIds : remove_deduplication_key(d)
                 \/ \E state \in JobState, grace \in Durations,
                       limit \in 1 .. Cardinality(JobIds) : clean(state, grace, limit)
                 \/ \E include_delayed \in BOOLEAN : drain(include_delayed)
                 \/ \E force \in BOOLEAN : obliterate(force)
                 \/ pause \/ resume
          PROVE  todo' = todo
      BY <3>3 DEF promote_due_jobs, remove_deduplication_key, clean, drain, obliterate, pause,
                  resume, Commit, CommitAs
    <3> QED
      BY <2>4, <3>1, <3>2, <3>3 DEF Management
  <2> QED
    BY <2>1, <2>2, <2>3, <2>4
<1> QED
  BY <1>1, <1>2, <1>3 DEF EndsNobody

\* A worker that renews, delays or gives back its job ends nobody either.
LEMMA HolderEndsNobody ==
    ASSUME Inv, NEW j \in JobIds, NEW token,
           \/ \E lease_for \in Durations : renew(j, token, lease_for)
           \/ \E delay \in Durations : delay_active(j, token, delay)
           \/ release_active(j, token)
    PROVE  EndsNobody
<1> DEFINE w == inner.jobs[j]
<1>1. /\ w \in Job /\ Held(w) /\ inner \in State /\ w.lock_token = token
      /\ presented' = token /\ todo' = todo
  <2>1. /\ w # None /\ require_lock_token(w, token)
        /\ presented' = token /\ todo' = todo
    BY DEF renew, delay_active, release_active, CommitAs
  <2> QED
    BY <2>1, TokenHolds
<1>2. inner'.jobs[j] # None /\ inner'.jobs[j].state \notin Terminal
  <2>1. ASSUME NEW lease_for \in Durations, renew(j, token, lease_for)
        PROVE  Held(inner'.jobs[j])
    <3>1. PICK k \in JobIds, end \in Nat : Extended(k, end)
      BY <2>1, RenewExtends DEF ExtendsLease
    <3>2. k = j
      BY <1>1, <3>1, TokenNamesJob DEF Extended
    <3> QED
      BY <3>1, <3>2 DEF Extended
  <2>2. ASSUME NEW job \in Job, job.state \in {"Waiting", "Delayed"},
               inner' = [inner EXCEPT !.jobs[j] = job]
        PROVE  inner'.jobs[j] # None /\ inner'.jobs[j].state \notin Terminal
    BY <1>1, <2>2, NoneAssumption DEF State, InMemoryJobQueueState, Terminal
  <2>3. unleased(w) \in Job /\ now \in Nat
    BY <1>1, UnleasedJob, InvWellLocked
  <2>4. ASSUME NEW delay \in Durations, delay_active(j, token, delay)
        PROVE  inner'.jobs[j] # None /\ inner'.jobs[j].state \notin Terminal
    <3> DEFINE u == unleased(w)
               at == now + delay
               job == [u EXCEPT !.state = "Delayed", !.options.delay = delay,
                                !.scheduled_at = at, !.processed_at = None]
    <3>1. inner' = [inner EXCEPT !.jobs[j] = job]
      BY <2>4 DEF delay_active, CommitAs
    <3>2. at \in Nat /\ delay \in Nat
      BY <2>3, DurationsAssumption
    <3> HIDE DEF u, at
    <3>3. job \in Job /\ job.state = "Delayed"
      BY <2>3, <3>2 DEF u, Job, JobOptions, JobState
    <3> HIDE DEF job
    <3> QED
      BY <2>2, <3>1, <3>3
  <2>5. ASSUME release_active(j, token)
        PROVE  inner'.jobs[j] # None /\ inner'.jobs[j].state \notin Terminal
    <3> DEFINE u == unleased(w)
               job == [u EXCEPT !.state = "Waiting", !.scheduled_at = now,
                                !.processed_at = None, !.enqueued_seq = 0]
    <3>1. inner' = [inner EXCEPT !.jobs[j] = job]
      BY <2>5 DEF release_active, CommitAs
    <3> HIDE DEF u
    <3>2. job \in Job /\ job.state = "Waiting"
      BY <2>3 DEF u, Job, JobState
    <3> HIDE DEF job
    <3> QED
      BY <2>2, <3>1, <3>2
  <2> QED
    BY <2>1, <2>4, <2>5 DEF Held, Terminal
<1>3. \A k \in InState(inner, "Active") : k \in JobIds /\ Held(inner.jobs[k])
  BY DEF InState, Present, Held
<1> QED
  BY <1>1, <1>2, <1>3, TokenNamesJob DEF EndsNobody

\* When a job that parks a duplicate reaches its end, by completion, terminal failure or an
\* exhausted recovery, the duplicate becomes a job of its own in the same step, unless its
\* repeat series is over.
THEOREM DuplicatesRun == Spec => LatestDuplicateRuns
<1>1. ASSUME Inv, Next, NEW d \in DedupIds, NEW owner, Due(d, owner),
             \/ owner \in todo \ todo'
             \/ \E k \in InState(inner, "Active") :
                   /\ owner = inner.jobs[k] /\ presented' = inner.jobs[k].lock_token
                   /\ inner'.jobs[k] # None => inner'.jobs[k].state \in Terminal
      PROVE  Runs(inner', inner.deduplication_next[d])
  <2>1. ~EndsNobody
    BY <1>1 DEF EndsNobody
  <2>2. \/ settle_stalled
        \/ \E j \in JobIds, token \in Tokens :
              \/ \E successor \in JobIds : complete_job(j, token, successor)
              \/ \E allow_retry \in BOOLEAN : fail_active_job(j, token, allow_retry)
    BY <1>1, <2>1, TokenlessEndsNobody, HolderEndsNobody DEF Next, Worker, Recovery
  <2>3. CASE settle_stalled
    <3>1. owner \in todo \ todo'
      BY <1>1, <2>3, InvWellLocked
      DEF settle_stalled, WellLocked, InState, Present, Held
    <3> QED
      BY <1>1, <2>3, <3>1, SettleRuns
  <2>4. ASSUME NEW j \in JobIds, NEW token \in Tokens,
               \/ \E successor \in JobIds : complete_job(j, token, successor)
               \/ \E allow_retry \in BOOLEAN : fail_active_job(j, token, allow_retry)
        PROVE  Runs(inner', inner.deduplication_next[d])
    <3>1. /\ Held(inner.jobs[j]) /\ inner.jobs[j].lock_token = token
          /\ presented' = token /\ todo' = todo
      <4>1. /\ inner.jobs[j] # None /\ require_lock_token(inner.jobs[j], token)
            /\ presented' = token /\ todo' = todo
        BY <2>4 DEF complete_job, fail_active_job, CommitAs
      <4> QED
        BY <1>1, <4>1, TokenHolds
    <3>2. owner = inner.jobs[j] /\ (inner'.jobs[j] # None => inner'.jobs[j].state \in Terminal)
      <4>1. PICK k \in InState(inner, "Active") :
                /\ owner = inner.jobs[k] /\ presented' = inner.jobs[k].lock_token
                /\ inner'.jobs[k] # None => inner'.jobs[k].state \in Terminal
        BY <1>1, <3>1
      <4>2. k \in JobIds /\ Held(inner.jobs[k])
        BY <4>1 DEF InState, Present, Held
      <4>3. k = j
        BY <1>1, <3>1, <4>1, <4>2, TokenNamesJob
      <4> QED
        BY <4>1, <4>3
    <3> QED
      BY <1>1, <2>4, <3>2, CompleteRuns, FailRuns
  <2> QED
    BY <2>2, <2>3, <2>4
<1>2. Inv /\ [Next]_vars =>
       [\A d \in DedupIds :
          LET parked == inner.deduplication_next[d]
              ends(j) == /\ j \in InState(inner, "Active")
                         /\ presented' = inner.jobs[j].lock_token
                         /\ inner'.jobs[j] # None => inner'.jobs[j].state \in Terminal
              ended == {inner.jobs[j] : j \in {k \in Present(inner) : ends(k)}}
                          \cup (todo \ todo')
          IN  /\ parked # None
              /\ inner.jobs[parked.id] = None
              /\ \E owner \in ended : /\ job_deduplication_id(owner) = d
                                      /\ keep_last_continues(owner, parked)
              => /\ inner'.jobs[parked.id] # None
                 /\ inner'.jobs[parked.id].state \in {"Waiting", "Delayed"}
                 /\ inner'.jobs[parked.id].options = parked.options
                 /\ inner'.jobs[parked.id].created_at = now]_vars
  BY <1>1 DEF Due, Runs
<1> QED
  BY <1>2, Invariance, PTL DEF Spec, LatestDuplicateRuns

=============================================================================
