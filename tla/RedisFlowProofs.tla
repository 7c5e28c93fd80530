-------------------------- MODULE RedisFlowProofs --------------------------
(***************************************************************************)
(* Flows in RedisJobQueue: no parent is completed before its children, for *)
(* every set of job ids, submissions, flows, batches and clients.          *)
(*                                                                         *)
(* Neglects(st, p, c) says that parent p, which has not ended, does not    *)
(* wait for its child c, which has not ended either.  Heeds(X, Y, a, b)    *)
(* says that from a to b no parent outside X comes to neglect a child and  *)
(* no job outside Y comes to be completed.  Each helper of the scripts is  *)
(* shown to heed the children, these relations compose, and so does every  *)
(* script built from the helpers.  In the middle of a script a parent may  *)
(* neglect a child for a while: it is then in X, and taken out of it when  *)
(* the parent has ended (HeedsEnded) or awaits all of its children         *)
(* (HeedsPending, LeavesHeeds).  That the indexes agree with the records   *)
(* is taken from RedisJobQueueProofs.                                      *)
(***************************************************************************)
EXTENDS RedisJobQueueProofs

-----------------------------------------------------------------------------
(***************************************************************************)
(* The part of the database that parents and children are kept in.         *)
(***************************************************************************)
Fields == {"id", "state", "options", "due", "attempts_made", "stalled_count", "deferred_failure",
           "parent_id", "child_ids", "repeat_count"}

Record(r) == DOMAIN r = Fields /\ IsList(r.child_ids)

Dependents == {"pending", "processed", "failed", "unsuccessful"}

\* A parked job has no children; those of a parked flow are parked with it.
Sealed(parked) ==
    /\ parked.job.id \in JobIds
    /\ IsList(parked.children)
    /\ parked.children = <<>> => parked.job.child_ids = <<>>

Formed(st) ==
    /\ DOMAIN st = Keys
    /\ DOMAIN st.jobs = JobIds
    /\ \A j \in JobIds : st.jobs[j] # None => Record(st.jobs[j]) /\ st.jobs[j].id = j
    /\ DOMAIN st.deps = JobIds
    /\ \A j \in JobIds : DOMAIN st.deps[j] = Dependents
    /\ DOMAIN st.dedup_next = DedupIds
    /\ \A d \in DedupIds : st.dedup_next[d] # None => Sealed(st.dedup_next[d])
    /\ IsList(st.completed)

Ended(st, j) == st.jobs[j] = None \/ st.jobs[j].state \in Terminal

\* Child c of p has yet to end, and p would not wait for it.
Neglects(st, p, c) ==
    /\ ~Ended(st, p) /\ c \in ToSet(st.jobs[p].child_ids)
    /\ ~Ended(st, c) /\ st.jobs[c].parent_id = p
    /\ c \notin st.deps[p].pending

\* From a to b no parent but those in X comes to neglect a child, and no job but those in Y
\* comes to be completed.
Heeds(X, Y, a, b) == Formed(a) =>
    /\ Formed(b)
    /\ \A p \in JobIds \ X, c \in JobIds : Neglects(b, p, c) => Neglects(a, p, c)
    /\ ToSet(b.completed) \subseteq ToSet(a.completed) \cup Y

LEMMA HeedsReflexive == ASSUME NEW a PROVE Heeds({}, {}, a, a)
  BY DEF Heeds

LEMMA HeedsTransitive ==
    ASSUME NEW X, NEW Y, NEW a, NEW b, NEW c, Heeds(X, Y, a, b), Heeds({}, {}, b, c)
    PROVE  Heeds(X, Y, a, c)
  BY DEF Heeds

LEMMA HeedsAfter ==
    ASSUME NEW X, NEW Y, NEW a, NEW b, NEW c, Heeds({}, {}, a, b), Heeds(X, Y, b, c)
    PROVE  Heeds(X, Y, a, c)
  BY DEF Heeds

LEMMA HeedsBoth ==
    ASSUME NEW X, NEW a, NEW b, NEW c, Heeds(X, {}, a, b), Heeds(X, {}, b, c)
    PROVE  Heeds(X, {}, a, c)
  BY DEF Heeds

LEMMA HeedsMore ==
    ASSUME NEW X, NEW a, NEW b, Heeds({}, {}, a, b) PROVE Heeds(X, {}, a, b)
  BY DEF Heeds

\* A parent that has ended neglects nobody.
LEMMA HeedsEnded ==
    ASSUME NEW Y, NEW a, NEW b, NEW p, Heeds({p}, Y, a, b), Ended(b, p) PROVE Heeds({}, Y, a, b)
  BY DEF Heeds, Neglects

\* Neither records nor dependencies change.
Same(a, b) == Formed(a) =>
    /\ DOMAIN b = Keys /\ b.jobs = a.jobs /\ b.deps = a.deps /\ b.completed = a.completed
    /\ DOMAIN b.dedup_next = DedupIds
    /\ \A d \in DedupIds : b.dedup_next[d] \in {a.dedup_next[d], None}

LEMMA SameHeeds == ASSUME NEW a, NEW b, Same(a, b) PROVE Heeds({}, {}, a, b)
<1> SUFFICES ASSUME Formed(a) PROVE Heeds({}, {}, a, b)
  BY DEF Heeds
<1>1. Formed(b)
  BY DEF Same, Formed
<1>2. \A p, c : Neglects(b, p, c) => Neglects(a, p, c)
  BY DEF Same, Neglects, Ended
<1> QED
  BY <1>1, <1>2 DEF Heeds, Same

\* A record is stored.
Stores(a, b, j, r) == Formed(a) =>
    /\ DOMAIN b = Keys /\ b.jobs = [a.jobs EXCEPT ![j] = r] /\ b.deps = a.deps
    /\ b.completed = a.completed /\ b.dedup_next = a.dedup_next

\* What is to be stored has no children or parent that its record did not have before.
Settled(st, j, r) ==
    /\ r # None => Record(r) /\ r.id = j
    /\ r # None /\ r.state \notin Terminal =>
        /\ r.child_ids = <<>> \/ (~Ended(st, j) /\ r.child_ids = st.jobs[j].child_ids)
        /\ r.parent_id = None \/ (~Ended(st, j) /\ r.parent_id = st.jobs[j].parent_id)

LEMMA StoreForms ==
    ASSUME NEW a, NEW b, NEW j, NEW r, Formed(a), Stores(a, b, j, r), r # None => Record(r) /\ r.id = j
    PROVE  Formed(b)
  BY DEF Formed, Stores

LEMMA StoreHeeds ==
    ASSUME NEW a, NEW b, NEW j, NEW r, Stores(a, b, j, r), Formed(a) => Settled(a, j, r)
    PROVE  Heeds({}, {}, a, b)
<1> SUFFICES ASSUME Formed(a) PROVE Heeds({}, {}, a, b)
  BY DEF Heeds
<1>1. Formed(b)
  BY StoreForms DEF Settled
<1>2. /\ b.deps = a.deps /\ b.completed = a.completed
      /\ \A i \in JobIds : b.jobs[i] = IF i = j THEN r ELSE a.jobs[i]
  BY DEF Stores, Formed
<1>3. ASSUME NEW p \in JobIds, NEW c \in JobIds, Neglects(b, p, c) PROVE Neglects(a, p, c)
  <2>1. ~Ended(a, p) /\ c \in ToSet(a.jobs[p].child_ids)
    <3>1. CASE p # j
      BY <1>2, <1>3, <3>1 DEF Neglects, Ended
    <3>2. CASE p = j
      <4>1. b.jobs[p] = r /\ r # None /\ r.state \notin Terminal /\ c \in ToSet(r.child_ids)
        BY <1>2, <1>3, <3>2 DEF Neglects, Ended
      <4>2. r.child_ids # <<>>
        BY <4>1 DEF ToSet
      <4> QED
        BY <3>2, <4>1, <4>2 DEF Settled
    <3> QED
      BY <3>1, <3>2
  <2>2. ~Ended(a, c) /\ a.jobs[c].parent_id = p
    <3>1. CASE c # j
      BY <1>2, <1>3, <3>1 DEF Neglects, Ended
    <3>2. CASE c = j
      <4>1. r # None /\ r.state \notin Terminal /\ r.parent_id = p /\ p # None
        BY <1>2, <1>3, <3>2, RedisNoneAssumption DEF Neglects, Ended
      <4> QED
        BY <3>2, <4>1 DEF Settled
    <3> QED
      BY <3>1, <3>2
  <2> QED
    BY <1>2, <1>3, <2>1, <2>2 DEF Neglects
<1> QED
  BY <1>1, <1>2, <1>3 DEF Heeds

-----------------------------------------------------------------------------
\* Scripts' helpers that touch neither records nor dependencies.
LEMMA MarkersHeed ==
    ASSUME NEW st
    PROVE  /\ Heeds({}, {}, st, add_base_marker(st))
           /\ Heeds({}, {}, st, add_base_marker_if_waiting(st))
           /\ Heeds({}, {}, st, refresh_delay_marker(st))
<1>1. /\ Same(st, add_base_marker(st)) /\ Same(st, add_base_marker_if_waiting(st))
      /\ Same(st, refresh_delay_marker(st))
  BY DEF Same, Formed, Keys, add_base_marker, add_base_marker_if_waiting, refresh_delay_marker
<1> QED
  BY <1>1, SameHeeds

LEMMA DedupKeysHeed ==
    ASSUME NEW st, NEW job, NEW d
    PROVE  /\ Heeds({}, {}, st, set_deduplication_key(st, job))
           /\ Heeds({}, {}, st, release_deduplication_key(st, job))
           /\ Heeds({}, {}, st, release_deduplication_key_on_finalization(st, job))
           /\ Heeds({}, {}, st, prune_deduplication_key(st, d))
           /\ Heeds({}, {}, st, extend_deduplicated_owner(st, job))
           /\ Heeds({}, {}, st, set_replaced_deduplication_key(st, job))
<1>1. Same(st, set_deduplication_key(st, job))
  BY DEF Same, Formed, Keys, set_deduplication_key
<1>2. Same(st, release_deduplication_key(st, job))
  BY DEF Same, Formed, Keys, release_deduplication_key
<1>3. Same(st, release_deduplication_key_on_finalization(st, job))
  BY DEF Same, Formed, Keys, release_deduplication_key_on_finalization
<1>4. Same(st, prune_deduplication_key(st, d))
  BY DEF Same, Formed, Keys, prune_deduplication_key
<1>5. Same(st, extend_deduplicated_owner(st, job))
  BY DEF Same, Formed, Keys, extend_deduplicated_owner
<1>6. Same(st, set_replaced_deduplication_key(st, job))
  BY <1>1 DEF Same, Formed, Keys, set_replaced_deduplication_key
<1> QED
  BY <1>1, <1>2, <1>3, <1>4, <1>5, <1>6, SameHeeds

LEMMA RemovedOwnersHeed ==
    ASSUME NEW st, NEW before PROVE Heeds({}, {}, st, release_removed_owners(before, st))
<1>1. Same(st, release_removed_owners(before, st))
  BY DEF Same, Formed, Keys, release_removed_owners
<1> QED
  BY <1>1, SameHeeds

LEMMA RepeatKeysHeed ==
    ASSUME NEW st, NEW job, NEW k, NEW j
    PROVE  /\ Heeds({}, {}, st, SetRepeat(st, k, j)) /\ Heeds({}, {}, st, set_repeat_key(st, job))
           /\ Heeds({}, {}, st, release_repeat_key(st, job))
           /\ Heeds({}, {}, st, sync_repeat_scheduler(st, job))
           /\ Heeds({}, {}, st, prune_repeat_keys(st, k))
           /\ Heeds({}, {}, st, restore_repeat_key(st, job))
<1>1. \A kk, jj : Heeds({}, {}, st, SetRepeat(st, kk, jj))
  <2>1. \A kk, jj : Same(st, SetRepeat(st, kk, jj))
    BY DEF Same, Formed, Keys, SetRepeat
  <2> QED
    BY <2>1, SameHeeds
<1>2. Heeds({}, {}, st, set_repeat_key(st, job))
  BY <1>1, HeedsReflexive DEF set_repeat_key
<1>3. Same(st, release_repeat_key(st, job))
  BY DEF Same, Formed, Keys, release_repeat_key
<1>4. Heeds({}, {}, st, sync_repeat_scheduler(st, job))
  BY <1>1, HeedsReflexive DEF sync_repeat_scheduler
<1>5. Same(st, prune_repeat_keys(st, k))
  BY DEF Same, Formed, Keys, prune_repeat_keys
<1>6. Same(st, restore_repeat_key(st, job))
  BY DEF Same, Formed, Keys, restore_repeat_key
<1> QED
  BY <1>1, <1>2, <1>3, <1>4, <1>5, <1>6, SameHeeds

\* Neither records nor dependencies are in these keys.
LEMMA OtherKeysHeed ==
    ASSUME NEW st, NEW x
    PROVE  /\ Heeds({}, {}, st, [st EXCEPT !.waiting = x])
           /\ Heeds({}, {}, st, [st EXCEPT !.delayed = x])
           /\ Heeds({}, {}, st, [st EXCEPT !.active = x])
           /\ Heeds({}, {}, st, [st EXCEPT !.waiting_children = x])
           /\ Heeds({}, {}, st, [st EXCEPT !.lock = x])
           /\ Heeds({}, {}, st, [st EXCEPT !.stalled = x])
           /\ Heeds({}, {}, st, [st EXCEPT !.dedup = x])
           /\ Heeds({}, {}, st, [st EXCEPT !.repeat = x])
           /\ Heeds({}, {}, st, [st EXCEPT !.repeat_meta = x])
           /\ Heeds({}, {}, st, [st EXCEPT !.failed = x])
           /\ Heeds({}, {}, st, [st EXCEPT !.marker = x])
           /\ Heeds({}, {}, st, [st EXCEPT !.paused = x])
           /\ Heeds({}, {}, st, [st EXCEPT !.concurrency = x])
           /\ Heeds({}, {}, st, [st EXCEPT !.claims = x])
<1> USE DEF Same, Formed, Keys
<1>1. /\ Same(st, [st EXCEPT !.waiting = x]) /\ Same(st, [st EXCEPT !.delayed = x])
      /\ Same(st, [st EXCEPT !.active = x]) /\ Same(st, [st EXCEPT !.waiting_children = x])
      /\ Same(st, [st EXCEPT !.lock = x]) /\ Same(st, [st EXCEPT !.stalled = x])
      /\ Same(st, [st EXCEPT !.dedup = x])
  OBVIOUS
<1>2. /\ Same(st, [st EXCEPT !.repeat = x]) /\ Same(st, [st EXCEPT !.repeat_meta = x])
      /\ Same(st, [st EXCEPT !.failed = x]) /\ Same(st, [st EXCEPT !.marker = x])
      /\ Same(st, [st EXCEPT !.paused = x]) /\ Same(st, [st EXCEPT !.concurrency = x])
      /\ Same(st, [st EXCEPT !.claims = x])
  OBVIOUS
<1> HIDE DEF Same, Formed, Keys
<1> QED
  BY <1>1, <1>2, SameHeeds

LEMMA UnlockHeeds == ASSUME NEW st, NEW j PROVE Heeds({}, {}, st, unlock(st, j))
<1>1. Same(st, unlock(st, j))
  BY DEF Same, Formed, Keys, unlock
<1> QED
  BY <1>1, SameHeeds

LEMMA ForgetParkedHeeds ==
    ASSUME NEW st, NEW d PROVE Heeds({}, {}, st, [st EXCEPT !.dedup_next[d] = None])
<1>1. Same(st, [st EXCEPT !.dedup_next[d] = None])
  BY DEF Same, Formed, Keys
<1> QED
  BY <1>1, SameHeeds

LEMMA ParkHeeds ==
    ASSUME NEW st, NEW d, NEW payload, Sealed(payload) PROVE Heeds({}, {}, st, park(st, d, payload))
<1> DEFINE b == park(st, d, payload)
<1> SUFFICES ASSUME Formed(st) PROVE Heeds({}, {}, st, b)
  BY DEF Heeds
<1>1. /\ DOMAIN b = Keys /\ b.jobs = st.jobs /\ b.deps = st.deps /\ b.completed = st.completed
      /\ b.dedup_next = [st.dedup_next EXCEPT ![d] = payload]
  BY DEF Formed, Keys, park
<1> HIDE DEF b
<1>2. Formed(b)
  BY <1>1 DEF Formed
<1>3. \A p, c : Neglects(b, p, c) => Neglects(st, p, c)
  BY <1>1 DEF Neglects, Ended
<1> QED
  BY <1>1, <1>2, <1>3 DEF Heeds

\* The places of a record.
LEMMA EnqueueStores ==
    ASSUME NEW st, NEW job
    PROVE  /\ Stores(st, enqueue_waiting_job(st, job), job.id, [job EXCEPT !.state = "waiting"])
           /\ Stores(st, enqueue_delayed(st, job), job.id, [job EXCEPT !.state = "delayed"])
           /\ Stores(st, enqueue_waiting_children(st, job), job.id, job)
<1>1. Stores(st, enqueue_waiting_job(st, job), job.id, [job EXCEPT !.state = "waiting"])
  BY DEF Stores, Formed, Keys, enqueue_waiting_job, add_base_marker
<1>2. Stores(st, enqueue_delayed(st, job), job.id, [job EXCEPT !.state = "delayed"])
  BY DEF Stores, Formed, Keys, enqueue_delayed, refresh_delay_marker
<1>3. Stores(st, enqueue_waiting_children(st, job), job.id, job)
  BY DEF Stores, Formed, Keys, enqueue_waiting_children
<1> QED
  BY <1>1, <1>2, <1>3

\* The job is placed as it was, or without family.
Lone(st, job) ==
    /\ Record(job)
    /\ job.child_ids = <<>> \/ (~Ended(st, job.id) /\ job.child_ids = st.jobs[job.id].child_ids)
    /\ job.parent_id = None \/ (~Ended(st, job.id) /\ job.parent_id = st.jobs[job.id].parent_id)

LEMMA LoneSettled ==
    ASSUME NEW st, NEW job, Lone(st, job), NEW state
    PROVE  Settled(st, job.id, [job EXCEPT !.state = state]) /\ Settled(st, job.id, job)
  BY DEF Lone, Settled, Record, Fields

LEMMA EnqueueHeeds ==
    ASSUME NEW st, NEW job, Formed(st) => Lone(st, job)
    PROVE  /\ Heeds({}, {}, st, enqueue_waiting_job(st, job))
           /\ Heeds({}, {}, st, enqueue_delayed(st, job))
           /\ Heeds({}, {}, st, enqueue_prepared_job(st, job))
<1>1. /\ Heeds({}, {}, st, enqueue_waiting_job(st, job))
      /\ Heeds({}, {}, st, enqueue_delayed(st, job))
      /\ Heeds({}, {}, st, enqueue_waiting_children(st, job))
  BY EnqueueStores, LoneSettled, StoreHeeds
<1> QED
  BY <1>1 DEF enqueue_prepared_job, enqueue_waiting_children

\* Records go, with the dependencies they had.
LEMMA RemoveFinishedHeeds ==
    ASSUME NEW st, NEW gone PROVE Heeds({}, {}, st, remove_finished_jobs(st, gone))
<1> DEFINE b == remove_finished_jobs(st, gone)
<1> SUFFICES ASSUME Formed(st) PROVE Heeds({}, {}, st, b)
  BY DEF Heeds
<1>1. /\ DOMAIN b = Keys /\ b.completed = st.completed /\ b.dedup_next = st.dedup_next
      /\ b.jobs = [j \in JobIds |-> IF j \in gone THEN None ELSE st.jobs[j]]
      /\ b.deps = [j \in JobIds |-> IF j \in gone THEN NoDependencies ELSE st.deps[j]]
  BY DEF Formed, Keys, remove_finished_jobs
<1> HIDE DEF b
<1>2. DOMAIN NoDependencies = Dependents
  BY DEF NoDependencies, Dependents
<1>3. Formed(b)
  BY <1>1, <1>2 DEF Formed
<1>4. \A p, c \in JobIds : Neglects(b, p, c) => Neglects(st, p, c)
  BY <1>1 DEF Neglects, Ended
<1> QED
  BY <1>1, <1>3, <1>4 DEF Heeds

LEMMA PruneHeeds ==
    ASSUME NEW st, NEW keep
    PROVE  /\ Heeds({}, {}, st, prune_completed(st, keep))
           /\ Heeds({}, {}, st, prune_failed(st, keep))
<1>1. Heeds({}, {}, st, prune_failed(st, keep))
  <2> DEFINE kept == Newest(st.failed, keep)
             gone == ToSet(st.failed) \ ToSet(kept)
             a == remove_finished_jobs(st, gone)
  <2>1. prune_failed(st, keep) = [a EXCEPT !.failed = kept]
    BY DEF prune_failed
  <2>2. Heeds({}, {}, st, a)
    BY RemoveFinishedHeeds
  <2> HIDE DEF a, kept
  <2>3. Heeds({}, {}, a, [a EXCEPT !.failed = kept])
    BY OtherKeysHeed
  <2> QED
    BY <2>1, <2>2, <2>3, HeedsTransitive
<1>2. Heeds({}, {}, st, prune_completed(st, keep))
  <2> DEFINE kept == Newest(st.completed, keep)
             gone == ToSet(st.completed) \ ToSet(kept)
             a == remove_finished_jobs(st, gone)
             b == [a EXCEPT !.completed = kept]
  <2> SUFFICES ASSUME Formed(st) PROVE Heeds({}, {}, st, b)
    BY DEF Heeds, prune_completed
  <2>1. IsList(kept) /\ ToSet(kept) \subseteq ToSet(st.completed)
    BY NewestList DEF Formed
  <2>2. Heeds({}, {}, st, a)
    BY RemoveFinishedHeeds
  <2>3. a.completed = st.completed /\ Formed(a)
    BY <2>2 DEF Heeds, Formed, Keys, remove_finished_jobs
  <2> HIDE DEF a, kept
  <2>4. /\ DOMAIN b = Keys /\ b.jobs = a.jobs /\ b.deps = a.deps /\ b.completed = kept
        /\ b.dedup_next = a.dedup_next
    BY <2>3 DEF Formed, Keys
  <2> HIDE DEF b
  <2>5. Formed(b)
    BY <2>1, <2>3, <2>4 DEF Formed
  <2>6. \A p, c : Neglects(b, p, c) => Neglects(a, p, c)
    BY <2>4 DEF Neglects, Ended
  <2>7. Heeds({}, {}, a, b)
    BY <2>1, <2>3, <2>4, <2>5, <2>6 DEF Heeds
  <2> QED
    BY <2>2, <2>7, HeedsTransitive
<1> QED
  BY <1>1, <1>2

\* The job leaves a record that says it has ended, or none.
LEMMA PruneEnds ==
    ASSUME NEW st, Formed(st), NEW keep, NEW j \in JobIds, Ended(st, j)
    PROVE  Ended(prune_completed(st, keep), j) /\ Ended(prune_failed(st, keep), j)
<1>1. ASSUME NEW gone PROVE Ended(remove_finished_jobs(st, gone), j)
  BY DEF Ended, Formed, Keys, remove_finished_jobs
<1>2. ASSUME NEW gone, NEW x
      PROVE  /\ Ended([remove_finished_jobs(st, gone) EXCEPT !.completed = x], j)
             /\ Ended([remove_finished_jobs(st, gone) EXCEPT !.failed = x], j)
  <2> DEFINE a == remove_finished_jobs(st, gone)
  <2>1. Ended(a, j) /\ DOMAIN a = Keys
    BY <1>1, RemoveFinishedHeeds DEF Heeds, Formed
  <2> HIDE DEF a
  <2>2. [a EXCEPT !.completed = x].jobs = a.jobs /\ [a EXCEPT !.failed = x].jobs = a.jobs
    BY <2>1 DEF Keys
  <2>3. Ended([a EXCEPT !.completed = x], j) /\ Ended([a EXCEPT !.failed = x], j)
    BY <2>1, <2>2 DEF Ended
  <2> QED
    BY <2>3 DEF a
<1> QED
  BY <1>2 DEF prune_completed, prune_failed

LEMMA FinishFailedHeeds ==
    ASSUME NEW st, NEW job, Formed(st) => Record(job), job.state = "failed"
    PROVE  /\ Heeds({}, {}, st, finish_failed(st, job))
           /\ Formed(st) /\ job.id \in JobIds => Ended(finish_failed(st, job), job.id)
<1> DEFINE j == job.id
           b == [st EXCEPT !.jobs[j] = job, !.failed = Append(RemoveFrom(@, j), j)]
<1>1. Stores(st, b, j, job)
  BY DEF Stores, Formed, Keys
<1>2. Formed(st) => Settled(st, j, job)
  BY DEF Settled, Terminal
<1>3. finish_failed(st, job) = IF job.options.failure_retention = 0 THEN remove_finished_jobs(st, {j})
                               ELSE prune_failed(b, job.options.failure_retention)
  BY DEF finish_failed
<1>4. Formed(st) /\ j \in JobIds => Ended(b, j) /\ Ended(remove_finished_jobs(st, {j}), j)
  BY DEF Ended, Formed, Keys, Terminal, remove_finished_jobs
<1> HIDE DEF b
<1>5. Heeds({}, {}, st, b)
  BY <1>1, <1>2, StoreHeeds
<1>6. Heeds({}, {}, st, finish_failed(st, job))
  BY <1>3, <1>5, RemoveFinishedHeeds, PruneHeeds, HeedsTransitive
<1>7. Formed(st) => Formed(b)
  BY <1>5 DEF Heeds
<1>8. Formed(st) /\ j \in JobIds => Ended(prune_failed(b, job.options.failure_retention), j)
  BY <1>4, <1>7, PruneEnds
<1> QED
  BY <1>3, <1>4, <1>6, <1>8

LEMMA FinishCompletedHeeds ==
    ASSUME NEW st, NEW job, Formed(st) => Record(job), job.state = "completed"
    PROVE  /\ Heeds({}, {job.id}, st, finish_completed(st, job))
           /\ Formed(st) /\ job.id \in JobIds => Ended(finish_completed(st, job), job.id)
<1> DEFINE j == job.id
           list == Append(RemoveFrom(st.completed, j), j)
           b == [st EXCEPT !.jobs[j] = job, !.completed = list]
           keep == job.options.completion_retention
<1>1. Heeds({}, {j}, st, b)
  <2> DEFINE a == [st EXCEPT !.jobs[j] = job]
  <2> SUFFICES ASSUME Formed(st) PROVE Heeds({}, {j}, st, b)
    BY DEF Heeds
  <2>1. Stores(st, a, j, job) /\ DOMAIN a = Keys
    BY DEF Stores, Formed, Keys
  <2>2. Settled(st, j, job)
    BY DEF Settled, Terminal
  <2>3. Heeds({}, {}, st, a)
    BY <2>1, <2>2, StoreHeeds
  <2>4. IsList(list) /\ ToSet(list) = ToSet(st.completed) \cup {j}
    BY AppendList DEF Formed
  <2>5. /\ DOMAIN b = Keys /\ b.jobs = a.jobs /\ b.deps = a.deps /\ b.completed = list
        /\ b.dedup_next = a.dedup_next /\ a.completed = st.completed
    BY DEF Formed, Keys
  <2> HIDE DEF a, b, list
  <2>6. Formed(a) /\ Formed(b)
    BY <2>3, <2>4, <2>5 DEF Heeds, Formed
  <2>7. \A p, c : Neglects(b, p, c) => Neglects(a, p, c)
    BY <2>5 DEF Neglects, Ended
  <2>8. Heeds({}, {j}, a, b)
    BY <2>4, <2>5, <2>6, <2>7 DEF Heeds
  <2> QED
    BY <2>3, <2>8, HeedsAfter
<1>3. finish_completed(st, job) = IF keep = 0 THEN remove_finished_jobs(st, {j})
                                  ELSE prune_completed(b, keep)
  BY DEF finish_completed
<1>4. Formed(st) /\ j \in JobIds => Ended(b, j) /\ Ended(remove_finished_jobs(st, {j}), j)
  BY DEF Ended, Formed, Keys, Terminal, remove_finished_jobs
<1> HIDE DEF b, list, keep
<1>5. Heeds({}, {j}, st, remove_finished_jobs(st, {j}))
  BY RemoveFinishedHeeds DEF Heeds
<1>6. Heeds({}, {j}, st, finish_completed(st, job))
  BY <1>1, <1>3, <1>5, PruneHeeds, HeedsTransitive
<1>7. Formed(st) => Formed(b)
  BY <1>1 DEF Heeds
<1>8. Formed(st) /\ j \in JobIds => Ended(prune_completed(b, keep), j)
  BY <1>4, <1>7, PruneEnds
<1> QED
  BY <1>3, <1>4, <1>6, <1>8

\* Dependencies change: what is no longer pending has ended.
Relieves(X, a, b) == Formed(a) =>
    /\ DOMAIN b = Keys /\ b.jobs = a.jobs /\ b.completed = a.completed
    /\ b.dedup_next = a.dedup_next /\ DOMAIN b.deps = JobIds
    /\ \A p \in JobIds : DOMAIN b.deps[p] = Dependents
    /\ \A p \in JobIds \ X, c \in JobIds :
          c \in a.deps[p].pending => c \in b.deps[p].pending \/ Ended(a, c)

LEMMA RelieveHeeds == ASSUME NEW X, NEW a, NEW b, Relieves(X, a, b) PROVE Heeds(X, {}, a, b)
<1> SUFFICES ASSUME Formed(a) PROVE Heeds(X, {}, a, b)
  BY DEF Heeds
<1>1. Formed(b)
  BY DEF Relieves, Formed
<1>2. \A p \in JobIds \ X, c \in JobIds : Neglects(b, p, c) => Neglects(a, p, c)
  BY DEF Relieves, Neglects, Ended
<1> QED
  BY <1>1, <1>2 DEF Heeds, Relieves

-----------------------------------------------------------------------------
\* Parents.
LEMMA ReleaseParentHeeds ==
    ASSUME NEW st, NEW p \in JobIds, NEW deferred, ~Ended(st, p)
    PROVE  Heeds({}, {}, st, release_parent(st, p, deferred))
<1> DEFINE s1 == [st EXCEPT !.waiting_children = @ \ {p}]
           parent == [st.jobs[p] EXCEPT !.deferred_failure = deferred]
<1>1. Heeds({}, {}, st, s1)
  BY OtherKeysHeed
<1>2. Formed(st) => Lone(s1, parent)
  <2> SUFFICES ASSUME Formed(st) PROVE Lone(s1, parent)
    OBVIOUS
  <2>1. s1.jobs = st.jobs
    BY DEF Formed, Keys
  <2>2. Record(st.jobs[p]) /\ st.jobs[p].id = p
    BY DEF Formed, Ended
  <2>3. Record(parent) /\ parent.id = p /\ parent.child_ids = st.jobs[p].child_ids
        /\ parent.parent_id = st.jobs[p].parent_id
    BY <2>2 DEF Record, Fields
  <2> QED
    BY <2>1, <2>3 DEF Lone, Ended
<1>3. release_parent(st, p, deferred) \in {enqueue_waiting_job(s1, parent), enqueue_delayed(s1, parent)}
  BY DEF release_parent
<1> HIDE DEF s1, parent
<1>4. CASE Formed(st)
  <2>1. /\ Heeds({}, {}, s1, enqueue_waiting_job(s1, parent))
        /\ Heeds({}, {}, s1, enqueue_delayed(s1, parent))
    BY <1>2, <1>4, EnqueueHeeds
  <2> QED
    BY <1>1, <1>3, <2>1, HeedsTransitive
<1>5. CASE ~Formed(st)
  BY <1>5 DEF Heeds
<1> QED
  BY <1>4, <1>5

LEMMA ReleaseWhenDoneHeeds ==
    ASSUME NEW st, NEW p \in JobIds, ~Ended(st, p), st.deps[p].pending = {}
    PROVE  Heeds({}, {}, st, release_parent_when_done(st, p))
<1> DEFINE s1 == [st EXCEPT !.deps[p].pending = {}]
<1>1. Relieves({}, st, s1)
  BY DEF Relieves, Formed, Keys, Dependents
<1>2. Formed(st) => ~Ended(s1, p)
  BY DEF Formed, Keys, Ended
<1>3. release_parent_when_done(st, p) = release_parent(s1, p, FALSE)
  BY DEF release_parent_when_done
<1> HIDE DEF s1
<1>4. CASE Formed(st)
  BY <1>1, <1>2, <1>3, <1>4, RelieveHeeds, ReleaseParentHeeds, HeedsTransitive
<1>5. CASE ~Formed(st)
  BY <1>5 DEF Heeds
<1> QED
  BY <1>4, <1>5

LEMMA FailParentHeeds ==
    ASSUME NEW st, NEW p \in JobIds, ~Ended(st, p)
    PROVE  Heeds({}, {}, st, fail_parent(st, p)) /\ Heeds({}, {}, st, fail_parent_after_removal(st, p))
<1> DEFINE s0 == leave_waiting_children(st, p)
           parent == [st.jobs[p] EXCEPT !.state = "failed", !.deferred_failure = FALSE]
<1> SUFFICES ASSUME Formed(st)
             PROVE  Heeds({}, {}, st, fail_parent(st, p)) /\ Heeds({}, {}, st, fail_parent_after_removal(st, p))
  BY DEF Heeds
<1>1. Relieves({p}, st, s0)
  BY DEF Relieves, Formed, Keys, Dependents, leave_waiting_children
<1>2. Record(parent) /\ parent.id = p /\ parent.state = "failed"
  <2>1. Record(st.jobs[p]) /\ st.jobs[p].id = p
    BY DEF Formed, Ended
  <2> QED
    BY <2>1 DEF Record, Fields
<1>3. /\ fail_parent(st, p) =
             finish_failed(release_repeat_key(release_deduplication_key_on_finalization(s0, parent), parent), parent)
      /\ fail_parent_after_removal(st, p) =
             release_removed_owners(st,
                 finish_failed(release_repeat_key(release_deduplication_key(s0, parent), parent), parent))
  BY DEF fail_parent, fail_parent_after_removal
<1> HIDE DEF s0, parent
<1>4. ASSUME NEW s1, Heeds({}, {}, s0, s1)
      PROVE  Heeds({}, {}, st, finish_failed(release_repeat_key(s1, parent), parent))
  <2> DEFINE s2 == release_repeat_key(s1, parent)
             s3 == finish_failed(s2, parent)
  <2>1. Heeds({p}, {}, st, s0)
    BY <1>1, RelieveHeeds
  <2>2. Heeds({}, {}, s1, s2)
    BY RepeatKeysHeed
  <2> HIDE DEF s2
  <2>3. Heeds({p}, {}, st, s2)
    BY <1>4, <2>1, <2>2, HeedsTransitive
  <2>4. Heeds({}, {}, s2, s3) /\ Ended(s3, p)
    BY <1>2, <2>3, FinishFailedHeeds DEF Heeds
  <2> HIDE DEF s3
  <2>5. Heeds({p}, {}, st, s3)
    BY <2>3, <2>4, HeedsTransitive
  <2>6. Heeds({}, {}, st, s3)
    BY <2>4, <2>5, HeedsEnded
  <2> QED
    BY <2>6 DEF s2, s3
<1>5. /\ Heeds({}, {}, st, finish_failed(release_repeat_key(
                 release_deduplication_key_on_finalization(s0, parent), parent), parent))
      /\ Heeds({}, {}, st, finish_failed(release_repeat_key(
                 release_deduplication_key(s0, parent), parent), parent))
  BY <1>4, DedupKeysHeed
<1> QED
  BY <1>3, <1>5, RemovedOwnersHeed, HeedsTransitive

LEMMA ScanHeeds ==
    ASSUME NEW st, NEW p \in JobIds, NEW job, ~Ended(st, p), st.deps[p].pending = {}
    PROVE  /\ Heeds({}, {}, st, scan_children(st, p, job))
           /\ Heeds({}, {}, st, scan_remaining_children(st, p))
<1>1. /\ scan_children(st, p, job) \in {release_parent_when_done(st, p), fail_parent(st, p), st}
      /\ scan_remaining_children(st, p) \in
            {release_parent_when_done(st, p), fail_parent_after_removal(st, p), st}
  BY DEF scan_children, scan_remaining_children
<1> QED
  BY <1>1, ReleaseWhenDoneHeeds, FailParentHeeds, HeedsReflexive

\* What the parent learns of a child that has ended.
LEMMA ChildCompletedHeeds ==
    ASSUME NEW st, NEW job, job.id \in JobIds => Ended(st, job.id)
    PROVE  Heeds({}, {}, st, child_completed(st, job))
<1> DEFINE p == job.parent_id
           s0 == [st EXCEPT !.deps[p].pending = @ \ {job.id}, !.deps[p].processed = @ \cup {job.id}]
           s1 == IF job.id \in st.deps[p].pending THEN s0 ELSE st
<1> SUFFICES ASSUME Formed(st), Exists(st, p) PROVE Heeds({}, {}, st, child_completed(st, job))
  BY HeedsReflexive DEF Heeds, child_completed
<1>1. Relieves({}, st, s0) /\ s0.jobs = st.jobs
  BY DEF Relieves, Formed, Keys, Dependents, Exists
<1>2. Heeds({}, {}, st, s1) /\ s1.jobs = st.jobs
  BY <1>1, RelieveHeeds, HeedsReflexive
<1>3. \/ child_completed(st, job) = s1
      \/ /\ st.jobs[p].state = "waiting_children"
         /\ \/ st.deps[p].pending = {} /\ child_completed(st, job) = scan_children(s1, p, job)
            \/ s1.deps[p].pending = {} /\ child_completed(st, job) = release_parent_when_done(s1, p)
  BY DEF child_completed
<1>4. st.deps[p].pending = {} => s1 = st
  OBVIOUS
<1> HIDE DEF s0, s1
<1>5. st.jobs[p].state = "waiting_children" => ~Ended(s1, p) /\ p \in JobIds
  BY <1>2 DEF Exists, Ended, Terminal
<1> HIDE DEF p
<1>6. CASE child_completed(st, job) = s1
  BY <1>2, <1>6
<1>7. CASE /\ st.jobs[p].state = "waiting_children"
           /\ st.deps[p].pending = {} /\ child_completed(st, job) = scan_children(s1, p, job)
  BY <1>2, <1>4, <1>5, <1>7, ScanHeeds, HeedsTransitive
<1>8. CASE /\ st.jobs[p].state = "waiting_children"
           /\ s1.deps[p].pending = {} /\ child_completed(st, job) = release_parent_when_done(s1, p)
  BY <1>2, <1>5, <1>8, ReleaseWhenDoneHeeds, HeedsTransitive
<1> QED
  BY <1>3, <1>6, <1>7, <1>8

LEMMA RecordFailedHeeds ==
    ASSUME NEW st, NEW p \in JobIds, NEW job, job.id \in JobIds => Ended(st, job.id)
    PROVE  /\ Heeds({}, {}, st, record_failed_child(st, p, job))
           /\ Formed(st) => record_failed_child(st, p, job).jobs = st.jobs
<1> DEFINE s1 == [st EXCEPT !.deps[p].pending = @ \ {job.id}]
           s2 == [s1 EXCEPT !.deps[p].unsuccessful = @ \cup {job.id}]
           s3 == [s1 EXCEPT !.deps[p].failed = @ \cup {job.id}]
<1>1. Relieves({}, st, s1) /\ (Formed(st) => s1.jobs = st.jobs)
  BY DEF Relieves, Formed, Keys, Dependents
<1>2. Relieves({}, st, s2) /\ (Formed(st) => s2.jobs = st.jobs)
  BY DEF Relieves, Formed, Keys, Dependents
<1>3. Relieves({}, st, s3) /\ (Formed(st) => s3.jobs = st.jobs)
  BY DEF Relieves, Formed, Keys, Dependents
<1>4. record_failed_child(st, p, job) \in {s1, s2, s3}
  BY DEF record_failed_child
<1> HIDE DEF s1, s2, s3
<1> QED
  BY <1>1, <1>2, <1>3, <1>4, RelieveHeeds

LEMMA ParentAfterFailureHeeds ==
    ASSUME NEW st, NEW p \in JobIds, NEW job, job.id \in JobIds => Ended(st, job.id), ~Ended(st, p),
           job.options.on_failure \in ChildFailure
    PROVE  Heeds({}, {}, st, parent_after_child_failure(st, p, job))
<1> DEFINE s2 == record_failed_child(st, p, job)
           b == parent_after_child_failure(st, p, job)
<1> SUFFICES ASSUME Formed(st) PROVE Heeds({}, {}, st, b)
  BY DEF Heeds
<1>1. \/ b = fail_parent(st, p)
      \/ \E x \in BOOLEAN : b = release_parent(s2, p, x)
      \/ st.deps[p].pending = {} /\ b = scan_children(st, p, job)
      \/ b = s2
      \/ s2.deps[p].pending = {} /\ b = release_parent_when_done(s2, p)
  BY DEF parent_after_child_failure, ChildFailure
<1>2. Heeds({}, {}, st, s2) /\ s2.jobs = st.jobs
  BY RecordFailedHeeds
<1>3. ~Ended(s2, p)
  BY <1>2 DEF Ended
<1> HIDE DEF s2, b
<1>4. CASE b = fail_parent(st, p)
  BY <1>4, FailParentHeeds
<1>5. ASSUME NEW x \in BOOLEAN, b = release_parent(s2, p, x) PROVE Heeds({}, {}, st, b)
  BY <1>2, <1>3, <1>5, ReleaseParentHeeds, HeedsTransitive
<1>6. CASE st.deps[p].pending = {} /\ b = scan_children(st, p, job)
  BY <1>6, ScanHeeds
<1>7. CASE s2.deps[p].pending = {} /\ b = release_parent_when_done(s2, p)
  BY <1>2, <1>3, <1>7, ReleaseWhenDoneHeeds, HeedsTransitive
<1> QED
  BY <1>1, <1>2, <1>4, <1>5, <1>6, <1>7

LEMMA ChildFailedHeeds ==
    ASSUME NEW st, NEW job, job.id \in JobIds => Ended(st, job.id),
           job.options.on_failure \in ChildFailure
    PROVE  Heeds({}, {}, st, child_failed(st, job))
<1> DEFINE p == job.parent_id
           s1 == IF job.options.on_failure # "fail" /\ job.id \in st.deps[p].pending
                 THEN record_failed_child(st, p, job) ELSE st
<1> SUFFICES ASSUME Formed(st), Exists(st, p) PROVE Heeds({}, {}, st, child_failed(st, job))
  BY HeedsReflexive DEF Heeds, child_failed
<1>1. p \in JobIds
  BY DEF Exists
<1>2. Heeds({}, {}, st, s1) /\ s1.jobs = st.jobs
  BY <1>1, RecordFailedHeeds, HeedsReflexive
<1>3. \/ child_failed(st, job) = s1
      \/ /\ st.jobs[p].state = "waiting_children"
         /\ child_failed(st, job) = parent_after_child_failure(s1, p, job)
  BY DEF child_failed
<1> HIDE DEF s1
<1>4. /\ st.jobs[p].state = "waiting_children" => ~Ended(s1, p)
      /\ job.id \in JobIds => Ended(s1, job.id)
  BY <1>2 DEF Exists, Ended, Terminal
<1> HIDE DEF p
<1> QED
  BY <1>1, <1>2, <1>3, <1>4, ParentAfterFailureHeeds, HeedsTransitive

\* Removal.
LEMMA RemoveRecordHeeds ==
    ASSUME NEW st, NEW job
    PROVE  /\ Heeds({}, {}, st, remove_job_record(st, job))
           /\ Formed(st) => remove_job_record(st, job).jobs = [st.jobs EXCEPT ![job.id] = None]
<1> DEFINE s0 == release_deduplication_key(st, job)
           s1 == release_repeat_key(s0, job)
           s2 == [s1 EXCEPT !.lock[job.id] = None, !.stalled = @ \ {job.id},
                            !.waiting = RemoveWaiting(@, job.id), !.delayed = @ \ {job.id},
                            !.active = @ \ {job.id}, !.waiting_children = @ \ {job.id},
                            !.completed = RemoveFrom(@, job.id), !.failed = RemoveFrom(@, job.id),
                            !.jobs[job.id] = None]
           s3 == remove_dependency_keys(s2, job.id)
<1> SUFFICES ASSUME Formed(st) PROVE Heeds({}, {}, st, s3) /\ s3.jobs = [st.jobs EXCEPT ![job.id] = None]
  BY DEF Heeds, remove_job_record
<1>1. Heeds({}, {}, st, s0) /\ Heeds({}, {}, s0, s1)
  BY DedupKeysHeed, RepeatKeysHeed
<1>2. s0.jobs = st.jobs
  BY DEF release_deduplication_key, Formed, Keys
<1> HIDE DEF s0
<1>3. s1.jobs = s0.jobs
  BY <1>1 DEF Heeds, release_repeat_key, Formed, Keys
<1>4. Heeds({}, {}, st, s1) /\ Formed(s1)
  BY <1>1, HeedsTransitive DEF Heeds
<1> HIDE DEF s1
<1>5. /\ DOMAIN s3 = Keys /\ s3.jobs = [s1.jobs EXCEPT ![job.id] = None]
      /\ s3.deps = [s1.deps EXCEPT ![job.id] = NoDependencies]
      /\ s3.completed = RemoveFrom(s1.completed, job.id) /\ s3.dedup_next = s1.dedup_next
  BY <1>4 DEF Formed, Keys, remove_dependency_keys
<1>6. IsList(s3.completed) /\ ToSet(s3.completed) \subseteq ToSet(s1.completed)
  BY <1>4, <1>5, RemoveFromList DEF Formed
<1>7. DOMAIN NoDependencies = Dependents
  BY DEF NoDependencies, Dependents
<1> HIDE DEF s2, s3
<1>8. Formed(s3)
  BY <1>4, <1>5, <1>6, <1>7 DEF Formed
<1>9. \A p, c \in JobIds : Neglects(s3, p, c) => Neglects(s1, p, c)
  BY <1>4, <1>5 DEF Neglects, Ended, Formed
<1>10. Heeds({}, {}, s1, s3)
  BY <1>6, <1>8, <1>9 DEF Heeds
<1> QED
  BY <1>2, <1>3, <1>4, <1>5, <1>10, HeedsTransitive

LEMMA RemoveWithDependencyHeeds ==
    ASSUME NEW st, NEW job PROVE Heeds({}, {}, st, remove_with_dependency(st, job))
<1> DEFINE p == job.parent_id
           a == remove_job_record(st, job)
           s1 == [a EXCEPT !.deps[p].pending = @ \ {job.id}]
           b == remove_with_dependency(st, job)
<1> SUFFICES ASSUME Formed(st) PROVE Heeds({}, {}, st, b)
  BY DEF Heeds
<1>1. Heeds({}, {}, st, a) /\ Formed(a)
  BY RemoveRecordHeeds DEF Heeds
<1>2. job.id \in JobIds => Ended(a, job.id)
  <2>1. a.jobs = [st.jobs EXCEPT ![job.id] = None] /\ DOMAIN st.jobs = JobIds
    BY RemoveRecordHeeds DEF Formed
  <2> HIDE DEF a
  <2> QED
    BY <2>1 DEF Ended
<1>3. \/ b = a
      \/ /\ Exists(a, p) /\ a.jobs[p].state = "waiting_children"
         /\ \/ a.deps[p].pending = {} /\ b = scan_remaining_children(a, p)
            \/ b = s1
            \/ s1.deps[p].pending = {} /\ b = release_parent_when_done(s1, p)
  BY DEF remove_with_dependency, release_parent_after_removed_child
<1> HIDE DEF a, b, p
<1>4. CASE b = a
  BY <1>1, <1>4
<1>5. CASE Exists(a, p) /\ a.jobs[p].state = "waiting_children" /\ b # a
  <2>1. p \in JobIds /\ ~Ended(a, p)
    BY <1>5 DEF Exists, Ended, Terminal
  <2>2. Relieves({}, a, s1) /\ s1.jobs = a.jobs
    BY <1>1, <1>2, <2>1 DEF Relieves, Formed, Keys, Dependents
  <2> HIDE DEF s1
  <2>3. Heeds({}, {}, st, s1) /\ ~Ended(s1, p)
    BY <1>1, <2>1, <2>2, RelieveHeeds, HeedsTransitive DEF Ended
  <2> QED
    BY <1>1, <1>3, <1>5, <2>1, <2>3, ScanHeeds, ReleaseWhenDoneHeeds, HeedsTransitive
<1> QED
  BY <1>3, <1>4, <1>5

-----------------------------------------------------------------------------
\* The parked duplicate, a job or a flow, that follows its owner.
\* A record of the family of p, parent or child, is stored.
LEMMA StoreFamily ==
    ASSUME NEW a, NEW b, NEW j, NEW r, NEW p, Stores(a, b, j, r), Record(r), r.id = j,
           r.child_ids = <<>> \/ j = p, r.parent_id \in {None, p}
    PROVE  Heeds({p}, {}, a, b)
<1> SUFFICES ASSUME Formed(a) PROVE Heeds({p}, {}, a, b)
  BY DEF Heeds
<1>1. Formed(b)
  BY StoreForms
<1>2. /\ b.deps = a.deps /\ b.completed = a.completed
      /\ \A i \in JobIds : b.jobs[i] = IF i = j THEN r ELSE a.jobs[i]
  BY DEF Stores, Formed
<1>3. ASSUME NEW q \in JobIds \ {p}, NEW c \in JobIds, Neglects(b, q, c) PROVE Neglects(a, q, c)
  <2>1. q # j
    <3> SUFFICES ASSUME q = j PROVE FALSE
      OBVIOUS
    <3>1. b.jobs[q].child_ids = <<>>
      BY <1>2
    <3> QED
      BY <1>3, <3>1 DEF Neglects, ToSet
  <2>2. c # j
    BY <1>2, <1>3, RedisNoneAssumption DEF Neglects
  <2> QED
    BY <1>2, <1>3, <2>1, <2>2 DEF Neglects, Ended
<1> QED
  BY <1>1, <1>2, <1>3 DEF Heeds

LEMMA PreparedStores ==
    ASSUME NEW st, NEW job, Record(job)
    PROVE  \E r : /\ Record(r) /\ r.id = job.id /\ r.child_ids = job.child_ids
                  /\ r.parent_id = job.parent_id
                  /\ Stores(st, enqueue_prepared_job(st, job), job.id, r)
<1>1. ASSUME NEW state
      PROVE  LET r == [job EXCEPT !.state = state]
             IN  /\ Record(r) /\ r.id = job.id /\ r.child_ids = job.child_ids
                 /\ r.parent_id = job.parent_id
  BY DEF Record, Fields
<1>2. enqueue_prepared_job(st, job) \in
        {enqueue_waiting_job(st, job), enqueue_delayed(st, job), enqueue_waiting_children(st, job)}
  BY DEF enqueue_prepared_job, enqueue_waiting_children
<1>3. CASE enqueue_prepared_job(st, job) = enqueue_waiting_job(st, job)
  <2> WITNESS [job EXCEPT !.state = "waiting"]
  <2> QED
    BY <1>1, <1>3, EnqueueStores
<1>4. CASE enqueue_prepared_job(st, job) = enqueue_delayed(st, job)
  <2> WITNESS [job EXCEPT !.state = "delayed"]
  <2> QED
    BY <1>1, <1>4, EnqueueStores
<1>5. CASE enqueue_prepared_job(st, job) = enqueue_waiting_children(st, job)
  <2> WITNESS job
  <2> QED
    BY <1>5, EnqueueStores
<1> QED
  BY <1>2, <1>3, <1>4, <1>5

LEMMA PreparedRecord ==
    ASSUME NEW job, NEW p, NEW s, IsList(s)
    PROVE  LET r == [prepare_deduplicated_next_job(job) EXCEPT !.parent_id = p, !.child_ids = s]
               x == [r EXCEPT !.state = "waiting_children"]
           IN  /\ Record(r) /\ r.id = job.id /\ r.parent_id = p /\ r.child_ids = s
               /\ Record(x) /\ x.id = job.id /\ x.parent_id = p /\ x.child_ids = s
  BY DEF prepare_deduplicated_next_job, new_job, Record, Fields

LEMMA NoneIsList == IsList(<<>>) /\ ToSet(<<>>) = {}
<1> DEFINE none == <<>>
<1>1. none \in Seq({}) /\ ToSet(none) = {}
  BY DEF ToSet
<1> HIDE DEF none
<1>2. IsList(none)
  BY <1>1 DEF IsList
<1> QED
  BY <1>1, <1>2 DEF none

\* Child c becomes pending with p, which gets no other children.
Enlists(p, c, a, b) ==
    /\ a.deps[p].pending \cup {c} \subseteq b.deps[p].pending
    /\ ToSet(b.jobs[p].child_ids) \subseteq ToSet(a.jobs[p].child_ids)

LEMMA ParkedChildHeeds ==
    ASSUME NEW st, Formed(st), NEW p \in JobIds, NEW child, NEW new,
           new = enqueue_parked_child(st, p, child)
    PROVE  Heeds({p}, {}, st, new) /\ Enlists(p, child.id, st, new)
<1> DEFINE job == [prepare_deduplicated_next_job(child) EXCEPT !.parent_id = p, !.child_ids = <<>>]
           s1 == [st EXCEPT !.deps[p].pending = @ \cup {job.id}]
           s2 == set_deduplication_key(s1, job)
           b == enqueue_prepared_job(s2, job)
<1>1. Record(job) /\ job.id = child.id /\ job.parent_id = p /\ job.child_ids = <<>>
  BY NoneIsList DEF prepare_deduplicated_next_job, new_job, Record, Fields
<1>2. enqueue_parked_child(st, p, child) = b
  BY DEF enqueue_parked_child
<1> HIDE DEF job
<1>3. Relieves({}, st, s1) /\ s1.jobs = st.jobs /\ s1.deps[p].pending = st.deps[p].pending \cup {child.id}
  BY <1>1 DEF Relieves, Formed, Keys, Dependents
<1>4. Heeds({}, {}, st, s1) /\ Formed(s1)
  BY <1>3, RelieveHeeds DEF Heeds
<1> HIDE DEF s1
<1>5. s2.jobs = s1.jobs /\ s2.deps = s1.deps
  BY <1>4 DEF set_deduplication_key, Formed, Keys
<1>6. Heeds({}, {}, s1, s2) /\ Formed(s2)
  BY <1>4, DedupKeysHeed DEF Heeds
<1> HIDE DEF s2
<1>7. PICK r : /\ Record(r) /\ r.id = job.id /\ r.child_ids = job.child_ids /\ r.parent_id = job.parent_id
               /\ Stores(s2, b, job.id, r)
  BY <1>1, PreparedStores
<1> HIDE DEF b
<1>8. Heeds({p}, {}, s2, b)
  BY <1>1, <1>7, StoreFamily
<1>9. Heeds({p}, {}, st, b)
  BY <1>4, <1>6, <1>8, HeedsAfter
<1>10. b.deps = s2.deps /\ b.jobs = [s2.jobs EXCEPT ![job.id] = r]
  BY <1>6, <1>7 DEF Stores
<1>11. b.jobs[p] = st.jobs[p] \/ b.jobs[p].child_ids = <<>>
  BY <1>1, <1>3, <1>5, <1>6, <1>7, <1>10 DEF Formed
<1>12. Enlists(p, child.id, st, b)
  BY <1>3, <1>5, <1>10, <1>11, NoneIsList DEF Enlists
<1> QED
  BY <1>2, <1>9, <1>12

\* All children of a parked flow are pending when the last of them is enqueued.
LEMMA ParkedChildrenHeed ==
    ASSUME NEW st, Formed(st), NEW p \in JobIds, NEW s, Len(s) \in Nat, NEW new,
           new = enqueue_parked_children(st, p, s)
    PROVE  /\ Heeds({p}, {}, st, new)
           /\ \A i \in 1 .. Len(s) : s[i].id \in new.deps[p].pending
           /\ ToSet(new.jobs[p].child_ids) \subseteq ToSet(st.jobs[p].child_ids)
<1> DEFINE N == Len(s)
<1>1. PICK F : ParkedRun(F, st, s, p)
  BY ParkedRunExists
<1>2. /\ F[0] = st /\ enqueue_parked_children(st, p, s) = F[N]
      /\ \A n \in 0 .. N - 1 : F[n + 1] = enqueue_parked_child(F[n], p, s[n + 1])
  BY <1>1 DEF ParkedRun
<1> DEFINE Good(n) == /\ Heeds({p}, {}, st, F[n])
                      /\ \A i \in 1 .. n : s[i].id \in F[n].deps[p].pending
                      /\ ToSet(F[n].jobs[p].child_ids) \subseteq ToSet(st.jobs[p].child_ids)
           Goods == {n \in 0 .. N : Good(n)}
<1> HIDE DEF N
<1>3. Good(0)
  BY <1>2, HeedsReflexive, HeedsMore
<1>4. ASSUME NEW n \in 0 .. N - 1, Good(n) PROVE Good(n + 1)
  <2> DEFINE a == F[n]
             b == F[n + 1]
             child == s[n + 1]
  <2>1. Formed(a) /\ b = enqueue_parked_child(a, p, child)
    BY <1>2, <1>4 DEF Heeds
  <2>2. Heeds({p}, {}, a, b) /\ Enlists(p, child.id, a, b)
    <3> HIDE DEF a, b, child
    <3> QED
      BY <2>1, ParkedChildHeeds
  <2>3. Heeds({p}, {}, st, b)
    BY <1>4, <2>2, HeedsBoth
  <2>4. \A i \in 1 .. n + 1 : s[i].id \in b.deps[p].pending
    BY <1>4, <2>2 DEF Enlists
  <2>5. ToSet(b.jobs[p].child_ids) \subseteq ToSet(st.jobs[p].child_ids)
    BY <1>4, <2>2 DEF Enlists
  <2> QED
    BY <2>3, <2>4, <2>5
<1>5. N \in Nat
  BY DEF N
<1> HIDE DEF Good
<1>6. Good(N)
  <2>1. 0 \in Goods /\ \A n \in 0 .. N - 1 : n \in Goods => n + 1 \in Goods
    BY <1>3, <1>4, <1>5
  <2> HIDE DEF Goods
  <2>2. \A n \in 0 .. N : n \in Goods
    BY <1>5, <2>1, Climb
  <2>3. N \in Goods
    BY <1>5, <2>2
  <2> QED
    BY <2>3 DEF Goods
<1> QED
  BY <1>2, <1>6 DEF Good, N

LEMMA ListIds ==
    ASSUME NEW s, IsList(s)
    PROVE  LET ids == [i \in DOMAIN s |-> s[i].id]
           IN  /\ Len(s) \in Nat /\ DOMAIN s = 1 .. Len(s)
               /\ IsList(ids) /\ ToSet(ids) = {s[i].id : i \in 1 .. Len(s)}
<1> DEFINE ids == [i \in DOMAIN s |-> s[i].id]
           S == {s[i].id : i \in DOMAIN s}
<1>1. Len(s) \in Nat /\ DOMAIN s = 1 .. Len(s)
  BY DEF IsList
<1>2. ids \in Seq(S)
  BY <1>1
<1>3. ToSet(ids) = {s[i].id : i \in 1 .. Len(s)}
  BY <1>1 DEF ToSet
<1> HIDE DEF ids, S
<1>4. IsList(ids)
  BY <1>2 DEF IsList
<1> QED
  BY <1>1, <1>3, <1>4 DEF ids

\* A parent for which all of its children are pending neglects none.
LEMMA HeedsPending ==
    ASSUME NEW Y, NEW a, NEW b, NEW p, Heeds({p}, Y, a, b),
           ToSet(b.jobs[p].child_ids) \subseteq b.deps[p].pending
    PROVE  Heeds({}, Y, a, b)
  BY DEF Heeds, Neglects

LEMMA NextFlowHeeds ==
    ASSUME NEW st, NEW d, NEW parked, Sealed(parked)
    PROVE  Heeds({}, {}, st, enqueue_deduplicated_next_flow(st, d, parked))
<1> DEFINE s == parked.children
           p == parked.job.id
           ids == [i \in DOMAIN s |-> s[i].id]
           parent == [prepare_deduplicated_next_job(parked.job) EXCEPT
                         !.parent_id = None, !.child_ids = ids, !.state = "waiting_children"]
           s0 == set_deduplication_key(st, parent)
           s1 == enqueue_prepared_job(s0, parent)
           s2 == [s1 EXCEPT !.deps[parent.id].pending = {}]
           s3 == enqueue_parked_children(s2, parent.id, s)
           s4 == IF \E j \in {parked.job.id} \cup ToSet(ids) : Exists(st, j) THEN st ELSE s3
<1> SUFFICES ASSUME Formed(st) PROVE Heeds({}, {}, st, enqueue_deduplicated_next_flow(st, d, parked))
  BY DEF Heeds
<1>1. enqueue_deduplicated_next_flow(st, d, parked) = [s4 EXCEPT !.dedup_next[d] = None]
  BY DEF enqueue_deduplicated_next_flow
<1>2. s4 \in {st, s3}
  OBVIOUS
<1>3. /\ Len(s) \in Nat /\ IsList(ids) /\ ToSet(ids) = {s[i].id : i \in 1 .. Len(s)} /\ p \in JobIds
  BY ListIds DEF Sealed
<1> HIDE DEF s, ids
<1>4. Record(parent) /\ parent.id = p /\ parent.parent_id = None /\ parent.child_ids = ids
  BY <1>3 DEF prepare_deduplicated_next_job, new_job, Record, Fields
<1> HIDE DEF parent
<1>5. Heeds({}, {}, st, s0) /\ Formed(s0)
  BY DedupKeysHeed DEF Heeds
<1> HIDE DEF s0
<1>6. PICK r : /\ Record(r) /\ r.id = parent.id /\ r.child_ids = parent.child_ids
               /\ r.parent_id = parent.parent_id /\ Stores(s0, s1, parent.id, r)
  BY <1>4, PreparedStores
<1> HIDE DEF s1, p
<1>7. Heeds({p}, {}, s0, s1)
  BY <1>4, <1>6, StoreFamily
<1>8. Formed(s1) /\ s1.jobs[p].child_ids = ids
  BY <1>3, <1>4, <1>5, <1>6, <1>7 DEF Heeds, Stores, Formed
<1>9. Relieves({p}, s1, s2) /\ s2.jobs = s1.jobs
  BY <1>3, <1>4, <1>8 DEF Relieves, Formed, Keys, Dependents
<1> HIDE DEF s2
<1>10. Heeds({p}, {}, s1, s2) /\ Formed(s2)
  BY <1>8, <1>9, RelieveHeeds DEF Heeds
<1>11. /\ Heeds({p}, {}, s2, s3)
       /\ \A i \in 1 .. Len(s) : s[i].id \in s3.deps[p].pending
       /\ ToSet(s3.jobs[p].child_ids) \subseteq ToSet(s2.jobs[p].child_ids)
  BY <1>3, <1>4, <1>10, ParkedChildrenHeed
<1> HIDE DEF s3
<1>12. Heeds({p}, {}, st, s3)
  BY <1>5, <1>7, <1>10, <1>11, HeedsAfter, HeedsBoth
<1>13. Heeds({}, {}, st, s3)
  <2>1. ToSet(ids) \subseteq s3.deps[p].pending
    BY <1>3, <1>11
  <2>2. ToSet(s3.jobs[p].child_ids) \subseteq s3.deps[p].pending
    BY <1>8, <1>9, <1>11, <2>1
  <2> QED
    BY <1>12, <2>2, HeedsPending
<1> HIDE DEF s4
<1>14. Heeds({}, {}, st, s4)
  BY <1>2, <1>13, HeedsReflexive
<1> QED
  BY <1>1, <1>14, ForgetParkedHeeds, HeedsTransitive

LEMMA NextJobHeeds ==
    ASSUME NEW st, NEW d, NEW owner, NEW next, next.child_ids = <<>>, next.id \in JobIds
    PROVE  Heeds({}, {}, st, enqueue_deduplicated_next_job(st, d, owner, next))
<1> DEFINE count == repeat_keep_last_next_count(owner, next)
           job == [prepare_deduplicated_next_job(next) EXCEPT !.repeat_count = count]
           p == next.parent_id
           s0 == set_deduplication_key(st, job)
           s1 == set_repeat_key(s0, job)
           s2 == enqueue_prepared_job(s1, job)
           s3 == adopt_parked_job(s2, job)
           s4 == IF Exists(st, next.id) \/ count = None THEN st ELSE s3
<1> SUFFICES ASSUME Formed(st) PROVE Heeds({}, {}, st, enqueue_deduplicated_next_job(st, d, owner, next))
  BY DEF Heeds
<1>1. enqueue_deduplicated_next_job(st, d, owner, next) = [s4 EXCEPT !.dedup_next[d] = None]
  BY DEF enqueue_deduplicated_next_job
<1>2. s4 \in {st, s3}
  OBVIOUS
<1> HIDE DEF count
<1>3. Record(job) /\ job.id = next.id /\ job.parent_id = p /\ job.child_ids = <<>>
  BY NoneIsList DEF prepare_deduplicated_next_job, new_job, Record, Fields
<1> HIDE DEF job, p
<1>4. Heeds({}, {}, st, s0) /\ Heeds({}, {}, s0, s1)
  BY DedupKeysHeed, RepeatKeysHeed
<1> HIDE DEF s0, s1
<1>5. Heeds({}, {}, st, s1) /\ Formed(s1)
  BY <1>4, HeedsTransitive DEF Heeds
<1>6. PICK r : /\ Record(r) /\ r.id = job.id /\ r.child_ids = job.child_ids
               /\ r.parent_id = job.parent_id /\ Stores(s1, s2, job.id, r)
  BY <1>3, PreparedStores
<1> HIDE DEF s2
<1>7. Heeds({p}, {}, s1, s2)
  BY <1>3, <1>6, StoreFamily
<1>8. Formed(s2) /\ \A i \in JobIds : s2.jobs[i] = IF i = next.id THEN r ELSE s1.jobs[i]
  BY <1>3, <1>5, <1>6, <1>7 DEF Heeds, Stores, Formed
<1>9. Heeds({}, {}, s1, s3)
  <2>1. CASE ~Exists(s2, p)
    <3>1. s3 = s2
      BY <1>3, <2>1 DEF adopt_parked_job
    <3>2. p \in JobIds => Ended(s2, p)
      BY <2>1 DEF Exists, Ended
    <3> QED
      BY <1>7, <3>1, <3>2 DEF Heeds, Neglects
  <2>2. CASE Exists(s2, p)
    <3> DEFINE old == s2.jobs[p].child_ids
               list == IF job.id \in ToSet(old) THEN old ELSE Append(old, job.id)
               a == [s2 EXCEPT !.deps[p].pending = @ \cup {job.id}]
    <3>1. p \in JobIds /\ s2.jobs[p] # None /\ Record(s2.jobs[p]) /\ s2.jobs[p].id = p
      BY <1>8, <2>2 DEF Exists, Formed
    <3>2. IsList(list) /\ ToSet(list) = ToSet(old) \cup {job.id}
      <4>1. PICK S : old \in Seq(S)
        BY <3>1 DEF Record, IsList
      <4>2. old \in Seq(S \cup {job.id})
        BY <4>1
      <4> QED
        BY <4>2, AppendElements DEF IsList
    <3>3. /\ DOMAIN s3 = Keys /\ s3.jobs = [s2.jobs EXCEPT ![p].child_ids = list]
          /\ s3.deps = [s2.deps EXCEPT ![p].pending = @ \cup {job.id}]
          /\ s3.completed = s2.completed /\ s3.dedup_next = s2.dedup_next
      BY <1>3, <1>8, <2>2 DEF adopt_parked_job, Formed, Keys
    <3> HIDE DEF s3, list
    <3>4. /\ \A i \in JobIds \ {p} : s3.jobs[i] = s2.jobs[i] /\ s3.deps[i] = s2.deps[i]
          /\ s3.deps[p].pending = s2.deps[p].pending \cup {job.id}
          /\ DOMAIN s3.jobs = JobIds /\ DOMAIN s3.deps = JobIds
          /\ DOMAIN s3.deps[p] = Dependents
      BY <1>8, <3>1, <3>3 DEF Formed, Dependents
    <3>5. /\ s3.jobs[p].child_ids = list /\ s3.jobs[p].id = p /\ DOMAIN s3.jobs[p] = Fields
          /\ s3.jobs[p].state = s2.jobs[p].state /\ s3.jobs[p].parent_id = s2.jobs[p].parent_id
      BY <1>8, <3>1, <3>3 DEF Formed, Record, Fields
    <3>6. Formed(s3)
      BY <1>8, <3>1, <3>2, <3>3, <3>4, <3>5 DEF Formed, Record
    <3>7. ASSUME NEW q \in JobIds, NEW c \in JobIds, Neglects(s3, q, c) PROVE Neglects(s1, q, c)
      <4>1. ~Ended(s3, c) => ~Ended(s2, c) /\ s3.jobs[c].parent_id = s2.jobs[c].parent_id
        BY <3>1, <3>4, <3>5 DEF Ended
      <4>2. CASE q # p
        <5>1. Neglects(s2, q, c)
          BY <3>4, <3>7, <4>1, <4>2 DEF Neglects, Ended
        <5> QED
          BY <1>5, <1>7, <4>2, <5>1 DEF Heeds
      <4>3. CASE q = p
        <5>1. c # job.id /\ c \in ToSet(old) /\ c \notin s2.deps[p].pending
          BY <3>2, <3>4, <3>5, <3>7, <4>3 DEF Neglects
        <5>2. ~Ended(s1, c) /\ s1.jobs[c].parent_id = p
          BY <1>3, <1>8, <3>7, <4>1, <4>3, <5>1 DEF Neglects, Ended
        <5>3. p # next.id
          BY <1>3, <1>6, <1>8, <3>1, <5>1, NoneIsList
        <5>4. ~Ended(s1, p) /\ s1.jobs[p] = s2.jobs[p]
          BY <1>8, <3>1, <3>5, <3>7, <4>3, <5>3 DEF Neglects, Ended
        <5>5. s2.deps = s1.deps
          BY <1>5, <1>6 DEF Stores
        <5> QED
          BY <4>3, <5>1, <5>2, <5>4, <5>5 DEF Neglects
      <4> QED
        BY <4>2, <4>3
    <3>8. s3.completed = s1.completed
      BY <1>5, <1>6, <3>3 DEF Stores
    <3> QED
      BY <3>6, <3>7, <3>8 DEF Heeds
  <2> QED
    BY <2>1, <2>2
<1> HIDE DEF s3, s4
<1>10. Heeds({}, {}, st, s4)
  BY <1>2, <1>5, <1>9, HeedsReflexive, HeedsTransitive
<1> QED
  BY <1>1, <1>10, ForgetParkedHeeds, HeedsTransitive

LEMMA EnqueueNextHeeds ==
    ASSUME NEW st, NEW owner, deduplication_id(owner) \in DedupIds \cup {None}
    PROVE  Heeds({}, {}, st, enqueue_deduplicated_next(st, owner))
<1> DEFINE d == deduplication_id(owner)
           parked == st.dedup_next[d]
<1> SUFFICES ASSUME Formed(st) PROVE Heeds({}, {}, st, enqueue_deduplicated_next(st, owner))
  BY DEF Heeds
<1>1. \/ enqueue_deduplicated_next(st, owner) = st
      \/ /\ Sealed(parked)
         /\ enqueue_deduplicated_next(st, owner) = enqueue_deduplicated_next_flow(st, d, parked)
      \/ /\ Sealed(parked) /\ parked.children = <<>>
         /\ enqueue_deduplicated_next(st, owner) = enqueue_deduplicated_next_job(st, d, owner, parked.job)
  BY DEF enqueue_deduplicated_next, Formed
<1>2. Sealed(parked) /\ parked.children = <<>> => parked.job.child_ids = <<>> /\ parked.job.id \in JobIds
  BY DEF Sealed
<1> HIDE DEF parked, d
<1> QED
  BY <1>1, <1>2, HeedsReflexive, NextFlowHeeds, NextJobHeeds

-----------------------------------------------------------------------------
\* Settling a lease.
Moved(st, j, job) == Formed(st) =>
    /\ j \in JobIds /\ ~Ended(st, j) /\ Record(job) /\ job.id = j
    /\ job.child_ids = st.jobs[j].child_ids /\ job.parent_id = st.jobs[j].parent_id

LEMMA MovedHeeds ==
    ASSUME NEW a, NEW st, NEW j, NEW job, Moved(a, j, job), Formed(a) => st.jobs = a.jobs
    PROVE  /\ Formed(a) => Heeds({}, {}, st, enqueue_waiting_job(st, job))
           /\ Formed(a) => Heeds({}, {}, st, enqueue_delayed(st, job))
           /\ Formed(a) => Heeds({}, {}, st, [st EXCEPT !.jobs[j] = job])
<1> SUFFICES ASSUME Formed(a)
             PROVE  /\ Heeds({}, {}, st, enqueue_waiting_job(st, job))
                    /\ Heeds({}, {}, st, enqueue_delayed(st, job))
                    /\ Heeds({}, {}, st, [st EXCEPT !.jobs[j] = job])
  OBVIOUS
<1>1. Lone(st, job) /\ job.id = j
  BY DEF Moved, Lone, Ended
<1>2. Heeds({}, {}, st, enqueue_waiting_job(st, job)) /\ Heeds({}, {}, st, enqueue_delayed(st, job))
  BY <1>1, EnqueueHeeds
<1>3. Settled(st, j, job)
  BY <1>1, LoneSettled
<1>4. Stores(st, [st EXCEPT !.jobs[j] = job], j, job)
  BY DEF Stores, Formed, Keys
<1>5. Heeds({}, {}, st, [st EXCEPT !.jobs[j] = job])
  BY <1>3, <1>4, StoreHeeds
<1> QED
  BY <1>2, <1>5

LEMMA RepeatNextHeeds ==
    ASSUME NEW st, NEW next,
           next = None \/ (Record(next) /\ next.child_ids = <<>> /\ next.parent_id = None)
    PROVE  Heeds({}, {}, st, enqueue_repeat_next(st, next))
<1> DEFINE s1 == set_deduplication_key(st, next)
           s2 == set_repeat_key(s1, next)
           s3 == enqueue_prepared_job(s2, next)
<1>1. CASE next = None
  BY <1>1, HeedsReflexive DEF enqueue_repeat_next
<1> SUFFICES ASSUME next # None PROVE Heeds({}, {}, st, enqueue_repeat_next(st, next))
  BY <1>1
<1>2. Heeds({}, {}, st, s1) /\ Heeds({}, {}, s1, s2)
  BY DedupKeysHeed, RepeatKeysHeed
<1> HIDE DEF s1, s2
<1>3. Lone(s2, next)
  BY DEF Lone
<1>4. Heeds({}, {}, s2, s3)
  BY <1>3, EnqueueHeeds
<1>5. Heeds({}, {}, st, s3)
  BY <1>2, <1>4, HeedsTransitive
<1> HIDE DEF s3
<1>6. enqueue_repeat_next(st, next) \in {st, s3}
  BY DEF enqueue_repeat_next, s1, s2, s3
<1> QED
  BY <1>5, <1>6, HeedsReflexive

LEMMA CompleteHeeds ==
    ASSUME NEW st, NEW j \in JobIds, Formed(st), st.jobs[j] # None, st.jobs[j] \in Job, NEW next,
           next = None \/ (Record(next) /\ next.child_ids = <<>> /\ next.parent_id = None)
    PROVE  Heeds({}, {j}, st, complete_script(st, j, next))
<1> DEFINE job == [st.jobs[j] EXCEPT !.state = "completed", !.deferred_failure = FALSE]
           s0 == unlock(st, j)
           s1 == release_deduplication_key_on_finalization(s0, job)
           s2 == enqueue_deduplicated_next(s1, job)
           s3 == finish_completed(s2, job)
           s4 == child_completed(s3, job)
           s5 == IF enqueued_deduplicated_next(s1, s2) THEN s4 ELSE enqueue_repeat_next(s4, next)
           s6 == release_repeat_key(s5, job)
<1>1. complete_script(st, j, next) = add_base_marker_if_waiting(s6)
  BY DEF complete_script
<1>2. deduplication_id(job) \in DedupIds \cup {None}
  <2>1. job.options = st.jobs[j].options
    BY DEF Job
  <2> QED
    BY <2>1, OwnerIds DEF deduplication_id
<1>3. Record(job) /\ job.id = j /\ job.state = "completed"
  BY DEF Formed, Record, Fields
<1> HIDE DEF job
<1>4. Heeds({}, {}, st, s0) /\ Heeds({}, {}, s0, s1)
  BY UnlockHeeds, DedupKeysHeed
<1> HIDE DEF s0, s1
<1>5. Heeds({}, {}, s1, s2)
  BY <1>2, EnqueueNextHeeds
<1> HIDE DEF s2
<1>6. Heeds({}, {}, st, s2)
  BY <1>4, <1>5, HeedsTransitive
<1>7. Formed(s2)
  BY <1>6 DEF Heeds
<1>8. Heeds({}, {j}, s2, s3) /\ Ended(s3, j)
  BY <1>3, <1>7, FinishCompletedHeeds
<1> HIDE DEF s3
<1>9. Heeds({}, {}, s3, s4)
  BY <1>3, <1>8, ChildCompletedHeeds
<1> HIDE DEF s4
<1>10. Heeds({}, {}, s4, s5)
  BY RepeatNextHeeds, HeedsReflexive
<1> HIDE DEF s5
<1>11. Heeds({}, {}, s5, s6) /\ Heeds({}, {}, s6, add_base_marker_if_waiting(s6))
  BY RepeatKeysHeed, MarkersHeed
<1> HIDE DEF s6
<1>12. Heeds({}, {j}, st, s3)
  BY <1>6, <1>8, HeedsAfter
<1>13. Heeds({}, {}, s3, s6)
  BY <1>9, <1>10, <1>11, HeedsTransitive
<1> QED
  BY <1>1, <1>11, <1>12, <1>13, HeedsTransitive

\* Until the job has failed it may neglect its children.
LEMMA FailTerminallyHeeds ==
    ASSUME NEW a, Formed(a), NEW st, NEW job, deduplication_id(job) \in DedupIds \cup {None},
           job.options.on_failure \in ChildFailure, Record(job), job.id \in JobIds,
           job.state = "failed", Heeds({job.id}, {}, a, st)
    PROVE  Heeds({}, {}, a, fail_terminally(st, job))
<1> DEFINE s1 == release_deduplication_key_on_finalization(st, job)
           s2 == release_repeat_key(s1, job)
           s3 == enqueue_deduplicated_next(s2, job)
           s4 == finish_failed(s3, job)
           s5 == child_failed(s4, job)
<1>1. fail_terminally(st, job) = s5
  BY DEF fail_terminally
<1>2. Heeds({}, {}, st, s1) /\ Heeds({}, {}, s1, s2)
  BY DedupKeysHeed, RepeatKeysHeed
<1> HIDE DEF s1, s2
<1>3. Heeds({}, {}, s2, s3)
  BY EnqueueNextHeeds
<1> HIDE DEF s3
<1>4. Heeds({job.id}, {}, a, s3)
  BY <1>2, <1>3, HeedsTransitive
<1>5. Formed(s3)
  BY <1>4 DEF Heeds
<1>6. Heeds({}, {}, s3, s4) /\ Ended(s4, job.id)
  BY <1>5, FinishFailedHeeds
<1> HIDE DEF s4
<1>7. Heeds({}, {}, a, s4)
  BY <1>4, <1>6, HeedsTransitive, HeedsEnded
<1>8. Heeds({}, {}, s4, s5)
  BY <1>6, ChildFailedHeeds
<1> HIDE DEF s5
<1> QED
  BY <1>1, <1>7, <1>8, HeedsTransitive

LEMMA MovedJob ==
    ASSUME NEW st, NEW j \in JobIds, st.jobs[j] # None, st.jobs[j].state \notin Terminal, NEW job,
           Formed(st) => /\ DOMAIN job = DOMAIN st.jobs[j] /\ job.id = st.jobs[j].id
                         /\ job.child_ids = st.jobs[j].child_ids
                         /\ job.parent_id = st.jobs[j].parent_id
    PROVE  Moved(st, j, job)
  BY DEF Moved, Formed, Ended, Record

LEMMA DelayHeeds ==
    ASSUME NEW st, Formed(st), NEW j \in JobIds, st.jobs[j] # None, st.jobs[j].state \notin Terminal
    PROVE  Heeds({}, {}, st, retry_later(st, j)) /\ Heeds({}, {}, st, delay_active_script(st, j))
<1> DEFINE job == [st.jobs[j] EXCEPT !.state = "delayed", !.due = FALSE, !.deferred_failure = FALSE]
           s0 == unlock(st, j)
           s1 == enqueue_delayed(s0, job)
           s2 == add_base_marker_if_waiting(s1)
           s3 == sync_repeat_scheduler(s2, job)
<1>1. retry_later(st, j) = s2 /\ delay_active_script(st, j) = s3
  BY DEF retry_later, delay_active_script
<1>2. Moved(st, j, job)
  <2>1. DOMAIN st.jobs[j] = Fields
    BY DEF Formed, Record
  <2>2. /\ DOMAIN job = DOMAIN st.jobs[j] /\ job.id = st.jobs[j].id
        /\ job.child_ids = st.jobs[j].child_ids /\ job.parent_id = st.jobs[j].parent_id
    BY <2>1 DEF Fields
  <2> HIDE DEF job
  <2> QED
    BY <2>2, MovedJob
<1> HIDE DEF job
<1>3. Heeds({}, {}, st, s0) /\ s0.jobs = st.jobs
  BY UnlockHeeds DEF unlock, Formed, Keys
<1> HIDE DEF s0
<1>4. Heeds({}, {}, s0, s1)
  BY <1>2, <1>3, MovedHeeds
<1>5. Heeds({}, {}, s1, s2) /\ Heeds({}, {}, s2, s3)
  BY MarkersHeed, RepeatKeysHeed
<1> HIDE DEF s1, s2, s3
<1>6. Heeds({}, {}, st, s2)
  BY <1>3, <1>4, <1>5, HeedsTransitive
<1> QED
  BY <1>1, <1>5, <1>6, HeedsTransitive

LEMMA FailHeeds ==
    ASSUME NEW st, Formed(st), NEW j \in JobIds, st.jobs[j] # None, st.jobs[j] \in Job,
           st.jobs[j].state \notin Terminal, NEW retry
    PROVE  Heeds({}, {}, st, fail_script(st, j, retry))
<1> DEFINE job == [st.jobs[j] EXCEPT !.state = "failed", !.deferred_failure = FALSE]
           s0 == unlock(st, j)
           s1 == fail_terminally(s0, job)
           s2 == add_base_marker_if_waiting(s1)
<1>1. fail_script(st, j, retry) \in {retry_later(st, j), s2}
  BY DEF fail_script
<1>2. deduplication_id(job) \in DedupIds \cup {None} /\ job.options.on_failure \in ChildFailure
  <2>1. job.options = st.jobs[j].options
    BY DEF Job
  <2> QED
    BY <2>1, OwnerIds DEF deduplication_id
<1>3. Record(job) /\ job.id = j /\ job.state = "failed"
  BY DEF Formed, Record, Fields
<1> HIDE DEF job
<1>4. Heeds({j}, {}, st, s0)
  BY UnlockHeeds, HeedsMore
<1> HIDE DEF s0
<1>5. Heeds({}, {}, st, s1) /\ Heeds({}, {}, s1, s2)
  BY <1>2, <1>3, <1>4, FailTerminallyHeeds, MarkersHeed
<1> HIDE DEF s1, s2
<1>6. Heeds({}, {}, st, s2)
  BY <1>5, HeedsTransitive
<1> QED
  BY <1>1, <1>6, DelayHeeds

LEMMA ReleaseActiveHeeds ==
    ASSUME NEW st, Formed(st), NEW j \in JobIds, st.jobs[j] # None, st.jobs[j].state \notin Terminal
    PROVE  Heeds({}, {}, st, release_active_script(st, j))
<1> DEFINE job == [st.jobs[j] EXCEPT !.state = "waiting", !.due = TRUE, !.deferred_failure = FALSE]
           s0 == unlock(st, j)
           x == PushBackWaiting(s0.waiting, j, job.options.priority)
           s1 == [s0 EXCEPT !.jobs[j] = job]
           s2 == [s1 EXCEPT !.waiting = x]
           s3 == add_base_marker(s2)
<1>1. release_active_script(st, j) = sync_repeat_scheduler(s3, job)
  BY DEF release_active_script, unlock, Formed, Keys
<1>2. Moved(st, j, job)
  <2>1. DOMAIN st.jobs[j] = Fields
    BY DEF Formed, Record
  <2>2. /\ DOMAIN job = DOMAIN st.jobs[j] /\ job.id = st.jobs[j].id
        /\ job.child_ids = st.jobs[j].child_ids /\ job.parent_id = st.jobs[j].parent_id
    BY <2>1 DEF Fields
  <2> HIDE DEF job
  <2> QED
    BY <2>2, MovedJob
<1> HIDE DEF job, x
<1>3. Heeds({}, {}, st, s0) /\ s0.jobs = st.jobs
  BY UnlockHeeds DEF unlock, Formed, Keys
<1> HIDE DEF s0
<1>4. Heeds({}, {}, s0, s1)
  BY <1>2, <1>3, MovedHeeds
<1> HIDE DEF s1
<1>5. Heeds({}, {}, s1, s2)
  BY OtherKeysHeed
<1> HIDE DEF s2
<1>6. Heeds({}, {}, s2, s3) /\ Heeds({}, {}, s3, sync_repeat_scheduler(s3, job))
  BY MarkersHeed, RepeatKeysHeed
<1> HIDE DEF s3
<1>7. Heeds({}, {}, st, s2)
  BY <1>3, <1>4, <1>5, HeedsTransitive
<1> QED
  BY <1>1, <1>6, <1>7, HeedsTransitive

LEMMA LoopHeeds ==
    ASSUME NEW N \in Nat, NEW F, \A n \in 0 .. N - 1 : Heeds({}, {}, F[n], F[n + 1])
    PROVE  Heeds({}, {}, F[0], F[N])
<1> DEFINE Goods == {n \in 0 .. N : Heeds({}, {}, F[0], F[n])}
<1>1. 0 \in Goods
  BY HeedsReflexive
<1>2. ASSUME NEW n \in 0 .. N - 1, n \in Goods PROVE n + 1 \in Goods
  BY <1>2, HeedsTransitive
<1> HIDE DEF Goods
<1>3. \A n \in 0 .. N : n \in Goods
  BY <1>1, <1>2, Climb
<1> QED
  BY <1>3 DEF Goods

\* Recovery.
LEMMA RecoverJobHeeds ==
    ASSUME NEW st, NEW j \in JobIds, st.jobs[j] # None, st.jobs[j] \in Job,
           st.jobs[j].state = "active"
    PROVE  Heeds({}, {}, st, recover_job(st, j))
<1> DEFINE job == [st.jobs[j] EXCEPT !.stalled_count = @ + 1, !.deferred_failure = FALSE]
           dead == [job EXCEPT !.state = "failed"]
           s1 == [st EXCEPT !.active = @ \ {j}]
           s2 == IF job.stalled_count > job.options.max_stalled_count
                 THEN restore_repeat_key(s1, job) ELSE s1
           s3 == [s1 EXCEPT !.deps[j].pending = {}]
<1> SUFFICES ASSUME Formed(st) PROVE Heeds({}, {}, st, recover_job(st, j))
  BY DEF Heeds
<1>1. recover_job(st, j) \in {fail_terminally(s3, dead), enqueue_waiting_job(s2, job)}
  BY DEF recover_job
<1>2. deduplication_id(dead) \in DedupIds \cup {None} /\ dead.options.on_failure \in ChildFailure
  <2>1. dead.options = st.jobs[j].options
    BY DEF Job
  <2> QED
    BY <2>1, OwnerIds DEF deduplication_id
<1>3. Record(dead) /\ dead.id = j /\ dead.state = "failed"
  BY DEF Formed, Record, Fields
<1>4. Moved(st, j, job)
  BY MovedJob DEF Formed, Record, Fields, Terminal
<1> HIDE DEF dead, job
<1>5. Heeds({}, {}, st, s1) /\ s1.jobs = st.jobs
  BY OtherKeysHeed DEF Formed, Keys
<1>6. Relieves({j}, s1, s3)
  BY DEF Relieves, Formed, Keys, Dependents
<1> HIDE DEF s1, s3
<1>7. Heeds({j}, {}, st, s3)
  BY <1>5, <1>6, RelieveHeeds, HeedsAfter
<1>8. Heeds({}, {}, st, fail_terminally(s3, dead))
  BY <1>2, <1>3, <1>7, FailTerminallyHeeds
<1>9. Heeds({}, {}, s1, s2) /\ s2.jobs = st.jobs
  <2>1. restore_repeat_key(s1, job).jobs = s1.jobs
    BY <1>5 DEF restore_repeat_key, Formed, Keys, Heeds
  <2> QED
    BY <1>5, <2>1, RepeatKeysHeed, HeedsReflexive
<1> HIDE DEF s2
<1>10. Heeds({}, {}, s2, enqueue_waiting_job(s2, job))
  BY <1>4, <1>9, MovedHeeds
<1>11. Heeds({}, {}, st, enqueue_waiting_job(s2, job))
  BY <1>5, <1>9, <1>10, HeedsTransitive
<1> QED
  BY <1>1, <1>8, <1>11

LEMMA RecoverStalledHeeds ==
    ASSUME NEW st, Sound(st, {}) PROVE Heeds({}, {}, st, recover_stalled_script(st))
<1> DEFINE s == SetToSeq(st.stalled)
           none == {}
           s0 == [st EXCEPT !.stalled = none]
           s1 == examine_each_stalled(s0, s)
           N == Len(s)
<1>1. s \in Seq(JobIds)
  BY FiniteIds DEF Sound, Shape
<1>2. recover_stalled_script(st) = mark_active_jobs_stalled(s1)
  BY DEF recover_stalled_script
<1>3. Quiet(st, s0)
  BY DEF Sound, Shape, Keys, Quiet
<1> HIDE DEF none
<1>a. Heeds({}, {}, st, s0)
  BY OtherKeysHeed
<1> HIDE DEF s, s0
<1>4. Sound(s0, {})
  BY <1>3, QuietSound
<1>5. N \in Nat /\ \A n \in 0 .. N - 1 : s[n + 1] \in JobIds
  BY <1>1
<1>6. PICK F : StalledRun(F, s0, s)
  BY <1>5, StalledRunExists
<1>7. /\ F[0] = s0 /\ s1 = F[N]
      /\ \A n \in 0 .. N - 1 : F[n + 1] = examine_stalled(F[n], s[n + 1])
  BY <1>6 DEF StalledRun
<1> HIDE DEF N
<1>8. \A n \in 0 .. N : Sound(F[n], {})
  <2> DEFINE Goods == {n \in 0 .. N : Sound(F[n], {})}
  <2>1. 0 \in Goods
    BY <1>4, <1>5, <1>7
  <2>2. ASSUME NEW n \in 0 .. N - 1, n \in Goods PROVE n + 1 \in Goods
    <3>1. Sound(F[n], {}) /\ s[n + 1] \in JobIds /\ n + 1 \in 0 .. N
      BY <1>5, <2>2
    <3>2. Sound(examine_stalled(F[n], s[n + 1]), {})
      BY <3>1, ExamineStalledSound
    <3> QED
      BY <1>7, <3>1, <3>2
  <2> HIDE DEF Goods
  <2>3. \A n \in 0 .. N : n \in Goods
    BY <1>5, <2>1, <2>2, Climb
  <2> QED
    BY <2>3 DEF Goods
<1>9. ASSUME NEW n \in 0 .. N - 1 PROVE Heeds({}, {}, F[n], F[n + 1])
  <2> DEFINE a == F[n]
             j == s[n + 1]
             x == a.active \ {j}
  <2>1. F[n + 1] = examine_stalled(a, j) /\ Sound(a, {}) /\ j \in JobIds
    BY <1>5, <1>7, <1>8
  <2> HIDE DEF a, j
  <2>2. a.jobs[j] # None => a.jobs[j] \in Job
    BY <2>1 DEF Sound, Shape
  <2>3. Heeds({}, {}, a, [a EXCEPT !.active = x])
    BY OtherKeysHeed
  <2>4. Heeds({}, {}, a, examine_stalled(a, j))
    <3>1. CASE a.jobs[j] # None /\ a.jobs[j].state = "active" /\ a.lock[j] = None
      <4>1. examine_stalled(a, j) = recover_job(a, j)
        BY <2>1, <3>1 DEF examine_stalled, Exists
      <4> QED
        BY <2>1, <2>2, <3>1, <4>1, RecoverJobHeeds
    <3>2. CASE ~(a.jobs[j] # None /\ a.jobs[j].state = "active" /\ a.lock[j] = None)
      <4>1. examine_stalled(a, j) \in {a, [a EXCEPT !.active = x]}
        BY <3>2 DEF examine_stalled, Exists
      <4> QED
        BY <2>3, <4>1, HeedsReflexive
    <3> QED
      BY <3>1, <3>2
  <2> QED
    BY <2>1, <2>4 DEF a
<1>10. Heeds({}, {}, s0, s1)
  BY <1>5, <1>7, <1>9, LoopHeeds
<1> HIDE DEF s1
<1> DEFINE y == s1.stalled \cup s1.active
<1>11. mark_active_jobs_stalled(s1) = [s1 EXCEPT !.stalled = y]
  BY DEF mark_active_jobs_stalled
<1> HIDE DEF y
<1>12. Heeds({}, {}, s1, [s1 EXCEPT !.stalled = y])
  BY OtherKeysHeed
<1> QED
  BY <1>2, <1>a, <1>10, <1>11, <1>12, HeedsTransitive

\* Delayed jobs and moves by an operator.
LEMMA PromoteDelayedHeeds ==
    ASSUME NEW st, NEW j \in JobIds, NEW quiet
    PROVE  Heeds({}, {}, st, promote_delayed(st, j, quiet))
<1> DEFINE job == [st.jobs[j] EXCEPT !.state = "waiting"]
           y == st.delayed \ {j}
           s1 == [st EXCEPT !.delayed = y]
           s2 == enqueue_waiting_job(s1, job)
           x == IF quiet THEN st.marker ELSE s2.marker
           s3 == [s2 EXCEPT !.marker = x]
           s4 == sync_repeat_scheduler(s3, job)
<1> SUFFICES ASSUME Formed(st) PROVE Heeds({}, {}, st, promote_delayed(st, j, quiet))
  BY DEF Heeds
<1>1. promote_delayed(st, j, quiet) \in {s1, s4}
  BY DEF promote_delayed
<1>2. (st.jobs[j] = None \/ st.jobs[j].state # "delayed") => promote_delayed(st, j, quiet) = s1
  BY DEF promote_delayed, Exists
<1>3. Heeds({}, {}, st, s1) /\ s1.jobs = st.jobs
  <2>1. s1.jobs = st.jobs
    BY DEF Formed, Keys
  <2> HIDE DEF y
  <2> QED
    BY <2>1, OtherKeysHeed
<1>4. CASE st.jobs[j] # None /\ st.jobs[j].state = "delayed"
  <2>1. Moved(st, j, job)
    BY <1>4, MovedJob DEF Formed, Record, Fields, Terminal
  <2> HIDE DEF job, s1, x
  <2>2. Heeds({}, {}, s1, s2)
    BY <1>3, <2>1, MovedHeeds
  <2> HIDE DEF s2
  <2>3. Heeds({}, {}, s2, s3) /\ Heeds({}, {}, s3, s4)
    BY OtherKeysHeed, RepeatKeysHeed
  <2> HIDE DEF s3, s4
  <2>4. Heeds({}, {}, st, s4)
    BY <1>3, <2>2, <2>3, HeedsTransitive
  <2> QED
    BY <1>1, <1>3, <2>4
<1> QED
  BY <1>2, <1>3, <1>4

LEMMA PromoteDueHeeds ==
    ASSUME NEW st, st.delayed \subseteq JobIds, NEW quiet
    PROVE  Heeds({}, {}, st, promote_due(st, quiet))
<1> DEFINE due == {j \in st.delayed : Exists(st, j) => st.jobs[j].due}
           s == SetToSeq(due)
           N == Len(s)
           s1 == promote_each(st, s, quiet)
<1>1. due \subseteq JobIds /\ promote_due(st, quiet) = refresh_delay_marker(s1)
  BY DEF promote_due
<1> HIDE DEF due
<1>2. s \in Seq(JobIds)
  BY <1>1, FiniteIds
<1> HIDE DEF s
<1>3. N \in Nat /\ \A n \in 0 .. N - 1 : s[n + 1] \in JobIds
  BY <1>2
<1>4. PICK F : PromoteRun(F, st, s, quiet)
  BY <1>3, PromoteRunExists
<1>5. /\ F[0] = st /\ s1 = F[N]
      /\ \A n \in 0 .. N - 1 : F[n + 1] = promote_delayed(F[n], s[n + 1], quiet)
  BY <1>4 DEF PromoteRun
<1> HIDE DEF N, s1
<1>6. \A n \in 0 .. N - 1 : Heeds({}, {}, F[n], F[n + 1])
  BY <1>3, <1>5, PromoteDelayedHeeds
<1>7. Heeds({}, {}, st, s1)
  BY <1>3, <1>5, <1>6, LoopHeeds
<1> QED
  BY <1>1, <1>7, MarkersHeed, HeedsTransitive

LEMMA MovesHeed ==
    ASSUME NEW st, Formed(st), NEW j \in JobIds, st.jobs[j] # None, st.jobs[j].state = "delayed"
    PROVE  Heeds({}, {}, st, promote_job_script(st, j)) /\ Heeds({}, {}, st, reschedule_job_script(st, j))
<1> DEFINE job == [st.jobs[j] EXCEPT !.state = "waiting", !.due = TRUE]
           late == [st.jobs[j] EXCEPT !.due = FALSE]
           y == st.delayed \ {j}
           s1 == [st EXCEPT !.delayed = y]
           s2 == refresh_delay_marker(s1)
           s3 == enqueue_waiting_job(s2, job)
           s4 == enqueue_delayed(st, late)
<1>1. /\ promote_job_script(st, j) = sync_repeat_scheduler(s3, job)
      /\ reschedule_job_script(st, j) = sync_repeat_scheduler(s4, late)
  BY DEF promote_job_script, reschedule_job_script
<1>2. Moved(st, j, job) /\ Moved(st, j, late)
  BY MovedJob DEF Formed, Record, Fields, Terminal
<1>3. s2.jobs = st.jobs
  BY DEF refresh_delay_marker, Formed, Keys
<1> HIDE DEF job, late, y
<1>4. Heeds({}, {}, st, s1) /\ Heeds({}, {}, s1, s2)
  BY OtherKeysHeed, MarkersHeed
<1> HIDE DEF s1, s2
<1>5. Heeds({}, {}, s2, s3) /\ Heeds({}, {}, st, s4)
  BY <1>2, <1>3, MovedHeeds
<1> HIDE DEF s3, s4
<1>6. Heeds({}, {}, st, s3)
  BY <1>4, <1>5, HeedsTransitive
<1>7. Heeds({}, {}, s3, sync_repeat_scheduler(s3, job)) /\ Heeds({}, {}, s4, sync_repeat_scheduler(s4, late))
  BY RepeatKeysHeed
<1> QED
  BY <1>1, <1>5, <1>6, <1>7, HeedsTransitive

LEMMA UpdatePriorityHeeds ==
    ASSUME NEW st, Formed(st), NEW j \in JobIds, st.jobs[j] # None, NEW priority, NEW lifo
    PROVE  Heeds({}, {}, st, update_priority_script(st, j, priority, lifo))
<1> DEFINE job == [st.jobs[j] EXCEPT !.options.priority = priority, !.options.lifo = lifo]
           s1 == [st EXCEPT !.jobs[j] = job]
<1>1. /\ job.state = "waiting" => update_priority_script(st, j, priority, lifo) = enqueue_waiting_job(st, job)
      /\ job.state # "waiting" => update_priority_script(st, j, priority, lifo) = s1
  BY DEF update_priority_script
<1>2. /\ Record(job) /\ job.id = j /\ job.state = st.jobs[j].state
      /\ job.child_ids = st.jobs[j].child_ids /\ job.parent_id = st.jobs[j].parent_id
      /\ Record(st.jobs[j])
  BY DEF Formed, Record, Fields
<1> HIDE DEF job
<1>3. CASE job.state \in Terminal
  <2>1. Settled(st, j, job)
    BY <1>2, <1>3 DEF Settled
  <2>2. Stores(st, s1, j, job)
    BY DEF Stores, Formed, Keys
  <2> QED
    BY <1>1, <1>3, <2>1, <2>2, StoreHeeds DEF Terminal
<1>4. CASE job.state \notin Terminal
  <2>1. Moved(st, j, job)
    BY <1>2, <1>4 DEF Moved, Ended
  <2>2. Heeds({}, {}, st, enqueue_waiting_job(st, job)) /\ Heeds({}, {}, st, s1)
    BY <2>1, MovedHeeds
  <2> HIDE DEF s1
  <2> QED
    BY <1>1, <2>2
<1> QED
  BY <1>3, <1>4

\* Removal by an operator.
LEMMA RemoveKeysHeeds ==
    ASSUME NEW st, NEW j, j \notin JobIds \/ st.jobs[j] = None
    PROVE  Heeds({}, {}, st, remove_dependency_keys(st, j))
<1> DEFINE b == remove_dependency_keys(st, j)
<1> SUFFICES ASSUME Formed(st) PROVE Heeds({}, {}, st, b)
  BY DEF Heeds
<1>1. /\ DOMAIN b = Keys /\ b.jobs = st.jobs /\ b.completed = st.completed
      /\ b.dedup_next = st.dedup_next /\ b.deps = [st.deps EXCEPT ![j] = NoDependencies]
  BY DEF Formed, Keys, remove_dependency_keys
<1>2. DOMAIN NoDependencies = Dependents
  BY DEF NoDependencies, Dependents
<1> HIDE DEF b
<1>3. Formed(b)
  BY <1>1, <1>2 DEF Formed
<1>4. \A p, c \in JobIds : Neglects(b, p, c) => Neglects(st, p, c)
  BY <1>1 DEF Neglects, Ended, Formed
<1> QED
  BY <1>1, <1>3, <1>4 DEF Heeds

LEMMA RemoveJobHeeds ==
    ASSUME NEW st, NEW j PROVE Heeds({}, {}, st, remove_job_script(st, j))
<1>1. CASE j \notin JobIds \/ st.jobs[j] = None
  BY <1>1, RemoveKeysHeeds DEF remove_job_script, Exists
<1>2. CASE j \in JobIds /\ st.jobs[j] # None
  <2>1. remove_job_script(st, j) \in {st, remove_with_dependency(st, st.jobs[j])}
    BY <1>2 DEF remove_job_script, Exists
  <2> QED
    BY <1>2, <2>1, RemoveWithDependencyHeeds, HeedsReflexive
<1> QED
  BY <1>1, <1>2

LEMMA RemoveCandidatesHeed ==
    ASSUME NEW st, NEW states, NEW candidates, candidates \subseteq JobIds
    PROVE  Heeds({}, {}, st, remove_candidates(st, states, candidates))
<1> DEFINE s == SetToSeq(candidates)
           N == Len(s)
           copies == st.jobs
<1>1. PICK x : remove_candidates(st, states, candidates)
                    = remove_each([st EXCEPT !.repeat = x], copies, s)
  BY DEF remove_candidates
<1> DEFINE s1 == [st EXCEPT !.repeat = x]
<1>2. Heeds({}, {}, st, s1)
  BY OtherKeysHeed
<1>3. N \in Nat
  BY FiniteIds
<1> HIDE DEF s, s1, copies
<1>4. PICK F : RemoveRun(F, s1, s, copies)
  BY <1>3, RemoveRunExists
<1>5. /\ F[0] = s1 /\ remove_each(s1, copies, s) = F[N]
      /\ \A n \in 0 .. N - 1 : F[n + 1] = remove_with_dependency(F[n], copies[s[n + 1]])
  BY <1>4 DEF RemoveRun
<1> HIDE DEF N
<1>6. \A n \in 0 .. N - 1 : Heeds({}, {}, F[n], F[n + 1])
  BY <1>5, RemoveWithDependencyHeeds
<1>7. Heeds({}, {}, s1, F[N])
  BY <1>3, <1>5, <1>6, LoopHeeds
<1> QED
  BY <1>1, <1>2, <1>5, <1>7, HeedsTransitive DEF s1

LEMMA RemoveOrphansHeed == ASSUME NEW st PROVE Heeds({}, {}, st, remove_orphans(st))
<1> DEFINE b == remove_orphans(st)
<1> SUFFICES ASSUME Formed(st) PROVE Heeds({}, {}, st, b)
  BY DEF Heeds
<1>1. /\ DOMAIN b = Keys /\ b.completed = st.completed /\ b.dedup_next = st.dedup_next
      /\ b.jobs = [j \in JobIds |-> IF j \in Orphans(st) THEN None ELSE st.jobs[j]]
      /\ b.deps = [j \in JobIds |-> IF j \in Orphans(st) THEN NoDependencies ELSE st.deps[j]]
  BY DEF Formed, Keys, remove_orphans
<1>2. DOMAIN NoDependencies = Dependents
  BY DEF NoDependencies, Dependents
<1> HIDE DEF b
<1>3. Formed(b)
  BY <1>1, <1>2 DEF Formed
<1>4. \A p, c \in JobIds : Neglects(b, p, c) => Neglects(st, p, c)
  BY <1>1 DEF Neglects, Ended
<1> QED
  BY <1>1, <1>3, <1>4 DEF Heeds

LEMMA SetToSeqCovers ==
    ASSUME NEW S, S \subseteq JobIds
    PROVE  /\ Len(SetToSeq(S)) \in Nat
           /\ \A n \in 1 .. Len(SetToSeq(S)) : SetToSeq(S)[n] \in S
           /\ \A x \in S : \E n \in 1 .. Len(SetToSeq(S)) : SetToSeq(S)[n] = x
<1>1. IsFiniteSet(S)
  BY RedisJobIdsAssumption, FS_Subset
<1> DEFINE N == Cardinality(S)
<1>2. N \in Nat
  BY <1>1, FS_CardinalityType
<1>3. \E f \in [1 .. N -> S] : IsInjective(f)
  <2>1. PICK n \in Nat : ExistsBijection(1 .. n, S)
    BY <1>1, FS_NatBijection
  <2>2. N = n
    BY <2>1, FS_CountingElements
  <2>3. PICK f \in Bijection(1 .. n, S) : TRUE
    BY <2>1 DEF ExistsBijection
  <2>4. f \in [1 .. n -> S] /\ IsInjective(f)
    BY <2>3 DEF Bijection, Injection, IsInjective
  <2> QED
    BY <2>2, <2>4
<1> DEFINE f == SetToSeq(S)
<1>4. f \in [1 .. N -> S] /\ IsInjective(f)
  BY <1>3 DEF SetToSeq
<1> HIDE DEF f
<1>5. f \in Injection(1 .. N, S)
  BY <1>4 DEF Injection
<1>6. Cardinality(1 .. N) = N
  BY <1>2, FS_Interval
<1>7. f \in Surjection(1 .. N, S)
  BY <1>1, <1>5, <1>6, FS_Injection
<1>8. Len(f) = N
  BY <1>2, <1>4
<1>9. \A x \in S : \E n \in 1 .. N : f[n] = x
  BY <1>7 DEF Surjection
<1> QED
  BY <1>2, <1>4, <1>8, <1>9 DEF f

LEMMA RemoveUnprocessedHeeds ==
    ASSUME NEW st, NEW p \in JobIds, st.jobs[p] # None
    PROVE  Heeds({}, {}, st, remove_unprocessed_script(st, p))
<1> DEFINE gone == UnprocessedBelow(st, p)
           missing == {c \in ToSet(st.jobs[p].child_ids) : ~Exists(st, c)}
           copies == st.jobs
           s == SetToSeq(gone)
           N == Len(s)
           s1 == remove_each_record(st, copies, s)
           x == gone \cup missing
           s2 == [s1 EXCEPT !.deps[p].pending = @ \ x]
           s3 == scan_remaining_children(s2, p)
<1> SUFFICES ASSUME Formed(st) PROVE Heeds({}, {}, st, remove_unprocessed_script(st, p))
  BY DEF Heeds
<1>1. \/ remove_unprocessed_script(st, p) = s2
      \/ /\ remove_unprocessed_script(st, p) = s3
         /\ s2.jobs[p].state = "waiting_children" /\ s2.deps[p].pending = {}
  BY DEF remove_unprocessed_script
<1>2. gone \subseteq JobIds /\ \A c \in gone : copies[c].id = c /\ c # p
  BY UnprocessedBelowExist DEF Exists, Formed
<1>a. \A c \in x : c \in JobIds => c \in gone \/ st.jobs[c] = None
  BY DEF Exists
<1> HIDE DEF x, gone
<1>3. /\ N \in Nat /\ \A n \in 1 .. N : s[n] \in gone
      /\ \A c \in gone : \E n \in 1 .. N : s[n] = c
  BY <1>2, SetToSeqCovers
<1> HIDE DEF s, copies
<1>4. PICK F : DiscardRun(F, st, s, copies)
  BY <1>3, DiscardRunExists
<1>5. /\ F[0] = st /\ s1 = F[N]
      /\ \A n \in 0 .. N - 1 : F[n + 1] = remove_job_record(F[n], copies[s[n + 1]])
  BY <1>4 DEF DiscardRun
<1> HIDE DEF N, s1
<1> DEFINE Gone(n) == /\ \A i \in 1 .. n : F[n].jobs[s[i]] = None
                      /\ \A c \in JobIds \ gone : F[n].jobs[c] = st.jobs[c]
           Goods == {n \in 0 .. N : Heeds({}, {}, st, F[n]) /\ Gone(n)}
<1>6. 0 \in Goods
  BY <1>3, <1>5, HeedsReflexive
<1>7. ASSUME NEW n \in 0 .. N - 1, n \in Goods PROVE n + 1 \in Goods
  <2> DEFINE a == F[n]
             b == F[n + 1]
             c == s[n + 1]
             job == copies[c]
  <2>1. /\ n + 1 \in 0 .. N /\ n + 1 \in 1 .. N /\ c \in gone
        /\ \A i \in 1 .. n + 1 : i \in 1 .. n \/ i = n + 1
        /\ \A i \in 1 .. n + 1 : i \in 1 .. N
    BY <1>3
  <2>2. c \in JobIds /\ job.id = c /\ b = remove_job_record(a, job) /\ Heeds({}, {}, st, a)
    BY <1>2, <1>5, <1>7, <2>1
  <2>3. Gone(n)
    BY <1>7
  <2>4. Heeds({}, {}, a, b) /\ b.jobs = [a.jobs EXCEPT ![c] = None] /\ DOMAIN a.jobs = JobIds
    <3>1. Formed(a)
      BY <2>2 DEF Heeds
    <3> HIDE DEF a, b, c, job
    <3> QED
      BY <2>2, <3>1, RemoveRecordHeeds DEF Formed
  <2>5. Gone(n + 1)
    <3>1. ASSUME NEW i \in 1 .. n + 1 PROVE b.jobs[s[i]] = None
      <4>1. s[i] \in JobIds
        BY <1>2, <1>3, <2>1
      <4> QED
        BY <2>1, <2>3, <2>4, <4>1
    <3>2. \A e \in JobIds \ gone : b.jobs[e] = st.jobs[e]
      BY <2>1, <2>3, <2>4
    <3> QED
      BY <3>1, <3>2
  <2>6. Heeds({}, {}, st, b)
    BY <2>2, <2>4, HeedsTransitive
  <2> QED
    BY <2>1, <2>5, <2>6
<1> HIDE DEF Goods
<1>8. \A n \in 0 .. N : n \in Goods
  BY <1>3, <1>6, <1>7, Climb
<1>9. N \in Goods
  BY <1>3, <1>8
<1>10. Heeds({}, {}, st, s1) /\ Gone(N)
  BY <1>5, <1>9 DEF Goods
<1>11. (\A c \in gone : s1.jobs[c] = None) /\ (\A c \in JobIds \ gone : s1.jobs[c] = st.jobs[c])
  BY <1>3, <1>5, <1>10
<1>12. \A c \in JobIds : c \in x => s1.jobs[c] = None
  BY <1>11, <1>a
<1>13. Formed(s1)
  BY <1>10 DEF Heeds
<1>14. Relieves({}, s1, s2) /\ s2.jobs = s1.jobs
  BY <1>12, <1>13 DEF Relieves, Formed, Keys, Dependents, Ended
<1>15. s2.jobs[p] # None
  BY <1>2, <1>11, <1>14
<1> HIDE DEF s2
<1>16. Heeds({}, {}, st, s2)
  BY <1>10, <1>14, RelieveHeeds, HeedsTransitive
<1>17. CASE s2.jobs[p].state = "waiting_children" /\ s2.deps[p].pending = {}
  <2>1. ~Ended(s2, p)
    BY <1>15, <1>17 DEF Ended, Terminal
  <2>2. Heeds({}, {}, s2, s3)
    BY <1>17, <2>1, ScanHeeds
  <2> HIDE DEF s3
  <2>3. Heeds({}, {}, st, s3)
    BY <1>16, <2>2, HeedsTransitive
  <2> QED
    BY <1>1, <1>16, <2>3
<1> HIDE DEF s3
<1> QED
  BY <1>1, <1>16, <1>17

LEMMA RemoveChildDependencyHeeds ==
    ASSUME NEW st, st.jobs \in [JobIds -> Job \cup {None}], NEW c \in JobIds, st.jobs[c] # None
    PROVE  Heeds({}, {}, st, remove_child_dependency_script(st, c))
<1> DEFINE p == st.jobs[c].parent_id
           list == RemoveFrom(st.jobs[p].child_ids, c)
           r == [st.jobs[p] EXCEPT !.child_ids = list]
           mid == [st.jobs EXCEPT ![p] = r]
           q == [mid[c] EXCEPT !.parent_id = None]
           new == [mid EXCEPT ![c] = q]
           s1 == [st EXCEPT !.deps[p] = Forget(@, c), !.jobs[p].child_ids = list,
                            !.jobs[c].parent_id = None]
           s2 == scan_remaining_children(s1, p)
<1> SUFFICES ASSUME Formed(st) PROVE Heeds({}, {}, st, remove_child_dependency_script(st, c))
  BY DEF Heeds
<1>1. CASE ~Exists(st, p)
  BY <1>1, HeedsReflexive DEF remove_child_dependency_script
<1>2. CASE Exists(st, p)
  <2>0. remove_child_dependency_script(st, c) \in {st, s1, s2}
    BY DEF remove_child_dependency_script
  <2>1. \/ remove_child_dependency_script(st, c) \in {st, s1}
        \/ s1.jobs[p].state = "waiting_children" /\ s1.deps[p].pending = {}
    <3> HIDE DEF s1, s2
    <3> QED
      BY DEF remove_child_dependency_script, s1
  <2>2. /\ p \in JobIds /\ st.jobs[p] # None /\ Record(st.jobs[p]) /\ st.jobs[p].id = p
        /\ Record(st.jobs[c]) /\ st.jobs[c].id = c
    BY <1>2 DEF Exists, Formed
  <2>3. IsList(list) /\ ToSet(list) = ToSet(st.jobs[p].child_ids) \ {c}
    BY <2>2, RemoveFromList DEF Record
  <2>a. st.jobs[p] \in Job /\ st.jobs[c] \in Job /\ list \in Seq(JobIds)
    <3>1. st.jobs[p] \in Job /\ st.jobs[c] \in Job
      BY <2>2
    <3>2. st.jobs[p].child_ids \in Seq(JobIds)
      BY <3>1 DEF Job
    <3> QED
      BY <3>1, <3>2, KeepOnlyElements DEF RemoveFrom
  <2> HIDE DEF list, p
  <2>4. DOMAIN Forget(st.deps[p], c) = Dependents /\ Forget(st.deps[p], c).pending = st.deps[p].pending \ {c}
    BY <2>2 DEF Forget, Formed, Dependents
  <2>5. /\ DOMAIN s1 = Keys /\ s1.jobs = new /\ s1.completed = st.completed
        /\ s1.dedup_next = st.dedup_next /\ s1.deps = [st.deps EXCEPT ![p] = Forget(st.deps[p], c)]
    BY <2>2 DEF Formed, Keys
  <2> HIDE DEF s1
  <2>6. Record(r) /\ r.id = p /\ r.state = st.jobs[p].state /\ r.parent_id = st.jobs[p].parent_id
        /\ r.child_ids = list
    BY <2>2, <2>3 DEF Record, Fields
  <2>7. r \in Job
    BY <2>a DEF Job
  <2> HIDE DEF r
  <2>8. /\ DOMAIN mid = JobIds /\ mid[p] = r /\ \A i \in JobIds \ {p} : mid[i] = st.jobs[i]
        /\ Record(mid[c]) /\ mid[c].id = c /\ mid[c].state = st.jobs[c].state /\ mid[c] \in Job
    BY <2>2, <2>6, <2>7, <2>a DEF Formed
  <2> HIDE DEF mid
  <2>b. q \in Job
    BY <2>8 DEF Job
  <2>9. Record(q) /\ q.id = c /\ q.state = mid[c].state /\ q.parent_id = None
        /\ q.child_ids = mid[c].child_ids
    BY <2>8 DEF Record, Fields
  <2> HIDE DEF q
  <2>10. DOMAIN new = JobIds /\ new[c] = q /\ \A i \in JobIds \ {c} : new[i] = mid[i]
    BY <2>8
  <2> HIDE DEF new
  <2>11. Formed(s1)
    <3>1. \A i \in JobIds : new[i] # None => Record(new[i]) /\ new[i].id = i
      BY <2>6, <2>8, <2>9, <2>10 DEF Formed
    <3>2. DOMAIN s1.deps = JobIds /\ \A i \in JobIds : DOMAIN s1.deps[i] = Dependents
      BY <2>2, <2>4, <2>5 DEF Formed
    <3> QED
      BY <2>5, <2>10, <3>1, <3>2 DEF Formed
  <2>12. ASSUME NEW a \in JobIds, NEW e \in JobIds, Neglects(s1, a, e) PROVE Neglects(st, a, e)
    <3>1. ~Ended(st, a) /\ ~Ended(st, e)
      BY <2>2, <2>5, <2>6, <2>8, <2>9, <2>10, <2>12 DEF Neglects, Ended
    <3>2. e # c /\ st.jobs[e].parent_id = a
      BY <2>5, <2>6, <2>8, <2>9, <2>10, <2>12, RedisNoneAssumption DEF Neglects
    <3>3. e \in ToSet(st.jobs[a].child_ids)
      <4>1. new[a].child_ids = mid[a].child_ids
        BY <2>8, <2>9, <2>10
      <4>2. mid[a].child_ids = IF a = p THEN list ELSE st.jobs[a].child_ids
        BY <2>6, <2>8
      <4> QED
        BY <2>3, <2>5, <2>12, <4>1, <4>2 DEF Neglects
    <3>4. e \notin st.deps[a].pending
      <4>1. s1.deps[a] = IF a = p THEN Forget(st.deps[p], c) ELSE st.deps[a]
        BY <2>2, <2>5 DEF Formed
      <4> QED
        BY <2>4, <2>12, <3>2, <4>1 DEF Neglects
    <3> QED
      BY <3>1, <3>2, <3>3, <3>4 DEF Neglects
  <2>13. Heeds({}, {}, st, s1)
    BY <2>5, <2>11, <2>12 DEF Heeds
  <2>14. s1.jobs[p] # None
    BY <2>2, <2>5, <2>7, <2>8, <2>b, <2>10, RedisRecordsAssumption
  <2>15. CASE s1.jobs[p].state = "waiting_children" /\ s1.deps[p].pending = {}
    <3>1. ~Ended(s1, p)
      BY <2>14, <2>15 DEF Ended, Terminal
    <3>2. Heeds({}, {}, s1, s2)
      BY <2>2, <2>15, <3>1, ScanHeeds
    <3> HIDE DEF s2
    <3>3. Heeds({}, {}, st, s2)
      BY <2>13, <3>2, HeedsTransitive
    <3> QED
      BY <2>0, <2>13, <3>3, HeedsReflexive
  <2> HIDE DEF s2
  <2> QED
    BY <2>1, <2>13, <2>15, HeedsReflexive
<1> QED
  BY <1>1, <1>2

-----------------------------------------------------------------------------
\* Submission.
LEMMA InsertHeeds ==
    ASSUME NEW st, NEW job, NEW replacing, Record(job), job.child_ids = <<>>, job.parent_id = None
    PROVE  /\ Heeds({}, {}, st, insert_job(st, job))
           /\ Heeds({}, {}, st, insert_unless_repeating(st, job, replacing))
<1>1. ASSUME NEW a PROVE Heeds({}, {}, a, insert_job(a, job))
  <2> DEFINE s1 == enqueue_prepared_job(a, job)
  <2>1. Lone(a, job)
    BY DEF Lone
  <2>2. Heeds({}, {}, a, s1)
    BY <2>1, EnqueueHeeds
  <2>3. insert_job(a, job) = set_repeat_key(s1, job)
    BY DEF insert_job
  <2> HIDE DEF s1
  <2> QED
    BY <2>2, <2>3, RepeatKeysHeed, HeedsTransitive
<1> DEFINE s1 == prune_repeat_keys(st, repeat_key(job))
           s2 == insert_job(s1, job)
           s3 == set_replaced_deduplication_key(s2, job)
           s4 == set_deduplication_key(s2, job)
<1>2. insert_unless_repeating(st, job, replacing) \in {s1, s3, s4}
  BY DEF insert_unless_repeating
<1>3. Heeds({}, {}, st, s1)
  BY RepeatKeysHeed
<1> HIDE DEF s1
<1>4. Heeds({}, {}, s1, s2)
  BY <1>1
<1> HIDE DEF s2
<1>5. Heeds({}, {}, s2, s3) /\ Heeds({}, {}, s2, s4)
  BY DedupKeysHeed
<1> HIDE DEF s3, s4
<1>6. Heeds({}, {}, st, s2)
  BY <1>3, <1>4, HeedsTransitive
<1>7. Heeds({}, {}, st, s3) /\ Heeds({}, {}, st, s4)
  BY <1>5, <1>6, HeedsTransitive
<1> QED
  BY <1>1, <1>2, <1>3, <1>7

LEMMA ReplacedHeeds ==
    ASSUME NEW st, NEW owner PROVE Heeds({}, {}, st, remove_replaced_owner(st, owner))
<1> DEFINE y == st.delayed \ {owner.id}
           s1 == [st EXCEPT !.delayed = y]
           s2 == [s1 EXCEPT !.jobs[owner.id] = None]
<1> SUFFICES ASSUME Formed(st) PROVE Heeds({}, {}, st, remove_replaced_owner(st, owner))
  BY DEF Heeds
<1>1. remove_replaced_owner(st, owner) = s2
  BY DEF remove_replaced_owner, Formed, Keys
<1> HIDE DEF y
<1>2. Heeds({}, {}, st, s1)
  BY OtherKeysHeed
<1> HIDE DEF s1
<1>3. Stores(s1, s2, owner.id, None) /\ Settled(s1, owner.id, None)
  BY DEF Stores, Formed, Keys, Settled
<1>4. Heeds({}, {}, s1, s2)
  BY <1>3, StoreHeeds
<1> HIDE DEF s2
<1> QED
  BY <1>1, <1>2, <1>4, HeedsTransitive

LEMMA AddJobHeeds ==
    ASSUME NEW st, NEW job, Record(job), job.id \in JobIds, job.child_ids = <<>>, job.parent_id = None
    PROVE  Heeds({}, {}, st, add_job(st, job))
<1> DEFINE d == deduplication_id(job)
           s1 == prune_deduplication_key(st, d)
           owner == s1.jobs[deduplication_owner(s1, d)]
           s2 == remove_replaced_owner(s1, owner)
           payload == [job |-> job, children |-> <<>>]
<1>1. add_job(st, job) \in {st, s1, insert_unless_repeating(s1, job, FALSE),
                            insert_unless_repeating(s2, job, TRUE), park(s1, d, payload),
                            extend_deduplicated_owner(s1, job)}
  BY DEF add_job
<1>2. Sealed(payload)
  BY NoneIsList DEF Sealed
<1>3. Heeds({}, {}, st, s1)
  BY DedupKeysHeed
<1> HIDE DEF s1, owner, payload
<1>4. Heeds({}, {}, s1, s2)
  BY ReplacedHeeds
<1> HIDE DEF s2
<1>5. /\ \A x : Heeds({}, {}, s1, insert_unless_repeating(s1, job, x))
      /\ \A x : Heeds({}, {}, s2, insert_unless_repeating(s2, job, x))
      /\ Heeds({}, {}, s1, park(s1, d, payload)) /\ Heeds({}, {}, s1, extend_deduplicated_owner(s1, job))
  BY <1>2, InsertHeeds, ParkHeeds, DedupKeysHeed
<1>6. /\ \A x : Heeds({}, {}, st, insert_unless_repeating(s1, job, x))
      /\ \A x : Heeds({}, {}, st, insert_unless_repeating(s2, job, x))
      /\ Heeds({}, {}, st, park(s1, d, payload)) /\ Heeds({}, {}, st, extend_deduplicated_owner(s1, job))
  BY <1>3, <1>4, <1>5, HeedsTransitive
<1> QED
  BY <1>1, <1>3, <1>6, HeedsReflexive

LEMMA UpsertRepeatHeeds ==
    ASSUME NEW st, NEW job, Record(job), job.child_ids = <<>>, job.parent_id = None
    PROVE  Heeds({}, {}, st, upsert_repeat_script(st, job))
<1> DEFINE k == repeat_key(job)
           d == deduplication_id(job)
           owner == repeat_owner(st, k)
           s1 == prune_repeat_keys(st, k)
           other == d # None /\ s1.dedup[d] # None /\ s1.dedup[d].owner # owner
           s2 == IF other THEN prune_deduplication_key(s1, d) ELSE s1
           s3 == IF owner = None THEN s2 ELSE remove_job_record(s2, s2.jobs[owner])
           s4 == enqueue_prepared_job(s3, job)
           s5 == set_deduplication_key(s4, job)
           s6 == SetRepeat(s5, k, job.id)
<1>1. upsert_repeat_script(st, job) \in {s1, s2, s6}
  BY DEF upsert_repeat_script
<1>2. Heeds({}, {}, st, s1)
  BY RepeatKeysHeed
<1> HIDE DEF s1, owner, other, k, d
<1>3. Heeds({}, {}, s1, s2)
  BY DedupKeysHeed, HeedsReflexive
<1> HIDE DEF s2
<1>4. Heeds({}, {}, s2, s3)
  BY RemoveRecordHeeds, HeedsReflexive
<1> HIDE DEF s3
<1>a. Lone(s3, job)
  BY DEF Lone
<1>5. Heeds({}, {}, s3, s4) /\ Heeds({}, {}, s4, s5) /\ Heeds({}, {}, s5, s6)
  BY <1>a, EnqueueHeeds, DedupKeysHeed, RepeatKeysHeed
<1> HIDE DEF s4, s5, s6
<1>6. Heeds({}, {}, st, s2)
  BY <1>2, <1>3, HeedsTransitive
<1>7. Heeds({}, {}, s2, s5)
  BY <1>4, <1>5, HeedsTransitive
<1>8. Heeds({}, {}, st, s6)
  BY <1>5, <1>6, <1>7, HeedsTransitive
<1> QED
  BY <1>1, <1>2, <1>6, <1>8

\* The examination of a flow: no record changes, and a child that is skipped does not exist.
Surveyed(acc) ==
    /\ DOMAIN acc = AccKeys /\ Formed(acc.db)
    /\ \A j \in JobIds : j \in acc.skipped => acc.db.jobs[j] = None

Attends(a, b) == Surveyed(a) => Surveyed(b) /\ Heeds({}, {}, a.db, b.db) /\ b.db.jobs = a.db.jobs

LEMMA AttendsTransitive ==
    ASSUME NEW a, NEW b, NEW c, Attends(a, b), Attends(b, c) PROVE Attends(a, c)
  BY HeedsTransitive DEF Attends

LEMMA AttendsReflexive == ASSUME NEW a PROVE Attends(a, a)
  BY HeedsReflexive DEF Attends

LEMMA LoopAttends ==
    ASSUME NEW N \in Nat, NEW F, \A n \in 0 .. N - 1 : Attends(F[n], F[n + 1])
    PROVE  Attends(F[0], F[N])
<1> DEFINE Goods == {n \in 0 .. N : Attends(F[0], F[n])}
<1>1. 0 \in Goods
  BY AttendsReflexive
<1>2. ASSUME NEW n \in 0 .. N - 1, n \in Goods PROVE n + 1 \in Goods
  BY <1>2, AttendsTransitive
<1> HIDE DEF Goods
<1>3. \A n \in 0 .. N : n \in Goods
  BY <1>1, <1>2, Climb
<1> QED
  BY <1>3 DEF Goods

LEMMA KeysKeepRecords ==
    ASSUME NEW st, Formed(st), NEW job, NEW d, NEW k, NEW payload
    PROVE  /\ set_deduplication_key(st, job).jobs = st.jobs
           /\ set_repeat_key(st, job).jobs = st.jobs
           /\ prune_deduplication_key(st, d).jobs = st.jobs
           /\ prune_repeat_keys(st, k).jobs = st.jobs
           /\ extend_deduplicated_owner(st, job).jobs = st.jobs
           /\ park(st, d, payload).jobs = st.jobs
<1>1. set_deduplication_key(st, job).jobs = st.jobs /\ prune_deduplication_key(st, d).jobs = st.jobs
  BY DEF Formed, Keys, set_deduplication_key, prune_deduplication_key
<1>2. set_repeat_key(st, job).jobs = st.jobs
  BY DEF Formed, Keys, set_repeat_key, SetRepeat
<1>3. prune_repeat_keys(st, k).jobs = st.jobs
  BY DEF Formed, Keys, prune_repeat_keys
<1>4. extend_deduplicated_owner(st, job).jobs = st.jobs /\ park(st, d, payload).jobs = st.jobs
  BY DEF Formed, Keys, extend_deduplicated_owner, park
<1> QED
  BY <1>1, <1>2, <1>3, <1>4

\* Another db in the accumulator, with whatever is skipped besides.
LEMMA StoringAttends ==
    ASSUME NEW acc, NEW b,
           Surveyed(acc) => /\ DOMAIN b = AccKeys /\ Heeds({}, {}, acc.db, b.db) /\ b.db.jobs = acc.db.jobs
                            /\ \A j \in JobIds : j \in b.skipped =>
                                    j \in acc.skipped \/ acc.db.jobs[j] = None
    PROVE  Attends(acc, b)
  BY DEF Attends, Surveyed, Heeds

LEMMA ExamineNewAttends == ASSUME NEW acc, NEW job PROVE Attends(acc, examine_new(acc, job))
<1> DEFINE s1 == prune_repeat_keys(acc.db, repeat_key(job))
           b == examine_new(acc, job)
<1> SUFFICES ASSUME Surveyed(acc) PROVE Attends(acc, b)
  BY DEF Attends
<1>1. DOMAIN b = AccKeys /\ b.db = s1 /\ b.skipped = acc.skipped
  BY DEF examine_new, Surveyed, AccKeys
<1>2. Heeds({}, {}, acc.db, s1) /\ s1.jobs = acc.db.jobs
  BY RepeatKeysHeed, KeysKeepRecords DEF Surveyed
<1> HIDE DEF b, s1
<1> QED
  BY <1>1, <1>2, StoringAttends

\* A child of a flow as it is submitted.
Child(job) == Record(job) /\ job.id \in JobIds /\ job.child_ids = <<>>

LEMMA ExamineDuplicateAttends ==
    ASSUME NEW acc, NEW child, Child(child), acc.db.jobs[child.id] = None, NEW owner
    PROVE  Attends(acc, examine_duplicate(acc, child, owner))
<1> DEFINE d == deduplication_id(child)
           payload == [job |-> child, children |-> <<>>]
           s1 == park(acc.db, d, payload)
           s2 == extend_deduplicated_owner(acc.db, child)
           b1 == [acc EXCEPT !.db = s1, !.skipped = @ \cup {child.id}, !.next[d] = child.id]
           b2 == [acc EXCEPT !.db = s2, !.skipped = @ \cup {child.id}]
<1> SUFFICES ASSUME Surveyed(acc) PROVE Attends(acc, examine_duplicate(acc, child, owner))
  BY DEF Attends
<1>1. Sealed(payload)
  BY NoneIsList DEF Sealed, Child
<1>2. examine_duplicate(acc, child, owner) \in {b1, b2}
  BY DEF examine_duplicate
<1> HIDE DEF payload, d
<1>3. /\ Heeds({}, {}, acc.db, s1) /\ Heeds({}, {}, acc.db, s2)
      /\ s1.jobs = acc.db.jobs /\ s2.jobs = acc.db.jobs
  BY <1>1, ParkHeeds, DedupKeysHeed, KeysKeepRecords DEF Surveyed
<1> HIDE DEF s1, s2
<1>4. /\ DOMAIN b1 = AccKeys /\ b1.db = s1 /\ b1.skipped = acc.skipped \cup {child.id}
      /\ DOMAIN b2 = AccKeys /\ b2.db = s2 /\ b2.skipped = acc.skipped \cup {child.id}
  BY DEF Surveyed, AccKeys
<1> HIDE DEF b1, b2
<1>5. Attends(acc, b1) /\ Attends(acc, b2)
  BY <1>3, <1>4, StoringAttends
<1> QED
  BY <1>2, <1>5

LEMMA ExamineChildAttends ==
    ASSUME NEW acc, NEW child, Child(child)
    PROVE  Attends(acc, examine_child(acc, child)) /\ Attends(acc, examine_dynamic_child(acc, child))
<1> DEFINE s1 == prune_deduplication_key(acc.db, deduplication_id(child))
           a1 == [acc EXCEPT !.db = s1]
           t1 == [acc EXCEPT !.result = "refused"]
           t2 == [acc EXCEPT !.duplicated = @ \cup {child.id}]
<1> SUFFICES ASSUME Surveyed(acc)
             PROVE  Attends(acc, examine_child(acc, child)) /\ Attends(acc, examine_dynamic_child(acc, child))
  BY DEF Attends
<1>1. \E owner : /\ examine_child(acc, child) \in
                        {acc, t1, t2, examine_duplicate(a1, child, owner), examine_new(a1, child)}
                 /\ \/ acc.db.jobs[child.id] = None
                    \/ examine_child(acc, child) \in {acc, t1, t2}
  BY DEF examine_child, Exists, Child
<1>2. examine_dynamic_child(acc, child) \in {t1, examine_child(acc, child)}
  BY DEF examine_dynamic_child
<1>3. Heeds({}, {}, acc.db, s1) /\ s1.jobs = acc.db.jobs
  BY DedupKeysHeed, KeysKeepRecords DEF Surveyed
<1> HIDE DEF s1
<1>4. DOMAIN a1 = AccKeys /\ a1.db = s1 /\ a1.skipped = acc.skipped
  BY DEF Surveyed, AccKeys
<1>5. Attends(acc, t1) /\ Attends(acc, t2)
  <2>1. /\ DOMAIN t1 = AccKeys /\ t1.db = acc.db /\ t1.skipped = acc.skipped
        /\ DOMAIN t2 = AccKeys /\ t2.db = acc.db /\ t2.skipped = acc.skipped
    BY DEF Surveyed, AccKeys
  <2> HIDE DEF t1, t2
  <2> QED
    BY <2>1, HeedsReflexive, StoringAttends
<1> HIDE DEF a1, t1, t2
<1>6. Attends(acc, a1)
  BY <1>3, <1>4, StoringAttends
<1>7. Attends(acc, examine_new(a1, child))
  BY <1>6, ExamineNewAttends, AttendsTransitive
<1>8. acc.db.jobs[child.id] = None => \A owner : Attends(acc, examine_duplicate(a1, child, owner))
  BY <1>3, <1>4, <1>6, ExamineDuplicateAttends, AttendsTransitive
<1>9. Attends(acc, examine_child(acc, child))
  BY <1>1, <1>5, <1>7, <1>8, AttendsReflexive
<1> QED
  BY <1>2, <1>5, <1>9

LEMMA ExamineParentAttends ==
    ASSUME NEW acc, NEW parent, parent.id \in JobIds, NEW children, IsList(children), children # <<>>
    PROVE  Attends(acc, examine_parent(acc, parent, children))
<1> DEFINE d == deduplication_id(parent)
           s1 == prune_deduplication_key(acc.db, d)
           a1 == [acc EXCEPT !.db = s1]
           payload == [job |-> parent, children |-> children]
           s2 == park(s1, d, payload)
           s3 == extend_deduplicated_owner(s1, parent)
           t2 == [acc EXCEPT !.result = "deduplicated_parent", !.db = s2]
           t3 == [acc EXCEPT !.result = "deduplicated_parent", !.db = s3]
<1> SUFFICES ASSUME Surveyed(acc) PROVE Attends(acc, examine_parent(acc, parent, children))
  BY DEF Attends
<1>1. examine_parent(acc, parent, children) \in {acc, examine_new(a1, parent), t2, t3}
  BY DEF examine_parent
<1>2. Sealed(payload)
  BY DEF Sealed
<1>3. Heeds({}, {}, acc.db, s1) /\ s1.jobs = acc.db.jobs
  BY DedupKeysHeed, KeysKeepRecords DEF Surveyed
<1> HIDE DEF s1, payload, d
<1>4. Formed(s1)
  BY <1>3 DEF Heeds, Surveyed
<1>5. Heeds({}, {}, s1, s2) /\ Heeds({}, {}, s1, s3) /\ s2.jobs = s1.jobs /\ s3.jobs = s1.jobs
  BY <1>2, <1>4, ParkHeeds, DedupKeysHeed, KeysKeepRecords
<1> HIDE DEF s2, s3
<1>6. Heeds({}, {}, acc.db, s2) /\ Heeds({}, {}, acc.db, s3)
  BY <1>3, <1>5, HeedsTransitive
<1>7. /\ DOMAIN a1 = AccKeys /\ a1.db = s1 /\ a1.skipped = acc.skipped
      /\ DOMAIN t2 = AccKeys /\ t2.db = s2 /\ t2.skipped = acc.skipped
      /\ DOMAIN t3 = AccKeys /\ t3.db = s3 /\ t3.skipped = acc.skipped
  BY DEF Surveyed, AccKeys
<1> HIDE DEF a1, t2, t3
<1>8. Attends(acc, a1) /\ Attends(acc, t2) /\ Attends(acc, t3)
  BY <1>3, <1>5, <1>6, <1>7, StoringAttends
<1>9. Attends(acc, examine_new(a1, parent))
  BY <1>8, ExamineNewAttends, AttendsTransitive
<1> QED
  BY <1>1, <1>8, <1>9, AttendsReflexive

LEMMA ExamineAttends ==
    ASSUME NEW acc, NEW s, Len(s) \in Nat, \A i \in 1 .. Len(s) : Child(s[i])
    PROVE  Attends(acc, examine_children(acc, s)) /\ Attends(acc, examine_dynamic_children(acc, s))
<1> DEFINE N == Len(s)
<1>0. \A n \in 0 .. N - 1 : Child(s[n + 1])
  OBVIOUS
<1>1. Attends(acc, examine_children(acc, s))
  <2>1. PICK F : ExamineRun(F, acc, s)
    BY ExamineRunExists
  <2>2. /\ F[0] = acc /\ examine_children(acc, s) = F[N]
        /\ \A n \in 0 .. N - 1 : F[n + 1] = examine_child(F[n], s[n + 1])
    BY <2>1 DEF ExamineRun
  <2>3. \A n \in 0 .. N - 1 : Attends(F[n], F[n + 1])
    BY <1>0, <2>2, ExamineChildAttends
  <2> QED
    BY <2>2, <2>3, LoopAttends
<1>2. Attends(acc, examine_dynamic_children(acc, s))
  <2>1. PICK F : DynamicRun(F, acc, s)
    BY DynamicRunExists
  <2>2. /\ F[0] = acc /\ examine_dynamic_children(acc, s) = F[N]
        /\ \A n \in 0 .. N - 1 : F[n + 1] = examine_dynamic_child(F[n], s[n + 1])
    BY <2>1 DEF DynamicRun
  <2>3. \A n \in 0 .. N - 1 : Attends(F[n], F[n + 1])
    BY <1>0, <2>2, ExamineChildAttends
  <2> QED
    BY <2>2, <2>3, LoopAttends
<1> QED
  BY <1>1, <1>2

\* The writes of a flow: p may come to neglect the children in S, until it awaits them.
Leaves(p, S, a, b) == Formed(a) =>
    /\ Formed(b)
    /\ \A q, c \in JobIds : Neglects(b, q, c) => Neglects(a, q, c) \/ (q = p /\ c \in S)
    /\ ToSet(b.completed) \subseteq ToSet(a.completed)

LEMMA LeavesTransitive ==
    ASSUME NEW p, NEW S, NEW a, NEW b, NEW c, Leaves(p, S, a, b), Leaves(p, S, b, c)
    PROVE  Leaves(p, S, a, c)
  BY DEF Leaves

LEMMA HeedsLeaves ==
    ASSUME NEW p, NEW S, NEW a, NEW b, Heeds({}, {}, a, b) PROVE Leaves(p, S, a, b)
  BY DEF Leaves, Heeds

LEMMA LeavesHeeds ==
    ASSUME NEW p, NEW S, NEW a, NEW b, Leaves(p, S, a, b), \A c \in S : ~Neglects(b, p, c)
    PROVE  Heeds({}, {}, a, b)
  BY DEF Leaves, Heeds

\* A record is written that belongs to p, as a child in S or as p itself with children in S.
LEMMA StoreLeaves ==
    ASSUME NEW p, NEW S, NEW a, NEW b, NEW j \in JobIds, NEW r, Stores(a, b, j, r),
           Record(r), r.id = j,
           \/ r.child_ids = <<>>
           \/ j = p /\ ToSet(r.child_ids) \subseteq S,
           r.parent_id = None \/ (r.parent_id = p /\ j \in S)
    PROVE  Leaves(p, S, a, b)
<1> SUFFICES ASSUME Formed(a) PROVE Leaves(p, S, a, b)
  BY DEF Leaves
<1>1. Formed(b)
  BY StoreForms
<1>2. /\ b.deps = a.deps /\ b.completed = a.completed
      /\ \A i \in JobIds : b.jobs[i] = IF i = j THEN r ELSE a.jobs[i]
  BY DEF Stores, Formed
<1>3. ASSUME NEW q \in JobIds, NEW c \in JobIds, Neglects(b, q, c), ~(q = p /\ c \in S)
      PROVE  Neglects(a, q, c)
  <2>1. q # j
    <3> SUFFICES ASSUME q = j PROVE FALSE
      OBVIOUS
    <3>1. c \in ToSet(r.child_ids)
      BY <1>2, <1>3 DEF Neglects
    <3>2. r.child_ids # <<>>
      BY <3>1, NoneIsList
    <3> QED
      BY <1>3, <3>1, <3>2
  <2>2. c # j
    <3> SUFFICES ASSUME c = j PROVE FALSE
      OBVIOUS
    <3>1. r.parent_id = q /\ q # None
      BY <1>2, <1>3, RedisNoneAssumption DEF Neglects
    <3> QED
      BY <1>3, <3>1
  <2> QED
    BY <1>2, <1>3, <2>1, <2>2 DEF Neglects, Ended
<1> QED
  BY <1>1, <1>2, <1>3 DEF Leaves

LEMMA InsertChildStores ==
    ASSUME NEW st, Formed(st), NEW job, Record(job), job.id \in JobIds, NEW new,
           new = set_deduplication_key(insert_job(st, job), job), NEW r, r = new.jobs[job.id],
           NEW mid, mid = enqueue_prepared_job(st, job)
    PROVE  /\ Record(r) /\ r.id = job.id /\ r.child_ids = job.child_ids
           /\ r.parent_id = job.parent_id
           /\ Stores(st, mid, job.id, r) /\ Formed(mid) /\ Heeds({}, {}, mid, new)
           /\ \A i \in JobIds \ {job.id} : new.jobs[i] = st.jobs[i]
<1> DEFINE s2 == set_repeat_key(mid, job)
           s3 == set_deduplication_key(s2, job)
<1>1. new = s3
  BY DEF insert_job
<1>2. PICK x : /\ Record(x) /\ x.id = job.id /\ x.child_ids = job.child_ids
               /\ x.parent_id = job.parent_id /\ Stores(st, mid, job.id, x)
  BY PreparedStores
<1>3. Formed(mid) /\ \A i \in JobIds : mid.jobs[i] = IF i = job.id THEN x ELSE st.jobs[i]
  BY <1>2, StoreForms DEF Stores, Formed
<1>4. Heeds({}, {}, mid, s2) /\ s2.jobs = mid.jobs
  BY <1>3, RepeatKeysHeed, KeysKeepRecords
<1> HIDE DEF s2
<1>5. Formed(s2)
  BY <1>3, <1>4 DEF Heeds
<1>6. Heeds({}, {}, s2, s3) /\ s3.jobs = s2.jobs
  BY <1>5, DedupKeysHeed, KeysKeepRecords
<1> HIDE DEF s3
<1>7. Heeds({}, {}, mid, s3)
  BY <1>4, <1>6, HeedsTransitive
<1>8. r = x
  BY <1>1, <1>3, <1>4, <1>6
<1> QED
  BY <1>1, <1>2, <1>3, <1>4, <1>6, <1>7, <1>8

LEMMA WriteChildLeaves ==
    ASSUME NEW acc, DOMAIN acc = AccKeys, Formed(acc.db), NEW p, NEW S, NEW child, Child(child),
           child.parent_id = p, child.id \in S,
           child.id \in acc.duplicated => acc.db.jobs[child.id] # None, NEW new,
           new = write_child(acc, child)
    PROVE  /\ DOMAIN new = AccKeys /\ new.skipped = acc.skipped /\ new.duplicated = acc.duplicated
           /\ Leaves(p, S, acc.db, new.db)
           /\ \A i \in JobIds \ {child.id} : new.db.jobs[i] = acc.db.jobs[i]
           /\ child.id \in acc.skipped \ acc.duplicated => new = acc
<1> DEFINE c == child.id
           r == [acc.db.jobs[c] EXCEPT !.parent_id = p]
           s1 == [acc.db EXCEPT !.jobs[c].parent_id = p]
           s2 == set_deduplication_key(insert_job(acc.db, child), child)
<1>0. c \in JobIds
  BY DEF Child
<1>1. CASE c \in acc.duplicated
  <2>1. new = [acc EXCEPT !.db = s1]
    BY <1>1 DEF write_child, AccKeys
  <2>2. DOMAIN s1 = Keys /\ s1.jobs = [acc.db.jobs EXCEPT ![c] = r] /\ s1.deps = acc.db.deps
        /\ s1.completed = acc.db.completed /\ s1.dedup_next = acc.db.dedup_next
    BY DEF Formed, Keys
  <2>3. /\ Record(r) /\ r.id = c /\ r.parent_id = p /\ r.state = acc.db.jobs[c].state
        /\ r.child_ids = acc.db.jobs[c].child_ids
    BY <1>0, <1>1 DEF Formed, Record, Fields
  <2> HIDE DEF r, s1
  <2>4. /\ DOMAIN new = AccKeys /\ new.skipped = acc.skipped /\ new.duplicated = acc.duplicated
        /\ new.db = s1
    BY <2>1 DEF AccKeys
  <2>5. \A i \in JobIds : s1.jobs[i] = IF i = c THEN r ELSE acc.db.jobs[i]
    BY <1>0, <2>2 DEF Formed
  <2>6. Stores(acc.db, s1, c, r)
    BY <2>2 DEF Stores
  <2>7. Formed(s1)
    BY <2>3, <2>6, StoreForms
  <2>8. ASSUME NEW q \in JobIds, NEW e \in JobIds, Neglects(s1, q, e), ~(q = p /\ e \in S)
        PROVE  Neglects(acc.db, q, e)
    <3>1. e # c
      BY <2>3, <2>5, <2>8 DEF Neglects
    <3>2. ~Ended(acc.db, q) /\ q \in JobIds /\ e \in ToSet(acc.db.jobs[q].child_ids)
      BY <1>1, <2>3, <2>5, <2>8 DEF Neglects, Ended
    <3> QED
      BY <2>2, <2>5, <2>8, <3>1, <3>2 DEF Neglects, Ended
  <2>9. Leaves(p, S, acc.db, s1)
    BY <2>2, <2>7, <2>8 DEF Leaves
  <2> QED
    BY <1>1, <2>4, <2>5, <2>9
<1>2. CASE c \notin acc.duplicated /\ c \in acc.skipped
  <2>1. new = acc
    BY <1>2 DEF write_child
  <2> QED
    BY <2>1, HeedsReflexive, HeedsLeaves
<1>3. CASE c \notin acc.duplicated /\ c \notin acc.skipped
  <2>1. new = [acc EXCEPT !.db = s2]
    BY <1>3 DEF write_child, AccKeys
  <2> DEFINE x == s2.jobs[c]
             mid == enqueue_prepared_job(acc.db, child)
  <2>2. /\ Record(x) /\ x.id = c /\ x.child_ids = child.child_ids /\ x.parent_id = p
        /\ Stores(acc.db, mid, c, x) /\ Formed(mid) /\ Heeds({}, {}, mid, s2)
        /\ \A i \in JobIds \ {c} : s2.jobs[i] = acc.db.jobs[i]
    <3>1. Record(child) /\ child.id \in JobIds
      BY DEF Child
    <3>2. s2 = set_deduplication_key(insert_job(acc.db, child), child)
      OBVIOUS
    <3> HIDE DEF s2
    <3>3. x = s2.jobs[child.id] /\ mid = enqueue_prepared_job(acc.db, child)
      OBVIOUS
    <3> HIDE DEF x, mid, c
    <3> QED
      BY <3>1, <3>2, <3>3, InsertChildStores DEF c
  <2> HIDE DEF s2, x, mid
  <2>3. Leaves(p, S, acc.db, mid)
    BY <1>0, <2>2, StoreLeaves DEF Child
  <2>4. Leaves(p, S, acc.db, s2)
    BY <2>2, <2>3, HeedsLeaves, LeavesTransitive
  <2>5. /\ DOMAIN new = AccKeys /\ new.skipped = acc.skipped /\ new.duplicated = acc.duplicated
        /\ new.db = s2
    BY <2>1 DEF AccKeys
  <2> QED
    BY <1>3, <2>2, <2>4, <2>5
<1> QED
  BY <1>1, <1>2, <1>3

\* The children of p are ready to be written: those attached exist, those skipped do not.
Writable(acc, p, S, s) ==
    /\ DOMAIN acc = AccKeys /\ Formed(acc.db) /\ S \subseteq JobIds /\ Len(s) \in Nat
    /\ \A i \in 1 .. Len(s) : Child(s[i]) /\ s[i].parent_id = p /\ s[i].id \in S
    /\ \A i, k \in 1 .. Len(s) : s[i].id = s[k].id => i = k
    /\ \A i \in 1 .. Len(s) : s[i].id \in acc.duplicated => acc.db.jobs[s[i].id] # None
    /\ \A j \in S : j \in acc.skipped => j \notin acc.duplicated /\ acc.db.jobs[j] = None

LEMMA WriteChildrenLeave ==
    ASSUME NEW acc, NEW p, NEW S, NEW s, Writable(acc, p, S, s), NEW new, new = write_children(acc, s)
    PROVE  /\ DOMAIN new = AccKeys /\ new.skipped = acc.skipped
           /\ Leaves(p, S, acc.db, new.db)
           /\ \A j \in S : j \in acc.skipped => new.db.jobs[j] = None
<1> USE DEF Writable
<1> DEFINE N == Len(s)
<1>1. PICK F : WriteRun(F, acc, s)
  BY WriteRunExists
<1>2. /\ F[0] = acc /\ new = F[N] /\ N \in Nat
      /\ \A n \in 0 .. N - 1 : F[n + 1] = write_child(F[n], s[n + 1])
  BY <1>1 DEF WriteRun
<1> DEFINE Good(n) == /\ DOMAIN F[n] = AccKeys /\ F[n].skipped = acc.skipped
                      /\ F[n].duplicated = acc.duplicated
                      /\ Leaves(p, S, acc.db, F[n].db)
                      /\ \A j \in S : j \in acc.skipped => F[n].db.jobs[j] = None
                      /\ \A i \in 1 .. N : i > n => F[n].db.jobs[s[i].id] = acc.db.jobs[s[i].id]
           Goods == {n \in 0 .. N : Good(n)}
<1>3. 0 \in Goods
  BY <1>2, HeedsReflexive, HeedsLeaves
<1>4. ASSUME NEW n \in 0 .. N - 1, n \in Goods PROVE n + 1 \in Goods
  <2> DEFINE a == F[n]
             b == F[n + 1]
             child == s[n + 1]
  <2>1. n + 1 \in 1 .. N /\ n + 1 > n /\ n + 1 \in 0 .. N /\ \A i \in 1 .. N : i > n + 1 => i > n /\ i # n + 1
    BY <1>2
  <2>2. Good(n)
    BY <1>4
  <2>3. b = write_child(a, child)
    BY <1>2
  <2>4. Child(child) /\ child.parent_id = p /\ child.id \in S /\ child.id \in JobIds
    BY <2>1 DEF Child
  <2>5. child.id \in a.duplicated => a.db.jobs[child.id] # None
    BY <2>1, <2>2
  <2>6. Formed(a.db)
    BY <2>2 DEF Leaves
  <2>7. DOMAIN a = AccKeys
    BY <2>2
  <2>8. /\ DOMAIN b = AccKeys /\ b.skipped = a.skipped /\ b.duplicated = a.duplicated
        /\ Leaves(p, S, a.db, b.db)
        /\ \A i \in JobIds \ {child.id} : b.db.jobs[i] = a.db.jobs[i]
        /\ child.id \in a.skipped \ a.duplicated => b = a
    <3> HIDE DEF a, b, child
    <3> QED
      BY <2>3, <2>4, <2>5, <2>6, <2>7, WriteChildLeaves
  <2>9. Leaves(p, S, acc.db, b.db)
    BY <2>2, <2>8, LeavesTransitive
  <2>10. \A j \in S : j \in acc.skipped => b.db.jobs[j] = None
    BY <2>2, <2>8
  <2>11. ASSUME NEW i \in 1 .. N, i > n + 1 PROVE b.db.jobs[s[i].id] = acc.db.jobs[s[i].id]
    <3>1. s[i].id # child.id /\ s[i].id \in JobIds /\ i > n
      BY <2>1, <2>11 DEF Child
    <3> QED
      BY <2>2, <2>8, <3>1
  <2>12. Good(n + 1)
    BY <2>2, <2>8, <2>9, <2>10, <2>11
  <2> QED
    BY <2>1, <2>12
<1> HIDE DEF Goods
<1>5. \A n \in 0 .. N : n \in Goods
  BY <1>2, <1>3, <1>4, Climb
<1>6. N \in Goods
  BY <1>2, <1>5
<1> QED
  BY <1>2, <1>6 DEF Goods

\* Only p changes: it takes on children in S, and waits for what it waited for.
LEMMA ParentLeaves ==
    ASSUME NEW a, Formed(a), NEW b, Formed(b), NEW p \in JobIds, NEW S,
           b.completed = a.completed,
           \A i \in JobIds \ {p} : b.jobs[i] = a.jobs[i] /\ b.deps[i].pending = a.deps[i].pending,
           ~Ended(b, p) => \/ ToSet(b.jobs[p].child_ids) \subseteq S
                           \/ /\ ~Ended(a, p) /\ a.deps[p].pending \subseteq b.deps[p].pending
                              /\ ToSet(b.jobs[p].child_ids) \subseteq ToSet(a.jobs[p].child_ids) \cup S,
           ~Ended(b, p) => \/ b.jobs[p].parent_id = None
                           \/ ~Ended(a, p) /\ b.jobs[p].parent_id = a.jobs[p].parent_id
    PROVE  Leaves(p, S, a, b)
<1>1. ASSUME NEW q \in JobIds, NEW c \in JobIds, Neglects(b, q, c), ~(q = p /\ c \in S)
      PROVE  Neglects(a, q, c)
  <2>1. ~Ended(a, c) /\ a.jobs[c].parent_id = q
    <3>1. CASE c = p
      BY <1>1, <3>1, RedisNoneAssumption DEF Neglects
    <3>2. CASE c # p
      BY <1>1, <3>2 DEF Neglects, Ended
    <3> QED
      BY <3>1, <3>2
  <2>2. ~Ended(a, q) /\ c \in ToSet(a.jobs[q].child_ids) /\ c \notin a.deps[q].pending
    <3>1. CASE q = p
      BY <1>1, <3>1 DEF Neglects
    <3>2. CASE q # p
      BY <1>1, <3>2 DEF Neglects, Ended
    <3> QED
      BY <3>1, <3>2
  <2> QED
    BY <2>1, <2>2 DEF Neglects
<1> QED
  BY <1>1 DEF Leaves

\* The ids retained are ids of the flow's children.
LEMMA RetainedList ==
    ASSUME NEW acc, NEW children, IsList(children), NEW S, S = ToSet(Ids(children)), NEW old, IsList(old),
           NEW ids, ids = RetainedIds(acc, children), NEW K
    PROVE  /\ IsList(ids) /\ ToSet(ids) \subseteq S
           /\ IsList(old \o KeepOnly(ids, K)) /\ ToSet(old \o KeepOnly(ids, K)) \subseteq ToSet(old) \cup S
<1>1. IsList(Ids(children))
  BY ListIds DEF Ids
<1>2. IsList(ids) /\ ToSet(ids) \subseteq S
  BY <1>1, KeepOnlyList DEF RetainedIds
<1> DEFINE new == KeepOnly(ids, K)
<1>3. IsList(new) /\ ToSet(new) \subseteq S
  BY <1>2, KeepOnlyList
<1> HIDE DEF new
<1>4. IsList(old \o new) /\ ToSet(old \o new) \subseteq ToSet(old) \cup S
  BY <1>3, ConcatList
<1> QED
  BY <1>2, <1>4 DEF new

LEMMA WriteParentLeaves ==
    ASSUME NEW acc, DOMAIN acc = AccKeys, Formed(acc.db), NEW parent, Record(parent),
           parent.id \in JobIds, parent.parent_id = None, NEW children, IsList(children),
           NEW S, S = ToSet(Ids(children)), NEW p, p = parent.id,
           NEW b, b = write_parent(acc, parent, children)
    PROVE  /\ DOMAIN b = AccKeys /\ b.skipped = acc.skipped /\ b.duplicated = acc.duplicated
           /\ Leaves(p, S, acc.db, b.db)
           /\ \A i \in JobIds \ {p} : b.db.jobs[i] = acc.db.jobs[i]
<1> DEFINE d == acc.db
           old == d.jobs[p].child_ids
           ids == RetainedIds(acc, children)
           K == ToSet(ids) \ ToSet(old)
           listed == old \o KeepOnly(ids, K)
           job == [parent EXCEPT !.child_ids = ids]
           r == [d.jobs[p] EXCEPT !.child_ids = listed]
           s1 == [d EXCEPT !.jobs[p] = r]
           i1 == set_deduplication_key(insert_job(d, job), job)
           s2 == [i1 EXCEPT !.deps[p].pending = {}]
<1>0. p \in JobIds /\ DOMAIN d = Keys
  BY DEF Formed
<1>1. CASE Exists(d, p)
  <2>1. b = [acc EXCEPT !.db = s1]
    BY <1>1 DEF write_parent
  <2>2. Record(d.jobs[p]) /\ d.jobs[p].id = p /\ IsList(old)
    BY <1>0, <1>1 DEF Formed, Exists, Record
  <2>3. IsList(listed) /\ ToSet(listed) \subseteq ToSet(old) \cup S
    <3> HIDE DEF K, old
    <3> QED
      BY <2>2, RetainedList
  <2> HIDE DEF listed
  <2>4. Record(r) /\ r.id = p /\ r.parent_id = d.jobs[p].parent_id /\ r.state = d.jobs[p].state
        /\ r.child_ids = listed
    BY <2>2, <2>3 DEF Record, Fields
  <2> HIDE DEF r
  <2>5. /\ DOMAIN s1 = Keys /\ s1.jobs = [d.jobs EXCEPT ![p] = r] /\ s1.deps = d.deps
        /\ s1.completed = d.completed /\ s1.dedup_next = d.dedup_next
    BY <1>0 DEF Keys
  <2>6. DOMAIN b = AccKeys /\ b.skipped = acc.skipped /\ b.duplicated = acc.duplicated /\ b.db = s1
    BY <2>1 DEF AccKeys
  <2> HIDE DEF s1
  <2>7. \A i \in JobIds : s1.jobs[i] = IF i = p THEN r ELSE d.jobs[i]
    BY <1>0, <2>5 DEF Formed
  <2>8. Formed(s1)
    BY <2>4, <2>5, StoreForms DEF Stores
  <2>9. Ended(d, p) => Ended(s1, p)
    BY <1>0, <1>1, <2>4, <2>7 DEF Ended, Exists
  <2>10. Leaves(p, S, d, s1)
    BY <1>0, <2>3, <2>4, <2>5, <2>7, <2>8, <2>9, ParentLeaves
  <2> QED
    BY <2>6, <2>7, <2>10
<1>2. CASE ~Exists(d, p)
  <2>1. b = [acc EXCEPT !.db = s2]
    BY <1>2 DEF write_parent
  <2>2. IsList(ids) /\ ToSet(ids) \subseteq S
    BY NoneIsList, RetainedList
  <2> HIDE DEF ids
  <2>3. Record(job) /\ job.id = p /\ job.child_ids = ids /\ job.parent_id = None
    BY <2>2 DEF Record, Fields
  <2> DEFINE x == i1.jobs[p]
             mid == enqueue_prepared_job(d, job)
  <2> HIDE DEF job, s2
  <2>4. /\ Record(x) /\ x.id = p /\ x.child_ids = ids /\ x.parent_id = None
        /\ Stores(d, mid, p, x) /\ Formed(mid) /\ Heeds({}, {}, mid, i1)
        /\ \A i \in JobIds \ {p} : i1.jobs[i] = d.jobs[i]
    <3>1. Formed(d) /\ i1 = set_deduplication_key(insert_job(d, job), job)
      OBVIOUS
    <3> HIDE DEF i1, d
    <3>2. x = i1.jobs[p] /\ mid = enqueue_prepared_job(d, job)
      OBVIOUS
    <3> HIDE DEF x, mid
    <3> QED
      BY <1>0, <2>3, <3>1, <3>2, InsertChildStores
  <2> HIDE DEF mid
  <2>5. Leaves(p, S, d, mid)
    BY <1>0, <2>2, <2>4, StoreLeaves
  <2>6. Leaves(p, S, d, i1)
    BY <2>4, <2>5, HeedsLeaves, LeavesTransitive
  <2>7. Formed(i1)
    BY <2>6 DEF Leaves
  <2> HIDE DEF i1
  <2>8. /\ DOMAIN s2 = Keys /\ s2.jobs = i1.jobs /\ s2.completed = i1.completed
        /\ s2.deps = [i1.deps EXCEPT ![p].pending = {}] /\ s2.dedup_next = i1.dedup_next
    BY <2>7 DEF s2, Formed, Keys
  <2>9. Formed(s2) /\ \A i \in JobIds \ {p} : s2.deps[i].pending = i1.deps[i].pending
    BY <1>0, <2>7, <2>8 DEF Formed, Dependents
  <2>10. Leaves(p, S, i1, s2)
    BY <1>0, <2>2, <2>4, <2>7, <2>8, <2>9, ParentLeaves
  <2>11. Leaves(p, S, d, s2)
    BY <2>6, <2>10, LeavesTransitive
  <2>12. DOMAIN b = AccKeys /\ b.skipped = acc.skipped /\ b.duplicated = acc.duplicated /\ b.db = s2
    BY <2>1 DEF AccKeys
  <2> QED
    BY <2>4, <2>8, <2>11, <2>12
<1> QED
  BY <1>1, <1>2

LEMMA ParkParentLeaves ==
    ASSUME NEW acc, DOMAIN acc = AccKeys, Formed(acc.db), NEW p \in JobIds, ~Ended(acc.db, p),
           NEW children, IsList(children), NEW S, S = ToSet(Ids(children)),
           NEW ids, ids = RetainedIds(acc, children), NEW b, b = park_parent(acc, p, ids)
    PROVE  /\ DOMAIN b = AccKeys /\ b.skipped = acc.skipped /\ b.duplicated = acc.duplicated
           /\ Leaves(p, S, acc.db, b.db)
           /\ \A i \in JobIds \ {p} : b.db.jobs[i] = acc.db.jobs[i]
<1> DEFINE d == acc.db
           parked == {acc.next[x] : x \in DedupIds} \ {None}
           old == d.jobs[p].child_ids
           K == ToSet(ids) \ ToSet(old)
           listed == old \o KeepOnly(ids, K)
           r == [d.jobs[p] EXCEPT !.state = "waiting_children", !.deferred_failure = FALSE,
                                  !.child_ids = listed]
           s1 == [d EXCEPT !.lock[p] = None, !.stalled = @ \ {p}, !.active = @ \ {p},
                           !.jobs[p] = r, !.waiting_children = @ \cup {p},
                           !.deps[p].pending = @ \cup parked]
<1>1. b = [acc EXCEPT !.db = s1]
  BY DEF park_parent
<1>2. Record(d.jobs[p]) /\ d.jobs[p].id = p /\ IsList(old) /\ DOMAIN d = Keys
  BY DEF Formed, Ended, Record
<1>3. IsList(listed) /\ ToSet(listed) \subseteq ToSet(old) \cup S
  <2> HIDE DEF K, old
  <2> QED
    BY <1>2, RetainedList
<1> HIDE DEF listed, parked
<1>4. Record(r) /\ r.id = p /\ r.parent_id = d.jobs[p].parent_id /\ r.child_ids = listed
  BY <1>2, <1>3 DEF Record, Fields
<1> HIDE DEF r
<1>5. /\ DOMAIN s1 = Keys /\ s1.jobs = [d.jobs EXCEPT ![p] = r]
      /\ s1.deps = [d.deps EXCEPT ![p].pending = @ \cup parked]
      /\ s1.completed = d.completed /\ s1.dedup_next = d.dedup_next
  BY <1>2 DEF Keys
<1>6. DOMAIN b = AccKeys /\ b.skipped = acc.skipped /\ b.duplicated = acc.duplicated /\ b.db = s1
  <2> HIDE DEF s1
  <2> QED
    BY <1>1 DEF AccKeys
<1> HIDE DEF s1
<1>7. \A i \in JobIds : s1.jobs[i] = IF i = p THEN r ELSE d.jobs[i]
  BY <1>5 DEF Formed
<1>8. /\ DOMAIN s1.deps = JobIds /\ \A i \in JobIds : DOMAIN s1.deps[i] = Dependents
      /\ \A i \in JobIds \ {p} : s1.deps[i].pending = d.deps[i].pending
      /\ d.deps[p].pending \subseteq s1.deps[p].pending
  BY <1>5 DEF Formed, Dependents
<1>9. Formed(s1)
  BY <1>4, <1>5, <1>8 DEF Formed
<1>10. s1.jobs[p] = r /\ \A i \in JobIds \ {p} : s1.jobs[i] = d.jobs[i]
  BY <1>7
<1>11. Leaves(p, S, d, s1)
  <2> HIDE DEF d
  <2>1. ToSet(s1.jobs[p].child_ids) \subseteq ToSet(d.jobs[p].child_ids) \cup S
        /\ s1.jobs[p].parent_id = d.jobs[p].parent_id /\ ~Ended(d, p) /\ Formed(d)
    BY <1>3, <1>4, <1>10 DEF d
  <2> QED
    BY <1>5, <1>8, <1>9, <1>10, <2>1, ParentLeaves
<1> QED
  BY <1>6, <1>7, <1>11

\* A parent awaits its children: those it does not wait for have completed or do not exist.
LEMMA AwaitHeeds ==
    ASSUME NEW a, NEW acc, DOMAIN acc = AccKeys, Formed(a), NEW p \in JobIds,
           NEW children, NEW S, S = ToSet(Ids(children)), S \subseteq JobIds,
           Leaves(p, S, a, acc.db), \A j \in S : j \in acc.skipped => acc.db.jobs[j] = None,
           NEW b, b = await_children(acc, p, children)
    PROVE  Heeds({}, {}, a, b) /\ b.jobs = acc.db.jobs
<1> DEFINE d == acc.db
           awaited == S \ acc.skipped
           done == {c \in awaited : Exists(d, c) /\ d.jobs[c].state = "completed"}
           X == awaited \ done
<1>1. b = [d EXCEPT !.deps[p].processed = @ \cup done, !.deps[p].pending = @ \cup X]
  BY DEF await_children
<1>2. Formed(d)
  BY DEF Leaves
<1>3. \A c \in S : c \in X \/ Ended(d, c)
  BY DEF Ended, Terminal, Exists
<1> HIDE DEF X, done, awaited
<1>4. /\ DOMAIN b = Keys /\ b.jobs = d.jobs /\ b.completed = d.completed /\ b.dedup_next = d.dedup_next
      /\ b.deps = [d.deps EXCEPT ![p].processed = @ \cup done, ![p].pending = @ \cup X]
  BY <1>1, <1>2 DEF Formed, Keys
<1>5. /\ DOMAIN b.deps = JobIds /\ \A i \in JobIds : DOMAIN b.deps[i] = Dependents
      /\ \A i \in JobIds : d.deps[i].pending \subseteq b.deps[i].pending
      /\ X \subseteq b.deps[p].pending
  <2>1. DOMAIN d.deps = JobIds /\ \A i \in JobIds : DOMAIN d.deps[i] = Dependents
    BY <1>2 DEF Formed
  <2>2. /\ DOMAIN b.deps = JobIds /\ DOMAIN b.deps[p] = Dependents
        /\ \A i \in JobIds \ {p} : b.deps[i] = d.deps[i]
        /\ b.deps[p].pending = d.deps[p].pending \cup X
    BY <1>4, <2>1 DEF Dependents
  <2> QED
    BY <2>1, <2>2
<1>6. Heeds({}, {}, d, b)
  BY <1>4, <1>5, RelieveHeeds DEF Relieves
<1>7. Leaves(p, S, a, b)
  BY <1>6, HeedsLeaves, LeavesTransitive
<1>8. \A c \in S : ~Neglects(b, p, c)
  BY <1>3, <1>4, <1>5 DEF Neglects, Ended
<1> QED
  BY <1>4, <1>7, <1>8, LeavesHeeds

LEMMA ReleaseIfReadyHeeds ==
    ASSUME NEW st, Shape(st), NEW p \in JobIds, NEW due \in BOOLEAN
    PROVE  Heeds({}, {}, st, release_parent_if_ready(st, p, due))
<1> SUFFICES ASSUME Formed(st) PROVE Heeds({}, {}, st, release_parent_if_ready(st, p, due))
  BY DEF Heeds
<1> DEFINE r == [st.jobs[p] EXCEPT !.due = due]
           s1 == [st EXCEPT !.jobs[p].due = due]
           s2 == release_parent(s1, p, FALSE)
           ready == Exists(st, p) /\ st.jobs[p].state = "waiting_children"
<1>1. release_parent_if_ready(st, p, due) \in {st, s2} /\ (release_parent_if_ready(st, p, due) # st => ready)
  BY DEF release_parent_if_ready
<1>2. ASSUME ready PROVE Heeds({}, {}, st, s2)
  <2>1. ~Ended(st, p) /\ Record(st.jobs[p]) /\ st.jobs[p].id = p
    BY <1>2 DEF Ended, Exists, Terminal, Formed
  <2>2. Record(r) /\ r.id = p /\ r.state = st.jobs[p].state /\ r.child_ids = st.jobs[p].child_ids
        /\ r.parent_id = st.jobs[p].parent_id
    BY <2>1 DEF Record, Fields
  <2>3. Stores(st, s1, p, r) /\ s1.jobs[p] = r
    BY DEF Stores, Formed, Keys
  <2>4. r # None
    <3>1. st.jobs[p] \in Job
      BY <1>2 DEF Shape, Exists
    <3>2. r \in Job
      BY <3>1 DEF Job
    <3> QED
      BY <3>2, RedisRecordsAssumption
  <2> HIDE DEF r, s1
  <2>5. Heeds({}, {}, st, s1)
    BY <2>1, <2>2, <2>3, StoreHeeds DEF Settled
  <2>6. ~Ended(s1, p)
    BY <1>2, <2>2, <2>3, <2>4 DEF Ended, Terminal
  <2>7. Heeds({}, {}, s1, s2)
    BY <2>6, ReleaseParentHeeds
  <2> HIDE DEF s2
  <2> QED
    BY <2>5, <2>7, HeedsTransitive
<1> QED
  BY <1>1, <1>2, HeedsReflexive

\* The end of both scripts.
LEMMA FlowEndHeeds ==
    ASSUME NEW st, NEW old, NEW a1, Writing(st, a1, old), NEW p \in JobIds, NEW due \in BOOLEAN,
           NEW s \in Seq(Job), AllDistinct(s), \A i \in DOMAIN s : Fresh(s[i]), Ready(a1, s, 0),
           \A i \in DOMAIN s : Child(s[i]) /\ s[i].parent_id = p,
           NEW S, S = ToSet(Ids(s)), NEW a, Formed(a), Leaves(p, S, a, a1.db),
           \A j \in S : j \in a1.skipped => j \notin a1.duplicated /\ a1.db.jobs[j] = None,
           NEW s1, s1 = await_children(write_children(a1, s), p, s),
           NEW s2, s2 = release_parent_if_ready(s1, p, due)
    PROVE  Heeds({}, {}, a, s1) /\ Heeds({}, {}, a, s2)
<1> DEFINE a2 == write_children(a1, s)
           N == Len(s)
<1>1. Formed(a1.db) /\ DOMAIN a1 = AccKeys
  BY DEF Leaves, Writing
<1>2. N \in Nat /\ DOMAIN s = 1 .. N
  OBVIOUS
<1>3. S = {s[i].id : i \in 1 .. N}
  BY <1>2 DEF Ids, ToSet
<1>4. \A i \in 1 .. N : s[i].id \in S /\ s[i].id \in JobIds
  BY <1>2, <1>3 DEF Child
<1>5. S \subseteq JobIds
  BY <1>3, <1>4
<1>6. \A i \in 1 .. N : s[i].id \in a1.duplicated => a1.db.jobs[s[i].id] # None
  BY <1>2 DEF Ready
<1>7. /\ DOMAIN a2 = AccKeys /\ a2.skipped = a1.skipped /\ Leaves(p, S, a1.db, a2.db)
      /\ \A j \in S : j \in a1.skipped => a2.db.jobs[j] = None
  <2>1. a2 = write_children(a1, s)
    OBVIOUS
  <2>2. \A i, k \in 1 .. Len(s) : s[i].id = s[k].id => i = k
    BY <1>2 DEF AllDistinct
  <2>3. \A i \in 1 .. Len(s) : Child(s[i]) /\ s[i].parent_id = p /\ s[i].id \in S
    BY <1>2, <1>4
  <2>4. Len(s) \in Nat /\ \A i \in 1 .. Len(s) : s[i].id \in a1.duplicated => a1.db.jobs[s[i].id] # None
    BY <1>2, <1>6
  <2>5. \A j \in S : j \in a1.skipped => j \notin a1.duplicated /\ a1.db.jobs[j] = None
    OBVIOUS
  <2> HIDE DEF a2
  <2>6. Writable(a1, p, S, s)
    BY <1>1, <1>5, <2>2, <2>3, <2>4, <2>5 DEF Writable
  <2> QED
    BY <2>1, <2>6, WriteChildrenLeave
<1>8. Leaves(p, S, a, a2.db)
  BY <1>7, LeavesTransitive
<1>9. Heeds({}, {}, a, s1)
  <2> HIDE DEF a2
  <2>1. s1 = await_children(a2, p, s)
    BY DEF a2
  <2> QED
    BY <1>5, <1>7, <1>8, <2>1, AwaitHeeds
<1>10. Shape(s1)
  <2>1. Sound(s1, {})
    BY FlowEndSound
  <2> QED
    BY <2>1 DEF Sound
<1>11. Heeds({}, {}, s1, s2)
  BY <1>10, ReleaseIfReadyHeeds
<1> QED
  BY <1>9, <1>11, HeedsTransitive

LEMMA ExaminedSurveyed == ASSUME NEW st, Formed(st) PROVE Surveyed(Examined(st))
  BY DEF Surveyed, Examined, AccKeys

\* What the examination leaves to the writes.
LEMMA ReviewSurveyed ==
    ASSUME NEW st, Sound(st, {}), NEW acc, Review(st, acc), Surveyed(acc), NEW p, NEW S,
           S \subseteq JobIds, p \notin S, NEW b, b.skipped = acc.skipped, b.duplicated = acc.duplicated,
           \A i \in JobIds \ {p} : b.db.jobs[i] = acc.db.jobs[i]
    PROVE  \A j \in S : j \in b.skipped => j \notin b.duplicated /\ b.db.jobs[j] = None
<1>1. \A j \in acc.duplicated : Exists(st, j)
  BY DEF Review
<1>2. acc.db.jobs = st.jobs
  BY QuietJobs DEF Review
<1> QED
  BY <1>1, <1>2 DEF Surveyed, Exists

LEMMA FlowIds ==
    ASSUME NEW s \in Seq(Job), NEW p, DistinctIds(p, s)
    PROVE  ToSet(Ids(s)) \subseteq JobIds /\ p \notin ToSet(Ids(s)) /\ IsList(s)
<1>1. Len(s) \in Nat /\ DOMAIN s = 1 .. Len(s) /\ \A i \in 1 .. Len(s) : s[i] \in Job
  OBVIOUS
<1>2. ToSet(Ids(s)) = {s[i].id : i \in 1 .. Len(s)}
  BY <1>1 DEF Ids, ToSet
<1>3. \A i \in 1 .. Len(s) : s[i].id \in JobIds /\ s[i].id # p
  BY <1>1 DEF Job, DistinctIds
<1>4. IsList(s)
  BY DEF IsList
<1> QED
  BY <1>2, <1>3, <1>4

LEMMA AddFlowHeeds ==
    ASSUME NEW st, Sound(st, {}), NEW parent, Fresh(parent), parent.parent_id = None, Record(parent),
           NEW children \in Seq(Job), children # <<>>,
           DistinctIds(parent.id, children), \A i \in DOMAIN children : Fresh(children[i]),
           \A i \in DOMAIN children : Child(children[i]) /\ children[i].parent_id = parent.id
    PROVE  Heeds({}, {}, st, add_flow(st, parent, children))
<1> SUFFICES ASSUME Formed(st) PROVE Heeds({}, {}, st, add_flow(st, parent, children))
  BY DEF Heeds
<1> DEFINE a0 == Examined(st)
           ap == examine_parent(a0, parent, children)
           acc == examine_children(ap, children)
           a1 == write_parent(acc, parent, children)
           p == parent.id
           due == parent.due
           S == ToSet(Ids(children))
           s1 == await_children(write_children(a1, children), p, children)
           s2 == release_parent_if_ready(s1, p, due)
<1>1. /\ acc.result # "ok" => add_flow(st, parent, children) = acc.db
      /\ acc.result = "ok" => add_flow(st, parent, children) \in {s1, s2}
  BY DEF add_flow, examine_flow, write_flow
<1>2. parent \in Job /\ p \in JobIds /\ due \in BOOLEAN
  BY DEF Fresh, Job
<1>3. Review(st, a0) /\ Surveyed(a0) /\ a0.db = st
  BY ExaminedReview, ExaminedSurveyed DEF Examined
<1> HIDE DEF a0
<1>4. IsList(children) /\ S \subseteq JobIds /\ p \notin S /\ DOMAIN children = 1 .. Len(children)
      /\ Len(children) \in Nat
  BY FlowIds
<1>5. Review(st, ap) /\ Attends(a0, ap)
  BY <1>2, <1>3, <1>4, ExamineParentReview, ExamineParentAttends
<1> HIDE DEF ap
<1>6. Review(st, acc) /\ \A i \in DOMAIN children : Judged(st, acc, children[i].id)
  BY <1>5, ExamineChildrenReview
<1>7. Attends(ap, acc)
  BY <1>4, ExamineAttends
<1> HIDE DEF acc
<1>8. Surveyed(acc) /\ Heeds({}, {}, st, acc.db)
  BY <1>3, <1>5, <1>7, AttendsTransitive DEF Attends
<1>9. Sound(acc.db, {}) /\ Kept(st, acc.db) /\ DOMAIN acc = AccKeys /\ Formed(acc.db)
  BY <1>6, <1>8, QuietSound DEF Review, Surveyed
<1>10. Writing(st, a1, acc) /\ Created(acc.db, a1.db, {p})
  BY <1>9, WriteParentSound
<1>11. /\ a1.skipped = acc.skipped /\ a1.duplicated = acc.duplicated
       /\ Leaves(p, S, acc.db, a1.db)
       /\ \A i \in JobIds \ {p} : a1.db.jobs[i] = acc.db.jobs[i]
  <2>1. a1 = write_parent(acc, parent, children) /\ p = parent.id /\ S = ToSet(Ids(children))
    OBVIOUS
  <2> HIDE DEF a1, S, p
  <2> QED
    BY <1>2, <1>4, <1>9, <2>1, WriteParentLeaves
<1> HIDE DEF a1
<1>12. CASE acc.result # "ok"
  BY <1>1, <1>8, <1>12
<1>13. CASE acc.result = "ok"
  <2>1. DistinctIds(p, children) /\ \A i \in DOMAIN children : children[i].parent_id = p
    OBVIOUS
  <2>2. S = ToSet(Ids(children))
    OBVIOUS
  <2>3. s1 = await_children(write_children(a1, children), p, children)
    OBVIOUS
  <2>4. s2 = release_parent_if_ready(s1, p, due)
    OBVIOUS
  <2> HIDE DEF p, due, S, s1, s2
  <2>5. Ready(a1, children, 0) /\ AllDistinct(children)
    BY <1>6, <1>10, <1>11, <1>13, <2>1, ReviewReady
  <2>6. \A j \in S : j \in a1.skipped => j \notin a1.duplicated /\ a1.db.jobs[j] = None
    BY <1>4, <1>6, <1>8, <1>11, ReviewSurveyed
  <2>7. Heeds({}, {}, acc.db, s1) /\ Heeds({}, {}, acc.db, s2)
    BY <1>2, <1>9, <1>10, <1>11, <2>1, <2>2, <2>3, <2>4, <2>5, <2>6, FlowEndHeeds
  <2> QED
    BY <1>1, <1>8, <1>13, <2>7, HeedsTransitive
<1> QED
  BY <1>12, <1>13

LEMMA AddFlowChildrenHeed ==
    ASSUME NEW st, Sound(st, {}), NEW p \in JobIds, Is(st, p, "active"), NEW children \in Seq(Job),
           DistinctIds(p, children), \A i \in DOMAIN children : Fresh(children[i]),
           \A i \in DOMAIN children : Child(children[i]) /\ children[i].parent_id = p
    PROVE  Heeds({}, {}, st, add_flow_children(st, p, children))
<1> SUFFICES ASSUME Formed(st) PROVE Heeds({}, {}, st, add_flow_children(st, p, children))
  BY DEF Heeds
<1> DEFINE a0 == Examined(st)
           acc == examine_dynamic_children(a0, children)
           ids == RetainedIds(acc, children)
           a1 == park_parent(acc, p, ids)
           due == TRUE
           S == ToSet(Ids(children))
           s1 == await_children(write_children(a1, children), p, children)
           s2 == release_parent_if_ready(s1, p, due)
<1>1. /\ acc.result # "ok" => add_flow_children(st, p, children) = acc.db
      /\ acc.result = "ok" => add_flow_children(st, p, children) = s2
  BY DEF add_flow_children, write_flow_children
<1>2. due \in BOOLEAN
  OBVIOUS
<1>3. Review(st, a0) /\ Surveyed(a0) /\ a0.db = st
  BY ExaminedReview, ExaminedSurveyed DEF Examined
<1> HIDE DEF a0, due
<1>4. IsList(children) /\ S \subseteq JobIds /\ p \notin S /\ DOMAIN children = 1 .. Len(children)
      /\ Len(children) \in Nat
  BY FlowIds
<1>5. Review(st, acc) /\ \A i \in DOMAIN children : Judged(st, acc, children[i].id)
  BY <1>3, ExamineDynamicChildrenReview
<1>6. Attends(a0, acc)
  BY <1>4, ExamineAttends
<1> HIDE DEF acc
<1>7. Surveyed(acc) /\ Heeds({}, {}, st, acc.db)
  BY <1>3, <1>6 DEF Attends
<1>8. Sound(acc.db, {}) /\ Kept(st, acc.db) /\ DOMAIN acc = AccKeys /\ Formed(acc.db)
  BY <1>5, <1>7, QuietSound DEF Review, Surveyed
<1>9. ids \in Seq(JobIds)
  BY IdsAreIds
<1>10. Is(acc.db, p, "active")
  BY <1>5, QuietJobs DEF Is, Review
<1>11. Writing(st, a1, acc) /\ Created(acc.db, a1.db, {p})
  <2> HIDE DEF ids
  <2> QED
    BY <1>8, <1>9, <1>10, ParkParentSound
<1>12. /\ a1.skipped = acc.skipped /\ a1.duplicated = acc.duplicated
       /\ Leaves(p, S, acc.db, a1.db)
       /\ \A i \in JobIds \ {p} : a1.db.jobs[i] = acc.db.jobs[i]
  <2>1. ids = RetainedIds(acc, children) /\ S = ToSet(Ids(children)) /\ a1 = park_parent(acc, p, ids)
    OBVIOUS
  <2>2. ~Ended(acc.db, p)
    BY <1>10 DEF Is, Ended, Terminal
  <2> HIDE DEF a1, S, ids
  <2> QED
    BY <1>4, <1>8, <2>1, <2>2, ParkParentLeaves
<1> HIDE DEF a1
<1>13. CASE acc.result # "ok"
  BY <1>1, <1>7, <1>13
<1>14. CASE acc.result = "ok"
  <2>1. S = ToSet(Ids(children))
    OBVIOUS
  <2>2. s1 = await_children(write_children(a1, children), p, children)
    OBVIOUS
  <2>3. s2 = release_parent_if_ready(s1, p, due)
    OBVIOUS
  <2> HIDE DEF S, s1, s2
  <2>4. Ready(a1, children, 0) /\ AllDistinct(children)
    BY <1>5, <1>11, <1>12, <1>14, ReviewReady
  <2>5. \A j \in S : j \in a1.skipped => j \notin a1.duplicated /\ a1.db.jobs[j] = None
    BY <1>4, <1>5, <1>7, <1>12, ReviewSurveyed
  <2>6. Heeds({}, {}, acc.db, s2)
    BY <1>2, <1>8, <1>11, <1>12, <2>1, <2>2, <2>3, <2>4, <2>5, FlowEndHeeds
  <2> QED
    BY <1>1, <1>7, <1>14, <2>6, HeedsTransitive
<1> QED
  BY <1>13, <1>14

-----------------------------------------------------------------------------
\* Claims.
LEMMA ClaimableHeeds == ASSUME RedisInv PROVE Heeds({}, {}, db, Claimable)
<1> DEFINE quiet == queue_is_paused_or_maxed(db)
           a == promote_due(db, quiet)
           w == KeepOnly(a.waiting, {e \in ToSet(a.waiting) : Exists(a, e.id) /\ a.jobs[e.id].state = "waiting"})
           b == [a EXCEPT !.waiting = w]
<1>1. Claimable \in {a, b}
  BY DEF Claimable, Promoted, drop_stale_waiting
<1>2. db.delayed \subseteq JobIds
  BY DEF RedisInv, Sound, Shape
<1> HIDE DEF quiet
<1>3. Heeds({}, {}, db, a)
  BY <1>2, PromoteDueHeeds
<1> HIDE DEF a, w
<1>4. Heeds({}, {}, a, b)
  BY OtherKeysHeed
<1> HIDE DEF b
<1> QED
  BY <1>1, <1>3, <1>4, HeedsTransitive

LEMMA LeaseHeeds ==
    ASSUME NEW st, NEW j \in JobIds, Is(st, j, "waiting"), NEW token
    PROVE  Heeds({}, {}, st, lease(st, j, token))
<1> SUFFICES ASSUME Formed(st) PROVE Heeds({}, {}, st, lease(st, j, token))
  BY DEF Heeds
<1> DEFINE job == [st.jobs[j] EXCEPT !.state = "active", !.attempts_made = @ + 1]
           s1 == [st EXCEPT !.lock[j] = token, !.jobs[j] = job, !.waiting = RemoveWaiting(@, j),
                            !.active = @ \cup {j}, !.claims = @ + 1]
           s2 == sync_repeat_scheduler(s1, job)
           s3 == add_base_marker(s2)
<1>1. lease(st, j, token) = s3
  BY DEF lease
<1>2. /\ ~Ended(st, j) /\ Record(job) /\ job.id = j /\ job.child_ids = st.jobs[j].child_ids
      /\ job.parent_id = st.jobs[j].parent_id
  BY DEF Is, Ended, Terminal, Formed, Record, Fields
<1> HIDE DEF job
<1>3. Stores(st, s1, j, job)
  BY DEF Stores, Formed, Keys
<1> HIDE DEF s1
<1>4. Heeds({}, {}, st, s1)
  BY <1>2, <1>3, StoreHeeds DEF Settled
<1>5. Heeds({}, {}, s1, s2)
  BY RepeatKeysHeed
<1> HIDE DEF s2
<1>6. Heeds({}, {}, s2, s3)
  BY MarkersHeed
<1> HIDE DEF s3
<1> QED
  BY <1>1, <1>4, <1>5, <1>6, HeedsTransitive

LEMMA ClaimHeeds == ASSUME RedisInv, claim_found \/ claim_empty PROVE Heeds({}, {}, db, db')
<1>1. CASE claim_empty
  BY <1>1, ClaimableHeeds DEF claim_empty
<1>2. CASE claim_found
  <2> DEFINE a == Claimable
             j == Head(a.waiting).id
             token == Len(issued) + 1
             b == lease(a, j, token)
             x == IF RateMax = 0 THEN 0 ELSE b.claims
  <2>1. db' = [b EXCEPT !.claims = x] /\ MayClaim /\ a.waiting # <<>>
    BY <1>2 DEF claim_found
  <2>2. j \in JobIds /\ Is(a, j, "waiting") /\ Heeds({}, {}, db, a)
    BY <2>1, ClaimableSound, ClaimableHeeds DEF RedisInv
  <2> HIDE DEF a, j, token
  <2>3. Heeds({}, {}, a, b)
    BY <2>2, LeaseHeeds
  <2> HIDE DEF b, x
  <2>4. Heeds({}, {}, b, db')
    BY <2>1, OtherKeysHeed
  <2> QED
    BY <2>2, <2>3, <2>4, HeedsTransitive
<1> QED
  BY <1>1, <1>2

-----------------------------------------------------------------------------
\* The steps.
LEMMA NewJobRecord ==
    ASSUME NEW j, NEW options
    PROVE  /\ Record(new_job(j, options)) /\ new_job(j, options).id = j
           /\ new_job(j, options).child_ids = <<>> /\ new_job(j, options).parent_id = None
  BY NoneIsList DEF new_job, Record, Fields

LEMMA FlowRecords ==
    ASSUME NEW f, f.children \in Seq(Submission), NEW p \in JobIds, NEW s \in Seq(Submission),
           NEW children, children = FlowChildren(p, s)
    PROVE  /\ Record(FlowParent(f)) /\ FlowParent(f).parent_id = None
           /\ \A i \in DOMAIN children : Child(children[i]) /\ children[i].parent_id = p
           /\ DOMAIN children = DOMAIN s
<1> DEFINE ids == [i \in DOMAIN f.children |-> f.children[i].id]
<1>1. IsList(f.children)
  BY DEF IsList
<1>2. IsList(ids)
  BY <1>1, ListIds
<1> HIDE DEF ids
<1>3. FlowParent(f) = [new_job(f.parent.id, f.parent.options) EXCEPT
                          !.state = "waiting_children", !.child_ids = ids]
  BY DEF FlowParent, ids
<1>4. Record(FlowParent(f)) /\ FlowParent(f).parent_id = None
  BY <1>2, <1>3 DEF new_job, Record, Fields
<1>5. ASSUME NEW i \in DOMAIN s
      PROVE  LET job == [new_job(s[i].id, s[i].options) EXCEPT !.parent_id = p]
             IN  Child(job) /\ job.parent_id = p
  <2>1. s[i] \in Submission
    BY <1>5
  <2>2. s[i].id \in JobIds
    BY <2>1 DEF Submission
  <2> QED
    BY <2>2, NoneIsList DEF new_job, Record, Fields, Child
<1> QED
  BY <1>4, <1>5 DEF FlowChildren

LEMMA SubmitHeeds == ASSUME RedisInv, Submit PROVE Heeds({}, {}, db, db')
<1>0. Sound(db, {})
  BY DEF RedisInv
<1>1. ASSUME NEW s \in Submissions, NEW st
      PROVE  /\ Heeds({}, {}, st, add_job(st, new_job(s.id, s.options)))
             /\ Heeds({}, {}, st, upsert_repeat_script(st, new_job(s.id, s.options)))
  <2>1. s.id \in JobIds
    BY RedisInputsAssumption DEF Submission
  <2> QED
    BY <2>1, NewJobRecord, AddJobHeeds, UpsertRepeatHeeds
<1>2. CASE AddJob
  BY <1>1, <1>2 DEF AddJob, Run
<1>3. CASE AddJobs
  BY <1>1, <1>3, HeedsTransitive DEF AddJobs, Run
<1>4. CASE UpsertRepeat
  BY <1>1, <1>4 DEF UpsertRepeat, Run
<1>5. CASE AddFlow
  <2>1. PICK f \in Flows : /\ f.children # <<>>
            /\ Run(add_flow(db, FlowParent(f), FlowChildren(f.parent.id, f.children)))
    BY <1>5 DEF AddFlow
  <2> DEFINE p == f.parent.id
             s == f.children
             parent == FlowParent(f)
             children == FlowChildren(p, s)
  <2>2. /\ f.parent \in Submission /\ f.children \in Seq(Submission)
        /\ DistinctIds(f.parent.id, f.children)
    BY RedisInputsAssumption
  <2>3. Fresh(parent) /\ parent.id = p
    BY <2>2, FlowParentIsFresh
  <2>4. p \in JobIds /\ s \in Seq(Submission) /\ DistinctIds(p, s) /\ s # <<>>
    BY <2>1, <2>2 DEF Submission
  <2>5. db' = add_flow(db, parent, children)
    BY <2>1 DEF Run
  <2>6. children = FlowChildren(p, s)
    OBVIOUS
  <2> HIDE DEF p, s, children
  <2>7. /\ Record(parent) /\ parent.parent_id = None /\ DOMAIN children = DOMAIN s
        /\ \A i \in DOMAIN children : Child(children[i]) /\ children[i].parent_id = parent.id
    BY <2>2, <2>3, <2>4, <2>6, FlowRecords
  <2> HIDE DEF parent
  <2>8. /\ children \in Seq(Job) /\ DistinctIds(p, children)
        /\ \A i \in DOMAIN children : Fresh(children[i])
    BY <2>4, FlowChildrenAreFresh DEF children
  <2>9. children # <<>>
    BY <2>4, <2>7, <2>8
  <2>10. DistinctIds(parent.id, children)
    BY <2>3, <2>8
  <2> QED
    BY <1>0, <2>3, <2>5, <2>7, <2>8, <2>9, <2>10, AddFlowHeeds
<1>6. CASE AddFlowChildren
  <2>1. PICK b \in Batches, t \in DOMAIN issued :
            /\ HoldsLock(db, b.parent, t)
            /\ Run(add_flow_children(db, b.parent, FlowChildren(b.parent, b.children)))
    BY <1>6 DEF AddFlowChildren
  <2> DEFINE p == b.parent
             s == b.children
             children == FlowChildren(p, s)
  <2>2. p \in JobIds /\ s \in Seq(Submission) /\ DistinctIds(p, s)
    BY RedisInputsAssumption
  <2>3. Is(db, p, "active")
    BY <2>1 DEF HoldsLock, Exists, Is
  <2>4. db' = add_flow_children(db, p, children)
    BY <2>1 DEF Run
  <2>5. children = FlowChildren(p, s) /\ b.children \in Seq(Submission)
    BY <2>2
  <2> HIDE DEF p, s, children
  <2>6. \A i \in DOMAIN children : Child(children[i]) /\ children[i].parent_id = p
    BY <2>2, <2>5, FlowRecords
  <2>7. /\ children \in Seq(Job) /\ DistinctIds(p, children)
        /\ \A i \in DOMAIN children : Fresh(children[i])
    BY <2>2, FlowChildrenAreFresh DEF children
  <2> QED
    BY <1>0, <2>2, <2>3, <2>4, <2>6, <2>7, AddFlowChildrenHeed
<1> QED
  BY <1>2, <1>3, <1>4, <1>5, <1>6 DEF Submit

LEMMA LeaseStepHeeds == ASSUME RedisInv, Formed(db), Lease PROVE Heeds({}, {}, db, db')
<1>0. /\ issued \in Seq(JobIds)
      /\ \A t \in DOMAIN issued : HoldsLock(db, issued[t], t) =>
            /\ issued[t] \in JobIds /\ db.jobs[issued[t]] # None /\ db.jobs[issued[t]].state \notin Terminal
  BY DEF RedisInv, Tokens, HoldsLock, Exists, Terminal
<1>1. CASE ClaimOnce
  BY <1>1, ClaimHeeds DEF ClaimOnce
<1>2. CASE RenewLeases
  <2>1. \A x : Heeds({}, {}, db, [db EXCEPT !.stalled = x])
    BY OtherKeysHeed
  <2>2. \E x : db' = [db EXCEPT !.stalled = x]
    BY <1>2 DEF RenewLeases, Run
  <2> QED
    BY <2>1, <2>2
<1>3. CASE DelayActive
  BY <1>0, <1>3, DelayHeeds DEF DelayActive, Run
<1>4. CASE ReleaseActive
  BY <1>0, <1>4, ReleaseActiveHeeds DEF ReleaseActive, Run
<1>5. CASE RecoverStalled
  BY <1>5, RecoverStalledHeeds DEF RecoverStalled, Run, RedisInv
<1> QED
  BY <1>1, <1>2, <1>3, <1>4, <1>5 DEF Lease

LEMMA EmptyFormed == Formed(EmptyDb) /\ \A p, c \in JobIds : ~Neglects(EmptyDb, p, c)
<1>1. Formed(EmptyDb)
  BY NoneIsList DEF Formed, EmptyDb, Keys, NoDependencies, Dependents
<1>2. \A p \in JobIds : Ended(EmptyDb, p)
  BY DEF Ended, EmptyDb
<1> QED
  BY <1>1, <1>2 DEF Neglects

LEMMA ManageHeeds ==
    ASSUME "retry" \notin Operations, RedisInv, Formed(db), Manage PROVE Heeds({}, {}, db, db')
<1>0. /\ db.delayed \subseteq JobIds /\ db.jobs \in [JobIds -> Job \cup {None}]
      /\ \A j \in db.delayed : db.jobs[j] # None /\ db.jobs[j].state = "delayed"
  BY DEF RedisInv, Sound, Shape, Fine, Is
<1>1. CASE Obliterate
  <2>1. PICK force \in BOOLEAN : db' = obliterate_script(db, force)
    BY <1>1 DEF Obliterate, Run
  <2>2. db' \in {[db EXCEPT !.paused = TRUE], EmptyDb}
    BY <2>1 DEF obliterate_script
  <2>3. Heeds({}, {}, db, [db EXCEPT !.paused = TRUE])
    BY OtherKeysHeed
  <2>4. ToSet(EmptyDb.completed) = {}
    BY NoneIsList DEF EmptyDb
  <2>5. Heeds({}, {}, db, EmptyDb)
    BY <2>4, EmptyFormed DEF Heeds
  <2> QED
    BY <2>2, <2>3, <2>5
<1>2. CASE Pause
  <2> DEFINE on == TRUE
             none == {}
             s1 == [db EXCEPT !.paused = on]
             s2 == [s1 EXCEPT !.marker = none]
  <2>1. db' = s2
    BY <1>2 DEF Pause, Run, Formed, Keys
  <2> HIDE DEF on, none
  <2>2. Heeds({}, {}, db, s1)
    BY OtherKeysHeed
  <2> HIDE DEF s1
  <2>3. Heeds({}, {}, s1, s2)
    BY OtherKeysHeed
  <2> QED
    BY <2>1, <2>2, <2>3, HeedsTransitive
<1>3. CASE Resume
  <2> DEFINE s1 == [db EXCEPT !.paused = FALSE]
             s2 == add_base_marker_if_waiting(s1)
             s3 == refresh_delay_marker(s2)
  <2>1. db' = s3
    BY <1>3 DEF Resume, Run
  <2>2. Heeds({}, {}, db, s1)
    BY OtherKeysHeed
  <2> HIDE DEF s1
  <2>3. Heeds({}, {}, s1, s2)
    BY MarkersHeed
  <2> HIDE DEF s2
  <2>4. Heeds({}, {}, s2, s3)
    BY MarkersHeed
  <2> HIDE DEF s3
  <2> QED
    BY <2>1, <2>2, <2>3, <2>4, HeedsTransitive
<1>4. CASE SetMaxActiveJobs
  <2>1. PICK n : db' = [db EXCEPT !.concurrency = n]
    BY <1>4 DEF SetMaxActiveJobs, Run
  <2>2. Same(db, db')
    BY <2>1 DEF Same, Formed, Keys
  <2> QED
    BY <2>2, SameHeeds
<1>5. CASE PromoteDueJobs
  <2> DEFINE quiet == FALSE
  <2>1. db' = promote_due(db, quiet)
    BY <1>5 DEF PromoteDueJobs, Run
  <2> HIDE DEF quiet
  <2> QED
    BY <1>0, <2>1, PromoteDueHeeds
<1>6. CASE PromoteJob
  BY <1>0, <1>6, MovesHeed DEF PromoteJob, Run
<1>7. CASE RescheduleJob
  BY <1>0, <1>7, MovesHeed DEF RescheduleJob, Run
<1>8. ~RetryJob
  BY DEF RetryJob, Allowed
<1>9. CASE UpdatePriority
  <2>1. \E j \in JobIds : \E priority, lifo :
            db.jobs[j] # None /\ db' = update_priority_script(db, j, priority, lifo)
    BY <1>9 DEF UpdatePriority, Run, Exists
  <2> QED
    BY <2>1, UpdatePriorityHeeds
<1>10. CASE RemoveJob
  BY <1>10, RemoveJobHeeds DEF RemoveJob, Run
<1>11. CASE RemoveDeduplicationKey
  <2>1. PICK d \in DedupIds : db' = [db EXCEPT !.dedup[d] = None, !.dedup_next[d] = None]
    BY <1>11 DEF RemoveDeduplicationKey, Run
  <2>2. Same(db, db')
    BY <2>1 DEF Same, Formed, Keys
  <2> QED
    BY <2>2, SameHeeds
<1>12. CASE CleanJobs
  <2>1. \A state : Cleanable(db, state) \subseteq JobIds
    BY DEF Cleanable
  <2>2. \A states, victims : victims \subseteq JobIds =>
            Heeds({}, {}, db, remove_candidates(db, states, victims))
    BY RemoveCandidatesHeed
  <2> QED
    BY <1>12, <2>1, <2>2 DEF CleanJobs, Run
<1>13. CASE DrainJobs
  <2>1. \A include_delayed : Drainable(db, include_delayed) \subseteq JobIds
    BY DEF Drainable
  <2>2. \A states, victims : victims \subseteq JobIds =>
            Heeds({}, {}, db, remove_candidates(db, states, victims))
    BY RemoveCandidatesHeed
  <2> QED
    BY <1>13, <2>1, <2>2 DEF DrainJobs, Run
<1>14. CASE RemoveOrphanedJobs
  BY <1>14, RemoveOrphansHeed DEF RemoveOrphanedJobs, Run
<1>15. CASE RemoveUnprocessedChildren
  BY <1>15, RemoveUnprocessedHeeds DEF RemoveUnprocessedChildren, Run, Exists
<1>16. CASE RemoveChildDependency
  BY <1>0, <1>16, RemoveChildDependencyHeeds DEF RemoveChildDependency, Run, Exists
<1> QED
  BY <1>1, <1>2, <1>3, <1>4, <1>5, <1>6, <1>7, <1>8, <1>9, <1>10, <1>11, <1>12, <1>13, <1>14,
     <1>15, <1>16 DEF Manage

LEMMA EnvironmentHeeds == ASSUME RedisInv, Formed(db), Environment PROVE Heeds({}, {}, db, db')
<1>1. CASE ExpireLock
  <2>1. PICK j \in JobIds : db' = [db EXCEPT !.lock[j] = None]
    BY <1>1 DEF ExpireLock, Run
  <2>2. Same(db, db')
    BY <2>1 DEF Same, Formed, Keys
  <2> QED
    BY <2>2, SameHeeds
<1>2. CASE ExpireDeduplication
  <2>1. PICK d \in DedupIds : db' = [db EXCEPT !.dedup[d] = None]
    BY <1>2 DEF ExpireDeduplication, Run
  <2>2. Same(db, db')
    BY <2>1 DEF Same, Formed, Keys
  <2> QED
    BY <2>2, SameHeeds
<1>3. CASE ExpireRateLimit
  BY <1>3, OtherKeysHeed DEF ExpireRateLimit, Run
<1>4. CASE BecomeDue
  <2>1. PICK j \in JobIds : db.jobs[j] # None /\ db' = [db EXCEPT !.jobs[j].due = TRUE]
    BY <1>4 DEF BecomeDue, Run, Exists
  <2> DEFINE r == [db.jobs[j] EXCEPT !.due = TRUE]
  <2>2. Record(db.jobs[j]) /\ db.jobs[j].id = j
    BY <2>1 DEF Formed
  <2>3. Record(r) /\ r.id = j /\ r.child_ids = db.jobs[j].child_ids
        /\ r.parent_id = db.jobs[j].parent_id /\ r.state = db.jobs[j].state
    BY <2>2 DEF Record, Fields
  <2>4. Stores(db, db', j, r)
    BY <2>1 DEF Stores, Formed, Keys
  <2> HIDE DEF r
  <2> QED
    BY <2>1, <2>3, <2>4, StoreHeeds DEF Settled, Ended
<1> QED
  BY <1>1, <1>2, <1>3, <1>4 DEF Environment

\* The jobs that may be completed: those that wait for no child.
Unawaited(st) == {j \in JobIds : st.deps[j].pending = {}}

LEMMA ClientHeeds ==
    ASSUME RedisInv, Formed(db), NEW c \in Clients, ClientStep(c)
    PROVE  Heeds({}, Unawaited(db), db, db')
<1>0. Heeds({}, {}, db, db') => Heeds({}, Unawaited(db), db, db')
  BY DEF Heeds
<1>1. CASE ClaimNext(c) \/ ClaimNothing(c)
  BY <1>0, <1>1, ClaimHeeds DEF ClaimNext, ClaimNothing
<1>2. CASE PopMarker(c)
  <2>1. PICK x : db' = [db EXCEPT !.marker = x]
    BY <1>2 DEF PopMarker
  <2>2. Same(db, db')
    BY <2>1 DEF Same, Formed, Keys
  <2> QED
    BY <1>0, <2>2, SameHeeds
<1>3. CASE db' = db
  BY <1>0, <1>3, HeedsReflexive
<1>4. CASE StartClaim(c) \/ CheckRateLimit(c) \/ BlockTimesOut(c) \/ ClaimReturnsNone(c)
           \/ BeginComplete(c) \/ BeginFail(c) \/ RenewLease(c) \/ RenewReturns(c)
           \/ BeginRemoveRepeat(c) \/ Abandon(c)
  BY <1>3, <1>4 DEF StartClaim, CheckRateLimit, BlockTimesOut, ClaimReturnsNone, BeginComplete,
     BeginFail, RenewLease, RenewReturns, BeginRemoveRepeat, Abandon
<1>5. CASE CompleteJob(c)
  <2> DEFINE j == client[c].job
  <2>1. CASE HoldsLock(db, j, client[c].token) /\ can_complete(db, j)
    <3>1. PICK next \in NextRepeats(client[c].seen) : db' = complete_script(db, j, next)
      BY <1>5, <2>1 DEF CompleteJob
    <3>2. j \in JobIds /\ db.jobs[j] # None /\ db.jobs[j] \in Job
      BY <2>1 DEF HoldsLock, Exists, RedisInv, Sound, Shape
    <3>3. next = None \/ (Record(next) /\ next.child_ids = <<>> /\ next.parent_id = None)
      <4>1. next = None \/ \E i, due : next = next_repeat_job(client[c].seen, i, due)
        BY <3>1 DEF NextRepeats
      <4>2. \A i, due : LET n == next_repeat_job(client[c].seen, i, due) IN
                Record(n) /\ n.child_ids = <<>> /\ n.parent_id = None
        BY NoneIsList DEF next_repeat_job, new_job, Record, Fields
      <4> QED
        BY <4>1, <4>2
    <3>4. j \in Unawaited(db)
      BY <2>1, <3>2 DEF can_complete, Unawaited
    <3> HIDE DEF j
    <3>5. Heeds({}, {j}, db, db')
      BY <3>1, <3>2, <3>3, CompleteHeeds
    <3> QED
      BY <3>4, <3>5 DEF Heeds
  <2>2. CASE ~(HoldsLock(db, j, client[c].token) /\ can_complete(db, j))
    BY <1>3, <1>5, <2>2 DEF CompleteJob
  <2> QED
    BY <2>1, <2>2
<1>6. CASE FailJob(c)
  <2> DEFINE j == client[c].job
             retry == client[c].retry
  <2>1. CASE HoldsLock(db, j, client[c].token)
    <3>1. db' = fail_script(db, j, retry)
      BY <1>6, <2>1 DEF FailJob
    <3>2. j \in JobIds /\ db.jobs[j] # None /\ db.jobs[j] \in Job /\ db.jobs[j].state \notin Terminal
      BY <2>1 DEF HoldsLock, Exists, RedisInv, Sound, Shape, Terminal
    <3> HIDE DEF j, retry
    <3> QED
      BY <1>0, <3>1, <3>2, FailHeeds
  <2>2. CASE ~HoldsLock(db, j, client[c].token)
    BY <1>3, <1>6, <2>2 DEF FailJob
  <2> QED
    BY <2>1, <2>2
<1>7. CASE RemoveRepeat(c)
  <2>1. db' \in {db, remove_job_script(db, client[c].owner)}
    BY <1>7 DEF RemoveRepeat
  <2> QED
    BY <1>0, <1>3, <2>1, RemoveJobHeeds
<1>8. CASE ClearRepeatOwner(c)
  <2> DEFINE k == client[c].key
  <2>1. db' \in {db, [db EXCEPT !.repeat_meta[k] = None],
                 [db EXCEPT !.repeat[k] = None, !.repeat_meta[k] = None]}
    BY <1>8 DEF ClearRepeatOwner
  <2> HIDE DEF k
  <2>2. Same(db, db')
    BY <2>1 DEF Same, Formed, Keys
  <2> QED
    BY <1>0, <2>2, SameHeeds
<1> QED
  BY <1>1, <1>2, <1>4, <1>5, <1>6, <1>7, <1>8 DEF ClientStep

LEMMA StepHeeds ==
    ASSUME "retry" \notin Operations, RedisInv, Formed(db), [Next]_vars
    PROVE  Heeds({}, Unawaited(db), db, db')
<1>1. Heeds({}, {}, db, db') => Heeds({}, Unawaited(db), db, db')
  BY DEF Heeds
<1>2. CASE UNCHANGED vars
  BY <1>1, <1>2, HeedsReflexive DEF vars
<1>3. ASSUME NEW c \in Clients, ClientStep(c) PROVE Heeds({}, Unawaited(db), db, db')
  BY <1>3, ClientHeeds
<1> QED
  BY <1>1, <1>2, <1>3, SubmitHeeds, LeaseStepHeeds, ManageHeeds, EnvironmentHeeds DEF Next

\* Every parent that has not ended waits for each of its children that has not.
Tended == Formed(db) /\ \A p, c \in JobIds : ~Neglects(db, p, c)

\* Of the jobs that wait for nobody, those that complete leave no child behind.
LEMMA CompletesTended ==
    ASSUME RedisInv, RedisInv', Tended, Heeds({}, Unawaited(db), db, db'), NEW p \in JobIds,
           Is(db, p, "active"), Is(db', p, "completed"),
           NEW c \in ToSet(db.jobs[p].child_ids), Exists(db, c), db.jobs[c].parent_id = p
    PROVE  db.jobs[c].state \in Terminal
<1>1. p \notin ToSet(db.completed)
  BY DEF RedisInv, Sound, Fine, Is
<1>2. p \in ToSet(db'.completed)
  BY DEF RedisInv, Sound, Fine
<1>3. p \in Unawaited(db)
  BY <1>1, <1>2 DEF Heeds, Tended
<1>4. ~Neglects(db, p, c)
  BY DEF Tended, Exists
<1>5. ~Ended(db, p)
  BY DEF Is, Ended, Terminal
<1> QED
  BY <1>3, <1>4, <1>5 DEF Neglects, Unawaited, Ended, Exists

\* No interleaving of submissions, flows added to running parents, claims, completions, failures,
\* recoveries, promotions and removals completes a parent while one of its children is still to
\* run, as long as no operator retries a finished job by hand.
THEOREM CompletionTheorem ==
    ASSUME "retry" \notin Operations PROVE Spec => CompleteOnlyAfterChildren
<1>1. Init => Tended
  BY EmptyFormed DEF Init, Tended
<1>2. RedisInv /\ Tended /\ [Next]_vars => Tended'
  <2> SUFFICES ASSUME RedisInv, Tended, [Next]_vars PROVE Tended'
    OBVIOUS
  <2>1. Heeds({}, Unawaited(db), db, db')
    BY StepHeeds DEF Tended
  <2> QED
    BY <2>1 DEF Tended, Heeds
<1>3. RedisInv /\ RedisInv' /\ Tended /\ [Next]_vars =>
        [\A p \in JobIds :
            /\ Exists(db, p) /\ db.jobs[p].state = "active"
            /\ db'.jobs[p] # None /\ db'.jobs[p].state = "completed"
            => \A c \in ToSet(db.jobs[p].child_ids) :
                    Exists(db, c) /\ db.jobs[c].parent_id = p => db.jobs[c].state \in Terminal]_vars
  <2> SUFFICES ASSUME RedisInv, RedisInv', Tended, [Next]_vars, NEW p \in JobIds,
                      Exists(db, p), db.jobs[p].state = "active",
                      db'.jobs[p] # None, db'.jobs[p].state = "completed",
                      NEW c \in ToSet(db.jobs[p].child_ids), Exists(db, c), db.jobs[c].parent_id = p
               PROVE  db.jobs[c].state \in Terminal
    OBVIOUS
  <2>1. Heeds({}, Unawaited(db), db, db')
    BY StepHeeds DEF Tended
  <2>2. Is(db, p, "active") /\ Is(db', p, "completed")
    BY DEF Is, Exists
  <2> QED
    BY <2>1, <2>2, CompletesTended
<1> QED
  BY <1>1, <1>2, <1>3, RedisInvHolds, PTL DEF Spec, CompleteOnlyAfterChildren

=============================================================================
