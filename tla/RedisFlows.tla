----------------------------- MODULE RedisFlows -----------------------------
(***************************************************************************)
(* The submission scripts of src/job/redis.rs: single jobs, repeat series, *)
(* and flows, a parent with the children it waits for.                     *)
(*                                                                         *)
(* A submission script first examines what it was given, in order, against *)
(* the ids, deduplication keys and repeat series that exist, and then      *)
(* writes.  The examination writes too: stale keys are deleted, the time   *)
(* to live of a key is extended, and a duplicate is parked behind an       *)
(* active owner.  What it wrote stays when a later job is refused.         *)
(***************************************************************************)
EXTENDS RedisStore

-----------------------------------------------------------------------------
(***************************************************************************)
(* A candidate meets the owner of its deduplication id.                    *)
(***************************************************************************)
can_replace_deduplicated_owner(candidate, owner) ==
    /\ candidate.options.deduplication.replace
    /\ owner.state = "delayed"
    /\ repeat_key(candidate) = None /\ repeat_key(owner) = None
    /\ owner.parent_id = None /\ owner.child_ids = <<>>

can_store_deduplicated_next(db, candidate, owner) ==
    /\ candidate.options.deduplication.keep_last_if_active
    /\ owner.state = "active" /\ owner.id \in db.active
    /\ candidate.parent_id = None /\ candidate.child_ids = <<>>
    /\ repeat_key(candidate) = repeat_key(owner)

can_store_deduplicated_next_flow(db, parent, children, owner) ==
    /\ parent.options.deduplication.keep_last_if_active
    /\ owner.state = "active" /\ owner.id \in db.active
    /\ repeat_key(parent) = None /\ repeat_key(owner) = None
    /\ \A c \in ToSet(children) : repeat_key(c) = None

\* A parked duplicate makes the owner's key permanent.
park(db, d, payload) ==
    [db EXCEPT !.dedup_next[d] = payload, !.dedup[d].ttl = FALSE]

\* extend_deduplicated_owner: the owner's key gets a new time to live.  (The scripts of single
\* jobs also test `replace`: see add_job.)
extend_deduplicated_owner(db, candidate) ==
    LET d == candidate.options.deduplication IN
    IF d.extend /\ d.ttl /\ ~d.keep_last_if_active
    THEN [db EXCEPT !.dedup[d.id].ttl = TRUE]
    ELSE db

\* A replacement without `extend` keeps what is left of the replaced owner's time to live.
set_replaced_deduplication_key(db, job) ==
    LET d == job.options.deduplication IN
    IF deduplication_ttl(job) /\ ~d.extend
    THEN [db EXCEPT !.dedup[d.id] = [owner |-> job.id, ttl |-> @.ttl]]
    ELSE set_deduplication_key(db, job)

insert_job(db, job) == set_repeat_key(enqueue_prepared_job(db, job), job)

-----------------------------------------------------------------------------
(***************************************************************************)
(* ADD_JOB_SCRIPT and, one job after the other, ADD_JOBS_SCRIPT.           *)
(***************************************************************************)
\* The record of the delayed owner goes; its key is overwritten.
remove_replaced_owner(db, owner) ==
    [db EXCEPT !.delayed = @ \ {owner.id}, !.jobs[owner.id] = None]

\* Fault: the series is not looked up.
insert_always(db, job, replacing) == set_deduplication_key(insert_job(db, job), job)

\* A live occurrence of the same repeat series is returned instead of a second one.
insert_unless_repeating(db, job, replacing) ==
    LET s1 == prune_repeat_keys(db, repeat_key(job))
        s2 == insert_job(s1, job)
    IN  IF repeat_owner(db, repeat_key(job)) # None THEN s1
        ELSE IF replacing THEN set_replaced_deduplication_key(s2, job)
        ELSE set_deduplication_key(s2, job)

add_job(db, job) ==
    LET d == deduplication_id(job)
        s1 == prune_deduplication_key(db, d)
        owner == s1.jobs[deduplication_owner(s1, d)]
    IN  IF Exists(db, job.id) THEN db
        ELSE IF deduplication_owner(s1, d) = None THEN insert_unless_repeating(s1, job, FALSE)
        ELSE IF can_replace_deduplicated_owner(job, owner)
             THEN IF owner.id \notin s1.delayed THEN s1
                  ELSE insert_unless_repeating(remove_replaced_owner(s1, owner), job, TRUE)
        ELSE IF can_store_deduplicated_next(s1, job, owner)
             THEN park(s1, d, [job |-> job, children |-> <<>>])
        ELSE IF job.options.deduplication.replace THEN s1
        ELSE extend_deduplicated_owner(s1, job)

-----------------------------------------------------------------------------
(***************************************************************************)
(* The examination loop of ADD_FLOW_SCRIPT and ADD_FLOW_CHILDREN_SCRIPT.   *)
(* acc.skipped are the children that met a deduplication owner, acc.next   *)
(* the one of them parked behind each id, acc.duplicated the children that *)
(* exist already.                                                          *)
(***************************************************************************)
Examined(db) ==
    [db |-> db, result |-> "ok", skipped |-> {}, duplicated |-> {},
     next |-> [d \in DedupIds |-> None], staged |-> {}]

\* The existing child belongs to another parent that still exists.
ParentConflict(db, child) ==
    LET p == db.jobs[child.id].parent_id IN
    p # None /\ p # child.parent_id /\ Exists(db, p)

\* Two new jobs of one flow may not share an id or a series, nor take a live series.
examine_new(acc, job) ==
    LET k == repeat_key(job)
        s1 == prune_repeat_keys(acc.db, k)
        claims == {deduplication_id(job), k} \ {None}
        refused == claims \cap acc.staged # {} \/ repeat_owner(acc.db, k) # None
    IN  [acc EXCEPT !.db = s1, !.result = IF refused THEN "refused" ELSE @,
                    !.staged = @ \cup claims]

\* flow_child_deduplication_requires_next: the latest candidate is the owner's next child.
examine_duplicate(acc, child, owner) ==
    LET d == deduplication_id(child) IN
    IF child.options.deduplication.keep_last_if_active /\ owner.state = "active"
    THEN [acc EXCEPT !.db = park(@, d, [job |-> child, children |-> <<>>]),
                     !.skipped = @ \cup {child.id}, !.next[d] = child.id]
    ELSE [acc EXCEPT !.db = extend_deduplicated_owner(@, child),
                     !.skipped = @ \cup {child.id}]

examine_child(acc, child) ==
    LET d == deduplication_id(child)
        s1 == prune_deduplication_key(acc.db, d)
        owner == deduplication_owner(acc.db, d)
    IN  IF acc.result # "ok" THEN acc
        ELSE IF Exists(acc.db, child.id)
             THEN IF ParentConflict(acc.db, child) THEN [acc EXCEPT !.result = "refused"]
                  ELSE [acc EXCEPT !.duplicated = @ \cup {child.id}]
        ELSE IF owner # None THEN examine_duplicate([acc EXCEPT !.db = s1], child, s1.jobs[owner])
        ELSE examine_new([acc EXCEPT !.db = s1], child)

examine_children(acc, children) == InTurn(examine_child, acc, children)

\* The parent of a new flow may itself be a duplicate: the flow is then parked or dropped.
examine_parent(acc, parent, children) ==
    LET d == deduplication_id(parent)
        s1 == prune_deduplication_key(acc.db, d)
        owner == deduplication_owner(acc.db, d)
    IN  IF Exists(acc.db, parent.id) THEN acc
        ELSE IF owner = None THEN examine_new([acc EXCEPT !.db = s1], parent)
        ELSE [acc EXCEPT
                !.result = "deduplicated_parent",
                !.db = IF can_store_deduplicated_next_flow(s1, parent, children, s1.jobs[owner])
                       THEN park(s1, d, [job |-> parent, children |-> children])
                       ELSE extend_deduplicated_owner(s1, parent)]

examine_flow(db, parent, children) ==
    examine_children(examine_parent(Examined(db), parent, children), children)

-----------------------------------------------------------------------------
(***************************************************************************)
(* The writes of a flow.                                                   *)
(***************************************************************************)
\* A child that exists is attached, a new one inserted, a skipped one left out.
write_child(acc, child) ==
    IF child.id \in acc.duplicated
    THEN [acc EXCEPT !.db.jobs[child.id].parent_id = child.parent_id]
    ELSE IF child.id \in acc.skipped THEN acc
    ELSE [acc EXCEPT !.db = set_deduplication_key(insert_job(@, child), child)]

write_children(acc, children) == InTurn(write_child, acc, children)

\* The children listed in child_ids: attached ones and those parked as an owner's next.
Retained(acc, c) == c \notin acc.skipped \/ \E d \in DedupIds : acc.next[d] = c

Ids(children) == [i \in DOMAIN children |-> children[i].id]

RetainedIds(acc, children) ==
    KeepOnly(Ids(children), {c \in ToSet(Ids(children)) : Retained(acc, c)})

\* A child that has completed satisfies the dependency at once.
await_children(acc, p, children) ==
    LET awaited == ToSet(Ids(children)) \ acc.skipped
        done == {c \in awaited : Exists(acc.db, c) /\ acc.db.jobs[c].state = "completed"}
    IN  [acc.db EXCEPT !.deps[p].processed = @ \cup done,
                       !.deps[p].pending = @ \cup (awaited \ done)]

\* release_parent_if_no_pending_dependencies
release_parent_if_ready(db, p, due) ==
    IF Exists(db, p) /\ db.jobs[p].state = "waiting_children" /\ db.deps[p].pending = {}
    THEN release_parent([db EXCEPT !.jobs[p].due = due], p, FALSE)
    ELSE db

write_parent(acc, parent, children) ==
    LET p == parent.id
        ids == RetainedIds(acc, children)
        new == KeepOnly(ids, ToSet(ids) \ ToSet(acc.db.jobs[p].child_ids))
        job == [parent EXCEPT !.child_ids = ids]
    IN  IF Exists(acc.db, p)
        THEN [acc EXCEPT !.db.jobs[p].child_ids = @ \o new]
        ELSE [acc EXCEPT !.db = [set_deduplication_key(insert_job(@, job), job)
                                    EXCEPT !.deps[p].pending = {}]]

write_flow(acc, parent, children) ==
    LET a1 == write_parent(acc, parent, children)
        a2 == write_children(a1, children)
        s1 == await_children(a2, parent.id, children)
    IN  IF \E d \in DedupIds : acc.next[d] # None THEN s1
        ELSE release_parent_if_ready(s1, parent.id, parent.due)

\* add_flow_at and ADD_FLOW_SCRIPT.
add_flow(db, parent, children) ==
    LET acc == examine_flow(db, parent, children) IN
    IF acc.result # "ok" THEN acc.db ELSE write_flow(acc, parent, children)

-----------------------------------------------------------------------------
(***************************************************************************)
(* ADD_FLOW_CHILDREN_SCRIPT: an active parent goes back to wait.           *)
(***************************************************************************)
\* A parent with a child that failed it takes no more children.
HasFailedDependencies(db, p) ==
    \/ db.deps[p].unsuccessful # {}
    \/ \E c \in ToSet(db.jobs[p].child_ids) : Exists(db, c) /\ FailsParent(db.jobs[c])

\* The id of a child that is listed but gone is refused.
examine_dynamic_child(acc, child) ==
    IF acc.result = "ok" /\ ~Exists(acc.db, child.id)
           /\ child.id \in ToSet(acc.db.jobs[child.parent_id].child_ids)
    THEN [acc EXCEPT !.result = "refused"]
    ELSE examine_child(acc, child)

examine_dynamic_children(acc, children) == InTurn(examine_dynamic_child, acc, children)

\* The parent gives up its lease and waits, for the parked children too.
park_parent(acc, p, ids) ==
    LET parked == {acc.next[d] : d \in DedupIds} \ {None}
        new == KeepOnly(ids, ToSet(ids) \ ToSet(acc.db.jobs[p].child_ids))
        parent == [acc.db.jobs[p] EXCEPT !.state = "waiting_children", !.deferred_failure = FALSE,
                                         !.child_ids = @ \o new]
        s1 == [acc.db EXCEPT !.lock[p] = None, !.stalled = @ \ {p}, !.active = @ \ {p},
                             !.jobs[p] = parent, !.waiting_children = @ \cup {p},
                             !.deps[p].pending = @ \cup parked]
    IN  [acc EXCEPT !.db = s1]

write_flow_children(acc, p, children) ==
    LET a1 == park_parent(acc, p, RetainedIds(acc, children))
        a2 == write_children(a1, children)
    IN  release_parent_if_ready(await_children(a2, p, children), p, TRUE)

add_flow_children(db, p, children) ==
    LET acc == examine_dynamic_children(Examined(db), children) IN
    IF acc.result # "ok" THEN acc.db ELSE write_flow_children(acc, p, children)

=============================================================================
