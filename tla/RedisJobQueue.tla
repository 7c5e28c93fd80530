--------------------------- MODULE RedisJobQueue ---------------------------
(***************************************************************************)
(* RedisJobQueue of src/job/redis.rs: clients on several hosts that share  *)
(* one queue in Redis.                                                     *)
(*                                                                         *)
(* A script is one step.  A call that needs more than one round trip to    *)
(* the server is one step per round trip, and `client` holds what it read: *)
(* other clients come in between.  A client may give up between two steps. *)
(* Locks, deduplication keys and the rate-limit window expire, and delays  *)
(* end, at any moment.                                                     *)
(***************************************************************************)
EXTENDS RedisScripts

CONSTANTS
    Clients,      \* clients of the queue
    MarkerKey,    \* the name of the marker key, which no job has
    Submissions,  \* jobs callers submit: [id, options]
    Flows,        \* flows callers submit: [parent, children], each a submission
    Batches,      \* children a running parent adds: [parent, children]
    Operations,   \* the calls that are made, besides those to submit, claim and settle jobs
    Limits,       \* values for set_max_active_jobs
    RateMax,      \* claims per rate-limit window, 0 for no limit
    Resubmits,    \* whether a flow is submitted again while its parent exists
    Abandons,     \* whether clients give up in the middle of a call
    MaxClaims     \* bound on the claims, and so on the lock tokens

Submission == [id : JobIds, options : JobOptions]

\* validate_flow_job_ids, validate_flow_child_jobs: a flow names no job twice.
DistinctIds(parent, children) ==
    \A i \in DOMAIN children :
        /\ children[i].id # parent
        /\ \A k \in DOMAIN children : children[i].id = children[k].id => i = k

ASSUME RedisInputsAssumption ==
    /\ Submissions \subseteq Submission
    /\ \A f \in Flows : /\ f.parent \in Submission /\ f.children \in Seq(Submission)
                        /\ DistinctIds(f.parent.id, f.children)
    /\ \A b \in Batches : /\ b.parent \in JobIds /\ b.children \in Seq(Submission)
                          /\ DistinctIds(b.parent, b.children)
    /\ Limits \subseteq Nat /\ RateMax \in Nat /\ MaxClaims \in Nat
    /\ Resubmits \in BOOLEAN /\ Abandons \in BOOLEAN
    /\ MarkerKey \notin JobIds

VARIABLES
    db,      \* the keys of the queue in Redis
    issued,  \* the job each lock token was drawn for
    client   \* the call each client is in

vars == <<db, issued, client>>

Idle == [op |-> "idle"]

\* A claim waiting for work; `delayed` after a wake-up by the marker of a delayed job.
Claiming(delayed) == [op |-> "claim", delayed |-> delayed]

Init ==
    /\ db = EmptyDb
    /\ issued = <<>>
    /\ client = [c \in Clients |-> Idle]

\* The instance makes this kind of call.
Allowed(op) == op \in Operations

\* A script run by whoever calls it, in one round trip.
Run(new) == db' = new /\ UNCHANGED <<issued, client>>

Call(c, call) == client' = [client EXCEPT ![c] = call]

-----------------------------------------------------------------------------
(***************************************************************************)
(* Submission.                                                             *)
(***************************************************************************)
AddJob == \E s \in Submissions : Run(add_job(db, new_job(s.id, s.options)))

\* ADD_JOBS_SCRIPT takes the jobs one after the other.
AddJobs == \E s, t \in Submissions :
    Run(add_job(add_job(db, new_job(s.id, s.options)), new_job(t.id, t.options)))

UpsertRepeat == \E s \in Submissions :
    /\ s.options.repeat # None
    /\ Run(upsert_repeat_script(db, new_job(s.id, s.options)))

\* The jobs of a flow as add_flow_at builds them.
FlowParent(f) ==
    [new_job(f.parent.id, f.parent.options) EXCEPT
        !.state = "waiting_children",
        !.child_ids = [i \in DOMAIN f.children |-> f.children[i].id]]

FlowChildren(p, children) ==
    [i \in DOMAIN children |->
        [new_job(children[i].id, children[i].options) EXCEPT !.parent_id = p]]

AddFlow == \E f \in Flows :
    /\ f.children # <<>> /\ (Resubmits \/ ~Exists(db, f.parent.id))
    /\ Run(add_flow(db, FlowParent(f), FlowChildren(f.parent.id, f.children)))

AddFlowChildren == \E b \in Batches, t \in DOMAIN issued :
    /\ issued[t] = b.parent /\ HoldsLock(db, b.parent, t)
    /\ ~HasFailedDependencies(db, b.parent)
    /\ Run(add_flow_children(db, b.parent, FlowChildren(b.parent, b.children)))

-----------------------------------------------------------------------------
(***************************************************************************)
(* claim_next runs CLAIM_SCRIPT once; claim_next_blocking in a loop, with  *)
(* a look at the rate limit and a wait for a marker in between.            *)
(***************************************************************************)
StartClaim(c) ==
    /\ Allowed("block") /\ client[c] = Idle
    /\ Call(c, Claiming(FALSE))
    /\ UNCHANGED <<db, issued>>

rate_limited(st) == RateMax > 0 /\ st.claims >= RateMax

\* The queue as CLAIM_SCRIPT finds it after the delayed jobs that are due have moved.
Promoted == promote_due(db, queue_is_paused_or_maxed(db))
MayClaim == ~rate_limited(Promoted) /\ ~queue_is_paused_or_maxed(db)
Claimable == IF MayClaim THEN drop_stale_waiting(Promoted) ELSE Promoted

\* CLAIM_SCRIPT finds a job.
claim_found ==
    LET j == Head(Claimable.waiting).id IN
    /\ Len(issued) < MaxClaims
    /\ MayClaim /\ Claimable.waiting # <<>>
    /\ db' = [lease(Claimable, j, Len(issued) + 1) EXCEPT !.claims = IF RateMax = 0 THEN 0 ELSE @]
    /\ issued' = Append(issued, j)

\* CLAIM_SCRIPT answers nil.
claim_empty ==
    /\ MayClaim => Claimable.waiting = <<>>
    /\ db' = Claimable
    /\ UNCHANGED issued

\* claim_next by whoever calls it.
ClaimOnce == (claim_found \/ claim_empty) /\ UNCHANGED client

ClaimNext(c) == client[c].op = "claim" /\ claim_found /\ Call(c, Idle)

ClaimNothing(c) ==
    /\ client[c].op = "claim"
    /\ claim_empty
    /\ Call(c, [client[c] EXCEPT !.op = "check"])

\* active_claim_rate_limit_ttl: sleep through the window and claim again, or block.
CheckRateLimit(c) ==
    /\ client[c].op = "check"
    /\ Call(c, [client[c] EXCEPT !.op = IF rate_limited(db) THEN "claim" ELSE "block"])
    /\ UNCHANGED <<db, issued>>

\* BZPOPMIN answers at once when there is a marker: the base marker has the lowest score.
PopMarker(c) ==
    LET member == IF "base" \in db.marker THEN "base" ELSE "delay" IN
    /\ client[c].op = "block" /\ db.marker # {}
    /\ db' = [db EXCEPT !.marker = @ \ {member}]
    /\ Call(c, Claiming(member = "delay"))
    /\ UNCHANGED issued

\* marker_block_timeout: at the latest after MAX_MARKER_BLOCK_TIMEOUT, or when a job is due.
BlockTimesOut(c) ==
    /\ client[c].op = "block"
    /\ Call(c, Claiming(FALSE))
    /\ UNCHANGED <<db, issued>>

\* The deadline of the call has passed.
ClaimReturnsNone(c) ==
    /\ client[c].op \in {"check", "block"}
    /\ Call(c, Idle)
    /\ UNCHANGED <<db, issued>>

-----------------------------------------------------------------------------
(***************************************************************************)
(* Whoever was given a token for a job settles the job with it.  It may    *)
(* have lost the lease and not know it.                                    *)
(***************************************************************************)
\* complete_job reads the job to build the next occurrence before it runs the script.
BeginComplete(c) == \E t \in DOMAIN issued :
    /\ client[c] = Idle /\ Exists(db, issued[t])
    /\ Call(c, [op |-> "complete", job |-> issued[t], token |-> t, seen |-> db.jobs[issued[t]]])
    /\ UNCHANGED <<db, issued>>

\* Ids that Job::new may draw.
FreshIds == {j \in JobIds : /\ ~Exists(db, j)
                            /\ \A d \in DedupIds : db.dedup_next[d] # None =>
                                    j \notin {db.dedup_next[d].job.id} \cup
                                        {db.dedup_next[d].children[i].id :
                                            i \in DOMAIN db.dedup_next[d].children}}

repeats(job) ==
    /\ job.options.repeat # None
    /\ job.options.repeat.limit > 0 => job.repeat_count + 1 < job.options.repeat.limit

\* From the job that was read; the instant of the next occurrence may be past or to come.
next_repeat_job(seen, j, due) ==
    [new_job(j, seen.options) EXCEPT !.state = IF due THEN "waiting" ELSE "delayed", !.due = due,
                                     !.repeat_count = seen.repeat_count + 1]

NextRepeats(seen) ==
    IF ~repeats(seen) THEN {None}
    ELSE {next_repeat_job(seen, j, due) : j \in FreshIds, due \in BOOLEAN}

CompleteJob(c) ==
    /\ client[c].op = "complete"
    /\ LET j == client[c].job IN
       IF HoldsLock(db, j, client[c].token) /\ can_complete(db, j)
       THEN \E next \in NextRepeats(client[c].seen) : db' = complete_script(db, j, next)
       ELSE db' = db
    /\ Call(c, Idle)
    /\ UNCHANGED issued

\* fail_job_with_retry_control decides on the retry before it runs the script.
BeginFail(c) == \E t \in DOMAIN issued, allow_retry \in BOOLEAN :
    /\ client[c] = Idle /\ Exists(db, issued[t])
    /\ allow_retry \/ should_retry(db.jobs[issued[t]])  \* where it makes a difference
    /\ Call(c, [op |-> "fail", job |-> issued[t], token |-> t, allowed |-> allow_retry,
                retry |-> allow_retry /\ should_retry(db.jobs[issued[t]])])
    /\ UNCHANGED <<db, issued>>

FailJob(c) ==
    /\ client[c].op = "fail"
    /\ db' = IF HoldsLock(db, client[c].job, client[c].token)
             THEN fail_script(db, client[c].job, client[c].retry) ELSE db
    /\ Call(c, Idle)
    /\ UNCHANGED issued

\* RENEW_LEASE_SCRIPT
renew_lease_script(st, arg, t) == IF arg \in JobIds /\ HoldsLock(st, arg, t) THEN "ok" ELSE "missing"

\* renew_lease counts four keys and passes five, so the script takes the last key for the id.
RenewLease(c) == \E t \in DOMAIN issued :
    /\ Allowed("renew") /\ client[c] = Idle
    /\ Call(c, [op |-> "renewed", held |-> HoldsLock(db, issued[t], t),
                result |-> renew_lease_script(db, MarkerKey, t)])
    /\ UNCHANGED <<db, issued>>

RenewReturns(c) ==
    /\ client[c].op = "renewed"
    /\ Call(c, Idle)
    /\ UNCHANGED <<db, issued>>

\* RENEW_LEASES_SCRIPT: a renewed job is no candidate of the next recovery.
RenewLeases == \E t \in DOMAIN issued :
    /\ HoldsLock(db, issued[t], t) /\ issued[t] \in db.active
    /\ Run([db EXCEPT !.stalled = @ \ {issued[t]}])

DelayActive == \E t \in DOMAIN issued :
    Allowed("delay") /\ HoldsLock(db, issued[t], t) /\ Run(delay_active_script(db, issued[t]))

ReleaseActive == \E t \in DOMAIN issued :
    Allowed("release") /\ HoldsLock(db, issued[t], t) /\ Run(release_active_script(db, issued[t]))

-----------------------------------------------------------------------------
(***************************************************************************)
(* Recovery and management.                                                *)
(***************************************************************************)
RecoverStalled == Run(recover_stalled_script(db))

PromoteDueJobs == Allowed("promote") /\ Run(promote_due(db, FALSE))

PromoteJob == \E j \in db.delayed : Allowed("promote") /\ Run(promote_job_script(db, j))

RescheduleJob == \E j \in db.delayed : Allowed("reschedule") /\ Run(reschedule_job_script(db, j))

RetryJob == \E j \in ToSet(db.completed) \cup ToSet(db.failed) :
    Allowed("retry") /\ Run(retry_job_script(db, j))

UpdatePriority ==
    \E j \in JobIds, order \in {<<s.options.priority, s.options.lifo>> : s \in Submissions} :
        /\ Allowed("priority") /\ Exists(db, j)
        /\ Run(update_priority_script(db, j, order[1], order[2]))

RemoveJob == \E j \in JobIds : Allowed("remove") /\ Run(remove_job_script(db, j))

RemoveDeduplicationKey == \E d \in DedupIds :
    /\ Allowed("remove") /\ db.dedup[d] # None
    /\ Run([db EXCEPT !.dedup[d] = None, !.dedup_next[d] = None])

\* The age and the limit of a clean pick any of the candidates.  A clean of a state that no job
\* is in changes nothing.
CleanJobs ==
    /\ Allowed("clean")
    /\ \E j \in JobIds :
          /\ Exists(db, j)
          /\ \E victims \in SUBSET Cleanable(db, db.jobs[j].state) :
                Run(remove_candidates(db, {db.jobs[j].state}, victims))

DrainJobs == \E include_delayed \in BOOLEAN :
    /\ Allowed("drain")
    /\ Run(remove_candidates(db, IF include_delayed THEN {"delayed"} ELSE {},
                             Drainable(db, include_delayed)))

Obliterate == \E force \in BOOLEAN : Allowed("obliterate") /\ Run(obliterate_script(db, force))

RemoveOrphanedJobs ==
    Allowed("orphans") /\ Run(remove_orphans(db))

RemoveUnprocessedChildren == \E p \in JobIds :
    Allowed("children") /\ Exists(db, p) /\ Run(remove_unprocessed_script(db, p))

RemoveChildDependency == \E c \in JobIds :
    /\ Allowed("children") /\ Exists(db, c) /\ db.jobs[c].parent_id # None
    /\ Run(remove_child_dependency_script(db, c))

\* remove_repeat reads the owner, from the metadata where the owner key is missing, removes that
\* job, and clears what named it when there was no such job or the key was missing.
BeginRemoveRepeat(c) == \E k \in RepeatKeys :
    LET by_metadata == db.repeat[k] = None
        owner == IF by_metadata THEN db.repeat_meta[k] ELSE db.repeat[k]
    IN  /\ Allowed("remove_repeat") /\ client[c] = Idle
        /\ owner # None
        /\ Call(c, [op |-> "remove_repeat", key |-> k, owner |-> owner, by_metadata |-> by_metadata])
        /\ UNCHANGED <<db, issued>>

RemoveRepeat(c) ==
    LET j == client[c].owner
        stale == client[c].by_metadata /\ ~IsLiveRepeat(db, client[c].key, j)
        refused == Exists(db, j) /\ ActiveLocked(db, j)
        clear == stale \/ (~refused /\ (client[c].by_metadata \/ ~Exists(db, j)))
    IN  /\ client[c].op = "remove_repeat"
        /\ db' = IF stale THEN db ELSE remove_job_script(db, j)
        /\ Call(c, IF clear THEN [client[c] EXCEPT !.op = "clear_repeat"] ELSE Idle)
        /\ UNCHANGED issued

\* clear_repeat_owner_if_stale, clear_repeat_scheduler_metadata
ClearRepeatOwner(c) ==
    LET k == client[c].key IN
    /\ client[c].op = "clear_repeat"
    /\ db' = IF client[c].by_metadata THEN [db EXCEPT !.repeat_meta[k] = None]
             ELSE IF db.repeat[k] = client[c].owner
             THEN [db EXCEPT !.repeat[k] = None, !.repeat_meta[k] = None]
             ELSE db
    /\ Call(c, Idle)
    /\ UNCHANGED issued

Pause == Allowed("pause") /\ Run([db EXCEPT !.paused = TRUE, !.marker = {}])

Resume ==
    /\ Allowed("pause")
    /\ Run(refresh_delay_marker(add_base_marker_if_waiting([db EXCEPT !.paused = FALSE])))

SetMaxActiveJobs == \E n \in Limits : Run([db EXCEPT !.concurrency = n])

-----------------------------------------------------------------------------
(***************************************************************************)
(* The passage of time and calls that do not end.                          *)
(***************************************************************************)
ExpireLock == \E j \in JobIds :
    db.lock[j] # None /\ Run([db EXCEPT !.lock[j] = None])

ExpireDeduplication == \E d \in DedupIds :
    /\ db.dedup[d] # None /\ db.dedup[d].ttl
    /\ Run([db EXCEPT !.dedup[d] = None])

ExpireRateLimit == db.claims > 0 /\ Run([db EXCEPT !.claims = 0])

BecomeDue == \E j \in JobIds :
    /\ Exists(db, j) /\ ~db.jobs[j].due
    /\ Run([db EXCEPT !.jobs[j].due = TRUE])

\* A client crashes, or the deadline of its claim passes right after it took a marker.
Abandon(c) ==
    /\ Abandons /\ client[c] # Idle
    /\ Call(c, Idle)
    /\ UNCHANGED <<db, issued>>

-----------------------------------------------------------------------------
ClientStep(c) ==
    \/ StartClaim(c) \/ ClaimNext(c) \/ ClaimNothing(c) \/ CheckRateLimit(c)
    \/ PopMarker(c) \/ BlockTimesOut(c) \/ ClaimReturnsNone(c)
    \/ BeginComplete(c) \/ CompleteJob(c) \/ BeginFail(c) \/ FailJob(c)
    \/ RenewLease(c) \/ RenewReturns(c)
    \/ BeginRemoveRepeat(c) \/ RemoveRepeat(c) \/ ClearRepeatOwner(c)
    \/ Abandon(c)

Submit == AddJob \/ AddJobs \/ UpsertRepeat \/ AddFlow \/ AddFlowChildren

Lease == ClaimOnce \/ RenewLeases \/ DelayActive \/ ReleaseActive \/ RecoverStalled

Manage ==
    \/ PromoteDueJobs \/ PromoteJob \/ RescheduleJob \/ RetryJob \/ UpdatePriority
    \/ RemoveJob \/ RemoveDeduplicationKey \/ CleanJobs \/ DrainJobs \/ Obliterate
    \/ RemoveOrphanedJobs \/ RemoveUnprocessedChildren \/ RemoveChildDependency
    \/ Pause \/ Resume \/ SetMaxActiveJobs

Environment == ExpireLock \/ ExpireDeduplication \/ ExpireRateLimit \/ BecomeDue

Next == (\E c \in Clients : ClientStep(c)) \/ Submit \/ Lease \/ Manage \/ Environment

Spec == Init /\ [][Next]_vars

\* A worker runs recover_stalled_jobs in a loop.
FairSpec == Spec /\ WF_vars(RecoverStalled)

-----------------------------------------------------------------------------
(***************************************************************************)
(* Properties.                                                             *)
(***************************************************************************)
\* Where the indexes say a job is.
Indexed(j) ==
    {s \in JobState :
        CASE s = "waiting" -> j \in WaitingIds(db)
          [] s = "delayed" -> j \in db.delayed
          [] s = "active" -> j \in db.active
          [] s = "waiting_children" -> j \in db.waiting_children
          [] s = "completed" -> j \in ToSet(db.completed)
          [] s = "failed" -> j \in ToSet(db.failed)}

\* Thirty scripts move jobs by hand between six sorted sets: every record is in the set of
\* its state and in no other, and no set names a job without a record.
IndexAgreesWithState ==
    \A j \in JobIds : Indexed(j) = IF Exists(db, j) THEN {db.jobs[j].state} ELSE {}

\* A lock outlives neither its job nor the job's lease, whichever script ended it, and no
\* two jobs are held under one token.
LockMeansActive ==
    /\ \A j \in JobIds : db.lock[j] # None => Exists(db, j) /\ db.jobs[j].state = "active"
    /\ \A j, k \in JobIds : db.lock[j] # None /\ db.lock[j] = db.lock[k] => j = k

\* fail_job decides on a retry from a copy it read one round trip earlier: when the script
\* takes effect, the decision is still the one the current record calls for.
RetryDecisionIsCurrent ==
    \A c \in Clients :
        client[c].op = "fail" /\ HoldsLock(db, client[c].job, client[c].token) =>
            client[c].retry = (client[c].allowed /\ should_retry(db.jobs[client[c].job]))

\* A parent in waiting_children waits for somebody: a child that exists and has not ended, one
\* that had failed before it was attached and may be retried, or one that is parked and will be
\* created.  Otherwise nothing would ever release it.
NoStrandedParent ==
    \A p \in JobIds : Exists(db, p) /\ db.jobs[p].state = "waiting_children" =>
        \/ \E c \in JobIds : /\ Exists(db, c) /\ db.jobs[c].parent_id = p
                             /\ \/ db.jobs[c].state \notin Terminal
                                \/ db.jobs[c].state = "failed" /\ c \in db.deps[p].pending
        \/ \E d \in DedupIds : db.dedup_next[d] # None /\ db.dedup_next[d].job.parent_id = p

\* No script completes a parent while one of its children is still to run.  (Where an operator
\* retries a finished parent or child by hand, the parent runs without waiting for it again.)
CompleteOnlyAfterChildren ==
    [][\A p \in JobIds :
            /\ Exists(db, p) /\ db.jobs[p].state = "active"
            /\ db'.jobs[p] # None /\ db'.jobs[p].state = "completed"
            => \A c \in ToSet(db.jobs[p].child_ids) :
                    Exists(db, c) /\ db.jobs[c].parent_id = p => db.jobs[c].state \in Terminal]_vars

\* A duplicate parked with keep_last_if_active has a live owner whose end will hand it out.
ParkedHasOwner ==
    \A d \in DedupIds : db.dedup_next[d] # None =>
        /\ db.dedup[d] # None
        /\ Exists(db, db.dedup[d].owner)
        /\ db.jobs[db.dedup[d].owner].state \notin Terminal

\* At most one occurrence of a repeat series is alive, across adds, upserts, completions from
\* stale reads, retries and removals.
RepeatSingleOccurrence ==
    \A j, k \in JobIds :
        /\ Exists(db, j) /\ Exists(db, k) /\ repeat_key(db.jobs[j]) # None
        /\ repeat_key(db.jobs[j]) = repeat_key(db.jobs[k])
        /\ db.jobs[j].state \notin Terminal /\ db.jobs[k].state \notin Terminal
        => j = k

\* While there is work that may be claimed, not every client sleeps without a marker to wake
\* it.  (This is for a queue without limits on active jobs and claims: raising or reaching the
\* end of a limit sets no marker, and a client that gives up after it took one keeps it.)
NoLostWakeup ==
    /\ db.waiting # <<>> /\ ~db.paused /\ db.concurrency = 0
    /\ \E c \in Clients : client[c].op = "block"
    => db.marker # {} \/ \E c \in Clients : client[c].op \in {"claim", "check"}

\* renew_lease extends the lease of whoever holds its token.
RenewExtendsLease ==
    \A c \in Clients : client[c].op = "renewed" /\ client[c].held => client[c].result = "ok"

\* A job whose lock has expired is found by the recovery, one pass after it was marked.
StalledIsRecovered ==
    \A j \in JobIds :
        (Exists(db, j) /\ db.jobs[j].state = "active" /\ db.lock[j] = None) ~>
            ~(Exists(db, j) /\ db.jobs[j].state = "active" /\ db.lock[j] = None)

=============================================================================
