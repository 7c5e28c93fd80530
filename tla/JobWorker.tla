----------------------------- MODULE JobWorker -----------------------------
(***************************************************************************)
(* JobWorker of src/job/worker.rs: run loops that share one registry of    *)
(* leases and one renewal loop, callers of run_once, each of which renews  *)
(* its own lease, a recovery loop, and the handle that shuts them down.    *)
(*                                                                         *)
(* The backend is the one of JobQueueBackend, reduced to its lease         *)
(* contract: a token settles or renews a job as long as the job is held    *)
(* under it, even past its expiry, until a recovery takes the job back.    *)
(* Delays, retries and blocking claims take no time; other workers may     *)
(* recover and run jobs of the same queue.                                 *)
(*                                                                         *)
(* Every loop looks at the flag and then awaits the backend, so that it    *)
(* may still claim, renew or recover after shutdown was requested.         *)
(***************************************************************************)
EXTENDS Integers, FiniteSets

CONSTANTS
    Jobs,         \* jobs in the queue at the start
    Loops,        \* the run loops of start()
    Callers,      \* tasks that call run_once
    None,
    MaxClaims,    \* bound on the claims
    BackendErrors \* whether the backend may fail to answer a renewal, a settlement or a recovery

Runners == Loops \cup Callers

ASSUME WorkerAssumption ==
    /\ Loops \cap Callers = {}
    /\ None \notin Jobs \cup Runners \cup Nat
    /\ MaxClaims \in Nat /\ BackendErrors \in BOOLEAN

VARIABLES
    queue,     \* queue[j]: the job in the backend
    claims,    \* lock tokens drawn so far: 1 .. claims
    run,       \* run[r]: the iteration that r is in
    registry,  \* active_leases: the token registered for a job id
    renewer,   \* the renewal loop and the batch it is renewing
    recovery,  \* the recovery loop
    shutdown   \* the flag of the handle

vars == <<queue, claims, run, registry, renewer, recovery, shutdown>>

\* A job is ready, held under a token, or done; it may carry a deferred failure.
Job(state, token, deferred) ==
    [state |-> state, token |-> token, expired |-> FALSE, deferred |-> deferred]

Idle == [pc |-> "idle", job |-> None, token |-> None, lost |-> FALSE]

Asleep == [pc |-> "asleep", batch |-> {}, failed |-> {}]

\* The results of a processor; a timeout is an error, `discard` one that may not be retried.
Results == {"ok", "error", "discard"}

Init ==
    /\ queue \in [Jobs -> {Job("ready", None, d) : d \in BOOLEAN}]
    /\ claims = 0
    /\ run = [r \in Runners |-> Idle]
    /\ registry = [j \in Jobs |-> None]
    /\ renewer = Asleep
    /\ recovery = "asleep"
    /\ shutdown = FALSE

-----------------------------------------------------------------------------
(***************************************************************************)
(* The backend.                                                            *)
(***************************************************************************)
Ready(j) == Job("ready", None, queue[j].deferred)
Done(j) == Job("done", None, queue[j].deferred)

Holds(j, t) == queue[j].state = "held" /\ queue[j].token = t

\* complete_job, fail_job and fail_job_discarding_retry; a stale token is refused.
Settled(j, t, result) ==
    (IF ~Holds(j, t) \/ BackendErrors THEN {queue} ELSE {})
    \cup (IF Holds(j, t) THEN {[queue EXCEPT ![j] = Done(j)]} ELSE {})
    \cup (IF Holds(j, t) /\ result = "error" THEN {[queue EXCEPT ![j] = Ready(j)]} ELSE {})

Renewed(S) == [j \in Jobs |-> IF j \in S THEN [queue[j] EXCEPT !.expired = FALSE] ELSE queue[j]]

Expire == \E j \in Jobs :
    /\ queue[j].state = "held" /\ ~queue[j].expired
    /\ queue' = [queue EXCEPT ![j].expired = TRUE]
    /\ UNCHANGED <<claims, run, registry, renewer, recovery, shutdown>>

\* Another worker takes a ready job through to its end, or recovers an expired one.
OtherWorker == \E j \in Jobs :
    /\ \/ queue[j] = Ready(j) /\ queue' = [queue EXCEPT ![j] = Done(j)]
       \/ queue[j].expired /\ queue' = [queue EXCEPT ![j] = Ready(j)]
    /\ UNCHANGED <<claims, run, registry, renewer, recovery, shutdown>>

-----------------------------------------------------------------------------
(***************************************************************************)
(* One iteration: run_loop_once, or run_once of a caller.                  *)
(***************************************************************************)
\* `while !shutdown`: a loop looks at the flag before it awaits promote_due_jobs and the claim.
run_loop(l) ==
    /\ run[l] = Idle /\ ~shutdown
    /\ run' = [run EXCEPT ![l].pc = "claiming"]
    /\ UNCHANGED <<queue, claims, registry, renewer, recovery, shutdown>>

\* run_once looks at no flag.
MayClaim(r) == IF r \in Loops THEN run[r].pc = "claiming" ELSE run[r] = Idle

\* The claim comes back with a job, however long it blocked.
claim_next_blocking(r) == \E j \in Jobs :
    /\ MayClaim(r) /\ claims < MaxClaims
    /\ queue[j] = Ready(j)
    /\ queue' = [queue EXCEPT ![j] = Job("held", claims + 1, queue[j].deferred)]
    /\ claims' = claims + 1
    /\ run' = [run EXCEPT ![r] = [Idle EXCEPT !.pc = "claimed", !.job = j, !.token = claims + 1]]
    /\ UNCHANGED <<registry, renewer, recovery, shutdown>>

\* NoJob, or an error of the backend: the loop looks at the flag again.
claim_nothing(l) ==
    /\ run[l].pc = "claiming"
    /\ run' = [run EXCEPT ![l] = Idle]
    /\ UNCHANGED <<queue, claims, registry, renewer, recovery, shutdown>>

\* A deferred failure is settled without the processor.
fail_deferred(r) ==
    /\ run[r].pc = "claimed" /\ queue[run[r].job].deferred
    /\ queue' \in Settled(run[r].job, run[r].token, "discard")
    /\ run' = [run EXCEPT ![r] = Idle]
    /\ UNCHANGED <<claims, registry, renewer, recovery, shutdown>>

\* The registry is keyed by the job's id.
register_active_lease(r) ==
    /\ run[r].pc = "claimed" /\ ~queue[run[r].job].deferred
    /\ registry' = IF r \in Loops THEN [registry EXCEPT ![run[r].job] = run[r].token] ELSE registry
    /\ run' = [run EXCEPT ![r].pc = "processing"]
    /\ UNCHANGED <<queue, claims, renewer, recovery, shutdown>>

\* JobContext::renew_lease, by the processor or by the renewer of a run_once.
renew_lease(r) ==
    LET j == run[r].job IN
    /\ run[r].pc \in {"processing"} \cup (IF r \in Callers THEN {"panicked"} ELSE {})
    /\ ~run[r].lost
    /\ IF Holds(j, run[r].token)
       THEN queue' = Renewed({j}) /\ UNCHANGED run
       ELSE run' = [run EXCEPT ![r].lost = TRUE] /\ UNCHANGED queue
    /\ UNCHANGED <<claims, registry, renewer, recovery, shutdown>>

\* The processor returns: has_lost_lease decides whether the result is used.
process_with_timeout(r) ==
    /\ run[r].pc = "processing"
    /\ run' = [run EXCEPT ![r].pc = IF run[r].lost THEN "stopping" ELSE "settling"]
    /\ UNCHANGED <<queue, claims, registry, renewer, recovery, shutdown>>

\* The backend is told the result, unless it refuses the token.
settle(r) == \E result \in Results :
    /\ run[r].pc = "settling"
    /\ queue' \in Settled(run[r].job, run[r].token, result)
    /\ run' = [run EXCEPT ![r].pc = "stopping"]
    /\ UNCHANGED <<claims, registry, renewer, recovery, shutdown>>

\* Fault: a lost lease is left to the renewal loop.
stop_lease_renewal_if_owned(r) ==
    /\ run[r].pc = "stopping"
    /\ registry' = IF r \in Loops /\ ~run[r].lost THEN [registry EXCEPT ![run[r].job] = None]
                   ELSE registry
    /\ run' = [run EXCEPT ![r] = Idle]
    /\ UNCHANGED <<queue, claims, renewer, recovery, shutdown>>

\* stop_lease_renewal: unregister whatever is registered for the job's id.
stop_lease_renewal(r) ==
    /\ run[r].pc = "stopping"
    /\ registry' = IF r \in Loops THEN [registry EXCEPT ![run[r].job] = None] ELSE registry
    /\ run' = [run EXCEPT ![r] = Idle]
    /\ UNCHANGED <<queue, claims, renewer, recovery, shutdown>>

\* The processor panics: the task unwinds past stop_lease_renewal, and the lease stays in the
\* registry or with the detached renewer of a run_once.
Panic(r) ==
    /\ run[r].pc = "processing"
    /\ run' = [run EXCEPT ![r].pc = "panicked"]
    /\ UNCHANGED <<queue, claims, registry, renewer, recovery, shutdown>>

run_loop_ends(r) ==
    /\ r \in Loops /\ shutdown /\ run[r] = Idle
    /\ run' = [run EXCEPT ![r].pc = "ended"]
    /\ UNCHANGED <<queue, claims, registry, renewer, recovery, shutdown>>

-----------------------------------------------------------------------------
(***************************************************************************)
(* lease_renewal_loop: copy the registry, ask the backend, mark what it    *)
(* refused; or, with an empty copy, look at the flag.  The run loops go on *)
(* in between.                                                             *)
(***************************************************************************)
Registered == {j \in Jobs : registry[j] # None}

active_lease_renewals ==
    /\ renewer.pc = "asleep"
    /\ renewer' = [Asleep EXCEPT !.pc = "renewing",
                                 !.batch = {[job |-> j, token |-> registry[j]] : j \in Registered}]
    /\ UNCHANGED <<queue, claims, run, registry, recovery, shutdown>>

\* Fault: an empty registry is skipped without a look at the flag.
nothing_to_renew_forever ==
    /\ renewer.pc = "renewing" /\ renewer.batch = {}
    /\ renewer' = Asleep
    /\ UNCHANGED <<queue, claims, run, registry, recovery, shutdown>>

nothing_to_renew ==
    /\ renewer.pc = "renewing" /\ renewer.batch = {}
    /\ renewer' = IF shutdown THEN [Asleep EXCEPT !.pc = "ended"] ELSE Asleep
    /\ UNCHANGED <<queue, claims, run, registry, recovery, shutdown>>

renew_leases ==
    LET kept == {b.job : b \in {x \in renewer.batch : Holds(x.job, x.token)}}
        all == {b.job : b \in renewer.batch}
    IN  /\ renewer.pc = "renewing" /\ renewer.batch # {}
        /\ \/ /\ queue' = Renewed(kept)
              /\ renewer' = [Asleep EXCEPT !.pc = "marking", !.failed = all \ kept]
           \/ /\ BackendErrors
              /\ renewer' = [Asleep EXCEPT !.pc = "marking", !.failed = all]
              /\ UNCHANGED queue
        /\ UNCHANGED <<claims, run, registry, recovery, shutdown>>

\* mark_lost_leases: the flag of the lease that is registered for the id now.
mark_lost_leases ==
    /\ renewer.pc = "marking"
    /\ run' = [r \in Runners |->
                  IF r \in Loops /\ \E j \in renewer.failed : registry[j] # None /\ registry[j] = run[r].token
                  THEN [run[r] EXCEPT !.lost = TRUE] ELSE run[r]]
    /\ renewer' = Asleep
    /\ UNCHANGED <<queue, claims, registry, recovery, shutdown>>

-----------------------------------------------------------------------------
(***************************************************************************)
(* recovery_loop and the handle.                                           *)
(***************************************************************************)
recovery_loop ==
    /\ recovery = "asleep"
    /\ recovery' = IF shutdown THEN "ended" ELSE "recovering"
    /\ UNCHANGED <<queue, claims, run, registry, renewer, shutdown>>

\* A job that stalled too often is failed, any other is ready again.
recover_stalled ==
    LET stalled == {j \in Jobs : queue[j].expired} IN
    /\ recovery = "recovering" /\ recovery' = "asleep"
    /\ \/ \E failed \in SUBSET stalled :
            queue' = [j \in Jobs |-> IF j \in failed THEN Done(j)
                                     ELSE IF j \in stalled THEN Ready(j) ELSE queue[j]]
       \/ BackendErrors /\ UNCHANGED queue
    /\ UNCHANGED <<claims, run, registry, renewer, shutdown>>

request_shutdown ==
    /\ ~shutdown
    /\ shutdown' = TRUE
    /\ UNCHANGED <<queue, claims, run, registry, renewer, recovery>>

\* What shutdown() joins.
JoinedAll ==
    /\ \A l \in Loops : run[l].pc \in {"ended", "panicked"}
    /\ renewer.pc = "ended"
    /\ recovery = "ended"

-----------------------------------------------------------------------------
Iterate(r) ==
    \/ claim_next_blocking(r) \/ claim_nothing(r)
    \/ fail_deferred(r) \/ register_active_lease(r) \/ process_with_timeout(r) \/ settle(r)
    \/ stop_lease_renewal(r) \/ run_loop_ends(r)

Renew == active_lease_renewals \/ nothing_to_renew \/ renew_leases \/ mark_lost_leases

Recover == recovery_loop \/ recover_stalled

Next ==
    \/ \E l \in Loops : run_loop(l)
    \/ \E r \in Runners : Iterate(r) \/ renew_lease(r) \/ Panic(r)
    \/ Renew \/ Recover \/ request_shutdown
    \/ Expire \/ OtherWorker

Spec == Init /\ [][Next]_vars

\* Processors return, the backend answers, tasks are scheduled, and the renewal and recovery
\* loops wake up to see the flag.
Fairness ==
    /\ \A r \in Runners : WF_vars(Iterate(r))
    /\ WF_vars(Renew)
    /\ WF_vars(Recover)

FairSpec == Spec /\ Fairness

-----------------------------------------------------------------------------
(***************************************************************************)
(* Properties.                                                             *)
(***************************************************************************)
\* Every registered lease belongs to a run loop that is still working under it: the renewal
\* loop keeps no job alive that nobody works on, however its processing ended.  (The lease of
\* a processor that panicked does stay registered.)
RegisteredIsWorkedOn ==
    \A j \in Jobs : registry[j] # None =>
        \E l \in Loops : /\ run[l].job = j /\ run[l].token = registry[j]
                         /\ run[l].pc \in {"processing", "settling", "stopping", "panicked"}

\* A processor panicked over a lease that is still registered.
Leaked == \E l \in Loops : run[l].pc = "panicked" /\ registry[run[l].job] = run[l].token

\* shutdown() returns: every loop that it joins comes to its end, also one that was past its
\* look at the flag and claims, registers and processes a job after the renewal loop has ended.
\* Only a lease that a panic leaves in the registry for good keeps the renewal loop, and with
\* it shutdown(), from ending.
ShutdownReturns == <>[]shutdown => []<>JoinedAll \/ <>[]Leaked

=============================================================================
