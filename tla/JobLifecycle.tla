---------------------------- MODULE JobLifecycle ----------------------------
(***************************************************************************)
(* What a job queue promises its workers, whatever the backend: the        *)
(* contract of JobQueueBackend (src/job/backend.rs).                       *)
(*                                                                         *)
(* A job is absent, ready to run some time, held under a lease, or done.   *)
(* A lease is granted under a token that was never used before.  It ends   *)
(* by its holder's word, by expiry, or when the whole queue is wiped, and  *)
(* by nothing else.  Only a held job becomes done, and no step that ends a *)
(* lease loses a job that was ready.                                       *)
(***************************************************************************)
EXTENDS Integers

CONSTANTS JobIds, None

VARIABLES
    life,    \* life[j] \in {"absent", "ready", "held", "done"}
    holder,  \* holder[j]: the token under which j is held
    expiry,  \* expiry[j]: when that lease runs out
    granted, \* tokens granted so far: 1 .. granted
    clock,
    caller   \* the token the last step was taken with, None for a step without one

vars == <<life, holder, expiry, granted, clock, caller>>

Init ==
    /\ life = [j \in JobIds |-> "absent"]
    /\ holder = [j \in JobIds |-> None]
    /\ expiry = [j \in JobIds |-> None]
    /\ granted = 0
    /\ clock = 0
    /\ caller = None

\* The lease of j is as it was.
SameLease(j) ==
    /\ holder'[j] = holder[j]
    /\ expiry'[j] = expiry[j]
    /\ (life'[j] = "held") <=> (life[j] = "held")

\* j has no lease any more.
Unheld(j) ==
    /\ holder'[j] = None
    /\ expiry'[j] = None
    /\ life'[j] # "held"

\* j was not run in this step, so it cannot have become done.
NotFinished(j) == life'[j] = "done" => life[j] = "done"

NotDropped(j) == life[j] = "ready" => life'[j] = "ready"

Grant ==
    \E j \in JobIds :
        /\ life[j] = "ready"
        /\ life' = [life EXCEPT ![j] = "held"]
        /\ holder' = [holder EXCEPT ![j] = granted + 1]
        /\ expiry'[j] >= clock
        /\ \A k \in JobIds \ {j} : expiry'[k] = expiry[k]
        /\ granted' = granted + 1
        /\ caller' = None
        /\ UNCHANGED clock

Extend ==
    \E j \in JobIds :
        /\ life[j] = "held" /\ caller' = holder[j]
        /\ UNCHANGED <<life, holder, granted, clock>>
        /\ expiry'[j] >= clock
        /\ \A k \in JobIds \ {j} : expiry'[k] = expiry[k]

\* The leases of the jobs in S end; finished jobs may be pruned, new ones may arrive.
End(S) ==
    /\ \A j \in S : life[j] = "held" /\ Unheld(j)
    /\ \A k \in JobIds \ S : SameLease(k) /\ NotFinished(k) /\ NotDropped(k)
    /\ UNCHANGED <<granted, clock>>

Settle == \E j \in JobIds : caller' = holder[j] /\ End({j})

Recall ==
    \E S \in SUBSET JobIds :
        /\ \A j \in S : life[j] = "held" /\ expiry[j] <= clock
        /\ caller' = None
        /\ End(S)

\* Submission and management touch only jobs that nobody holds.
Manage ==
    /\ \A j \in JobIds : SameLease(j) /\ NotFinished(j)
    /\ caller' = None
    /\ UNCHANGED <<granted, clock>>

Wipe ==
    /\ \A j \in JobIds : Unheld(j) /\ life'[j] = "absent"
    /\ caller' = None
    /\ UNCHANGED <<granted, clock>>

Tick ==
    /\ clock' = clock + 1
    /\ caller' = None
    /\ UNCHANGED <<life, holder, expiry, granted>>

Next == Grant \/ Extend \/ Settle \/ Recall \/ Manage \/ Wipe \/ Tick

Spec == Init /\ [][Next]_vars

=============================================================================
