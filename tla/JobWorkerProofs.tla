-------------------------- MODULE JobWorkerProofs --------------------------
(***************************************************************************)
(* The registry of leases of the job worker, for every set of jobs, run    *)
(* loops and callers, whatever the backend, the recovery and other workers *)
(* do to the jobs in the meantime.                                         *)
(***************************************************************************)
EXTENDS JobWorker, TLAPS

Tokens == Nat \cup {None}

Iteration ==
    [pc : {"idle", "claiming", "claimed", "processing", "settling", "stopping", "panicked", "ended"},
     job : Jobs \cup {None}, token : Tokens, lost : BOOLEAN]

TypeInv ==
    /\ claims \in Nat
    /\ run \in [Runners -> Iteration]
    /\ registry \in [Jobs -> Tokens]

\* An iteration holds a job under a token that was drawn, or neither.
Working == {"claimed", "processing", "settling", "stopping", "panicked"}

TokensDrawn ==
    \A r \in Runners :
        /\ run[r].pc \in Working => /\ run[r].job \in Jobs
                                    /\ run[r].token \in 1 .. claims
        /\ run[r].pc \notin Working => run[r].token = None

\* No two iterations work under one token, so that mark_lost_leases flags the iteration whose
\* lease was lost and no other.
TokensUnique ==
    \A r, s \in Runners : run[r].token # None /\ run[r].token = run[s].token => r = s

Inv == TypeInv /\ TokensDrawn /\ TokensUnique /\ RegisteredIsWorkedOn

-----------------------------------------------------------------------------
\* A step that changes no token, no job and no registration, and keeps every working
\* iteration working.
LEMMA KeepsWorking ==
    ASSUME Inv, TypeInv', claims' = claims, registry' = registry,
           \A r \in Runners :
               \/ run'[r] = run[r]
               \/ /\ run[r].pc \in {"processing", "settling", "stopping", "panicked"}
                  /\ run'[r].pc \in {"processing", "settling", "stopping", "panicked"}
                  /\ run'[r].job = run[r].job /\ run'[r].token = run[r].token
               \/ /\ run[r].pc \in {"idle", "claiming"}
                  /\ run'[r].pc \in {"idle", "claiming", "ended"}
                  /\ run'[r].token = run[r].token
    PROVE  Inv'
<1>1. \A r \in Runners :
         /\ run'[r].token = run[r].token
         /\ run[r].pc \in Working => run'[r].pc \in Working /\ run'[r].job = run[r].job
         /\ run[r].pc \notin Working => run'[r].pc \notin Working
         /\ run[r].pc \in {"processing", "settling", "stopping", "panicked"} =>
               run'[r].pc \in {"processing", "settling", "stopping", "panicked"}
  BY DEF Working, Inv, TypeInv, Iteration
<1>2. TokensDrawn'
  BY <1>1 DEF Inv, TokensDrawn, Working
<1>3. TokensUnique'
  BY <1>1 DEF Inv, TokensUnique
<1>4. RegisteredIsWorkedOn'
  BY <1>1 DEF Inv, RegisteredIsWorkedOn, Runners, Working
<1> QED
  BY <1>2, <1>3, <1>4 DEF Inv

\* A claim draws a new token, for an iteration that had none.
LEMMA ClaimInv ==
    ASSUME Inv, NEW r \in Runners, claim_next_blocking(r)
    PROVE  Inv'
<1>1. PICK j \in Jobs :
         run' = [run EXCEPT ![r] = [Idle EXCEPT !.pc = "claimed", !.job = j, !.token = claims + 1]]
  BY DEF claim_next_blocking
<1>2. /\ run[r].pc \in {"idle", "claiming"}
      /\ claims' = claims + 1 /\ registry' = registry /\ claims \in Nat
  BY DEF claim_next_blocking, MayClaim, Idle, Inv, TypeInv
<1>3. /\ run'[r].pc = "claimed" /\ run'[r].job = j /\ run'[r].token = claims + 1
      /\ \A s \in Runners : s # r => run'[s] = run[s]
  BY <1>1 DEF Idle, Inv, TypeInv
<1>4. TypeInv'
  <2>1. claims + 1 \in Nat
    BY <1>2
  <2>2. [Idle EXCEPT !.pc = "claimed", !.job = j, !.token = claims + 1] \in Iteration
    BY <2>1 DEF Idle, Iteration, Tokens
  <2>3. run' \in [Runners -> Iteration]
    BY <1>1, <2>2 DEF Inv, TypeInv
  <2> QED
    BY <1>2, <2>1, <2>3 DEF Inv, TypeInv
<1>5. TokensDrawn'
  BY <1>2, <1>3 DEF Inv, TokensDrawn, Working
<1>6. TokensUnique'
  <2>1. \A s \in Runners : s # r => run'[s].token # claims + 1
    BY <1>2, <1>3, WorkerAssumption DEF Inv, TokensDrawn
  <2> QED
    BY <1>3, <2>1 DEF Inv, TokensUnique
<1>7. RegisteredIsWorkedOn'
  BY <1>2, <1>3 DEF Inv, RegisteredIsWorkedOn, Runners
<1> QED
  BY <1>4, <1>5, <1>6, <1>7 DEF Inv

\* An iteration that ends gives its token up; its registration is gone, or was never made.
LEMMA EndInv ==
    ASSUME Inv, NEW r \in Runners, run' = [run EXCEPT ![r] = Idle], claims' = claims,
           \/ run[r].pc = "claimed" /\ registry' = registry
           \/ /\ run[r].pc = "stopping"
              /\ registry' = IF r \in Loops THEN [registry EXCEPT ![run[r].job] = None] ELSE registry
    PROVE  Inv'
<1>1. /\ run'[r] = Idle /\ \A s \in Runners : s # r => run'[s] = run[s]
      /\ run[r].job \in Jobs
  BY DEF Inv, TypeInv, TokensDrawn, Working
<1>2. TypeInv'
  BY <1>1 DEF Inv, TypeInv, Iteration, Idle, Tokens
<1>3. TokensDrawn' /\ TokensUnique'
  BY <1>1 DEF Inv, TokensDrawn, TokensUnique, Working, Idle
<1>4. RegisteredIsWorkedOn'
  <2> SUFFICES ASSUME NEW j \in Jobs, registry'[j] # None
               PROVE  \E l \in Loops :
                         /\ run'[l].job = j /\ run'[l].token = registry'[j]
                         /\ run'[l].pc \in {"processing", "settling", "stopping", "panicked"}
    BY DEF RegisteredIsWorkedOn
  <2>1. registry'[j] = registry[j]
    BY <1>1 DEF Inv, TypeInv
  <2>2. PICK l \in Loops :
          /\ run[l].job = j /\ run[l].token = registry[j]
          /\ run[l].pc \in {"processing", "settling", "stopping", "panicked"}
    BY <2>1 DEF Inv, RegisteredIsWorkedOn
  <2>3. l # r
    BY <2>1, <2>2 DEF Inv, TypeInv
  <2> QED
    BY <1>1, <2>1, <2>2, <2>3 DEF Runners
<1> QED
  BY <1>2, <1>3, <1>4 DEF Inv

\* A run loop registers the lease that it works under.
LEMMA RegisterInv ==
    ASSUME Inv, NEW r \in Runners, register_active_lease(r)
    PROVE  Inv'
<1>1. /\ run[r].pc = "claimed" /\ run[r].job \in Jobs /\ run[r].token \in 1 .. claims
      /\ claims' = claims /\ claims \in Nat
      /\ run'[r].pc = "processing" /\ run'[r].job = run[r].job /\ run'[r].token = run[r].token
      /\ \A s \in Runners : s # r => run'[s] = run[s]
  BY DEF register_active_lease, Inv, TypeInv, TokensDrawn, Working, Iteration
<1>2. registry' = IF r \in Loops THEN [registry EXCEPT ![run[r].job] = run[r].token] ELSE registry
  BY DEF register_active_lease
<1>3. TypeInv'
  <2>1. run' \in [Runners -> Iteration]
    BY DEF register_active_lease, Inv, TypeInv, Iteration
  <2>2. run[r].token \in Tokens
    BY DEF Inv, TypeInv, Iteration
  <2> QED
    BY <1>1, <1>2, <2>1, <2>2 DEF Inv, TypeInv
<1>4. TokensDrawn'
  BY <1>1 DEF Inv, TokensDrawn, Working
<1>5. TokensUnique'
  <2>1. \A s \in Runners : run'[s].token = run[s].token
    BY <1>1
  <2> QED
    BY <2>1 DEF Inv, TokensUnique
<1>6. RegisteredIsWorkedOn'
  <2> SUFFICES ASSUME NEW j \in Jobs, registry'[j] # None
               PROVE  \E l \in Loops :
                         /\ run'[l].job = j /\ run'[l].token = registry'[j]
                         /\ run'[l].pc \in {"processing", "settling", "stopping", "panicked"}
    BY DEF RegisteredIsWorkedOn
  <2>1. CASE r \in Loops /\ j = run[r].job
    BY <1>1, <1>2, <2>1 DEF Inv, TypeInv
  <2>2. CASE ~(r \in Loops /\ j = run[r].job)
    <3>1. registry'[j] = registry[j]
      BY <1>1, <1>2, <2>2 DEF Inv, TypeInv
    <3>2. PICK l \in Loops :
            /\ run[l].job = j /\ run[l].token = registry[j]
            /\ run[l].pc \in {"processing", "settling", "stopping", "panicked"}
      BY <3>1 DEF Inv, RegisteredIsWorkedOn
    <3> QED
      BY <1>1, <3>1, <3>2 DEF Runners
  <2> QED
    BY <2>1, <2>2
<1> QED
  BY <1>3, <1>4, <1>5, <1>6 DEF Inv

\* Every step keeps the invariant.
LEMMA NextInv ==
    ASSUME Inv, [Next]_vars
    PROVE  Inv'
<1>1. CASE UNCHANGED <<claims, run, registry>>
  BY <1>1, KeepsWorking DEF Inv, TypeInv
<1>2. ASSUME NEW r \in Runners, claim_next_blocking(r) PROVE Inv'
  BY <1>2, ClaimInv
<1>3. ASSUME NEW r \in Runners, fail_deferred(r) PROVE Inv'
  BY <1>3, EndInv DEF fail_deferred
<1>4. ASSUME NEW r \in Runners, register_active_lease(r) PROVE Inv'
  BY <1>4, RegisterInv
<1>5. ASSUME NEW r \in Runners, stop_lease_renewal(r) PROVE Inv'
  BY <1>5, EndInv DEF stop_lease_renewal
<1>6. ASSUME NEW r \in Runners,
             \/ process_with_timeout(r) \/ settle(r) \/ Panic(r) \/ renew_lease(r)
             \/ run_loop(r) \/ claim_nothing(r) \/ run_loop_ends(r)
      PROVE  Inv'
  <2>1. \/ run' = run
        \/ /\ run[r].pc \in {"processing", "settling", "stopping", "panicked"}
           /\ \/ \E p \in {"settling", "stopping", "panicked"} : run' = [run EXCEPT ![r].pc = p]
              \/ run' = [run EXCEPT ![r].lost = TRUE]
        \/ /\ run[r] = Idle
           /\ \E p \in {"claiming", "ended"} : run' = [run EXCEPT ![r].pc = p]
        \/ run[r].pc = "claiming" /\ run' = [run EXCEPT ![r] = Idle]
    BY <1>6 DEF process_with_timeout, settle, Panic, run_loop, claim_nothing, run_loop_ends,
                renew_lease
  <2>2. claims' = claims /\ registry' = registry
    BY <1>6 DEF process_with_timeout, settle, Panic, run_loop, claim_nothing, run_loop_ends,
                renew_lease
  <2>3. run' \in [Runners -> Iteration]
    <3>1. \A p \in {"claiming", "settling", "stopping", "panicked", "ended"} :
             [run EXCEPT ![r].pc = p] \in [Runners -> Iteration]
      BY DEF Inv, TypeInv, Iteration
    <3>2. [run EXCEPT ![r].lost = TRUE] \in [Runners -> Iteration]
      BY DEF Inv, TypeInv, Iteration
    <3>3. [run EXCEPT ![r] = Idle] \in [Runners -> Iteration]
      BY DEF Inv, TypeInv, Iteration, Idle, Tokens
    <3> QED
      BY <2>1, <3>1, <3>2, <3>3 DEF Inv, TypeInv
  <2>4. \A s \in Runners : s # r => run'[s] = run[s]
    BY <2>1 DEF Inv, TypeInv
  <2>5. \/ run'[r] = run[r]
        \/ /\ run[r].pc \in {"processing", "settling", "stopping", "panicked"}
           /\ run'[r].pc \in {"processing", "settling", "stopping", "panicked"}
           /\ run'[r].job = run[r].job /\ run'[r].token = run[r].token
        \/ /\ run[r].pc \in {"idle", "claiming"} /\ run'[r].pc \in {"idle", "claiming", "ended"}
           /\ run'[r].token = run[r].token
    BY <2>1 DEF Inv, TypeInv, TokensDrawn, Working, Iteration, Idle
  <2> QED
    BY <2>2, <2>3, <2>4, <2>5, KeepsWorking DEF Inv, TypeInv
<1>7. CASE mark_lost_leases
  <2>1. claims' = claims /\ registry' = registry
    BY <1>7 DEF mark_lost_leases
  <2>2. run' \in [Runners -> Iteration]
        /\ \A r \in Runners : run'[r] = run[r] \/ run'[r] = [run[r] EXCEPT !.lost = TRUE]
    BY <1>7 DEF mark_lost_leases, Inv, TypeInv, Iteration
  <2>3. \A r \in Runners : /\ run'[r].pc = run[r].pc
                           /\ run'[r].job = run[r].job /\ run'[r].token = run[r].token
    BY <2>2 DEF Inv, TypeInv, Iteration
  <2>4. TypeInv'
    BY <2>1, <2>2 DEF Inv, TypeInv
  <2> QED
    BY <2>1, <2>3, <2>4 DEF Inv, TokensDrawn, TokensUnique, RegisteredIsWorkedOn, Runners
<1>8. \/ active_lease_renewals \/ nothing_to_renew \/ renew_leases \/ recovery_loop
      \/ recover_stalled \/ request_shutdown \/ Expire \/ OtherWorker
      => UNCHANGED <<claims, run, registry>>
  BY DEF active_lease_renewals, nothing_to_renew, renew_leases, recovery_loop,
         recover_stalled, request_shutdown, Expire, OtherWorker
<1>9. CASE UNCHANGED vars
  BY <1>1, <1>9 DEF vars
<1> QED
  BY <1>1, <1>2, <1>3, <1>4, <1>5, <1>6, <1>7, <1>8, <1>9 DEF Next, Iterate, Renew, Recover, Runners

-----------------------------------------------------------------------------
\* The invariant holds in every state.
LEMMA Invariance == Spec => []Inv
<1>1. Init => Inv
  BY DEF Init, Inv, TypeInv, Iteration, Idle, Tokens, TokensDrawn, TokensUnique, Working,
         RegisteredIsWorkedOn
<1> QED
  BY <1>1, NextInv, PTL DEF Spec

\* The renewal loop keeps no job alive that no run loop works on: every token it finds in the
\* registry is the token of a loop that still processes the job, settles it, is about to
\* unregister it, or panicked over it.
THEOREM RegistryIsWorkedOn == Spec => []RegisteredIsWorkedOn
BY Invariance, PTL DEF Inv

\* No token is worked under by two iterations, those of run_once included.
THEOREM OneWorkerPerToken == Spec => []TokensUnique
BY Invariance, PTL DEF Inv

=============================================================================
