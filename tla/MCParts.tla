------------------------------ MODULE MCParts ------------------------------
(***************************************************************************)
(* The job worker and the small parts of the library, one of each.  They   *)
(* do not interact: a behaviour is a behaviour of one part, and the        *)
(* variables of the others stay as they are.                               *)
(***************************************************************************)
EXTENDS JobWorker, LocalJobQueue, CommandStorage, PriorityQueue

CONSTANTS
    Nobody, Takers, max_commands, window, MaxClock, MaxGrants,
    Void, Envelopes, num_partitions, ChannelSize,
    BasePriorities, Deadline

VARIABLES
    part,
    limiter, clock, bucket, taker, timestamps, granted,
    counter, partition, channel, worker, results, collected, stopping,
    boost_intervals, base_priority, time_remaining

Limiter == INSTANCE RateLimiter
Pool == INSTANCE WorkerPool
Booster == INSTANCE PriorityBooster

\* The initial values of a part that takes no steps are those of one of its initial states.
PartsInit ==
    /\ part \in {"worker", "local", "storage", "limiter", "pool", "heap", "booster"}
    /\ Init /\ LocalInit /\ StorageInit /\ Pool!Init /\ HeapInit
    /\ Limiter!Init /\ (part # "limiter" => limiter = "TokenBucket")
    /\ Booster!Init /\ (part # "booster" => boost_intervals = Booster!Off
                                            /\ \A p \in BasePriorities : base_priority <= p)

Only(p) ==
    /\ part = p /\ UNCHANGED part
    /\ p # "worker" => UNCHANGED <<queue, claims, run, registry, renewer, recovery, shutdown>>
    /\ p # "local" => UNCHANGED <<memory, files, call, acked>>
    /\ p # "storage" => UNCHANGED <<cache, file, op, reader, behind>>
    /\ p # "limiter" => UNCHANGED <<limiter, clock, bucket, taker, timestamps, granted>>
    /\ p # "pool" =>
        UNCHANGED <<counter, partition, channel, worker, results, collected, stopping>>
    /\ p # "heap" => UNCHANGED <<entries, next_sequence, held, arrivals>>
    /\ p # "booster" => UNCHANGED <<boost_intervals, base_priority, time_remaining>>

PartsNext ==
    \/ Only("worker") /\ Next
    \/ Only("local") /\ LocalNext
    \/ Only("storage") /\ StorageNext
    \/ Only("limiter") /\ Limiter!Next
    \/ Only("pool") /\ Pool!Next
    \/ Only("heap") /\ HeapNext
    \/ Only("booster") /\ Booster!Next

all_vars ==
    <<part, vars, local_vars, storage_vars, Limiter!limiter_vars, Pool!pool_vars,
      heap_vars, Booster!boost_vars>>

\* The loops of the worker are to run only where the behaviour is one of the worker; the pool is
\* not started in the others.
WorkerFairness ==
    /\ \A r \in Runners : WF_vars(part = "worker" /\ Iterate(r))
    /\ WF_vars(part = "worker" /\ Renew)
    /\ WF_vars(part = "worker" /\ Recover)

PartsSpec == PartsInit /\ [][PartsNext]_all_vars /\ WorkerFairness /\ Pool!Fairness

-----------------------------------------------------------------------------
(***************************************************************************)
(* The properties of the parts that are instances; the others are those of *)
(* the modules that are extended.                                          *)
(***************************************************************************)
\* The rate limiters: never more permissions than capacity, time and window allow.
PermissionsKeepRate == Limiter!PermissionsKeepRate

\* WorkerPool: a command taken by a worker is answered, and shutdown() returns.
PoolFinishes == Pool!PoolFinishes

\* PriorityBooster: a command never loses urgency as its deadline approaches.
UrgencyGrows == Booster!UrgencyGrows

=============================================================================
