----------------------------- MODULE WorkerPool -----------------------------
(***************************************************************************)
(* LocalDistributedQueue and WorkerPool of src/distributed.rs, with the    *)
(* round-robin partitioner of src/partition.rs: one bounded channel and    *)
(* one worker per partition, and one bounded channel for the results.      *)
(***************************************************************************)
EXTENDS Integers, Sequences, SequencesExt

CONSTANTS
    Envelopes,       \* commands to be submitted
    num_partitions,
    ChannelSize,     \* of a partition's channel and of the result channel
    Void

VARIABLES
    counter,      \* of the RoundRobinPartitioner
    partition,    \* partition[e]: the partition an envelope was given, or Void
    channel,      \* channel[p]: the envelopes in the channel of partition p
    worker,       \* worker[p]: the task of partition p
    results,      \* the result channel
    collected,    \* the results the coordinator has received
    stopping      \* the shutdown flag

pool_vars == <<counter, partition, channel, worker, results, collected, stopping>>

Partitions == 0 .. num_partitions - 1
Unstarted == [pc |-> "unstarted", envelope |-> Void]
Looking == [pc |-> "looking", envelope |-> Void]
Receiving == [pc |-> "receiving", envelope |-> Void]
Ended == [pc |-> "ended", envelope |-> Void]

Init ==
    /\ counter = 0
    /\ partition = [e \in Envelopes |-> Void]
    /\ channel = [p \in Partitions |-> <<>>]
    /\ worker = [p \in Partitions |-> Unstarted]
    /\ results = <<>> /\ collected = <<>>
    /\ stopping = FALSE

-----------------------------------------------------------------------------
\* partition() of the round-robin partitioner, for an envelope that is new.
partition_of(e) ==
    /\ partition[e] = Void
    /\ partition' = [partition EXCEPT ![e] = counter % num_partitions]
    /\ counter' = counter + 1
    /\ UNCHANGED <<channel, worker, results, collected, stopping>>

Sent == {e \in Envelopes : \E p \in Partitions : e \in ToSet(channel[p]) \/ worker[p].envelope = e}
        \cup ToSet(results) \cup ToSet(collected)

\* send waits for room in the channel.
enqueue(e) ==
    /\ partition[e] # Void /\ e \notin Sent
    /\ Len(channel[partition[e]]) < ChannelSize
    /\ channel' = [channel EXCEPT ![partition[e]] = Append(@, e)]
    /\ UNCHANGED <<counter, partition, worker, results, collected, stopping>>

\* start spawns the worker of every partition; it is called once.
start ==
    /\ \A p \in Partitions : worker[p] = Unstarted
    /\ worker' = [p \in Partitions |-> Looking]
    /\ UNCHANGED <<counter, partition, channel, results, collected, stopping>>

\* An iteration of the worker begins with the flag ...
look(p) ==
    /\ worker[p] = Looking
    /\ worker' = [worker EXCEPT ![p] = IF stopping THEN Ended ELSE Receiving]
    /\ UNCHANGED <<counter, partition, channel, results, collected, stopping>>

\* ... and goes on with try_recv, also when the flag has been set in between.
dequeue(p) ==
    /\ worker[p] = Receiving
    /\ IF channel[p] # <<>>
       THEN /\ worker' = [worker EXCEPT ![p] = [pc |-> "executing", envelope |-> Head(channel[p])]]
            /\ channel' = [channel EXCEPT ![p] = Tail(@)]
       ELSE worker' = [worker EXCEPT ![p] = Looking] /\ UNCHANGED channel
    /\ UNCHANGED <<counter, partition, results, collected, stopping>>

execute(p) ==
    /\ worker[p].pc = "executing"
    /\ worker' = [worker EXCEPT ![p].pc = "completing"]
    /\ UNCHANGED <<counter, partition, channel, results, collected, stopping>>

\* Fault: a result for which there is no room is dropped.
complete_or_drop(p) ==
    /\ worker[p].pc = "completing"
    /\ results' = IF Len(results) < ChannelSize THEN Append(results, worker[p].envelope) ELSE results
    /\ worker' = [worker EXCEPT ![p] = Looking]
    /\ UNCHANGED <<counter, partition, channel, collected, stopping>>

\* complete waits for room in the result channel.
complete(p) ==
    /\ worker[p].pc = "completing" /\ Len(results) < ChannelSize
    /\ results' = Append(results, worker[p].envelope)
    /\ worker' = [worker EXCEPT ![p] = Looking]
    /\ UNCHANGED <<counter, partition, channel, collected, stopping>>

\* The coordinator receives a result.
collect ==
    /\ results # <<>>
    /\ collected' = Append(collected, Head(results))
    /\ results' = Tail(results)
    /\ UNCHANGED <<counter, partition, channel, worker, stopping>>

shutdown ==
    /\ ~stopping
    /\ stopping' = TRUE
    /\ UNCHANGED <<counter, partition, channel, worker, results, collected>>

Work(p) == look(p) \/ dequeue(p) \/ execute(p) \/ complete(p)

Next ==
    \/ \E e \in Envelopes : partition_of(e) \/ enqueue(e)
    \/ \E p \in Partitions : Work(p)
    \/ start \/ collect \/ shutdown

\* Workers are scheduled, and the coordinator goes on receiving results.
Fairness == (\A p \in Partitions : WF_pool_vars(Work(p))) /\ WF_pool_vars(collect)

Spec == Init /\ [][Next]_pool_vars /\ Fairness

-----------------------------------------------------------------------------
\* An envelope that was taken from its channel is executed once, and its result arrives even
\* when the result channel is full or the pool shuts down in the meantime; and shutdown()
\* returns: every worker that was started ends, however full the channels are.
PoolFinishes ==
    /\ \A e \in Envelopes :
          (\E p \in Partitions : worker[p].envelope = e) ~> e \in ToSet(collected)
    /\ stopping ~> \A p \in Partitions : worker[p] \in {Unstarted, Ended}

=============================================================================
