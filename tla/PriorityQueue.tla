--------------------------- MODULE PriorityQueue ---------------------------
(***************************************************************************)
(* PriorityQueue of src/priority_queue.rs.  The sequence numbers, 64 bits  *)
(* in the code, end at MaxSequence; the arrival of an item, which the code *)
(* does not keep, says when it was pushed.                                 *)
(***************************************************************************)
EXTENDS Integers, FiniteSets

CONSTANTS
    Priorities,
    MaxSequence,   \* u64::MAX
    MaxArrivals    \* bound on the pushes

VARIABLES
    entries,        \* the pending items
    next_sequence,
    held,           \* items popped by the host, which may restore them
    arrivals        \* the number of pushes

heap_vars == <<entries, next_sequence, held, arrivals>>

\* An item; `stale` once the queue was cleared or renumbered while the item was out of it.
Item == [priority : Priorities, sequence : 1 .. MaxSequence, arrival : 1 .. MaxArrivals,
         stale : BOOLEAN]

HeapInit == entries = {} /\ next_sequence = 0 /\ held = {} /\ arrivals = 0

\* Ord: lower priorities first, then lower sequence numbers.
Before(x, y) ==
    \/ x.priority < y.priority
    \/ x.priority = y.priority /\ x.sequence < y.sequence

\* The place of x among the pending items, by its old sequence number.
rank(x) == Cardinality({y \in entries : y.sequence < x.sequence}) + 1

Outdated == {[x EXCEPT !.stale = TRUE] : x \in held}

\* ensure_sequence_capacity renumbers the pending items when no number is left.
push(priority) ==
    LET full == next_sequence = MaxSequence
        rebased == IF full THEN {[x EXCEPT !.sequence = rank(x)] : x \in entries} ELSE entries
        next == (IF full THEN Cardinality(entries) ELSE next_sequence) + 1
    IN  /\ arrivals < MaxArrivals /\ next <= MaxSequence
        /\ arrivals' = arrivals + 1
        /\ next_sequence' = next
        /\ entries' = rebased \cup {[priority |-> priority, sequence |-> next,
                                     arrival |-> arrivals + 1, stale |-> FALSE]}
        /\ held' = IF full THEN Outdated ELSE held

pop == \E x \in entries :
    /\ \A y \in entries \ {x} : ~Before(y, x)
    /\ entries' = entries \ {x}
    /\ held' = held \cup {x}
    /\ UNCHANGED <<next_sequence, arrivals>>

\* Fault: the item goes to the end of its priority.
restore_at_end(x) ==
    /\ next_sequence < MaxSequence
    /\ next_sequence' = next_sequence + 1
    /\ entries' = entries \cup {[x EXCEPT !.sequence = next_sequence + 1]}
    /\ held' = held \ {x}
    /\ UNCHANGED arrivals

restore(x) ==
    /\ next_sequence' = IF x.sequence > next_sequence THEN x.sequence ELSE next_sequence
    /\ entries' = entries \cup {x}
    /\ held' = held \ {x}
    /\ UNCHANGED arrivals

\* into_value: the host keeps the value.
into_value(x) == held' = held \ {x} /\ UNCHANGED <<entries, next_sequence, arrivals>>

clear ==
    /\ entries' = {} /\ next_sequence' = 0
    /\ held' = Outdated
    /\ UNCHANGED arrivals

HeapNext ==
    \/ \E p \in Priorities : push(p)
    \/ pop \/ clear
    \/ \E x \in held : restore(x) \/ into_value(x)

HeapSpec == HeapInit /\ [][HeapNext]_heap_vars

-----------------------------------------------------------------------------
\* Items of one priority are claimed in the order in which they were pushed, over every
\* pop, restore and renumbering, except for items that were out of the queue when it was
\* cleared or renumbered.
FifoWithinPriority ==
    \A x, y \in entries :
        x.priority = y.priority /\ x.arrival < y.arrival /\ ~x.stale /\ ~y.stale => Before(x, y)

=============================================================================
