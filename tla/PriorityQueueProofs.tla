------------------------ MODULE PriorityQueueProofs ------------------------
(***************************************************************************)
(* First in, first out within a priority, for any priorities, any number   *)
(* of items and any width of the sequence numbers.                         *)
(*                                                                         *)
(* The order has to hold for the items that the host has popped as well,   *)
(* since it may restore them; that is why the invariant speaks of both     *)
(* sets.  It does not speak of items that are stale: those were out of the *)
(* queue when their number lost its meaning.                               *)
(***************************************************************************)
EXTENDS PriorityQueue, FiniteSetTheorems, TLAPS

Items == entries \cup held
Fresh == {x \in Items : ~x.stale}

Numbered == [priority : Priorities, sequence : Nat, arrival : Nat, stale : BOOLEAN]

TypeInv ==
    /\ Items \subseteq Numbered
    /\ IsFiniteSet(entries)
    /\ next_sequence \in Nat /\ arrivals \in Nat

\* Every number that counts was given out, and so was every place in the order of arrival.
GivenOut ==
    /\ \A x \in entries \cup Fresh : x.sequence <= next_sequence
    /\ \A x \in Items : x.arrival <= arrivals

\* The sequence numbers are in the order of arrival.
InOrder == \A x, y \in Fresh : x.arrival < y.arrival => x.sequence < y.sequence

Inv == TypeInv /\ GivenOut /\ InOrder

-----------------------------------------------------------------------------
\* A renumbering leaves every pending item a number no larger than the number of pending items.
LEMMA RankBounded ==
    ASSUME TypeInv, NEW x \in entries
    PROVE  rank(x) \in Nat /\ rank(x) <= Cardinality(entries)
<1> DEFINE S == {y \in entries : y.sequence < x.sequence}
<1>1. S \subseteq entries /\ x \notin S
  BY DEF TypeInv, Items, Numbered
<1>2. IsFiniteSet(S) /\ Cardinality(S) \in Nat /\ Cardinality(entries) \in Nat
  BY <1>1, FS_Subset, FS_CardinalityType DEF TypeInv
<1>3. Cardinality(S) < Cardinality(entries)
  BY <1>1, <1>2, FS_Subset DEF TypeInv
<1>4. rank(x) = Cardinality(S) + 1
  BY DEF rank
<1> HIDE DEF S
<1> QED
  BY <1>2, <1>3, <1>4

\* A renumbering keeps the order of the numbers.
LEMMA RankMonotone ==
    ASSUME TypeInv, NEW x \in entries, NEW y \in entries, x.sequence < y.sequence
    PROVE  rank(x) < rank(y)
<1> DEFINE S == {z \in entries : z.sequence < x.sequence}
           T == {z \in entries : z.sequence < y.sequence}
<1>1. S \subseteq T /\ x \in T /\ x \notin S /\ T \subseteq entries
  BY DEF TypeInv, Items, Numbered
<1>2. /\ IsFiniteSet(T) /\ IsFiniteSet(S)
      /\ Cardinality(S) \in Nat /\ Cardinality(T) \in Nat
  BY <1>1, FS_Subset, FS_CardinalityType DEF TypeInv
<1>3. Cardinality(S) < Cardinality(T)
  BY <1>1, <1>2, FS_Subset
<1>4. rank(x) = Cardinality(S) + 1 /\ rank(y) = Cardinality(T) + 1
  BY DEF rank
<1> HIDE DEF S, T
<1> QED
  BY <1>2, <1>3, <1>4

\* An item whose number is above every other one may be added when it arrives last.
LEMMA AppendInv ==
    ASSUME TypeInv, NEW p \in Priorities, NEW old, NEW n \in Nat,
           old \subseteq Numbered, IsFiniteSet(old), held' \subseteq Numbered,
           \A x \in old \cup held' : x.arrival <= arrivals,
           \A x \in old : x.sequence < n,
           \A x \in held' : x.stale \/ x.sequence < n,
           \A x, y \in old \cup held' :
               ~x.stale /\ ~y.stale /\ x.arrival < y.arrival => x.sequence < y.sequence,
           entries' = old \cup {[priority |-> p, sequence |-> n, arrival |-> arrivals + 1,
                                 stale |-> FALSE]},
           next_sequence' = n, arrivals' = arrivals + 1
    PROVE  Inv'
<1> DEFINE item == [priority |-> p, sequence |-> n, arrival |-> arrivals + 1, stale |-> FALSE]
<1>1. /\ item \in Numbered /\ item.sequence = n /\ item.arrival = arrivals + 1
      /\ item.stale = FALSE /\ arrivals \in Nat
  BY DEF Numbered, TypeInv
<1>2. entries' = old \cup {item}
  OBVIOUS
<1> HIDE DEF item
<1>3. IsFiniteSet(entries')
  BY <1>2, FS_AddElement
<1>4. TypeInv'
  BY <1>1, <1>2, <1>3 DEF TypeInv, Items
<1>5. GivenOut'
  BY <1>1, <1>2 DEF GivenOut, Items, Fresh, Numbered
<1>6. InOrder'
  BY <1>1, <1>2 DEF InOrder, Items, Fresh, Numbered
<1> QED
  BY <1>4, <1>5, <1>6 DEF Inv

\* What the host holds when the queue is cleared or renumbered keeps everything but its number.
LEMMA OutdatedItems ==
    ASSUME TypeInv
    PROVE  /\ Outdated \subseteq Numbered
           /\ \A x \in Outdated : x.stale /\ \E y \in held : x.arrival = y.arrival
BY DEF TypeInv, Items, Numbered, Outdated

\* A push, with and without a renumbering.
LEMMA PushInv ==
    ASSUME Inv, NEW p \in Priorities, push(p)
    PROVE  Inv'
<1>1. CASE next_sequence = MaxSequence
  <2> DEFINE old == {[x EXCEPT !.sequence = rank(x)] : x \in entries}
             c == Cardinality(entries)
  <2>1. /\ entries' = old \cup {[priority |-> p, sequence |-> c + 1,
                                 arrival |-> arrivals + 1, stale |-> FALSE]}
        /\ next_sequence' = c + 1 /\ arrivals' = arrivals + 1 /\ held' = Outdated
    BY <1>1 DEF push
  <2>2. c \in Nat
    BY FS_CardinalityType DEF Inv, TypeInv
  <2>3. IsFiniteSet(old)
    <3> DEFINE f == [x \in entries |-> [x EXCEPT !.sequence = rank(x)]]
    <3>1. f \in Surjection(entries, old)
      BY DEF Surjection
    <3> HIDE DEF old, f
    <3> QED
      BY <3>1, FS_Surjection DEF Inv, TypeInv
  <2>4. \A x \in old : \E y \in entries :
            /\ x.sequence = rank(y) /\ x.arrival = y.arrival /\ x.stale = y.stale
            /\ x.priority = y.priority /\ x \in Numbered
    <3> SUFFICES ASSUME NEW y \in entries
                 PROVE  LET x == [y EXCEPT !.sequence = rank(y)] IN
                        /\ x.sequence = rank(y) /\ x.arrival = y.arrival /\ x.stale = y.stale
                        /\ x.priority = y.priority /\ x \in Numbered
      OBVIOUS
    <3>1. y \in Numbered /\ rank(y) \in Nat
      BY RankBounded DEF Inv, TypeInv, Items
    <3> QED
      BY <3>1 DEF Numbered
  <2> HIDE DEF old, c
  <2>5. old \subseteq Numbered
    BY <2>4
  <2>6. \A y \in entries : rank(y) \in Nat /\ rank(y) < c + 1
    BY <2>2, RankBounded DEF Inv, c
  <2>7. \A x \in old : x.sequence < c + 1
    BY <2>4, <2>6
  <2>8. \A x \in old \cup held' : x.arrival <= arrivals
    BY <2>1, <2>4, OutdatedItems DEF Inv, GivenOut, Items
  <2>9. \A x, y \in old : ~x.stale /\ ~y.stale /\ x.arrival < y.arrival
                            => x.sequence < y.sequence
    BY <2>4, RankMonotone DEF Inv, InOrder, Fresh, Items
  <2> QED
    <3>1. \A x \in held' : x.stale
      BY <2>1, OutdatedItems DEF Inv
    <3>2. held' \subseteq Numbered
      BY <2>1, OutdatedItems DEF Inv
    <3>3. c + 1 \in Nat
      BY <2>2
    <3> QED
      BY <2>1, <2>3, <2>5, <2>7, <2>8, <2>9, <3>1, <3>2, <3>3, AppendInv DEF Inv
<1>2. CASE next_sequence # MaxSequence
  <2>1. /\ entries' = entries \cup {[priority |-> p, sequence |-> next_sequence + 1,
                                     arrival |-> arrivals + 1, stale |-> FALSE]}
        /\ next_sequence' = next_sequence + 1 /\ arrivals' = arrivals + 1 /\ held' = held
    BY <1>2 DEF push
  <2>2. next_sequence + 1 \in Nat /\ IsFiniteSet(entries)
    BY DEF Inv, TypeInv
  <2>3. entries \subseteq Numbered /\ held' \subseteq Numbered
    BY <2>1 DEF Inv, TypeInv, Items
  <2>4. /\ \A x \in entries : x.sequence < next_sequence + 1
        /\ \A x \in held' : x.stale \/ x.sequence < next_sequence + 1
    BY <2>1, <2>3 DEF Inv, TypeInv, GivenOut, Fresh, Items, Numbered
  <2>5. \A x \in entries \cup held' : x.arrival <= arrivals
    BY <2>1 DEF Inv, GivenOut, Items
  <2>6. \A x, y \in entries \cup held' :
            ~x.stale /\ ~y.stale /\ x.arrival < y.arrival => x.sequence < y.sequence
    BY <2>1 DEF Inv, InOrder, Fresh, Items
  <2> QED
    BY <2>1, <2>2, <2>3, <2>4, <2>5, <2>6, AppendInv DEF Inv
<1> QED
  BY <1>1, <1>2

\* Moving an item between the queue and the host, or giving it to the host for good.
LEMMA MoveInv ==
    ASSUME Inv, pop \/ \E x \in held : restore(x) \/ into_value(x)
    PROVE  Inv'
<1>1. PICK x \in Items :
        \/ entries' = entries \ {x} /\ held' = held \cup {x} /\ x \in entries
           /\ next_sequence' = next_sequence /\ arrivals' = arrivals
        \/ entries' = entries \cup {x} /\ held' = held \ {x} /\ arrivals' = arrivals
           /\ next_sequence' = IF x.sequence > next_sequence THEN x.sequence ELSE next_sequence
        \/ entries' = entries /\ held' = held \ {x}
           /\ next_sequence' = next_sequence /\ arrivals' = arrivals
  BY DEF pop, restore, into_value, Items
<1>2. Items' \subseteq Items /\ Fresh' \subseteq Fresh
  BY <1>1 DEF Items, Fresh
<1>3. /\ next_sequence' \in Nat /\ next_sequence <= next_sequence'
      /\ \A y \in entries' : y \in entries \/ y.sequence <= next_sequence'
  BY <1>1 DEF Inv, TypeInv, Numbered, Items
<1>4. IsFiniteSet(entries')
  BY <1>1, FS_AddElement, FS_RemoveElement DEF Inv, TypeInv
<1>5. arrivals' = arrivals
  BY <1>1
<1>6. TypeInv'
  BY <1>2, <1>3, <1>4, <1>5 DEF Inv, TypeInv
<1>7. GivenOut'
  BY <1>2, <1>3, <1>5 DEF Inv, TypeInv, GivenOut, Numbered, Items, Fresh
<1>8. InOrder'
  BY <1>2 DEF Inv, InOrder
<1> QED
  BY <1>6, <1>7, <1>8 DEF Inv

\* A clear.
LEMMA ClearInv ==
    ASSUME Inv, clear
    PROVE  Inv'
<1>1. entries' = {} /\ next_sequence' = 0 /\ held' = Outdated /\ arrivals' = arrivals
  BY DEF clear
<1>2. Fresh' = {} /\ Items' = Outdated
  BY <1>1, OutdatedItems DEF Inv, Fresh, Items
<1>3. TypeInv'
  BY <1>1, <1>2, OutdatedItems, FS_EmptySet DEF Inv, TypeInv
<1>4. GivenOut'
  BY <1>1, <1>2, OutdatedItems DEF Inv, GivenOut, Items
<1> QED
  BY <1>2, <1>3, <1>4 DEF Inv, InOrder

-----------------------------------------------------------------------------
\* Items of one priority leave the queue in the order in which they were pushed, over every
\* pop, restore, clear and renumbering, except for items that were out of the queue when it
\* was cleared or renumbered.
THEOREM Fifo == HeapSpec => []FifoWithinPriority
<1>1. HeapInit => Inv
  BY FS_EmptySet DEF HeapInit, Inv, TypeInv, GivenOut, InOrder, Items, Fresh
<1>2. Inv /\ [HeapNext]_heap_vars => Inv'
  <2> SUFFICES ASSUME Inv, [HeapNext]_heap_vars PROVE Inv'
    OBVIOUS
  <2>1. CASE UNCHANGED heap_vars
    BY <2>1 DEF heap_vars, Inv, TypeInv, GivenOut, InOrder, Items, Fresh
  <2> QED
    BY <2>1, PushInv, MoveInv, ClearInv DEF HeapNext
<1>3. Inv => FifoWithinPriority
  BY DEF Inv, InOrder, Fresh, Items, FifoWithinPriority, Before
<1> QED
  BY <1>1, <1>2, <1>3, PTL DEF HeapSpec

=============================================================================
