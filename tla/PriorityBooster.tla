-------------------------- MODULE PriorityBooster --------------------------
(***************************************************************************)
(* PriorityBooster of src/boost.rs, for the command at the head of a lane  *)
(* as its deadline approaches.  Times are percents of the deadline.        *)
(***************************************************************************)
EXTENDS Integers, Sequences

CONSTANTS
    BasePriorities,
    Deadline         \* in units of which the thresholds are whole numbers

VARIABLES
    boost_intervals,   \* of the configuration: <<time before the deadline, boost>>, or Off
    base_priority,
    time_remaining     \* until the deadline; 0 or less: past it

boost_vars == <<boost_intervals, base_priority, time_remaining>>

Off == <<"off">>   \* disabled()

\* with_boost, as standard() and aggressive() chain it: the intervals are kept in descending
\* order of their times.
Percent(n) == (Deadline * n) \div 100
standard == <<<<Percent(75), 1>>, <<Percent(50), 2>>, <<Percent(25), 3>>, <<Percent(10), 4>>>>
aggressive == <<<<Percent(80), 2>>, <<Percent(60), 4>>, <<Percent(40), 6>>, <<Percent(20), 8>>>>

\* Fault: the comparison is turned round.
applies_reversed(interval, remaining) == remaining >= interval[1]

applies(interval, remaining) == remaining <= interval[1]

\* The loop does not break: the last interval that applies, the one closest to the deadline,
\* decides.
boost(applicable) == IF applicable = <<>> THEN 0 ELSE applicable[Len(applicable)][2]

calculate_priority(remaining) ==
    IF boost_intervals = Off THEN base_priority
    ELSE IF remaining <= 0 THEN 0
    ELSE LET b == boost(SelectSeq(boost_intervals, LAMBDA i : applies(i, remaining)))
         IN  IF b < base_priority THEN base_priority - b ELSE 0

Init ==
    /\ boost_intervals \in {Off, standard, aggressive}
    /\ base_priority \in BasePriorities
    /\ time_remaining = Deadline

\* Time passes, by any amount, between two looks of the scheduler.
Pass == \E t \in -1 .. time_remaining - 1 :
    /\ time_remaining' = t
    /\ UNCHANGED <<boost_intervals, base_priority>>

Next == Pass

Spec == Init /\ [][Next]_boost_vars

-----------------------------------------------------------------------------
\* A command never loses urgency while its deadline approaches.
UrgencyGrows ==
    [][calculate_priority(time_remaining') <= calculate_priority(time_remaining)]_boost_vars

=============================================================================
