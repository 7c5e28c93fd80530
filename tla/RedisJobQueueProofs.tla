------------------------ MODULE RedisJobQueueProofs ------------------------
(***************************************************************************)
(* The index sets, the locks, the retry decisions and the wake-ups of the  *)
(* Redis queue.                                                            *)
(***************************************************************************)
EXTENDS RedisJobQueue, FiniteSetTheorems, TLAPS

-----------------------------------------------------------------------------
(***************************************************************************)
(* Loops: a recursive function on the positions of a sequence exists, and  *)
(* what every round preserves holds at the end.                            *)
(***************************************************************************)
\* Induction up to N, for a set instead of a predicate.
LEMMA Climb ==
    ASSUME NEW N \in Nat, NEW S, 0 \in S, \A n \in 0 .. N - 1 : n \in S => n + 1 \in S
    PROVE  \A n \in 0 .. N : n \in S
<1> DEFINE Missed == {n \in 0 .. N : n \notin S}
           Less == OpToRel(<, Nat)
<1> SUFFICES ASSUME Missed # {} PROVE FALSE
  OBVIOUS
<1>1. Missed \subseteq Nat
  OBVIOUS
<1>2. PICK m \in Missed : \A k \in Missed : ~(<<k, m>> \in Less)
  BY <1>1, NatLessThanWellFounded, WFMin
<1>3. \A k \in Missed : ~(k < m)
  BY <1>1, <1>2 DEF OpToRel
<1>4. m # 0 /\ m - 1 \in 0 .. N - 1 /\ m - 1 < m
  OBVIOUS
<1>5. m - 1 \in S
  BY <1>3, <1>4
<1> QED
  BY <1>4, <1>5

LEMMA AppendElements ==
    ASSUME NEW S, NEW s \in Seq(S), NEW e \in S
    PROVE  Append(s, e) \in Seq(S) /\ ToSet(Append(s, e)) = ToSet(s) \cup {e}
<1>1. /\ DOMAIN s = 1 .. Len(s) /\ Len(s) \in Nat
      /\ DOMAIN Append(s, e) = 1 .. Len(s) + 1
      /\ \A i \in 1 .. Len(s) : Append(s, e)[i] = s[i]
      /\ Append(s, e)[Len(s) + 1] = e
  OBVIOUS
<1> QED
  BY <1>1 DEF ToSet

LEMMA ConcatElements ==
    ASSUME NEW S, NEW s \in Seq(S), NEW t \in Seq(S)
    PROVE  s \o t \in Seq(S) /\ ToSet(s \o t) = ToSet(s) \cup ToSet(t)
<1>1. /\ DOMAIN s = 1 .. Len(s) /\ Len(s) \in Nat /\ DOMAIN t = 1 .. Len(t) /\ Len(t) \in Nat
      /\ DOMAIN (s \o t) = 1 .. Len(s) + Len(t)
      /\ \A i \in 1 .. Len(s) : (s \o t)[i] = s[i]
      /\ \A i \in 1 .. Len(t) : (s \o t)[Len(s) + i] = t[i]
      /\ \A i \in 1 .. Len(s) + Len(t) : i <= Len(s) \/ i - Len(s) \in 1 .. Len(t)
  OBVIOUS
<1>2. ToSet(s \o t) \subseteq ToSet(s) \cup ToSet(t)
  <2> SUFFICES ASSUME NEW i \in 1 .. Len(s) + Len(t) PROVE (s \o t)[i] \in ToSet(s) \cup ToSet(t)
    BY <1>1 DEF ToSet
  <2>1. CASE i <= Len(s)
    BY <1>1, <2>1 DEF ToSet
  <2>2. CASE ~(i <= Len(s))
    <3>1. i - Len(s) \in 1 .. Len(t) /\ Len(s) + (i - Len(s)) = i
      BY <1>1, <2>2
    <3>2. (s \o t)[i] = t[i - Len(s)]
      BY <1>1, <3>1
    <3> QED
      BY <1>1, <3>1, <3>2 DEF ToSet
  <2> QED
    BY <2>1, <2>2
<1>3. ToSet(s) \subseteq ToSet(s \o t)
  BY <1>1 DEF ToSet
<1>4. ToSet(t) \subseteq ToSet(s \o t)
  <2> SUFFICES ASSUME NEW i \in 1 .. Len(t) PROVE t[i] \in ToSet(s \o t)
    BY <1>1 DEF ToSet
  <2>1. Len(s) + i \in 1 .. Len(s) + Len(t) /\ (s \o t)[Len(s) + i] = t[i]
    BY <1>1
  <2> QED
    BY <1>1, <2>1 DEF ToSet
<1> QED
  BY <1>2, <1>3, <1>4

\* The elements that KeepOnly takes, as a set.
LEMMA KeepOnlyElements ==
    ASSUME NEW S, NEW s \in Seq(S), NEW K
    PROVE  /\ KeepOnly(s, K) \in Seq(S)
           /\ ToSet(KeepOnly(s, K)) = ToSet(s) \cap K
<1> DEFINE Take(kept, e) == IF e \in K THEN Append(kept, e) ELSE kept
           Rounds(f, n) == f = [i \in 0 .. n |-> IF i = 0 THEN <<>> ELSE Take(f[i - 1], s[i])]
           N == Len(s)
           F == CHOOSE f : Rounds(f, N)
           Reached == {n \in 0 .. N : \E f : Rounds(f, n)}
<1>1. N \in Nat /\ DOMAIN s = 1 .. N
  OBVIOUS
<1>2. KeepOnly(s, K) = F[N]
  BY DEF KeepOnly, InTurn
<1>3. Rounds(F, N)
  <2>1. \E f : Rounds(f, 0)
    <3> WITNESS [i \in 0 .. 0 |-> <<>>]
    <3> QED
      OBVIOUS
  <2>2. ASSUME NEW n \in 0 .. N - 1, NEW f, Rounds(f, n) PROVE \E g : Rounds(g, n + 1)
    <3> DEFINE g == [i \in 0 .. n + 1 |-> IF i <= n THEN f[i] ELSE Take(f[n], s[n + 1])]
    <3> HIDE DEF Take
    <3>1. Rounds(g, n + 1)
      BY <2>2
    <3> QED
      BY <3>1
  <2> HIDE DEF Rounds, N
  <2>3. 0 \in Reached /\ \A n \in 0 .. N - 1 : n \in Reached => n + 1 \in Reached
    BY <1>1, <2>1, <2>2
  <2> HIDE DEF Reached
  <2>4. N \in Reached
    BY <1>1, <2>3, Climb
  <2> QED
    BY <2>4 DEF Reached
<1> HIDE DEF F, N
<1> DEFINE Good(n) == /\ F[n] \in Seq(S)
                      /\ ToSet(F[n]) = {s[i] : i \in 1 .. n} \cap K
           Goods == {n \in 0 .. N : Good(n)}
<1>4. Good(0)
  <2>1. F[0] = <<>>
    BY <1>1, <1>3
  <2> QED
    BY <2>1 DEF ToSet
<1>5. ASSUME NEW n \in 0 .. N - 1, Good(n) PROVE Good(n + 1)
  <2>1. F[n + 1] = Take(F[n], s[n + 1]) /\ s[n + 1] \in S
    <3> n + 1 \in 0 .. N /\ n + 1 # 0 /\ n + 1 \in 1 .. N /\ (n + 1) - 1 = n
      BY <1>1
    <3> HIDE DEF Take
    <3>1. F[n + 1] = Take(F[(n + 1) - 1], s[n + 1])
      BY <1>3
    <3> QED
      BY <1>1, <3>1
  <2>2. {s[i] : i \in 1 .. n + 1} = {s[i] : i \in 1 .. n} \cup {s[n + 1]}
    BY <1>1
  <2>3. CASE s[n + 1] \notin K
    BY <1>5, <2>1, <2>2, <2>3
  <2>4. CASE s[n + 1] \in K
    <3>1. F[n + 1] = Append(F[n], s[n + 1])
      BY <2>1, <2>4
    <3>2. F[n + 1] \in Seq(S)
      BY <1>5, <2>1, <3>1
    <3>3. ToSet(F[n + 1]) = ToSet(F[n]) \cup {s[n + 1]}
      BY <1>5, <2>1, <3>1, AppendElements
    <3> QED
      BY <1>5, <2>2, <2>4, <3>2, <3>3
  <2> QED
    BY <2>3, <2>4
<1> HIDE DEF Good
<1>6. Good(N)
  <2>1. 0 \in Goods /\ \A n \in 0 .. N - 1 : n \in Goods => n + 1 \in Goods
    BY <1>1, <1>4, <1>5
  <2> HIDE DEF Goods
  <2>2. N \in Goods
    BY <1>1, <2>1, Climb
  <2> QED
    BY <2>2 DEF Goods
<1> QED
  BY <1>1, <1>2, <1>6 DEF Good, ToSet

\* A finite set as a list.
LEMMA SetToSeqElements ==
    ASSUME NEW S, IsFiniteSet(S)
    PROVE  SetToSeq(S) \in Seq(S)
<1>1. Cardinality(S) \in Nat
  BY FS_CardinalityType
<1>2. \E f \in [1 .. Cardinality(S) -> S] : IsInjective(f)
  <2>1. PICK n \in Nat : ExistsBijection(1 .. n, S)
    BY FS_NatBijection
  <2>2. Cardinality(S) = n
    BY <2>1, FS_CountingElements
  <2>3. PICK f \in Bijection(1 .. n, S) : TRUE
    BY <2>1 DEF ExistsBijection
  <2>4. f \in [1 .. n -> S] /\ IsInjective(f)
    BY <2>3 DEF Bijection, Injection, IsInjective
  <2> QED
    BY <2>2, <2>4
<1>3. SetToSeq(S) \in [1 .. Cardinality(S) -> S]
  BY <1>2 DEF SetToSeq
<1> QED
  BY <1>1, <1>3

\* A sequence of anything.
IsList(s) == \E S : s \in Seq(S)

EntryIds(waiting) == {e.id : e \in ToSet(waiting)}

LEMMA WaitingIdsAreEntryIds ==
    ASSUME NEW st PROVE WaitingIds(st) = EntryIds(st.waiting)
  BY DEF WaitingIds, EntryIds, ToSet

LEMMA KeepOnlyList ==
    ASSUME NEW s, IsList(s), NEW K
    PROVE  IsList(KeepOnly(s, K)) /\ ToSet(KeepOnly(s, K)) = ToSet(s) \cap K
  BY KeepOnlyElements DEF IsList

LEMMA RemoveFromList ==
    ASSUME NEW s, IsList(s), NEW j
    PROVE  IsList(RemoveFrom(s, j)) /\ ToSet(RemoveFrom(s, j)) = ToSet(s) \ {j}
  BY KeepOnlyList DEF RemoveFrom

LEMMA NewestList ==
    ASSUME NEW s, IsList(s), NEW keep
    PROVE  IsList(Newest(s, keep)) /\ ToSet(Newest(s, keep)) \subseteq ToSet(s)
  BY KeepOnlyList DEF Newest

\* A job enters a finished index.
LEMMA AppendList ==
    ASSUME NEW s, IsList(s), NEW j
    PROVE  /\ IsList(Append(RemoveFrom(s, j), j))
           /\ ToSet(Append(RemoveFrom(s, j), j)) = ToSet(s) \cup {j}
<1>1. PICK S : RemoveFrom(s, j) \in Seq(S)
  BY RemoveFromList DEF IsList
<1>2. RemoveFrom(s, j) \in Seq(S \cup {j})
  BY <1>1
<1> QED
  BY <1>2, RemoveFromList, AppendElements DEF IsList

LEMMA RemoveWaitingIds ==
    ASSUME NEW s, IsList(s), NEW j
    PROVE  IsList(RemoveWaiting(s, j)) /\ EntryIds(RemoveWaiting(s, j)) = EntryIds(s) \ {j}
  BY KeepOnlyList DEF RemoveWaiting, EntryIds

LEMMA ConcatList ==
    ASSUME NEW s, IsList(s), NEW t, IsList(t)
    PROVE  IsList(s \o t) /\ ToSet(s \o t) = ToSet(s) \cup ToSet(t)
<1>1. PICK S : s \in Seq(S)
  BY DEF IsList
<1>2. PICK T : t \in Seq(T)
  BY DEF IsList
<1>3. s \in Seq(S \cup T) /\ t \in Seq(S \cup T)
  BY <1>1, <1>2
<1> QED
  BY <1>3, ConcatElements DEF IsList

LEMMA SingleList ==
    ASSUME NEW entry PROVE IsList(<<entry>>) /\ ToSet(<<entry>>) = {entry}
<1> DEFINE c == <<entry>>
<1>1. c \in Seq({entry}) /\ ToSet(c) = {entry}
  BY DEF ToSet
<1> HIDE DEF c
<1>2. IsList(c) /\ ToSet(c) = {entry}
  BY <1>1 DEF IsList
<1> QED
  BY <1>2 DEF c

LEMMA SpliceIds ==
    ASSUME NEW a, IsList(a), NEW b, IsList(b), NEW c, IsList(c)
    PROVE  IsList(a \o c \o b) /\ ToSet(a \o c \o b) = ToSet(a) \cup ToSet(c) \cup ToSet(b)
<1>1. IsList(a \o c) /\ ToSet(a \o c) = ToSet(a) \cup ToSet(c)
  BY ConcatList
<1> QED
  BY <1>1, ConcatList

LEMMA InsertWaitingIds ==
    ASSUME NEW s, IsList(s), NEW j, NEW priority, NEW lifo
    PROVE  /\ IsList(InsertWaiting(s, j, priority, lifo))
           /\ EntryIds(InsertWaiting(s, j, priority, lifo)) = EntryIds(s) \cup {j}
<1> DEFINE others == {e \in ToSet(s) : e.id # j}
           before == {e \in others : \/ e.priority < priority
                                     \/ e.priority = priority /\ (e.front \/ ~lifo)}
           entry == WaitingEntry(j, priority, FALSE)
           a == KeepOnly(s, before)
           b == KeepOnly(s, others \ before)
           c == <<entry>>
<1>1. IsList(a) /\ ToSet(a) = ToSet(s) \cap before
  BY KeepOnlyList
<1>2. IsList(b) /\ ToSet(b) = ToSet(s) \cap (others \ before)
  BY KeepOnlyList
<1>3. ToSet(a) \cup ToSet(b) = others
  BY <1>1, <1>2
<1>4. entry.id = j
  BY DEF WaitingEntry
<1>5. InsertWaiting(s, j, priority, lifo) = a \o c \o b
  BY DEF InsertWaiting
<1> HIDE DEF a, b, entry
<1>6. IsList(a \o c \o b) /\ ToSet(a \o c \o b) = ToSet(a) \cup {entry} \cup ToSet(b)
  <2>1. IsList(c) /\ ToSet(c) = {entry}
    BY SingleList
  <2> HIDE DEF c
  <2> QED
    BY <1>1, <1>2, <2>1, SpliceIds
<1> HIDE DEF c
<1>7. EntryIds(a \o c \o b) = EntryIds(s) \cup {j}
  BY <1>3, <1>4, <1>6 DEF EntryIds
<1> QED
  BY <1>5, <1>6, <1>7

LEMMA PushBackWaitingIds ==
    ASSUME NEW s, IsList(s), NEW j, NEW priority
    PROVE  /\ IsList(PushBackWaiting(s, j, priority))
           /\ EntryIds(PushBackWaiting(s, j, priority)) = EntryIds(s) \cup {j}
<1> DEFINE others == {e \in ToSet(s) : e.id # j}
           before == {e \in others : \/ e.priority < priority
                                     \/ e.priority = priority /\ e.front /\ e.id < j}
           entry == WaitingEntry(j, priority, TRUE)
           a == KeepOnly(s, before)
           b == KeepOnly(s, others \ before)
           c == <<entry>>
<1>1. IsList(a) /\ ToSet(a) = ToSet(s) \cap before
  BY KeepOnlyList
<1>2. IsList(b) /\ ToSet(b) = ToSet(s) \cap (others \ before)
  BY KeepOnlyList
<1>3. ToSet(a) \cup ToSet(b) = others
  BY <1>1, <1>2
<1>4. entry.id = j
  BY DEF WaitingEntry
<1>5. PushBackWaiting(s, j, priority) = a \o c \o b
  BY DEF PushBackWaiting
<1> HIDE DEF a, b, entry
<1>6. IsList(a \o c \o b) /\ ToSet(a \o c \o b) = ToSet(a) \cup {entry} \cup ToSet(b)
  <2>1. IsList(c) /\ ToSet(c) = {entry}
    BY SingleList
  <2> HIDE DEF c
  <2> QED
    BY <1>1, <1>2, <2>1, SpliceIds
<1> HIDE DEF c
<1>7. EntryIds(a \o c \o b) = EntryIds(s) \cup {j}
  BY <1>3, <1>4, <1>6 DEF EntryIds
<1> QED
  BY <1>5, <1>6, <1>7

-----------------------------------------------------------------------------
(***************************************************************************)
(* Where a job is.                                                         *)
(***************************************************************************)
Keys == {"jobs", "waiting", "delayed", "active", "waiting_children", "completed", "failed", "lock",
         "stalled", "dedup", "dedup_next", "repeat", "repeat_meta", "deps", "marker", "paused",
         "concurrency", "claims"}

\* A parked flow names no job twice.
Proper(parked) == parked \in Parked /\ DistinctIds(parked.job.id, parked.children)

Shape(st) ==
    /\ DOMAIN st = Keys
    /\ st.jobs \in [JobIds -> Job \cup {None}]
    /\ \A j \in JobIds : st.jobs[j] # None => st.jobs[j].id = j
    /\ DOMAIN st.lock = JobIds
    /\ IsList(st.waiting) /\ IsList(st.completed) /\ IsList(st.failed)
    /\ ToSet(st.completed) \subseteq JobIds /\ ToSet(st.failed) \subseteq JobIds
    /\ st.delayed \subseteq JobIds /\ st.active \subseteq JobIds /\ st.stalled \subseteq JobIds
    /\ DOMAIN st.dedup_next = DedupIds
    /\ \A d \in DedupIds : st.dedup_next[d] # None => Proper(st.dedup_next[d])

Is(st, j, state) == st.jobs[j] # None /\ st.jobs[j].state = state

\* The job is in the index of its state and in no other, and a lock is that of an active job.
Fine(st, j) ==
    /\ j \in EntryIds(st.waiting) <=> Is(st, j, "waiting")
    /\ j \in st.delayed <=> Is(st, j, "delayed")
    /\ j \in st.active <=> Is(st, j, "active")
    /\ j \in st.waiting_children <=> Is(st, j, "waiting_children")
    /\ j \in ToSet(st.completed) <=> Is(st, j, "completed")
    /\ j \in ToSet(st.failed) <=> Is(st, j, "failed")
    /\ st.lock[j] # None => Is(st, j, "active")

\* A job that the script has in hand: it has left its index and goes to another.
Free(st, j) ==
    /\ j \notin EntryIds(st.waiting) /\ j \notin st.delayed /\ j \notin st.active
    /\ j \notin st.waiting_children /\ j \notin ToSet(st.completed) /\ j \notin ToSet(st.failed)
    /\ st.lock[j] = None

\* All is well, but for the jobs in hand.
Sound(st, hand) ==
    /\ Shape(st)
    /\ \A j \in JobIds : IF j \in hand THEN Free(st, j) ELSE Fine(st, j)

\* A lock is not set, and while it stays the record keeps what a retry is decided on.
Kept(a, b) ==
    \A j \in JobIds : b.lock[j] # None =>
        /\ b.lock[j] = a.lock[j]
        /\ b.jobs[j].attempts_made = a.jobs[j].attempts_made
        /\ b.jobs[j].options.max_retries = a.jobs[j].options.max_retries

\* Nothing that says where a job is differs.
Quiet(a, b) ==
    /\ DOMAIN b = DOMAIN a
    /\ b.jobs = a.jobs /\ b.lock = a.lock
    /\ b.waiting = a.waiting /\ b.delayed = a.delayed /\ b.active = a.active
    /\ b.waiting_children = a.waiting_children
    /\ b.completed = a.completed /\ b.failed = a.failed
    /\ b.stalled \subseteq a.stalled \cup JobIds
    /\ DOMAIN b.dedup_next = DOMAIN a.dedup_next
    /\ \A d \in DedupIds : b.dedup_next[d] # None =>
                            b.dedup_next[d] = a.dedup_next[d] \/ Proper(b.dedup_next[d])

\* Job j is where it was, and so is what a retry is decided on.
Alike(a, b, j) ==
    /\ b.jobs[j] = None <=> a.jobs[j] = None
    /\ b.jobs[j].state = a.jobs[j].state
    /\ b.jobs[j].attempts_made = a.jobs[j].attempts_made
    /\ b.jobs[j].options.max_retries = a.jobs[j].options.max_retries
    /\ b.lock[j] = a.lock[j]
    /\ j \in EntryIds(b.waiting) <=> j \in EntryIds(a.waiting)
    /\ j \in b.delayed <=> j \in a.delayed
    /\ j \in b.active <=> j \in a.active
    /\ j \in b.waiting_children <=> j \in a.waiting_children
    /\ j \in ToSet(b.completed) <=> j \in ToSet(a.completed)
    /\ j \in ToSet(b.failed) <=> j \in ToSet(a.failed)

LEMMA QuietSound ==
    ASSUME NEW a, NEW b, NEW hand, Sound(a, hand), Quiet(a, b)
    PROVE  Sound(b, hand) /\ Kept(a, b)
<1>1. Shape(b)
  BY DEF Sound, Shape, Quiet
<1>2. \A j \in JobIds : IF j \in hand THEN Free(b, j) ELSE Fine(b, j)
  BY DEF Sound, Quiet, Free, Fine, Is
<1>3. Kept(a, b)
  BY DEF Quiet, Kept
<1> QED
  BY <1>1, <1>2, <1>3 DEF Sound

LEMMA QuietTransitive ==
    ASSUME NEW a, NEW b, NEW c, Quiet(a, b), Quiet(b, c) PROVE Quiet(a, c)
  BY DEF Quiet

LEMMA QuietReflexive == ASSUME NEW a PROVE Quiet(a, a)
  BY DEF Quiet

LEMMA KeptTransitive ==
    ASSUME NEW a, NEW b, NEW c, Kept(a, b), Kept(b, c) PROVE Kept(a, c)
  BY DEF Kept

LEMMA KeptReflexive == ASSUME NEW a PROVE Kept(a, a)
  BY DEF Kept

\* A step that touches the jobs in S only.
LEMMA OthersStay ==
    ASSUME NEW a, NEW b, NEW hand, NEW hand2, NEW S,
           Sound(a, hand), Shape(b),
           \A j \in JobIds \ S : Alike(a, b, j) /\ (j \in hand <=> j \in hand2),
           \A j \in S : j \in JobIds =>
                IF j \in hand2 THEN Free(b, j) ELSE Fine(b, j) /\ b.lock[j] = None
    PROVE  Sound(b, hand2) /\ Kept(a, b)
<1>1. ASSUME NEW j \in JobIds \ S PROVE IF j \in hand2 THEN Free(b, j) ELSE Fine(b, j)
  <2>1. CASE j \in hand
    BY <2>1 DEF Sound, Alike, Free
  <2>2. CASE j \notin hand
    <3>1. Fine(a, j) /\ Alike(a, b, j)
      BY <2>2 DEF Sound
    <3>2. Fine(b, j)
      BY <3>1 DEF Fine, Alike, Is
    <3> QED
      BY <2>2, <3>2
  <2> QED
    BY <2>1, <2>2
<1>2. Sound(b, hand2)
  BY <1>1 DEF Sound
<1>3. Kept(a, b)
  BY DEF Kept, Alike, Free
<1> QED
  BY <1>2, <1>3

-----------------------------------------------------------------------------
(***************************************************************************)
(* Helpers that move no job.                                               *)
(***************************************************************************)
LEMMA MarkersAreQuiet ==
    ASSUME NEW st, Shape(st)
    PROVE  /\ Quiet(st, add_base_marker(st)) /\ Quiet(st, add_base_marker_if_waiting(st))
           /\ Quiet(st, refresh_delay_marker(st))
  BY DEF Shape, Keys, Quiet, add_base_marker, add_base_marker_if_waiting, refresh_delay_marker

LEMMA DedupKeysAreQuiet ==
    ASSUME NEW st, Shape(st), NEW job, NEW d
    PROVE  /\ Quiet(st, set_deduplication_key(st, job))
           /\ Quiet(st, release_deduplication_key(st, job))
           /\ Quiet(st, release_deduplication_key_on_finalization(st, job))
           /\ Quiet(st, prune_deduplication_key(st, d))
<1>1. Quiet(st, set_deduplication_key(st, job))
  BY DEF Shape, Keys, Quiet, set_deduplication_key
<1>2. Quiet(st, release_deduplication_key(st, job))
  BY DEF Shape, Keys, Quiet, release_deduplication_key
<1>3. Quiet(st, release_deduplication_key_on_finalization(st, job))
  BY DEF Shape, Keys, Quiet, release_deduplication_key_on_finalization
<1>4. Quiet(st, prune_deduplication_key(st, d))
  BY DEF Shape, Keys, Quiet, prune_deduplication_key
<1> QED
  BY <1>1, <1>2, <1>3, <1>4

LEMMA RemovedOwnersAreQuiet ==
    ASSUME NEW st, Shape(st), NEW before
    PROVE  Quiet(st, release_removed_owners(before, st))
  BY DEF Shape, Keys, Quiet, release_removed_owners

LEMMA OwnerKeysAreQuiet ==
    ASSUME NEW st, Shape(st), NEW job
    PROVE  /\ Quiet(st, extend_deduplicated_owner(st, job))
           /\ Quiet(st, set_replaced_deduplication_key(st, job))
<1>1. Quiet(st, extend_deduplicated_owner(st, job))
  BY DEF Shape, Keys, Quiet, extend_deduplicated_owner
<1>2. Quiet(st, set_replaced_deduplication_key(st, job))
  BY DEF Shape, Keys, Quiet, set_replaced_deduplication_key, set_deduplication_key
<1> QED
  BY <1>1, <1>2

LEMMA RepeatKeysAreQuiet ==
    ASSUME NEW st, Shape(st), NEW job, NEW k, NEW j
    PROVE  /\ Quiet(st, SetRepeat(st, k, j)) /\ Quiet(st, set_repeat_key(st, job))
           /\ Quiet(st, release_repeat_key(st, job)) /\ Quiet(st, sync_repeat_scheduler(st, job))
           /\ Quiet(st, prune_repeat_keys(st, k)) /\ Quiet(st, restore_repeat_key(st, job))
<1>1. \A kk, jj : Quiet(st, SetRepeat(st, kk, jj))
  BY DEF Shape, Keys, Quiet, SetRepeat
<1>2. Quiet(st, set_repeat_key(st, job))
  BY <1>1, QuietReflexive DEF set_repeat_key
<1>3. Quiet(st, release_repeat_key(st, job))
  BY DEF Shape, Keys, Quiet, release_repeat_key
<1>4. Quiet(st, sync_repeat_scheduler(st, job))
  BY <1>1, QuietReflexive DEF sync_repeat_scheduler
<1>5. Quiet(st, prune_repeat_keys(st, k))
  BY DEF Shape, Keys, Quiet, prune_repeat_keys
<1>6. Quiet(st, restore_repeat_key(st, job))
  BY DEF Shape, Keys, Quiet, restore_repeat_key
<1> QED
  BY <1>1, <1>2, <1>3, <1>4, <1>5, <1>6

\* Any change of the dependency sets.
LEMMA DependenciesAreQuiet ==
    ASSUME NEW st, Shape(st), NEW deps
    PROVE  Quiet(st, [st EXCEPT !.deps = deps])
  BY DEF Shape, Keys, Quiet

LEMMA RecordFailedChildIsQuiet ==
    ASSUME NEW st, Shape(st), NEW p, NEW job
    PROVE  Quiet(st, record_failed_child(st, p, job))
  BY DEF Shape, Keys, Quiet, record_failed_child

LEMMA ParkIsQuiet ==
    ASSUME NEW st, Shape(st), NEW d, NEW payload, Proper(payload)
    PROVE  Quiet(st, park(st, d, payload))
  BY DEF Shape, Keys, Quiet, park

\* The jobs, and so their existence, are the same.
LEMMA QuietJobs ==
    ASSUME NEW a, NEW b, Quiet(a, b)
    PROVE  b.jobs = a.jobs /\ b.lock = a.lock /\ \A j : Exists(b, j) <=> Exists(a, j)
  BY DEF Quiet, Exists

LEMMA QuietShape ==
    ASSUME NEW a, NEW b, Shape(a), Quiet(a, b) PROVE Shape(b)
  BY DEF Shape, Quiet

-----------------------------------------------------------------------------
(***************************************************************************)
(* Helpers that give a job its place.                                      *)
(***************************************************************************)
LEMMA Restated ==
    ASSUME NEW job \in Job, NEW state \in JobState
    PROVE  /\ [job EXCEPT !.state = state] \in Job
           /\ [job EXCEPT !.state = state].id = job.id
           /\ [job EXCEPT !.state = state].state = state
           /\ [job EXCEPT !.state = state].options = job.options
           /\ [job EXCEPT !.state = state].attempts_made = job.attempts_made
           /\ job.id \in JobIds /\ job # None
  BY RedisRecordsAssumption DEF Job

\* A job that may be given a place: it is in no index, except perhaps that of the state.
Loose(st, hand, j, state) == j \in hand \/ st.jobs[j] = None \/ Is(st, j, state)

LEMMA EnqueueWaitingSound ==
    ASSUME NEW st, NEW hand, NEW job \in Job, Sound(st, hand),
           Loose(st, hand, job.id, "waiting")
    PROVE  /\ Sound(enqueue_waiting_job(st, job), hand \ {job.id})
           /\ Kept(st, enqueue_waiting_job(st, job))
           /\ enqueue_waiting_job(st, job).jobs =
                [st.jobs EXCEPT ![job.id] = [job EXCEPT !.state = "waiting"]]
<1> DEFINE j == job.id
           r == [job EXCEPT !.state = "waiting"]
           w == InsertWaiting(st.waiting, job.id, job.options.priority, job.options.lifo)
           b == [st EXCEPT !.jobs[job.id] = [job EXCEPT !.state = "waiting"], !.waiting = w]
<1>1. r \in Job /\ r.id = j /\ r.state = "waiting" /\ j \in JobIds /\ r # None
  BY Restated DEF JobState
<1>2. IsList(w) /\ EntryIds(w) = EntryIds(st.waiting) \cup {j}
  BY InsertWaitingIds DEF Sound, Shape
<1>3. /\ DOMAIN b = DOMAIN st /\ b.jobs = [st.jobs EXCEPT ![j] = r] /\ b.waiting = w
      /\ b.delayed = st.delayed /\ b.active = st.active /\ b.lock = st.lock
      /\ b.waiting_children = st.waiting_children /\ b.completed = st.completed
      /\ b.failed = st.failed /\ b.dedup_next = st.dedup_next /\ b.stalled = st.stalled
  BY DEF Sound, Shape, Keys
<1>4. enqueue_waiting_job(st, job) = add_base_marker(b)
  BY DEF enqueue_waiting_job
<1> HIDE DEF r, w, b
<1>5. Shape(b)
  BY <1>1, <1>2, <1>3 DEF Sound, Shape
<1>6. \A i \in JobIds \ {j} : Alike(st, b, i) /\ (i \in hand <=> i \in hand \ {j})
  BY <1>1, <1>2, <1>3 DEF Sound, Shape, Alike
<1>7. Fine(b, j) /\ b.lock[j] = None
  <2>1. /\ j \notin st.delayed /\ j \notin st.active /\ j \notin st.waiting_children
        /\ j \notin ToSet(st.completed) /\ j \notin ToSet(st.failed) /\ st.lock[j] = None
    BY <1>1 DEF Sound, Loose, Free, Fine, Is
  <2>2. b.jobs[j] = r
    BY <1>1, <1>3 DEF Sound, Shape
  <2> QED
    BY <1>1, <1>2, <1>3, <2>1, <2>2 DEF Fine, Is
<1>8. Sound(b, hand \ {j}) /\ Kept(st, b)
  <2> DEFINE S == {j}
             hand2 == hand \ {j}
  <2>1. \A i \in S : i \in JobIds => IF i \in hand2 THEN Free(b, i) ELSE Fine(b, i) /\ b.lock[i] = None
    BY <1>7
  <2>2. \A i \in JobIds \ S : Alike(st, b, i) /\ (i \in hand <=> i \in hand2)
    BY <1>6
  <2> HIDE DEF S, hand2
  <2>3. Sound(b, hand2) /\ Kept(st, b)
    BY <1>5, <2>1, <2>2, OthersStay
  <2> QED
    BY <2>3 DEF hand2
<1>9. Quiet(b, add_base_marker(b))
  BY <1>5, MarkersAreQuiet
<1>10. Sound(add_base_marker(b), hand \ {j}) /\ Kept(b, add_base_marker(b))
  BY <1>8, <1>9, QuietSound
<1>11. Kept(st, add_base_marker(b)) /\ add_base_marker(b).jobs = b.jobs
  BY <1>8, <1>9, <1>10, KeptTransitive, QuietJobs
<1> QED
  BY <1>3, <1>4, <1>10, <1>11 DEF r

\* One job finds its place, the others stay.
LEMMA PutDown ==
    ASSUME NEW a, NEW b, NEW hand, NEW j \in JobIds, Sound(a, hand), Shape(b),
           \A i \in JobIds \ {j} : Alike(a, b, i),
           Fine(b, j), b.lock[j] = None
    PROVE  Sound(b, hand \ {j}) /\ Kept(a, b)
<1> DEFINE S == {j}
           hand2 == hand \ {j}
<1>1. \A i \in S : i \in JobIds => IF i \in hand2 THEN Free(b, i) ELSE Fine(b, i) /\ b.lock[i] = None
  OBVIOUS
<1>2. \A i \in JobIds \ S : Alike(a, b, i) /\ (i \in hand <=> i \in hand2)
  OBVIOUS
<1> HIDE DEF S, hand2
<1>3. Sound(b, hand2) /\ Kept(a, b)
  BY <1>1, <1>2, OthersStay
<1> QED
  BY <1>3 DEF hand2

\* One job leaves its place, the others stay.
LEMMA PickUp ==
    ASSUME NEW a, NEW b, NEW hand, NEW j \in JobIds, Sound(a, hand), Shape(b),
           \A i \in JobIds \ {j} : Alike(a, b, i),
           Free(b, j)
    PROVE  Sound(b, hand \cup {j}) /\ Kept(a, b)
<1> DEFINE S == {j}
           hand2 == hand \cup {j}
<1>1. \A i \in S : i \in JobIds => IF i \in hand2 THEN Free(b, i) ELSE Fine(b, i) /\ b.lock[i] = None
  OBVIOUS
<1>2. \A i \in JobIds \ S : Alike(a, b, i) /\ (i \in hand <=> i \in hand2)
  OBVIOUS
<1> HIDE DEF S, hand2
<1>3. Sound(b, hand2) /\ Kept(a, b)
  BY <1>1, <1>2, OthersStay
<1> QED
  BY <1>3 DEF hand2

\* Records change, but no job changes place.
LEMMA AllAlike ==
    ASSUME NEW a, NEW b, NEW hand, Sound(a, hand), Shape(b), \A i \in JobIds : Alike(a, b, i)
    PROVE  Sound(b, hand) /\ Kept(a, b)
<1> DEFINE S == {}
<1>1. \A i \in S : i \in JobIds => IF i \in hand THEN Free(b, i) ELSE Fine(b, i) /\ b.lock[i] = None
  OBVIOUS
<1>2. \A i \in JobIds \ S : Alike(a, b, i) /\ (i \in hand <=> i \in hand)
  OBVIOUS
<1> HIDE DEF S
<1> QED
  BY <1>1, <1>2, OthersStay

\* A step that moves no job, after one that may have moved some.
LEMMA ThenQuiet ==
    ASSUME NEW a, NEW b, NEW c, NEW hand, Sound(b, hand), Kept(a, b), Quiet(b, c)
    PROVE  Sound(c, hand) /\ Kept(a, c) /\ c.jobs = b.jobs
  BY QuietSound, KeptTransitive, QuietJobs

LEMMA EnqueueDelayedSound ==
    ASSUME NEW st, NEW hand, NEW job \in Job, Sound(st, hand),
           Loose(st, hand, job.id, "delayed")
    PROVE  /\ Sound(enqueue_delayed(st, job), hand \ {job.id})
           /\ Kept(st, enqueue_delayed(st, job))
           /\ enqueue_delayed(st, job).jobs =
                [st.jobs EXCEPT ![job.id] = [job EXCEPT !.state = "delayed"]]
<1> DEFINE j == job.id
           r == [job EXCEPT !.state = "delayed"]
           b == [st EXCEPT !.jobs[job.id] = [job EXCEPT !.state = "delayed"],
                           !.delayed = @ \cup {job.id}]
<1>1. r \in Job /\ r.id = j /\ r.state = "delayed" /\ j \in JobIds /\ r # None
  BY Restated DEF JobState
<1>3. /\ DOMAIN b = DOMAIN st /\ b.jobs = [st.jobs EXCEPT ![j] = r] /\ b.waiting = st.waiting
      /\ b.delayed = st.delayed \cup {j} /\ b.active = st.active /\ b.lock = st.lock
      /\ b.waiting_children = st.waiting_children /\ b.completed = st.completed
      /\ b.failed = st.failed /\ b.dedup_next = st.dedup_next /\ b.stalled = st.stalled
  BY DEF Sound, Shape, Keys
<1>4. enqueue_delayed(st, job) = refresh_delay_marker(b)
  BY DEF enqueue_delayed
<1> HIDE DEF r, b
<1>5. Shape(b)
  BY <1>1, <1>3 DEF Sound, Shape
<1>6. \A i \in JobIds \ {j} : Alike(st, b, i)
  BY <1>1, <1>3 DEF Sound, Shape, Alike
<1>7. Fine(b, j) /\ b.lock[j] = None
  <2>1. /\ j \notin EntryIds(st.waiting) /\ j \notin st.active /\ j \notin st.waiting_children
        /\ j \notin ToSet(st.completed) /\ j \notin ToSet(st.failed) /\ st.lock[j] = None
    BY <1>1 DEF Sound, Loose, Free, Fine, Is
  <2>2. b.jobs[j] = r
    BY <1>1, <1>3 DEF Sound, Shape
  <2> QED
    BY <1>1, <1>3, <2>1, <2>2 DEF Fine, Is
<1>8. Sound(b, hand \ {j}) /\ Kept(st, b)
  BY <1>1, <1>5, <1>6, <1>7, PutDown
<1>9. Quiet(b, refresh_delay_marker(b))
  BY <1>5, MarkersAreQuiet
<1> QED
  BY <1>3, <1>4, <1>8, <1>9, ThenQuiet DEF r

\* The third way of enqueue_prepared_job.
enqueue_waiting_children(st, job) ==
    [st EXCEPT !.jobs[job.id] = job, !.waiting_children = @ \cup {job.id}]

LEMMA EnqueueWaitingChildrenSound ==
    ASSUME NEW st, NEW hand, NEW job \in Job, Sound(st, hand), job.state = "waiting_children",
           Loose(st, hand, job.id, "waiting_children")
    PROVE  /\ Sound(enqueue_waiting_children(st, job), hand \ {job.id})
           /\ Kept(st, enqueue_waiting_children(st, job))
           /\ enqueue_waiting_children(st, job).jobs = [st.jobs EXCEPT ![job.id] = job]
<1> DEFINE j == job.id
           b == enqueue_waiting_children(st, job)
<1>1. j \in JobIds /\ job # None
  BY RedisRecordsAssumption DEF Job
<1>3. /\ DOMAIN b = DOMAIN st /\ b.jobs = [st.jobs EXCEPT ![j] = job] /\ b.waiting = st.waiting
      /\ b.delayed = st.delayed /\ b.active = st.active /\ b.lock = st.lock
      /\ b.waiting_children = st.waiting_children \cup {j} /\ b.completed = st.completed
      /\ b.failed = st.failed /\ b.dedup_next = st.dedup_next /\ b.stalled = st.stalled
  BY DEF Sound, Shape, Keys, enqueue_waiting_children
<1> HIDE DEF b
<1>5. Shape(b)
  BY <1>1, <1>3 DEF Sound, Shape
<1>6. \A i \in JobIds \ {j} : Alike(st, b, i)
  BY <1>1, <1>3 DEF Sound, Shape, Alike
<1>7. Fine(b, j) /\ b.lock[j] = None
  <2>1. /\ j \notin EntryIds(st.waiting) /\ j \notin st.active /\ j \notin st.delayed
        /\ j \notin ToSet(st.completed) /\ j \notin ToSet(st.failed) /\ st.lock[j] = None
    BY <1>1 DEF Sound, Loose, Free, Fine, Is
  <2>2. b.jobs[j] = job
    BY <1>1, <1>3 DEF Sound, Shape
  <2> QED
    BY <1>1, <1>3, <2>1, <2>2 DEF Fine, Is
<1> QED
  BY <1>1, <1>3, <1>5, <1>6, <1>7, PutDown DEF b

\* Others keep their records, and the job has one.
LEMMA EnqueuePreparedSound ==
    ASSUME NEW st, NEW hand, NEW job \in Job, Sound(st, hand),
           job.state \in {"waiting", "delayed", "waiting_children"},
           job.id \in hand \/ st.jobs[job.id] = None
    PROVE  /\ Sound(enqueue_prepared_job(st, job), hand \ {job.id})
           /\ Kept(st, enqueue_prepared_job(st, job))
           /\ Exists(enqueue_prepared_job(st, job), job.id)
           /\ \A i \in JobIds \ {job.id} :
                enqueue_prepared_job(st, job).jobs[i] = st.jobs[i]
<1> DEFINE new == enqueue_prepared_job(st, job)
<1>0. job.id \in JobIds /\ job # None /\ st.jobs \in [JobIds -> Job \cup {None}]
  BY RedisRecordsAssumption DEF Job, Sound, Shape
<1> SUFFICES /\ Sound(new, hand \ {job.id}) /\ Kept(st, new)
             /\ \E r \in Job : new.jobs = [st.jobs EXCEPT ![job.id] = r]
  BY <1>0, RedisRecordsAssumption DEF Exists
<1>1. CASE job.state = "waiting"
  <2>1. enqueue_prepared_job(st, job) = enqueue_waiting_job(st, job)
    BY <1>1 DEF enqueue_prepared_job
  <2>2. [job EXCEPT !.state = "waiting"] \in Job
    BY Restated DEF JobState
  <2>3. Loose(st, hand, job.id, "waiting")
    BY DEF Loose
  <2>4. /\ Sound(enqueue_waiting_job(st, job), hand \ {job.id}) /\ Kept(st, enqueue_waiting_job(st, job))
        /\ enqueue_waiting_job(st, job).jobs =
                [st.jobs EXCEPT ![job.id] = [job EXCEPT !.state = "waiting"]]
    BY <2>3, EnqueueWaitingSound
  <2> QED
    BY <2>1, <2>2, <2>4
<1>2. CASE job.state = "delayed"
  <2>1. enqueue_prepared_job(st, job) = enqueue_delayed(st, job)
    BY <1>2 DEF enqueue_prepared_job
  <2>2. [job EXCEPT !.state = "delayed"] \in Job
    BY Restated DEF JobState
  <2>3. Loose(st, hand, job.id, "delayed")
    BY DEF Loose
  <2>4. /\ Sound(enqueue_delayed(st, job), hand \ {job.id}) /\ Kept(st, enqueue_delayed(st, job))
        /\ enqueue_delayed(st, job).jobs =
                [st.jobs EXCEPT ![job.id] = [job EXCEPT !.state = "delayed"]]
    BY <2>3, EnqueueDelayedSound
  <2> QED
    BY <2>1, <2>2, <2>4
<1>3. CASE job.state = "waiting_children"
  <2>1. new = enqueue_waiting_children(st, job)
    BY <1>3 DEF enqueue_prepared_job, enqueue_waiting_children
  <2>2. Loose(st, hand, job.id, "waiting_children")
    BY DEF Loose
  <2>3. /\ Sound(enqueue_waiting_children(st, job), hand \ {job.id})
        /\ Kept(st, enqueue_waiting_children(st, job))
        /\ enqueue_waiting_children(st, job).jobs = [st.jobs EXCEPT ![job.id] = job]
    BY <1>3, <2>2, EnqueueWaitingChildrenSound
  <2> QED
    BY <2>1, <2>3
<1> QED
  BY <1>1, <1>2, <1>3

-----------------------------------------------------------------------------
(***************************************************************************)
(* The end of a job.                                                       *)
(***************************************************************************)
LEMMA RemoveFinishedFields ==
    ASSUME NEW st, Shape(st), NEW gone
    PROVE  LET b == remove_finished_jobs(st, gone) IN
           /\ DOMAIN b = DOMAIN st
           /\ b.jobs = [j \in JobIds |-> IF j \in gone THEN None ELSE st.jobs[j]]
           /\ b.waiting = st.waiting /\ b.delayed = st.delayed /\ b.active = st.active
           /\ b.waiting_children = st.waiting_children /\ b.completed = st.completed
           /\ b.failed = st.failed /\ b.lock = st.lock /\ b.stalled = st.stalled
           /\ b.dedup_next = st.dedup_next
  BY DEF Shape, Keys, remove_finished_jobs

\* A job in hand that leaves no record.
LEMMA RemoveFinishedSound ==
    ASSUME NEW st, NEW hand, Sound(st, hand), NEW j \in JobIds, j \in hand
    PROVE  /\ Sound(remove_finished_jobs(st, {j}), hand \ {j})
           /\ Kept(st, remove_finished_jobs(st, {j}))
<1> DEFINE gone == {j}
           b == remove_finished_jobs(st, gone)
<1>1. Shape(st) /\ Free(st, j)
  BY DEF Sound
<1>2. /\ DOMAIN b = DOMAIN st
      /\ b.jobs = [i \in JobIds |-> IF i \in gone THEN None ELSE st.jobs[i]]
      /\ b.waiting = st.waiting /\ b.delayed = st.delayed /\ b.active = st.active
      /\ b.waiting_children = st.waiting_children /\ b.completed = st.completed
      /\ b.failed = st.failed /\ b.lock = st.lock /\ b.stalled = st.stalled
      /\ b.dedup_next = st.dedup_next
  <2> HIDE DEF gone
  <2> QED
    BY <1>1, RemoveFinishedFields
<1> HIDE DEF b
<1>3. Shape(b)
  BY <1>1, <1>2 DEF Shape
<1>4. \A i \in JobIds \ {j} : Alike(st, b, i)
  BY <1>2 DEF Alike
<1>5. Fine(b, j) /\ b.lock[j] = None
  BY <1>1, <1>2 DEF Free, Fine, Is
<1> QED
  BY <1>3, <1>4, <1>5, PutDown DEF b

LEMMA PruneCompletedSound ==
    ASSUME NEW st, NEW hand, Sound(st, hand), NEW keep
    PROVE  Sound(prune_completed(st, keep), hand) /\ Kept(st, prune_completed(st, keep))
<1> DEFINE kept == Newest(st.completed, keep)
           gone == ToSet(st.completed) \ ToSet(kept)
           r == remove_finished_jobs(st, gone)
           b == [r EXCEPT !.completed = kept]
<1>1. Shape(st) /\ IsList(kept) /\ ToSet(kept) \subseteq ToSet(st.completed)
  BY NewestList DEF Sound, Shape
<1>2. /\ DOMAIN b = DOMAIN st
      /\ b.jobs = [i \in JobIds |-> IF i \in gone THEN None ELSE st.jobs[i]]
      /\ b.waiting = st.waiting /\ b.delayed = st.delayed /\ b.active = st.active
      /\ b.waiting_children = st.waiting_children /\ b.completed = kept
      /\ b.failed = st.failed /\ b.lock = st.lock /\ b.stalled = st.stalled
      /\ b.dedup_next = st.dedup_next
  <2>1. /\ DOMAIN r = DOMAIN st
        /\ r.jobs = [i \in JobIds |-> IF i \in gone THEN None ELSE st.jobs[i]]
        /\ r.waiting = st.waiting /\ r.delayed = st.delayed /\ r.active = st.active
        /\ r.waiting_children = st.waiting_children /\ r.completed = st.completed
        /\ r.failed = st.failed /\ r.lock = st.lock /\ r.stalled = st.stalled
        /\ r.dedup_next = st.dedup_next
    <3> HIDE DEF gone
    <3> QED
      BY <1>1, RemoveFinishedFields
  <2> HIDE DEF r, gone, kept
  <2> QED
    BY <1>1, <2>1 DEF Shape, Keys
<1>3. prune_completed(st, keep) = b
  BY DEF prune_completed
<1> HIDE DEF b, r, kept
<1>4. Shape(b)
  BY <1>1, <1>2 DEF Shape
<1>5. \A i \in JobIds \ gone : Alike(st, b, i)
  BY <1>1, <1>2 DEF Alike
<1>6. ASSUME NEW i \in gone, i \in JobIds PROVE i \notin hand /\ Fine(b, i) /\ b.lock[i] = None
  <2>1. i \notin hand
    BY <1>6 DEF Sound, Free
  <2>2. Fine(st, i) /\ Is(st, i, "completed") /\ st.lock[i] = None
    BY <1>6, <2>1 DEF Sound, Fine, Is
  <2>3. b.jobs[i] = None /\ i \notin ToSet(kept)
    BY <1>2, <1>6
  <2> QED
    BY <1>2, <2>1, <2>2, <2>3 DEF Fine, Is
<1> HIDE DEF gone
<1>7. Sound(b, hand) /\ Kept(st, b)
  BY <1>4, <1>5, <1>6, OthersStay
<1> QED
  BY <1>3, <1>7

LEMMA PruneFailedSound ==
    ASSUME NEW st, NEW hand, Sound(st, hand), NEW keep
    PROVE  Sound(prune_failed(st, keep), hand) /\ Kept(st, prune_failed(st, keep))
<1> DEFINE kept == Newest(st.failed, keep)
           gone == ToSet(st.failed) \ ToSet(kept)
           r == remove_finished_jobs(st, gone)
           b == [r EXCEPT !.failed = kept]
<1>1. Shape(st) /\ IsList(kept) /\ ToSet(kept) \subseteq ToSet(st.failed)
  BY NewestList DEF Sound, Shape
<1>2. /\ DOMAIN b = DOMAIN st
      /\ b.jobs = [i \in JobIds |-> IF i \in gone THEN None ELSE st.jobs[i]]
      /\ b.waiting = st.waiting /\ b.delayed = st.delayed /\ b.active = st.active
      /\ b.waiting_children = st.waiting_children /\ b.completed = st.completed
      /\ b.failed = kept /\ b.lock = st.lock /\ b.stalled = st.stalled
      /\ b.dedup_next = st.dedup_next
  <2>1. /\ DOMAIN r = DOMAIN st
        /\ r.jobs = [i \in JobIds |-> IF i \in gone THEN None ELSE st.jobs[i]]
        /\ r.waiting = st.waiting /\ r.delayed = st.delayed /\ r.active = st.active
        /\ r.waiting_children = st.waiting_children /\ r.completed = st.completed
        /\ r.failed = st.failed /\ r.lock = st.lock /\ r.stalled = st.stalled
        /\ r.dedup_next = st.dedup_next
    <3> HIDE DEF gone
    <3> QED
      BY <1>1, RemoveFinishedFields
  <2> HIDE DEF r, gone, kept
  <2> QED
    BY <1>1, <2>1 DEF Shape, Keys
<1>3. prune_failed(st, keep) = b
  BY DEF prune_failed
<1> HIDE DEF b, r, kept
<1>4. Shape(b)
  BY <1>1, <1>2 DEF Shape
<1>5. \A i \in JobIds \ gone : Alike(st, b, i)
  BY <1>1, <1>2 DEF Alike
<1>6. ASSUME NEW i \in gone, i \in JobIds PROVE i \notin hand /\ Fine(b, i) /\ b.lock[i] = None
  <2>1. i \notin hand
    BY <1>6 DEF Sound, Free
  <2>2. Fine(st, i) /\ Is(st, i, "failed") /\ st.lock[i] = None
    BY <1>6, <2>1 DEF Sound, Fine, Is
  <2>3. b.jobs[i] = None /\ i \notin ToSet(kept)
    BY <1>2, <1>6
  <2> QED
    BY <1>2, <2>1, <2>2, <2>3 DEF Fine, Is
<1> HIDE DEF gone
<1>7. Sound(b, hand) /\ Kept(st, b)
  BY <1>4, <1>5, <1>6, OthersStay
<1> QED
  BY <1>3, <1>7

LEMMA FinishCompletedSound ==
    ASSUME NEW st, NEW hand, Sound(st, hand), NEW job \in Job, job.id \in hand,
           job.state = "completed"
    PROVE  /\ Sound(finish_completed(st, job), hand \ {job.id})
           /\ Kept(st, finish_completed(st, job))
<1> DEFINE j == job.id
           keep == job.options.completion_retention
           list == Append(RemoveFrom(st.completed, j), j)
           b == [st EXCEPT !.jobs[j] = job, !.completed = list]
<1>1. j \in JobIds /\ job # None /\ Shape(st) /\ Free(st, j)
  BY RedisRecordsAssumption DEF Job, Sound
<1>2. CASE keep = 0
  BY <1>1, <1>2, RemoveFinishedSound DEF finish_completed
<1>3. CASE keep # 0
  <2>1. IsList(list) /\ ToSet(list) = ToSet(st.completed) \cup {j}
    BY <1>1, AppendList DEF Shape
  <2>2. /\ DOMAIN b = DOMAIN st
        /\ b.jobs = [st.jobs EXCEPT ![j] = job]
        /\ b.waiting = st.waiting /\ b.delayed = st.delayed /\ b.active = st.active
        /\ b.waiting_children = st.waiting_children /\ b.completed = list
        /\ b.failed = st.failed /\ b.lock = st.lock /\ b.stalled = st.stalled
        /\ b.dedup_next = st.dedup_next
    BY <1>1 DEF Shape, Keys
  <2>3. finish_completed(st, job) = prune_completed(b, keep)
    BY <1>3 DEF finish_completed
  <2> HIDE DEF b, list
  <2>4. Shape(b)
    BY <1>1, <2>1, <2>2 DEF Shape
  <2>5. \A i \in JobIds \ {j} : Alike(st, b, i)
    BY <1>1, <2>1, <2>2 DEF Shape, Alike
  <2>6. b.jobs[j] = job
    BY <1>1, <2>2 DEF Shape
  <2>7. Fine(b, j) /\ b.lock[j] = None
    BY <1>1, <2>1, <2>2, <2>6 DEF Free, Fine, Is
  <2>8. Sound(b, hand \ {j}) /\ Kept(st, b)
    BY <1>1, <2>4, <2>5, <2>7, PutDown
  <2>9. Sound(prune_completed(b, keep), hand \ {j}) /\ Kept(b, prune_completed(b, keep))
    BY <2>8, PruneCompletedSound
  <2> QED
    BY <2>3, <2>8, <2>9, KeptTransitive
<1> QED
  BY <1>2, <1>3

LEMMA FinishFailedSound ==
    ASSUME NEW st, NEW hand, Sound(st, hand), NEW job \in Job, job.id \in hand,
           job.state = "failed"
    PROVE  /\ Sound(finish_failed(st, job), hand \ {job.id})
           /\ Kept(st, finish_failed(st, job))
<1> DEFINE j == job.id
           keep == job.options.failure_retention
           list == Append(RemoveFrom(st.failed, j), j)
           b == [st EXCEPT !.jobs[j] = job, !.failed = list]
<1>1. j \in JobIds /\ job # None /\ Shape(st) /\ Free(st, j)
  BY RedisRecordsAssumption DEF Job, Sound
<1>2. CASE keep = 0
  BY <1>1, <1>2, RemoveFinishedSound DEF finish_failed
<1>3. CASE keep # 0
  <2>1. IsList(list) /\ ToSet(list) = ToSet(st.failed) \cup {j}
    BY <1>1, AppendList DEF Shape
  <2>2. /\ DOMAIN b = DOMAIN st
        /\ b.jobs = [st.jobs EXCEPT ![j] = job]
        /\ b.waiting = st.waiting /\ b.delayed = st.delayed /\ b.active = st.active
        /\ b.waiting_children = st.waiting_children /\ b.completed = st.completed
        /\ b.failed = list /\ b.lock = st.lock /\ b.stalled = st.stalled
        /\ b.dedup_next = st.dedup_next
    BY <1>1 DEF Shape, Keys
  <2>3. finish_failed(st, job) = prune_failed(b, keep)
    BY <1>3 DEF finish_failed
  <2> HIDE DEF b, list
  <2>4. Shape(b)
    BY <1>1, <2>1, <2>2 DEF Shape
  <2>5. \A i \in JobIds \ {j} : Alike(st, b, i)
    BY <1>1, <2>1, <2>2 DEF Shape, Alike
  <2>6. b.jobs[j] = job
    BY <1>1, <2>2 DEF Shape
  <2>7. Fine(b, j) /\ b.lock[j] = None
    BY <1>1, <2>1, <2>2, <2>6 DEF Free, Fine, Is
  <2>8. Sound(b, hand \ {j}) /\ Kept(st, b)
    BY <1>1, <2>4, <2>5, <2>7, PutDown
  <2>9. Sound(prune_failed(b, keep), hand \ {j}) /\ Kept(b, prune_failed(b, keep))
    BY <2>8, PruneFailedSound
  <2> QED
    BY <2>3, <2>8, <2>9, KeptTransitive
<1> QED
  BY <1>2, <1>3

-----------------------------------------------------------------------------
(***************************************************************************)
(* Parents.                                                                *)
(***************************************************************************)
LEMMA Rewritten ==
    ASSUME NEW job \in Job, NEW state \in JobState, NEW deferred \in BOOLEAN
    PROVE  /\ [job EXCEPT !.deferred_failure = deferred] \in Job
           /\ [job EXCEPT !.deferred_failure = deferred].id = job.id
           /\ [job EXCEPT !.deferred_failure = deferred].state = job.state
           /\ [job EXCEPT !.state = state, !.deferred_failure = deferred] \in Job
           /\ [job EXCEPT !.state = state, !.deferred_failure = deferred].id = job.id
           /\ [job EXCEPT !.state = state, !.deferred_failure = deferred].state = state
  BY DEF Job

\* A parent leaves waiting_children for the script's hand.
LEMMA TakeParent ==
    ASSUME NEW st, Sound(st, {}), NEW p \in JobIds, Is(st, p, "waiting_children"), NEW deps,
           NEW b, b = [st EXCEPT !.deps = deps, !.waiting_children = @ \ {p}]
    PROVE  Sound(b, {p}) /\ Kept(st, b) /\ b.jobs = st.jobs
<1>1. Shape(st) /\ Fine(st, p)
  BY DEF Sound
<1>2. /\ DOMAIN b = DOMAIN st /\ b.jobs = st.jobs
      /\ b.waiting = st.waiting /\ b.delayed = st.delayed /\ b.active = st.active
      /\ b.waiting_children = st.waiting_children \ {p} /\ b.completed = st.completed
      /\ b.failed = st.failed /\ b.lock = st.lock /\ b.stalled = st.stalled
      /\ b.dedup_next = st.dedup_next
  BY <1>1 DEF Shape, Keys
<1>3. Shape(b)
  BY <1>1, <1>2 DEF Shape
<1>4. \A i \in JobIds \ {p} : Alike(st, b, i)
  BY <1>2 DEF Alike
<1>5. Free(b, p)
  BY <1>1, <1>2 DEF Fine, Free, Is
<1>6. Sound(b, {} \cup {p}) /\ Kept(st, b)
  <2> DEFINE hand == {}
  <2>1. Sound(st, hand)
    OBVIOUS
  <2> HIDE DEF hand
  <2>2. Sound(b, hand \cup {p}) /\ Kept(st, b)
    BY <2>1, <1>3, <1>4, <1>5, PickUp
  <2> QED
    BY <2>2 DEF hand
<1>7. {} \cup {p} = {p}
  OBVIOUS
<1> QED
  BY <1>2, <1>6, <1>7

LEMMA ReleaseParentSound ==
    ASSUME NEW st, Sound(st, {}), NEW p \in JobIds, Is(st, p, "waiting_children"),
           NEW deferred \in BOOLEAN
    PROVE  Sound(release_parent(st, p, deferred), {}) /\ Kept(st, release_parent(st, p, deferred))
<1> DEFINE b == [st EXCEPT !.waiting_children = @ \ {p}]
           parent == [st.jobs[p] EXCEPT !.deferred_failure = deferred]
           hand == {p}
<1>1. st.jobs[p] \in Job /\ st.jobs[p].id = p /\ Shape(st)
  BY DEF Sound, Shape, Is
<1>2. parent \in Job /\ parent.id = p
  BY <1>1, Rewritten DEF JobState
<1>3. Sound(b, hand) /\ Kept(st, b) /\ b.jobs = st.jobs
  <2>1. b = [st EXCEPT !.deps = st.deps, !.waiting_children = @ \ {p}]
    BY <1>1 DEF Shape, Keys
  <2> HIDE DEF b
  <2> QED
    BY <2>1, TakeParent
<1>4. hand \ {p} = {} /\ p \in hand
  OBVIOUS
<1>5. release_parent(st, p, deferred) =
        IF parent.due THEN enqueue_waiting_job(b, parent) ELSE enqueue_delayed(b, parent)
  BY DEF release_parent
<1> HIDE DEF b, parent, hand
<1>6. Loose(b, hand, p, "waiting") /\ Loose(b, hand, p, "delayed")
  BY <1>4 DEF Loose
<1>7. Sound(enqueue_waiting_job(b, parent), hand \ {p}) /\ Kept(b, enqueue_waiting_job(b, parent))
  BY <1>2, <1>3, <1>6, EnqueueWaitingSound
<1>8. Sound(enqueue_delayed(b, parent), hand \ {p}) /\ Kept(b, enqueue_delayed(b, parent))
  BY <1>2, <1>3, <1>6, EnqueueDelayedSound
<1>9. Kept(st, enqueue_waiting_job(b, parent)) /\ Kept(st, enqueue_delayed(b, parent))
  BY <1>3, <1>7, <1>8, KeptTransitive
<1> QED
  BY <1>4, <1>5, <1>7, <1>8, <1>9

LEMMA ReleaseParentWhenDoneSound ==
    ASSUME NEW st, Sound(st, {}), NEW p \in JobIds, Is(st, p, "waiting_children")
    PROVE  /\ Sound(release_parent_when_done(st, p), {})
           /\ Kept(st, release_parent_when_done(st, p))
<1> DEFINE b == [st EXCEPT !.deps[p].pending = {}]
           no == FALSE
<1>1. Quiet(st, b)
  BY DEF Sound, Shape, Keys, Quiet
<1>2. release_parent_when_done(st, p) = release_parent(b, p, no) /\ no \in BOOLEAN
  BY DEF release_parent_when_done
<1> HIDE DEF b, no
<1>3. Sound(b, {}) /\ Kept(st, b) /\ Is(b, p, "waiting_children")
  BY <1>1, QuietSound, QuietJobs DEF Is
<1>4. Sound(release_parent(b, p, no), {}) /\ Kept(b, release_parent(b, p, no))
  BY <1>2, <1>3, ReleaseParentSound
<1> QED
  BY <1>2, <1>3, <1>4, KeptTransitive

LEMMA FailParentSound ==
    ASSUME NEW st, Sound(st, {}), NEW p \in JobIds, Is(st, p, "waiting_children")
    PROVE  Sound(fail_parent(st, p), {}) /\ Kept(st, fail_parent(st, p))
<1> DEFINE parent == [st.jobs[p] EXCEPT !.state = "failed", !.deferred_failure = FALSE]
           b == leave_waiting_children(st, p)
           c == release_deduplication_key_on_finalization(b, parent)
           d == release_repeat_key(c, parent)
           hand == {p}
<1>1. st.jobs[p] \in Job /\ st.jobs[p].id = p /\ Shape(st)
  BY DEF Sound, Shape, Is
<1>2. parent \in Job /\ parent.id = p /\ parent.state = "failed"
  BY <1>1, Rewritten DEF JobState, Terminal
<1>3. Sound(b, hand) /\ Kept(st, b)
  <2> DEFINE deps == [st.deps EXCEPT ![p].pending = {}]
  <2>1. b = [st EXCEPT !.deps = deps, !.waiting_children = @ \ {p}]
    BY <1>1 DEF leave_waiting_children, Shape, Keys
  <2> HIDE DEF b, deps
  <2> QED
    BY <2>1, TakeParent
<1>4. fail_parent(st, p) = finish_failed(d, parent)
  BY DEF fail_parent
<1>5. hand \ {p} = {} /\ p \in hand
  OBVIOUS
<1> HIDE DEF b, parent, hand
<1>6. Quiet(b, c)
  BY <1>3, DedupKeysAreQuiet DEF Sound
<1> HIDE DEF c
<1>7. Sound(c, hand) /\ Kept(st, c)
  BY <1>3, <1>6, ThenQuiet
<1>8. Quiet(c, d)
  BY <1>7, RepeatKeysAreQuiet DEF Sound
<1> HIDE DEF d
<1>9. Sound(d, hand) /\ Kept(st, d)
  BY <1>7, <1>8, ThenQuiet
<1>10. Sound(finish_failed(d, parent), hand \ {p}) /\ Kept(d, finish_failed(d, parent))
  BY <1>2, <1>5, <1>9, FinishFailedSound
<1> QED
  BY <1>4, <1>5, <1>9, <1>10, KeptTransitive

LEMMA FailParentAfterRemovalSound ==
    ASSUME NEW st, Sound(st, {}), NEW p \in JobIds, Is(st, p, "waiting_children")
    PROVE  /\ Sound(fail_parent_after_removal(st, p), {})
           /\ Kept(st, fail_parent_after_removal(st, p))
<1> DEFINE parent == [st.jobs[p] EXCEPT !.state = "failed", !.deferred_failure = FALSE]
           b == leave_waiting_children(st, p)
           c == release_deduplication_key(b, parent)
           d == release_repeat_key(c, parent)
           hand == {p}
<1>1. st.jobs[p] \in Job /\ st.jobs[p].id = p /\ Shape(st)
  BY DEF Sound, Shape, Is
<1>2. parent \in Job /\ parent.id = p /\ parent.state = "failed"
  BY <1>1, Rewritten DEF JobState, Terminal
<1>3. Sound(b, hand) /\ Kept(st, b)
  <2> DEFINE deps == [st.deps EXCEPT ![p].pending = {}]
  <2>1. b = [st EXCEPT !.deps = deps, !.waiting_children = @ \ {p}]
    BY <1>1 DEF leave_waiting_children, Shape, Keys
  <2> HIDE DEF b, deps
  <2> QED
    BY <2>1, TakeParent
<1> DEFINE e == finish_failed(d, parent)
<1>4. fail_parent_after_removal(st, p) = release_removed_owners(st, e)
  BY DEF fail_parent_after_removal
<1>5. hand \ {p} = {} /\ p \in hand
  OBVIOUS
<1> HIDE DEF b, parent, hand
<1>6. Quiet(b, c)
  BY <1>3, DedupKeysAreQuiet DEF Sound
<1> HIDE DEF c
<1>7. Sound(c, hand) /\ Kept(st, c)
  BY <1>3, <1>6, ThenQuiet
<1>8. Quiet(c, d)
  BY <1>7, RepeatKeysAreQuiet DEF Sound
<1> HIDE DEF d
<1>9. Sound(d, hand) /\ Kept(st, d)
  BY <1>7, <1>8, ThenQuiet
<1>10. Sound(e, hand \ {p}) /\ Kept(d, e)
  BY <1>2, <1>5, <1>9, FinishFailedSound
<1> HIDE DEF e
<1>11. Sound(e, {}) /\ Kept(st, e)
  BY <1>5, <1>9, <1>10, KeptTransitive
<1>12. Quiet(e, release_removed_owners(st, e))
  BY <1>11, RemovedOwnersAreQuiet DEF Sound
<1> QED
  BY <1>4, <1>11, <1>12, ThenQuiet

LEMMA ScanChildrenSound ==
    ASSUME NEW st, Sound(st, {}), NEW p \in JobIds, Is(st, p, "waiting_children"), NEW job
    PROVE  Sound(scan_children(st, p, job), {}) /\ Kept(st, scan_children(st, p, job))
<1>1. scan_children(st, p, job) \in {release_parent_when_done(st, p), fail_parent(st, p), st}
  BY DEF scan_children
<1> QED
  BY <1>1, ReleaseParentWhenDoneSound, FailParentSound, KeptReflexive

LEMMA ScanRemainingChildrenSound ==
    ASSUME NEW st, Sound(st, {}), NEW p \in JobIds, Is(st, p, "waiting_children")
    PROVE  /\ Sound(scan_remaining_children(st, p), {})
           /\ Kept(st, scan_remaining_children(st, p))
<1>1. scan_remaining_children(st, p) \in
            {release_parent_when_done(st, p), fail_parent_after_removal(st, p), st}
  BY DEF scan_remaining_children
<1> QED
  BY <1>1, ReleaseParentWhenDoneSound, FailParentAfterRemovalSound, KeptReflexive

LEMMA ChildCompletedSound ==
    ASSUME NEW st, Sound(st, {}), NEW job
    PROVE  Sound(child_completed(st, job), {}) /\ Kept(st, child_completed(st, job))
<1> DEFINE p == job.parent_id
           s1 == IF job.id \in st.deps[p].pending
                 THEN [st EXCEPT !.deps[p].pending = @ \ {job.id},
                                 !.deps[p].processed = @ \cup {job.id}]
                 ELSE st
<1>1. child_completed(st, job) \in {st, s1, scan_children(s1, p, job), release_parent_when_done(s1, p)}
  BY DEF child_completed
<1>2. CASE ~Exists(st, p)
  BY <1>2, KeptReflexive DEF child_completed
<1>3. CASE Exists(st, p) /\ st.jobs[p].state # "waiting_children"
  <2>1. child_completed(st, job) = s1
    BY <1>3 DEF child_completed
  <2>2. Quiet(st, s1)
    BY QuietReflexive DEF Sound, Shape, Keys, Quiet
  <2> QED
    BY <2>1, <2>2, QuietSound
<1>4. CASE Exists(st, p) /\ st.jobs[p].state = "waiting_children"
  <2>2. Quiet(st, s1)
    BY QuietReflexive DEF Sound, Shape, Keys, Quiet
  <2> HIDE DEF s1
  <2>3. Sound(s1, {}) /\ Kept(st, s1) /\ p \in JobIds /\ Is(s1, p, "waiting_children")
    BY <1>4, <2>2, QuietSound, QuietJobs DEF Exists, Is
  <2> HIDE DEF p
  <2>4. Sound(scan_children(s1, p, job), {}) /\ Kept(s1, scan_children(s1, p, job))
    BY <2>3, ScanChildrenSound
  <2>5. Sound(release_parent_when_done(s1, p), {}) /\ Kept(s1, release_parent_when_done(s1, p))
    BY <2>3, ReleaseParentWhenDoneSound
  <2>6. Kept(st, scan_children(s1, p, job)) /\ Kept(st, release_parent_when_done(s1, p))
    BY <2>3, <2>4, <2>5, KeptTransitive
  <2> QED
    BY <1>1, <2>3, <2>4, <2>5, <2>6, KeptReflexive
<1> QED
  BY <1>2, <1>3, <1>4

LEMMA ParentAfterChildFailureSound ==
    ASSUME NEW st, Sound(st, {}), NEW p \in JobIds, Is(st, p, "waiting_children"),
           NEW job, job.options.on_failure \in ChildFailure
    PROVE  /\ Sound(parent_after_child_failure(st, p, job), {})
           /\ Kept(st, parent_after_child_failure(st, p, job))
<1> DEFINE s2 == record_failed_child(st, p, job)
           yes == TRUE
           no == FALSE
<1>1. yes \in BOOLEAN /\ no \in BOOLEAN
  OBVIOUS
<1>2. parent_after_child_failure(st, p, job) \in
        {fail_parent(st, p), release_parent(s2, p, yes), release_parent(s2, p, no),
         scan_children(st, p, job), s2, release_parent_when_done(s2, p)}
  BY DEF parent_after_child_failure, ChildFailure
<1>3. Quiet(st, s2)
  BY RecordFailedChildIsQuiet DEF Sound
<1> HIDE DEF s2, yes, no
<1>4. Sound(s2, {}) /\ Kept(st, s2) /\ Is(s2, p, "waiting_children")
  BY <1>3, QuietSound, QuietJobs DEF Is
<1>5. Sound(release_parent(s2, p, yes), {}) /\ Kept(s2, release_parent(s2, p, yes))
  BY <1>1, <1>4, ReleaseParentSound
<1>6. Sound(release_parent(s2, p, no), {}) /\ Kept(s2, release_parent(s2, p, no))
  BY <1>1, <1>4, ReleaseParentSound
<1>7. Sound(release_parent_when_done(s2, p), {}) /\ Kept(s2, release_parent_when_done(s2, p))
  BY <1>4, ReleaseParentWhenDoneSound
<1>8. /\ Kept(st, release_parent(s2, p, yes)) /\ Kept(st, release_parent(s2, p, no))
      /\ Kept(st, release_parent_when_done(s2, p))
  BY <1>4, <1>5, <1>6, <1>7, KeptTransitive
<1>9. /\ Sound(fail_parent(st, p), {}) /\ Kept(st, fail_parent(st, p))
      /\ Sound(scan_children(st, p, job), {}) /\ Kept(st, scan_children(st, p, job))
  BY FailParentSound, ScanChildrenSound
<1> QED
  BY <1>2, <1>4, <1>5, <1>6, <1>7, <1>8, <1>9

LEMMA ChildFailedSound ==
    ASSUME NEW st, Sound(st, {}), NEW job, job.options.on_failure \in ChildFailure
    PROVE  Sound(child_failed(st, job), {}) /\ Kept(st, child_failed(st, job))
<1> DEFINE p == job.parent_id
           s1 == IF job.options.on_failure # "fail" /\ job.id \in st.deps[p].pending
                 THEN record_failed_child(st, p, job) ELSE st
<1>1. child_failed(st, job) = IF ~Exists(st, p) THEN st
                              ELSE IF st.jobs[p].state # "waiting_children" THEN s1
                              ELSE parent_after_child_failure(s1, p, job)
  BY DEF child_failed
<1>2. Quiet(st, s1)
  BY RecordFailedChildIsQuiet, QuietReflexive DEF Sound
<1> HIDE DEF s1
<1>3. Sound(s1, {}) /\ Kept(st, s1) /\ s1.jobs = st.jobs
  BY <1>2, QuietSound, QuietJobs
<1>4. CASE ~Exists(st, p)
  BY <1>1, <1>4, KeptReflexive
<1>5. CASE Exists(st, p) /\ st.jobs[p].state # "waiting_children"
  BY <1>1, <1>3, <1>5
<1>6. CASE Exists(st, p) /\ st.jobs[p].state = "waiting_children"
  <2>1. p \in JobIds /\ Is(s1, p, "waiting_children")
    BY <1>3, <1>6 DEF Exists, Is
  <2> HIDE DEF p
  <2>2. /\ Sound(parent_after_child_failure(s1, p, job), {})
        /\ Kept(s1, parent_after_child_failure(s1, p, job))
    BY <1>3, <2>1, ParentAfterChildFailureSound
  <2>3. Kept(st, parent_after_child_failure(s1, p, job))
    BY <1>3, <2>2, KeptTransitive
  <2> QED
    BY <1>1, <1>6, <2>2, <2>3
<1> QED
  BY <1>4, <1>5, <1>6

-----------------------------------------------------------------------------
(***************************************************************************)
(* Removal.                                                                *)
(***************************************************************************)
\* Whatever the copy of the job says, no key of the job is left.
LEMMA RemoveJobRecordSound ==
    ASSUME NEW st, NEW hand, Sound(st, hand), NEW job, job.id \in JobIds
    PROVE  /\ Sound(remove_job_record(st, job), hand \ {job.id})
           /\ Kept(st, remove_job_record(st, job))
           /\ remove_job_record(st, job).jobs = [st.jobs EXCEPT ![job.id] = None]
<1> DEFINE j == job.id
           s0 == release_deduplication_key(st, job)
           s1 == release_repeat_key(s0, job)
           w == RemoveWaiting(s1.waiting, job.id)
           done == RemoveFrom(s1.completed, job.id)
           lost == RemoveFrom(s1.failed, job.id)
           s2 == [s1 EXCEPT !.lock[job.id] = None, !.stalled = @ \ {job.id},
                            !.waiting = w, !.delayed = @ \ {job.id},
                            !.active = @ \ {job.id}, !.waiting_children = @ \ {job.id},
                            !.completed = done, !.failed = lost,
                            !.jobs[job.id] = None]
           b == remove_dependency_keys(s2, job.id)
<1>1. Quiet(st, s0)
  BY DedupKeysAreQuiet DEF Sound
<1> HIDE DEF s0
<1>2. Sound(s0, hand) /\ Kept(st, s0) /\ s0.jobs = st.jobs
  BY <1>1, QuietSound, QuietJobs
<1>3. Quiet(s0, s1)
  BY <1>2, RepeatKeysAreQuiet DEF Sound
<1> HIDE DEF s1
<1>4. Sound(s1, hand) /\ Kept(st, s1) /\ s1.jobs = st.jobs
  BY <1>2, <1>3, ThenQuiet
<1>5. /\ IsList(w) /\ EntryIds(w) = EntryIds(s1.waiting) \ {j}
      /\ IsList(done) /\ ToSet(done) = ToSet(s1.completed) \ {j}
      /\ IsList(lost) /\ ToSet(lost) = ToSet(s1.failed) \ {j}
  BY <1>4, RemoveWaitingIds, RemoveFromList DEF Sound, Shape
<1>6. remove_job_record(st, job) = b
  BY DEF remove_job_record, s1, s0
<1> HIDE DEF w, done, lost
<1>7. /\ DOMAIN b = DOMAIN s1 /\ b.jobs = [s1.jobs EXCEPT ![j] = None]
      /\ b.waiting = w /\ b.delayed = s1.delayed \ {j} /\ b.active = s1.active \ {j}
      /\ b.waiting_children = s1.waiting_children \ {j} /\ b.completed = done
      /\ b.failed = lost /\ b.lock = [s1.lock EXCEPT ![j] = None]
      /\ b.stalled = s1.stalled \ {j} /\ b.dedup_next = s1.dedup_next
  BY <1>4 DEF Sound, Shape, Keys, remove_dependency_keys
<1> HIDE DEF s2, b
<1>8. Shape(b)
  BY <1>4, <1>5, <1>7 DEF Sound, Shape
<1>9. \A i \in JobIds \ {j} : Alike(s1, b, i)
  BY <1>4, <1>5, <1>7 DEF Sound, Shape, Alike
<1>10. Fine(b, j) /\ b.lock[j] = None
  <2>1. b.jobs[j] = None /\ b.lock[j] = None
    BY <1>4, <1>7 DEF Sound, Shape
  <2> QED
    BY <1>5, <1>7, <2>1 DEF Fine, Is
<1>11. Sound(b, hand \ {j}) /\ Kept(s1, b)
  BY <1>4, <1>8, <1>9, <1>10, PutDown
<1> QED
  BY <1>4, <1>6, <1>7, <1>11, KeptTransitive

LEMMA ReleaseAfterRemovedSound ==
    ASSUME NEW st, Sound(st, {}), NEW job
    PROVE  /\ Sound(release_parent_after_removed_child(st, job), {})
           /\ Kept(st, release_parent_after_removed_child(st, job))
<1> DEFINE p == job.parent_id
           s1 == [st EXCEPT !.deps[p].pending = @ \ {job.id}]
<1>1. release_parent_after_removed_child(st, job) \in
        {st, scan_remaining_children(st, p), s1, release_parent_when_done(s1, p)}
  BY DEF release_parent_after_removed_child
<1>2. CASE ~(Exists(st, p) /\ st.jobs[p].state = "waiting_children")
  BY <1>2, KeptReflexive DEF release_parent_after_removed_child
<1>3. CASE Exists(st, p) /\ st.jobs[p].state = "waiting_children"
  <2>1. Quiet(st, s1)
    BY DEF Sound, Shape, Keys, Quiet
  <2> HIDE DEF s1
  <2>2. p \in JobIds /\ Is(st, p, "waiting_children")
    BY <1>3 DEF Exists, Is
  <2>3. Sound(s1, {}) /\ Kept(st, s1) /\ Is(s1, p, "waiting_children")
    BY <2>1, <2>2, QuietSound, QuietJobs DEF Is
  <2> HIDE DEF p
  <2>4. Sound(scan_remaining_children(st, p), {}) /\ Kept(st, scan_remaining_children(st, p))
    BY <2>2, ScanRemainingChildrenSound
  <2>5. Sound(release_parent_when_done(s1, p), {}) /\ Kept(s1, release_parent_when_done(s1, p))
    BY <2>2, <2>3, ReleaseParentWhenDoneSound
  <2>6. Kept(st, release_parent_when_done(s1, p))
    BY <2>3, <2>5, KeptTransitive
  <2> QED
    BY <1>1, <2>3, <2>4, <2>5, <2>6, KeptReflexive
<1> QED
  BY <1>2, <1>3

LEMMA RemoveWithDependencySound ==
    ASSUME NEW st, Sound(st, {}), NEW job, job.id \in JobIds
    PROVE  Sound(remove_with_dependency(st, job), {}) /\ Kept(st, remove_with_dependency(st, job))
<1> DEFINE b == remove_job_record(st, job)
<1>1. Sound(b, {} \ {job.id}) /\ Kept(st, b)
  <2> DEFINE hand == {}
  <2>1. Sound(st, hand)
    OBVIOUS
  <2> HIDE DEF hand
  <2>2. Sound(b, hand \ {job.id}) /\ Kept(st, b)
    BY <2>1, RemoveJobRecordSound
  <2> QED
    BY <2>2 DEF hand
<1>2. {} \ {job.id} = {}
  OBVIOUS
<1> HIDE DEF b
<1>3. Sound(b, {}) /\ Kept(st, b)
  BY <1>1, <1>2
<1>4. /\ Sound(release_parent_after_removed_child(b, job), {})
      /\ Kept(b, release_parent_after_removed_child(b, job))
  BY <1>3, ReleaseAfterRemovedSound
<1>5. Kept(st, release_parent_after_removed_child(b, job))
  BY <1>3, <1>4, KeptTransitive
<1> QED
  BY <1>4, <1>5 DEF remove_with_dependency, b

-----------------------------------------------------------------------------
(***************************************************************************)
(* The duplicate parked behind an owner.                                   *)
(***************************************************************************)
\* The children of a parked flow, one after the other.
ParkedRun(F, x, s, p) ==
    /\ F[0] = x
    /\ \A n \in 0 .. Len(s) - 1 : F[n + 1] = enqueue_parked_child(F[n], p, s[n + 1])
    /\ enqueue_parked_children(x, p, s) = F[Len(s)]

LEMMA ParkedRunExists ==
    ASSUME NEW x, NEW s, Len(s) \in Nat, NEW p
    PROVE  \E F : ParkedRun(F, x, s, p)
<1> DEFINE Runs(f, n) ==
               f = [i \in 0 .. n |-> IF i = 0 THEN x ELSE enqueue_parked_child(f[i - 1], p, s[i])]
           N == Len(s)
           F == CHOOSE f : Runs(f, N)
           Reached == {n \in 0 .. N : \E f : Runs(f, n)}
<1>1. N \in Nat
  OBVIOUS
<1>2. enqueue_parked_children(x, p, s) = F[N]
  BY DEF InTurn, enqueue_parked_children
<1>3. Runs(F, N)
  <2>1. \E f : Runs(f, 0)
    <3> WITNESS [i \in 0 .. 0 |-> x]
    <3> QED
      OBVIOUS
  <2>2. ASSUME NEW n \in 0 .. N - 1, NEW f, Runs(f, n) PROVE \E g : Runs(g, n + 1)
    <3> DEFINE g == [i \in 0 .. n + 1 |->
                        IF i <= n THEN f[i] ELSE enqueue_parked_child(f[n], p, s[n + 1])]
    <3>1. Runs(g, n + 1)
      BY <2>2
    <3> QED
      BY <3>1
  <2> HIDE DEF Runs, N
  <2>3. 0 \in Reached /\ \A n \in 0 .. N - 1 : n \in Reached => n + 1 \in Reached
    BY <1>1, <2>1, <2>2
  <2> HIDE DEF Reached
  <2>4. \A n \in 0 .. N : n \in Reached
    BY <1>1, <2>3, Climb
  <2>5. N \in Reached
    BY <1>1, <2>4
  <2> QED
    BY <2>5 DEF Reached
<1> HIDE DEF F
<1>4. F[0] = x
  BY <1>1, <1>3
<1>5. ASSUME NEW n \in 0 .. N - 1 PROVE F[n + 1] = enqueue_parked_child(F[n], p, s[n + 1])
  <2>1. n + 1 \in 0 .. N /\ n + 1 # 0 /\ (n + 1) - 1 = n
    BY <1>1
  <2>2. F[n + 1] = enqueue_parked_child(F[(n + 1) - 1], p, s[n + 1])
    BY <1>3, <2>1
  <2> QED
    BY <2>1, <2>2
<1>6. ParkedRun(F, x, s, p)
  BY <1>2, <1>4, <1>5 DEF ParkedRun
<1> QED
  BY <1>6

LEMMA NewJobIsJob ==
    ASSUME NEW j \in JobIds, NEW options \in JobOptions
    PROVE  /\ new_job(j, options) \in Job /\ new_job(j, options).id = j
           /\ new_job(j, options).state \in {"waiting", "delayed"}
           /\ new_job(j, options).options = options
<1>1. options.delay \in BOOLEAN
  BY DEF JobOptions
<1>2. <<>> \in Seq(JobIds)
  OBVIOUS
<1> QED
  BY <1>1, <1>2 DEF new_job, Job, JobState

LEMMA PreparedIsJob ==
    ASSUME NEW job \in Job
    PROVE  /\ prepare_deduplicated_next_job(job) \in Job
           /\ prepare_deduplicated_next_job(job).id = job.id
           /\ prepare_deduplicated_next_job(job).state \in {"waiting", "delayed"}
<1>1. job.id \in JobIds /\ job.options \in JobOptions /\ job.parent_id \in JobIds \cup {None}
      /\ job.child_ids \in Seq(JobIds) /\ job.repeat_count \in Nat
  BY DEF Job
<1>2. /\ new_job(job.id, job.options) \in Job /\ new_job(job.id, job.options).id = job.id
      /\ new_job(job.id, job.options).state \in {"waiting", "delayed"}
  BY <1>1, NewJobIsJob
<1> QED
  BY <1>1, <1>2 DEF prepare_deduplicated_next_job, Job

\* The jobs in hand have their records still.
Held(st, hand) == \A j \in hand : st.jobs[j] # None

\* A job without a record is enqueued.
LEMMA EnqueueNewSound ==
    ASSUME NEW st, NEW hand, NEW job \in Job, Sound(st, hand), Held(st, hand),
           job.state \in {"waiting", "delayed", "waiting_children"}, st.jobs[job.id] = None
    PROVE  /\ Sound(enqueue_prepared_job(st, job), hand)
           /\ Kept(st, enqueue_prepared_job(st, job))
           /\ Exists(enqueue_prepared_job(st, job), job.id)
           /\ \A i \in JobIds \ {job.id} : enqueue_prepared_job(st, job).jobs[i] = st.jobs[i]
<1>1. hand \ {job.id} = hand
  BY DEF Held
<1>2. /\ Sound(enqueue_prepared_job(st, job), hand \ {job.id})
      /\ Kept(st, enqueue_prepared_job(st, job))
      /\ Exists(enqueue_prepared_job(st, job), job.id)
      /\ \A i \in JobIds \ {job.id} : enqueue_prepared_job(st, job).jobs[i] = st.jobs[i]
  BY EnqueuePreparedSound
<1> QED
  BY <1>1, <1>2

LEMMA EnqueueParkedChildSound ==
    ASSUME NEW st, NEW hand, Sound(st, hand), hand \subseteq JobIds, Held(st, hand),
           NEW p \in JobIds, NEW child \in Job, st.jobs[child.id] = None
    PROVE  /\ Sound(enqueue_parked_child(st, p, child), hand)
           /\ Kept(st, enqueue_parked_child(st, p, child))
           /\ Held(enqueue_parked_child(st, p, child), hand)
           /\ \A i \in JobIds \ {child.id} : enqueue_parked_child(st, p, child).jobs[i] = st.jobs[i]
<1> DEFINE job == [prepare_deduplicated_next_job(child) EXCEPT !.parent_id = p,
                                                              !.child_ids = <<>>]
           s1 == [st EXCEPT !.deps[p].pending = @ \cup {job.id}]
           s2 == set_deduplication_key(s1, job)
<1>1. job \in Job /\ job.id = child.id /\ job.state \in {"waiting", "delayed", "waiting_children"}
  <2>1. <<>> \in Seq(JobIds)
    OBVIOUS
  <2> QED
    BY <2>1, PreparedIsJob DEF Job
<1>2. enqueue_parked_child(st, p, child) = enqueue_prepared_job(s2, job)
  BY DEF enqueue_parked_child
<1> HIDE DEF job
<1>3. Quiet(st, s1)
  BY DEF Sound, Shape, Keys, Quiet
<1> HIDE DEF s1
<1>4. Sound(s1, hand) /\ Kept(st, s1) /\ s1.jobs = st.jobs
  BY <1>3, QuietSound, QuietJobs
<1>5. Quiet(s1, s2)
  BY <1>4, DedupKeysAreQuiet DEF Sound
<1> HIDE DEF s2
<1>6. Sound(s2, hand) /\ Kept(st, s2) /\ s2.jobs = st.jobs /\ Held(s2, hand)
  BY <1>4, <1>5, ThenQuiet DEF Held
<1>7. s2.jobs[job.id] = None
  BY <1>1, <1>6
<1>8. /\ Sound(enqueue_prepared_job(s2, job), hand)
      /\ Kept(s2, enqueue_prepared_job(s2, job))
      /\ Exists(enqueue_prepared_job(s2, job), job.id)
      /\ \A i \in JobIds \ {job.id} : enqueue_prepared_job(s2, job).jobs[i] = s2.jobs[i]
  BY <1>1, <1>6, <1>7, EnqueueNewSound
<1>9. Kept(st, enqueue_prepared_job(s2, job))
  BY <1>6, <1>8, KeptTransitive
<1> QED
  BY <1>1, <1>2, <1>6, <1>8, <1>9 DEF Held, Exists

\* All of a parked flow, whose ids are free.
LEMMA ParkedChildrenSound ==
    ASSUME NEW st, NEW hand, Sound(st, hand), hand \subseteq JobIds, Held(st, hand),
           NEW p \in JobIds, NEW s \in Seq(Job),
           \A i \in DOMAIN s : /\ st.jobs[s[i].id] = None
                               /\ \A k \in DOMAIN s : s[i].id = s[k].id => i = k
    PROVE  /\ Sound(enqueue_parked_children(st, p, s), hand)
           /\ Kept(st, enqueue_parked_children(st, p, s))
<1> DEFINE N == Len(s)
<1>1. N \in Nat /\ DOMAIN s = 1 .. N /\ \A i \in 1 .. N : s[i] \in Job /\ s[i].id \in JobIds
  <2>1. \A job \in Job : job.id \in JobIds
    BY DEF Job
  <2> QED
    BY <2>1
<1>0. PICK F : ParkedRun(F, st, s, p)
  BY <1>1, ParkedRunExists
<1>2. /\ F[0] = st
      /\ \A n \in 0 .. N - 1 : F[n + 1] = enqueue_parked_child(F[n], p, s[n + 1])
      /\ enqueue_parked_children(st, p, s) = F[N]
  BY <1>0 DEF ParkedRun
<1> DEFINE Good(n) == /\ Sound(F[n], hand) /\ Kept(st, F[n]) /\ Held(F[n], hand)
                      /\ \A i \in n + 1 .. N : F[n].jobs[s[i].id] = None
           Goods == {n \in 0 .. N : Good(n)}
<1> HIDE DEF N
<1>3. Good(0)
  <2>1. \A i \in 0 + 1 .. N : i \in DOMAIN s
    BY <1>1
  <2>2. Kept(st, st)
    BY KeptReflexive
  <2> QED
    BY <1>2, <2>1, <2>2
<1>4. ASSUME NEW n \in 0 .. N - 1, Good(n) PROVE Good(n + 1)
  <2> DEFINE a == F[n]
             child == s[n + 1]
             b == enqueue_parked_child(a, p, child)
  <2>1. n + 1 \in 1 .. N /\ n + 1 \in n + 1 .. N /\ child \in Job /\ child.id \in JobIds
    BY <1>1
  <2>2. Sound(a, hand) /\ Kept(st, a) /\ Held(a, hand) /\ a.jobs[child.id] = None
    BY <1>4, <2>1
  <2>3. F[n + 1] = b
    BY <1>2
  <2>4. \A i \in (n + 1) + 1 .. N : s[i].id \in JobIds \ {child.id} /\ a.jobs[s[i].id] = None
    BY <1>1, <1>4, <2>1
  <2> HIDE DEF a, child, Good
  <2>5. /\ Sound(b, hand) /\ Kept(a, b) /\ Held(b, hand)
        /\ \A i \in JobIds \ {child.id} : b.jobs[i] = a.jobs[i]
    BY <2>1, <2>2, EnqueueParkedChildSound
  <2> HIDE DEF b
  <2>6. Kept(st, b)
    BY <2>2, <2>5, KeptTransitive
  <2> QED
    BY <2>3, <2>4, <2>5, <2>6 DEF Good
<1> HIDE DEF Good
<1>5. 0 \in Goods /\ \A n \in 0 .. N - 1 : n \in Goods => n + 1 \in Goods
  BY <1>1, <1>3, <1>4
<1> HIDE DEF Goods
<1>6. \A n \in 0 .. N : n \in Goods
  BY <1>1, <1>5, Climb
<1>7. Good(N)
  BY <1>1, <1>6 DEF Goods
<1> QED
  BY <1>2, <1>7 DEF Good, N

LEMMA ForgetParked ==
    ASSUME NEW st, Shape(st), NEW d
    PROVE  Quiet(st, [st EXCEPT !.dedup_next[d] = None])
  BY DEF Shape, Keys, Quiet

LEMMA EnqueueNextFlowSound ==
    ASSUME NEW st, NEW hand, Sound(st, hand), hand \subseteq JobIds, Held(st, hand), NEW d,
           NEW parked, Proper(parked)
    PROVE  /\ Sound(enqueue_deduplicated_next_flow(st, d, parked), hand)
           /\ Kept(st, enqueue_deduplicated_next_flow(st, d, parked))
<1> DEFINE s == parked.children
           ids == [i \in DOMAIN s |-> s[i].id]
           parent == [prepare_deduplicated_next_job(parked.job) EXCEPT
                         !.parent_id = None, !.child_ids = ids, !.state = "waiting_children"]
           s0 == set_deduplication_key(st, parent)
           s1 == enqueue_prepared_job(s0, parent)
           s2 == [s1 EXCEPT !.deps[parent.id].pending = {}]
           s3 == enqueue_parked_children(s2, parent.id, s)
           taken == \E j \in {parked.job.id} \cup ToSet(ids) : Exists(st, j)
           s4 == IF taken THEN st ELSE s3
<1>1. enqueue_deduplicated_next_flow(st, d, parked) = [s4 EXCEPT !.dedup_next[d] = None]
  BY DEF enqueue_deduplicated_next_flow
<1>2. /\ parked.job \in Job /\ s \in Seq(Job) /\ parked.job.id \in JobIds
      /\ \A i \in DOMAIN s : /\ s[i].id # parked.job.id
                             /\ \A k \in DOMAIN s : s[i].id = s[k].id => i = k
  BY DEF Proper, Parked, Job, DistinctIds
<1>3. DOMAIN ids = DOMAIN s /\ \A i \in DOMAIN s : ids[i] = s[i].id /\ s[i].id \in JobIds
  <2>1. \A job \in Job : job.id \in JobIds
    BY DEF Job
  <2> HIDE DEF s
  <2> QED
    BY <1>2, <2>1
<1>4. ids \in Seq(JobIds)
  <2> HIDE DEF s
  <2>1. DOMAIN s = 1 .. Len(s) /\ Len(s) \in Nat
    BY <1>2
  <2> QED
    BY <1>3, <2>1
<1>5. parent \in Job /\ parent.id = parked.job.id /\ parent.state = "waiting_children"
  <2> HIDE DEF ids
  <2> QED
    BY <1>2, <1>4, PreparedIsJob DEF Job, JobState
<1>6. CASE ~taken
  <2>1. st.jobs[parent.id] = None /\ \A i \in DOMAIN s : st.jobs[s[i].id] = None
    <3>1. parent.id \in JobIds /\ ~Exists(st, parent.id)
      BY <1>2, <1>5, <1>6
    <3>2. \A i \in DOMAIN s : ids[i] \in ToSet(ids)
      BY <1>3 DEF ToSet
    <3>3. \A i \in DOMAIN s : s[i].id \in JobIds /\ ~Exists(st, s[i].id)
      BY <1>3, <1>6, <3>2
    <3> QED
      BY <3>1, <3>3 DEF Exists
  <2> HIDE DEF parent
  <2>2. Quiet(st, s0)
    BY DedupKeysAreQuiet DEF Sound
  <2> HIDE DEF s0
  <2>3. Sound(s0, hand) /\ Kept(st, s0) /\ s0.jobs = st.jobs /\ Held(s0, hand)
    BY <2>2, QuietSound, QuietJobs DEF Held
  <2>4. /\ Sound(s1, hand) /\ Kept(s0, s1) /\ Exists(s1, parent.id)
        /\ \A i \in JobIds \ {parent.id} : s1.jobs[i] = s0.jobs[i]
    BY <1>5, <2>1, <2>3, EnqueueNewSound
  <2> HIDE DEF s1
  <2>5. Quiet(s1, s2)
    BY <2>4 DEF Sound, Shape, Keys, Quiet
  <2> HIDE DEF s2
  <2>6. Sound(s2, hand) /\ Kept(st, s2) /\ s2.jobs = s1.jobs
    <3>1. Kept(st, s1)
      BY <2>3, <2>4, KeptTransitive
    <3> QED
      BY <2>4, <2>5, <3>1, ThenQuiet
  <2>7. Held(s2, hand)
    BY <2>3, <2>4, <2>6 DEF Held, Exists
  <2> HIDE DEF s
  <2>8. \A i \in DOMAIN s : /\ s2.jobs[s[i].id] = None
                            /\ \A k \in DOMAIN s : s[i].id = s[k].id => i = k
    <3>1. \A i \in DOMAIN s : s[i].id \in JobIds \ {parent.id} /\ st.jobs[s[i].id] = None
      BY <1>2, <1>3, <1>5, <2>1
    <3> HIDE DEF ids
    <3> QED
      BY <1>2, <2>3, <2>4, <2>6, <3>1
  <2>9. parent.id \in JobIds
    BY <1>2, <1>5
  <2>10. Sound(s3, hand) /\ Kept(s2, s3)
    BY <1>2, <2>6, <2>7, <2>8, <2>9, ParkedChildrenSound
  <2> HIDE DEF s3, taken
  <2>11. Kept(st, s3)
    BY <2>6, <2>10, KeptTransitive
  <2> QED
    <3>1. s4 = s3
      BY <1>6
    <3> HIDE DEF s4
    <3>2. Quiet(s4, [s4 EXCEPT !.dedup_next[d] = None])
      BY <2>10, <3>1, ForgetParked DEF Sound
    <3> QED
      BY <1>1, <2>10, <2>11, <3>1, <3>2, ThenQuiet
<1>7. CASE taken
  <2>1. s4 = st
    BY <1>7
  <2> HIDE DEF s4, taken
  <2>2. Quiet(st, [st EXCEPT !.dedup_next[d] = None])
    BY ForgetParked DEF Sound
  <2> QED
    BY <1>1, <2>1, <2>2, QuietSound
<1> QED
  BY <1>6, <1>7

LEMMA AdoptParkedSound ==
    ASSUME NEW st, NEW hand, Sound(st, hand), NEW job \in Job
    PROVE  Sound(adopt_parked_job(st, job), hand) /\ Kept(st, adopt_parked_job(st, job))
<1> DEFINE p == job.parent_id
           old == st.jobs[p].child_ids
           list == IF job.id \in ToSet(old) THEN old ELSE Append(old, job.id)
           b == [st EXCEPT !.jobs[p].child_ids = list, !.deps[p].pending = @ \cup {job.id}]
<1>1. CASE ~Exists(st, p)
  BY <1>1, KeptReflexive DEF adopt_parked_job
<1>2. CASE Exists(st, p)
  <2>1. p \in JobIds /\ st.jobs[p] \in Job /\ st.jobs[p] # None /\ st.jobs[p].id = p
    BY <1>2 DEF Exists, Sound, Shape
  <2>2. list \in Seq(JobIds)
    <3>1. old \in Seq(JobIds) /\ job.id \in JobIds
      BY <2>1 DEF Job
    <3> HIDE DEF old
    <3> QED
      BY <3>1
  <2>3. adopt_parked_job(st, job) = b
    BY <1>2 DEF adopt_parked_job
  <2> HIDE DEF list, p
  <2>4. /\ DOMAIN b = DOMAIN st /\ b.jobs = [st.jobs EXCEPT ![p].child_ids = list]
        /\ b.waiting = st.waiting /\ b.delayed = st.delayed /\ b.active = st.active
        /\ b.waiting_children = st.waiting_children /\ b.completed = st.completed
        /\ b.failed = st.failed /\ b.lock = st.lock /\ b.stalled = st.stalled
        /\ b.dedup_next = st.dedup_next
    BY DEF Sound, Shape, Keys
  <2> HIDE DEF b
  <2> DEFINE r == [st.jobs[p] EXCEPT !.child_ids = list]
  <2>5. /\ r \in Job /\ r.id = p /\ r.state = st.jobs[p].state
        /\ r.attempts_made = st.jobs[p].attempts_made /\ r.options = st.jobs[p].options
        /\ r # None
    BY <2>1, <2>2, RedisRecordsAssumption DEF Job
  <2>6. b.jobs = [st.jobs EXCEPT ![p] = r]
    BY <2>4
  <2> HIDE DEF r
  <2>7. Shape(b)
    BY <2>1, <2>4, <2>5, <2>6 DEF Sound, Shape
  <2>8. \A i \in JobIds : Alike(st, b, i)
    BY <2>1, <2>4, <2>5, <2>6 DEF Sound, Shape, Alike
  <2> QED
    BY <2>3, <2>7, <2>8, AllAlike
<1> QED
  BY <1>1, <1>2

LEMMA NextCountIsNat ==
    ASSUME NEW owner \in Job, NEW next \in Job, repeat_keep_last_next_count(owner, next) # None
    PROVE  repeat_keep_last_next_count(owner, next) \in Nat
<1>1. owner.repeat_count \in Nat /\ next.repeat_count \in Nat
  BY DEF Job
<1> QED
  BY <1>1 DEF repeat_keep_last_next_count

LEMMA EnqueueNextJobSound ==
    ASSUME NEW st, NEW hand, Sound(st, hand), hand \subseteq JobIds, Held(st, hand), NEW d,
           NEW owner \in Job, NEW next \in Job
    PROVE  /\ Sound(enqueue_deduplicated_next_job(st, d, owner, next), hand)
           /\ Kept(st, enqueue_deduplicated_next_job(st, d, owner, next))
<1> DEFINE count == repeat_keep_last_next_count(owner, next)
           job == [prepare_deduplicated_next_job(next) EXCEPT !.repeat_count = count]
           s0 == set_deduplication_key(st, job)
           s1 == set_repeat_key(s0, job)
           s2 == enqueue_prepared_job(s1, job)
           s3 == adopt_parked_job(s2, job)
           s4 == IF Exists(st, next.id) \/ count = None THEN st ELSE s3
<1>1. enqueue_deduplicated_next_job(st, d, owner, next) = [s4 EXCEPT !.dedup_next[d] = None]
  BY DEF enqueue_deduplicated_next_job
<1>2. Sound(s4, hand) /\ Kept(st, s4)
  <2>1. CASE Exists(st, next.id) \/ count = None
    BY <2>1, KeptReflexive
  <2>2. CASE ~Exists(st, next.id) /\ count # None
    <3>1. count \in Nat
      BY <2>2, NextCountIsNat
    <3> HIDE DEF count
    <3>2. /\ job \in Job /\ job.id = next.id /\ next.id \in JobIds
          /\ job.state \in {"waiting", "delayed", "waiting_children"}
      BY <3>1, PreparedIsJob DEF Job
    <3>3. st.jobs[job.id] = None
      BY <2>2, <3>2 DEF Exists
    <3> HIDE DEF job
    <3>4. Quiet(st, s0)
      BY DedupKeysAreQuiet DEF Sound
    <3> HIDE DEF s0
    <3>5. Sound(s0, hand) /\ Kept(st, s0) /\ s0.jobs = st.jobs
      BY <3>4, QuietSound, QuietJobs
    <3>6. Quiet(s0, s1)
      BY <3>5, RepeatKeysAreQuiet DEF Sound
    <3> HIDE DEF s1
    <3>7. Sound(s1, hand) /\ Kept(st, s1) /\ s1.jobs = st.jobs /\ Held(s1, hand)
      BY <3>5, <3>6, ThenQuiet DEF Held
    <3>8. Sound(s2, hand) /\ Kept(s1, s2)
      BY <3>2, <3>3, <3>7, EnqueueNewSound
    <3> HIDE DEF s2
    <3>9. Sound(s3, hand) /\ Kept(s2, s3)
      BY <3>2, <3>8, AdoptParkedSound
    <3> HIDE DEF s3
    <3>10. Kept(st, s3)
      BY <3>7, <3>8, <3>9, KeptTransitive
    <3> QED
      BY <2>2, <3>9, <3>10
  <2> QED
    BY <2>1, <2>2
<1> HIDE DEF s4
<1>3. Quiet(s4, [s4 EXCEPT !.dedup_next[d] = None])
  BY <1>2, ForgetParked DEF Sound
<1> QED
  BY <1>1, <1>2, <1>3, ThenQuiet

LEMMA EnqueueNextSound ==
    ASSUME NEW st, NEW hand, Sound(st, hand), hand \subseteq JobIds, Held(st, hand),
           NEW owner \in Job
    PROVE  /\ Sound(enqueue_deduplicated_next(st, owner), hand)
           /\ Kept(st, enqueue_deduplicated_next(st, owner))
<1> DEFINE d == deduplication_id(owner)
           parked == st.dedup_next[d]
<1>1. CASE d = None
  BY <1>1, KeptReflexive DEF enqueue_deduplicated_next
<1>2. CASE d # None
  <2>1. d \in DedupIds
    BY <1>2 DEF deduplication_id, Job, JobOptions, DeduplicationOptions
  <2> HIDE DEF d
  <2>2. CASE parked = None
    BY <1>2, <2>2, KeptReflexive DEF enqueue_deduplicated_next, d
  <2>3. CASE parked # None
    <3>1. Proper(parked) /\ parked.job \in Job
      <4>1. Proper(parked)
        BY <2>1, <2>3 DEF Sound, Shape
      <4> QED
        BY <4>1 DEF Proper, Parked
    <3> HIDE DEF parked
    <3>2. enqueue_deduplicated_next(st, owner) \in
            {enqueue_deduplicated_next_flow(st, d, parked),
             enqueue_deduplicated_next_job(st, d, owner, parked.job)}
      BY <1>2, <2>3 DEF enqueue_deduplicated_next, d, parked
    <3>3. /\ Sound(enqueue_deduplicated_next_flow(st, d, parked), hand)
          /\ Kept(st, enqueue_deduplicated_next_flow(st, d, parked))
      BY <3>1, EnqueueNextFlowSound
    <3>4. /\ Sound(enqueue_deduplicated_next_job(st, d, owner, parked.job), hand)
          /\ Kept(st, enqueue_deduplicated_next_job(st, d, owner, parked.job))
      BY <3>1, EnqueueNextJobSound
    <3> QED
      BY <3>2, <3>3, <3>4
  <2> QED
    BY <2>2, <2>3
<1> QED
  BY <1>1, <1>2

-----------------------------------------------------------------------------
(***************************************************************************)
(* Settling a lease.                                                       *)
(***************************************************************************)
\* The job leaves the active set for the script's hand.
LEMMA UnlockSound ==
    ASSUME NEW st, Sound(st, {}), NEW j \in JobIds, Is(st, j, "active")
    PROVE  Sound(unlock(st, j), {j}) /\ Kept(st, unlock(st, j)) /\ unlock(st, j).jobs = st.jobs
<1> DEFINE b == unlock(st, j)
           hand == {}
<1>1. Shape(st) /\ Fine(st, j)
  BY DEF Sound
<1>2. /\ DOMAIN b = DOMAIN st /\ b.jobs = st.jobs
      /\ b.waiting = st.waiting /\ b.delayed = st.delayed /\ b.active = st.active \ {j}
      /\ b.waiting_children = st.waiting_children /\ b.completed = st.completed
      /\ b.failed = st.failed /\ b.lock = [st.lock EXCEPT ![j] = None]
      /\ b.stalled = st.stalled \ {j} /\ b.dedup_next = st.dedup_next
  BY <1>1 DEF Shape, Keys, unlock
<1> HIDE DEF b
<1>3. Shape(b)
  BY <1>1, <1>2 DEF Shape
<1>4. \A i \in JobIds \ {j} : Alike(st, b, i)
  BY <1>1, <1>2 DEF Shape, Alike
<1>5. Free(b, j)
  <2>1. b.lock[j] = None
    BY <1>1, <1>2 DEF Shape
  <2> QED
    BY <1>1, <1>2, <2>1 DEF Fine, Free, Is
<1>6. Sound(st, hand) /\ hand \cup {j} = {j}
  OBVIOUS
<1> HIDE DEF hand
<1>7. Sound(b, hand \cup {j}) /\ Kept(st, b)
  BY <1>3, <1>4, <1>5, <1>6, PickUp
<1> QED
  BY <1>2, <1>6, <1>7 DEF b

LEMMA EnqueueRepeatNextSound ==
    ASSUME NEW st, Sound(st, {}), NEW next,
           next # None => next \in Job /\ next.state \in {"waiting", "delayed"}
    PROVE  Sound(enqueue_repeat_next(st, next), {}) /\ Kept(st, enqueue_repeat_next(st, next))
<1> DEFINE s1 == set_deduplication_key(st, next)
           s2 == set_repeat_key(s1, next)
           hand == {}
<1>1. CASE next = None
  BY <1>1, KeptReflexive DEF enqueue_repeat_next
<1>2. CASE next # None /\ Exists(st, next.id)
  BY <1>2, KeptReflexive DEF enqueue_repeat_next
<1>3. CASE next # None /\ ~Exists(st, next.id)
  <2>1. enqueue_repeat_next(st, next) = enqueue_prepared_job(s2, next)
    BY <1>3 DEF enqueue_repeat_next
  <2>2. /\ next \in Job /\ next.state \in {"waiting", "delayed", "waiting_children"}
        /\ st.jobs[next.id] = None
    BY <1>3 DEF Exists, Job
  <2>3. Quiet(st, s1)
    BY DedupKeysAreQuiet DEF Sound
  <2> HIDE DEF s1
  <2>4. Sound(s1, {}) /\ Kept(st, s1) /\ s1.jobs = st.jobs
    BY <2>3, QuietSound, QuietJobs
  <2>5. Quiet(s1, s2)
    BY <2>4, RepeatKeysAreQuiet DEF Sound
  <2> HIDE DEF s2
  <2>6. Sound(s2, hand) /\ Kept(st, s2) /\ s2.jobs = st.jobs /\ Held(s2, hand)
    BY <2>4, <2>5, ThenQuiet DEF Held
  <2> HIDE DEF hand
  <2>7. Sound(enqueue_prepared_job(s2, next), hand) /\ Kept(s2, enqueue_prepared_job(s2, next))
    BY <2>2, <2>6, EnqueueNewSound
  <2>8. Kept(st, enqueue_prepared_job(s2, next))
    BY <2>6, <2>7, KeptTransitive
  <2> QED
    BY <2>1, <2>7, <2>8 DEF hand
<1> QED
  BY <1>1, <1>2, <1>3

LEMMA CompleteSound ==
    ASSUME NEW st, Sound(st, {}), NEW j \in JobIds, Is(st, j, "active"), NEW next,
           next # None => next \in Job /\ next.state \in {"waiting", "delayed"}
    PROVE  Sound(complete_script(st, j, next), {}) /\ Kept(st, complete_script(st, j, next))
<1> DEFINE job == [st.jobs[j] EXCEPT !.state = "completed", !.deferred_failure = FALSE]
           hand == {j}
           s0 == unlock(st, j)
           s1 == release_deduplication_key_on_finalization(s0, job)
           s2 == enqueue_deduplicated_next(s1, job)
           t2 == finish_completed(s2, job)
           s3 == child_completed(t2, job)
           t3 == enqueue_repeat_next(s3, next)
           s4 == IF enqueued_deduplicated_next(s1, s2) THEN s3 ELSE t3
           t4 == release_repeat_key(s4, job)
           s5 == add_base_marker_if_waiting(t4)
<1>1. complete_script(st, j, next) = s5
  BY DEF complete_script
<1>2. st.jobs[j] \in Job /\ st.jobs[j].id = j /\ st.jobs[j] # None
  BY DEF Sound, Shape, Is
<1>3. job \in Job /\ job.id = j /\ job.state = "completed"
  BY <1>2, Rewritten DEF JobState, Terminal
<1> HIDE DEF job
<1>4. Sound(s0, hand) /\ Kept(st, s0) /\ s0.jobs = st.jobs
  BY UnlockSound
<1>5. hand \subseteq JobIds /\ hand \ {j} = {} /\ j \in hand /\ Held(s0, hand)
  <2>1. \A i \in hand : i = j
    OBVIOUS
  <2> HIDE DEF s0
  <2> QED
    BY <1>2, <1>4, <2>1 DEF Held
<1> HIDE DEF s0, hand
<1>6. Quiet(s0, s1)
  BY <1>4, DedupKeysAreQuiet DEF Sound
<1> HIDE DEF s1
<1>7. Sound(s1, hand) /\ Kept(st, s1) /\ Held(s1, hand)
  BY <1>4, <1>5, <1>6, ThenQuiet DEF Held
<1>8. Sound(s2, hand) /\ Kept(s1, s2)
  BY <1>3, <1>5, <1>7, EnqueueNextSound
<1> HIDE DEF s2
<1>9. Sound(t2, {}) /\ Kept(s2, t2)
  <2>1. Sound(t2, hand \ {job.id}) /\ Kept(s2, t2)
    BY <1>3, <1>5, <1>8, FinishCompletedSound
  <2> HIDE DEF t2
  <2> QED
    BY <1>3, <1>5, <2>1
<1> HIDE DEF t2
<1>10. Sound(s3, {}) /\ Kept(t2, s3)
  BY <1>9, ChildCompletedSound
<1> HIDE DEF s3
<1>11. Kept(st, s3)
  BY <1>7, <1>8, <1>9, <1>10, KeptTransitive
<1>12. Sound(t3, {}) /\ Kept(s3, t3)
  BY <1>10, EnqueueRepeatNextSound
<1> HIDE DEF t3
<1>13. Kept(st, t3)
  BY <1>11, <1>12, KeptTransitive
<1>14. Sound(s4, {}) /\ Kept(st, s4)
  BY <1>10, <1>11, <1>12, <1>13
<1> HIDE DEF s4
<1>15. Quiet(s4, t4)
  BY <1>14, RepeatKeysAreQuiet DEF Sound
<1> HIDE DEF t4
<1>16. Sound(t4, {}) /\ Kept(st, t4)
  BY <1>14, <1>15, ThenQuiet
<1>17. Quiet(t4, s5)
  BY <1>16, MarkersAreQuiet DEF Sound
<1> HIDE DEF s5
<1> QED
  BY <1>1, <1>16, <1>17, ThenQuiet

LEMMA DelayedCopy ==
    ASSUME NEW job \in Job, NEW state \in JobState, NEW due \in BOOLEAN, NEW deferred \in BOOLEAN
    PROVE  LET r == [job EXCEPT !.state = state, !.due = due, !.deferred_failure = deferred] IN
           r \in Job /\ r.id = job.id /\ r.state = state
  BY DEF Job

\* The job goes from the active set to the delayed set.
LEMMA BackToDelayed ==
    ASSUME NEW st, Sound(st, {}), NEW j \in JobIds, Is(st, j, "active"),
           NEW job \in Job, job.id = j
    PROVE  LET b == add_base_marker_if_waiting(enqueue_delayed(unlock(st, j), job)) IN
           Sound(b, {}) /\ Kept(st, b)
<1> DEFINE hand == {j}
           s0 == unlock(st, j)
           s1 == enqueue_delayed(s0, job)
           s2 == add_base_marker_if_waiting(s1)
<1>1. Sound(s0, hand) /\ Kept(st, s0)
  BY UnlockSound
<1>2. hand \ {j} = {} /\ j \in hand
  OBVIOUS
<1> HIDE DEF s0, hand
<1>3. Loose(s0, hand, job.id, "delayed")
  BY <1>2 DEF Loose
<1>4. Sound(s1, hand \ {job.id}) /\ Kept(s0, s1)
  BY <1>1, <1>3, EnqueueDelayedSound
<1> HIDE DEF s1
<1>5. Sound(s1, {}) /\ Kept(st, s1)
  BY <1>1, <1>2, <1>4, KeptTransitive
<1>6. Quiet(s1, s2)
  BY <1>5, MarkersAreQuiet DEF Sound
<1> HIDE DEF s2
<1>7. Sound(s2, {}) /\ Kept(st, s2)
  BY <1>5, <1>6, ThenQuiet
<1> QED
  BY <1>7 DEF s2, s1, s0

LEMMA RetryLaterSound ==
    ASSUME NEW st, Sound(st, {}), NEW j \in JobIds, Is(st, j, "active")
    PROVE  Sound(retry_later(st, j), {}) /\ Kept(st, retry_later(st, j))
<1> DEFINE job == [st.jobs[j] EXCEPT !.state = "delayed", !.due = FALSE, !.deferred_failure = FALSE]
<1>0. st.jobs[j] \in Job /\ st.jobs[j].id = j /\ st.jobs[j] # None
  BY DEF Sound, Shape, Is
<1>1. job \in Job /\ job.id = j
  BY <1>0, DelayedCopy DEF JobState
<1>2. retry_later(st, j) = add_base_marker_if_waiting(enqueue_delayed(unlock(st, j), job))
  BY DEF retry_later
<1> HIDE DEF job
<1> QED
  BY <1>1, <1>2, BackToDelayed

LEMMA DelayActiveSound ==
    ASSUME NEW st, Sound(st, {}), NEW j \in JobIds, Is(st, j, "active")
    PROVE  Sound(delay_active_script(st, j), {}) /\ Kept(st, delay_active_script(st, j))
<1> DEFINE job == [st.jobs[j] EXCEPT !.state = "delayed", !.due = FALSE, !.deferred_failure = FALSE]
           s1 == add_base_marker_if_waiting(enqueue_delayed(unlock(st, j), job))
           s2 == sync_repeat_scheduler(s1, job)
<1>0. st.jobs[j] \in Job /\ st.jobs[j].id = j /\ st.jobs[j] # None
  BY DEF Sound, Shape, Is
<1>1. job \in Job /\ job.id = j
  BY <1>0, DelayedCopy DEF JobState
<1>2. delay_active_script(st, j) = s2
  BY DEF delay_active_script
<1> HIDE DEF job
<1>3. Sound(s1, {}) /\ Kept(st, s1)
  BY <1>1, BackToDelayed
<1> HIDE DEF s1
<1>4. Quiet(s1, s2)
  BY <1>3, RepeatKeysAreQuiet DEF Sound
<1> HIDE DEF s2
<1> QED
  BY <1>2, <1>3, <1>4, ThenQuiet

\* The end of a job that fails for good, which the script has in hand.
LEMMA FailTerminallySound ==
    ASSUME NEW st, NEW j \in JobIds, Sound(st, {j}), st.jobs[j] # None,
           NEW job \in Job, job.id = j, job.state = "failed"
    PROVE  Sound(fail_terminally(st, job), {}) /\ Kept(st, fail_terminally(st, job))
<1> DEFINE hand == {j}
           s1 == release_deduplication_key_on_finalization(st, job)
           t1 == release_repeat_key(s1, job)
           s2 == enqueue_deduplicated_next(t1, job)
           s3 == finish_failed(s2, job)
           s4 == child_failed(s3, job)
<1>1. fail_terminally(st, job) = s4
  BY DEF fail_terminally
<1>2. hand \subseteq JobIds /\ hand \ {j} = {} /\ j \in hand /\ Held(st, hand) /\ Sound(st, hand)
  BY DEF Held
<1> HIDE DEF hand
<1>3. Quiet(st, s1)
  BY <1>2, DedupKeysAreQuiet DEF Sound
<1> HIDE DEF s1
<1>4. Sound(s1, hand) /\ Kept(st, s1) /\ s1.jobs = st.jobs
  BY <1>2, <1>3, QuietSound, QuietJobs
<1>5. Quiet(s1, t1)
  BY <1>4, RepeatKeysAreQuiet DEF Sound
<1> HIDE DEF t1
<1>6. Sound(t1, hand) /\ Kept(st, t1) /\ Held(t1, hand)
  BY <1>2, <1>4, <1>5, ThenQuiet DEF Held
<1>7. Sound(s2, hand) /\ Kept(t1, s2)
  BY <1>2, <1>6, EnqueueNextSound
<1> HIDE DEF s2
<1>8. Sound(s3, hand \ {job.id}) /\ Kept(s2, s3)
  BY <1>2, <1>7, FinishFailedSound
<1> HIDE DEF s3
<1>9. Sound(s3, {})
  BY <1>2, <1>8
<1>10. job.options.on_failure \in ChildFailure
  BY DEF Job, JobOptions
<1>11. Sound(s4, {}) /\ Kept(s3, s4)
  BY <1>9, <1>10, ChildFailedSound
<1> HIDE DEF s4
<1> QED
  BY <1>1, <1>6, <1>7, <1>8, <1>11, KeptTransitive

LEMMA FailSound ==
    ASSUME NEW st, Sound(st, {}), NEW j \in JobIds, Is(st, j, "active"), NEW retry
    PROVE  Sound(fail_script(st, j, retry), {}) /\ Kept(st, fail_script(st, j, retry))
<1> DEFINE job == [st.jobs[j] EXCEPT !.state = "failed", !.deferred_failure = FALSE]
           s0 == unlock(st, j)
           s1 == fail_terminally(s0, job)
           s2 == add_base_marker_if_waiting(s1)
<1>1. fail_script(st, j, retry) \in {retry_later(st, j), s2}
  BY DEF fail_script
<1>0. st.jobs[j] \in Job /\ st.jobs[j].id = j /\ st.jobs[j] # None
  BY DEF Sound, Shape, Is
<1>2. st.jobs[j] # None /\ job \in Job /\ job.id = j /\ job.state = "failed"
  BY <1>0, Rewritten DEF JobState, Terminal
<1> HIDE DEF job
<1>3. Sound(s0, {j}) /\ Kept(st, s0) /\ s0.jobs = st.jobs
  BY UnlockSound
<1> HIDE DEF s0
<1>4. Sound(s1, {}) /\ Kept(s0, s1)
  BY <1>2, <1>3, FailTerminallySound
<1> HIDE DEF s1
<1>5. Kept(st, s1)
  BY <1>3, <1>4, KeptTransitive
<1>6. Quiet(s1, s2)
  BY <1>4, MarkersAreQuiet DEF Sound
<1> HIDE DEF s2
<1>7. Sound(s2, {}) /\ Kept(st, s2)
  BY <1>4, <1>5, <1>6, ThenQuiet
<1> QED
  BY <1>1, <1>7, RetryLaterSound

LEMMA ReleaseActiveSound ==
    ASSUME NEW st, Sound(st, {}), NEW j \in JobIds, Is(st, j, "active")
    PROVE  Sound(release_active_script(st, j), {}) /\ Kept(st, release_active_script(st, j))
<1> DEFINE job == [st.jobs[j] EXCEPT !.state = "waiting", !.due = TRUE, !.deferred_failure = FALSE]
           hand == {j}
           s0 == unlock(st, j)
           w == PushBackWaiting(s0.waiting, j, job.options.priority)
           b == [s0 EXCEPT !.jobs[j] = job, !.waiting = w]
           s1 == add_base_marker(b)
           s2 == sync_repeat_scheduler(s1, job)
<1>1. release_active_script(st, j) = s2
  BY DEF release_active_script
<1>0. st.jobs[j] \in Job /\ st.jobs[j].id = j /\ st.jobs[j] # None
  BY DEF Sound, Shape, Is
<1>2. job \in Job /\ job.id = j /\ job.state = "waiting" /\ job # None
  BY <1>0, RedisRecordsAssumption DEF Job, JobState
<1> HIDE DEF job
<1>3. Sound(s0, hand) /\ Kept(st, s0) /\ s0.jobs = st.jobs
  BY UnlockSound
<1>4. hand \ {j} = {} /\ j \in hand
  OBVIOUS
<1> HIDE DEF s0, hand
<1>5. IsList(w) /\ EntryIds(w) = EntryIds(s0.waiting) \cup {j}
  BY <1>3, PushBackWaitingIds DEF Sound, Shape
<1> HIDE DEF w
<1>6. /\ DOMAIN b = DOMAIN s0 /\ b.jobs = [s0.jobs EXCEPT ![j] = job] /\ b.waiting = w
      /\ b.delayed = s0.delayed /\ b.active = s0.active /\ b.lock = s0.lock
      /\ b.waiting_children = s0.waiting_children /\ b.completed = s0.completed
      /\ b.failed = s0.failed /\ b.dedup_next = s0.dedup_next /\ b.stalled = s0.stalled
  BY <1>3 DEF Sound, Shape, Keys
<1> HIDE DEF b
<1>7. Shape(b)
  BY <1>2, <1>3, <1>5, <1>6 DEF Sound, Shape
<1>8. \A i \in JobIds \ {j} : Alike(s0, b, i)
  BY <1>3, <1>5, <1>6 DEF Sound, Shape, Alike
<1>9. Fine(b, j) /\ b.lock[j] = None
  <2>1. Free(s0, j)
    BY <1>3, <1>4 DEF Sound
  <2>2. b.jobs[j] = job
    BY <1>3, <1>6 DEF Sound, Shape
  <2> QED
    BY <1>2, <1>5, <1>6, <2>1, <2>2 DEF Free, Fine, Is
<1>10. Sound(b, hand \ {j}) /\ Kept(s0, b)
  BY <1>3, <1>7, <1>8, <1>9, PutDown
<1>11. Sound(b, {}) /\ Kept(st, b)
  BY <1>3, <1>4, <1>10, KeptTransitive
<1>12. Quiet(b, s1)
  BY <1>7, MarkersAreQuiet
<1> HIDE DEF s1
<1>13. Sound(s1, {}) /\ Kept(st, s1)
  BY <1>11, <1>12, ThenQuiet
<1>14. Quiet(s1, s2)
  BY <1>13, RepeatKeysAreQuiet DEF Sound
<1> HIDE DEF s2
<1> QED
  BY <1>1, <1>13, <1>14, ThenQuiet

-----------------------------------------------------------------------------
(***************************************************************************)
(* Recovery and promotion.                                                 *)
(***************************************************************************)
\* A job that is not active is in the active set of nobody.
LEMMA NotActiveSound ==
    ASSUME NEW st, Sound(st, {}), NEW j \in JobIds, ~Is(st, j, "active")
    PROVE  Quiet(st, [st EXCEPT !.active = @ \ {j}])
<1>1. st.active \ {j} = st.active
  BY DEF Sound, Fine
<1> QED
  BY <1>1 DEF Sound, Shape, Keys, Quiet

LEMMA StalledCopy ==
    ASSUME NEW job \in Job
    PROVE  LET r == [job EXCEPT !.stalled_count = @ + 1, !.deferred_failure = FALSE] IN
           r \in Job /\ r.id = job.id
<1>1. job.stalled_count + 1 \in Nat
  BY DEF Job
<1> QED
  BY <1>1 DEF Job

LEMMA RecoverJobSound ==
    ASSUME NEW st, Sound(st, {}), NEW j \in JobIds, Is(st, j, "active"), st.lock[j] = None
    PROVE  Sound(recover_job(st, j), {}) /\ Kept(st, recover_job(st, j))
<1> DEFINE job == [st.jobs[j] EXCEPT !.stalled_count = @ + 1, !.deferred_failure = FALSE]
           hand == {j}
           no == {}
           s1 == [st EXCEPT !.active = @ \ {j}]
           s2 == IF job.stalled_count > job.options.max_stalled_count
                 THEN restore_repeat_key(s1, job) ELSE s1
           lost == [job EXCEPT !.state = "failed"]
           s3 == [s1 EXCEPT !.deps[j].pending = {}]
<1>1. recover_job(st, j) \in {fail_terminally(s3, lost), enqueue_waiting_job(s2, job)}
  BY DEF recover_job
<1>2. st.jobs[j] \in Job /\ st.jobs[j].id = j /\ st.jobs[j] # None
  BY DEF Sound, Shape, Is
<1>3. job \in Job /\ job.id = j
  BY <1>2, StalledCopy
<1> HIDE DEF job
<1>4. lost \in Job /\ lost.id = j /\ lost.state = "failed"
  BY <1>3 DEF Job, JobState, Terminal
<1> HIDE DEF lost
<1>5. Sound(s1, hand) /\ Kept(st, s1) /\ s1.jobs = st.jobs
  <2>1. Shape(st) /\ Fine(st, j)
    BY DEF Sound
  <2>2. /\ DOMAIN s1 = DOMAIN st /\ s1.jobs = st.jobs
        /\ s1.waiting = st.waiting /\ s1.delayed = st.delayed /\ s1.active = st.active \ {j}
        /\ s1.waiting_children = st.waiting_children /\ s1.completed = st.completed
        /\ s1.failed = st.failed /\ s1.lock = st.lock
        /\ s1.stalled = st.stalled /\ s1.dedup_next = st.dedup_next
    BY <2>1 DEF Shape, Keys
  <2> HIDE DEF s1
  <2>3. Shape(s1)
    BY <2>1, <2>2 DEF Shape
  <2>4. \A i \in JobIds \ {j} : Alike(st, s1, i)
    BY <2>2 DEF Alike
  <2>5. Free(s1, j)
    BY <2>1, <2>2 DEF Fine, Free, Is
  <2>6. no \cup {j} = hand /\ Sound(st, no)
    OBVIOUS
  <2> HIDE DEF no, hand
  <2>7. Sound(s1, no \cup {j}) /\ Kept(st, s1)
    BY <2>3, <2>4, <2>5, <2>6, PickUp
  <2> QED
    BY <2>2, <2>6, <2>7
<1>6. hand \ {j} = {} /\ j \in hand
  OBVIOUS
<1> HIDE DEF s1
<1>7. Sound(fail_terminally(s3, lost), {}) /\ Kept(st, fail_terminally(s3, lost))
  <2>1. Quiet(s1, s3)
    BY <1>5 DEF Sound, Shape, Keys, Quiet
  <2> HIDE DEF s3
  <2>2. Sound(s3, hand) /\ Kept(st, s3) /\ s3.jobs = s1.jobs
    BY <1>5, <2>1, ThenQuiet
  <2>3. Sound(fail_terminally(s3, lost), {}) /\ Kept(s3, fail_terminally(s3, lost))
    <3>1. Sound(s3, {j}) /\ s3.jobs[j] # None
      BY <1>2, <1>5, <2>2
    <3> QED
      BY <1>4, <3>1, FailTerminallySound
  <2> QED
    BY <2>2, <2>3, KeptTransitive
<1> HIDE DEF hand
<1>8. Sound(enqueue_waiting_job(s2, job), {}) /\ Kept(st, enqueue_waiting_job(s2, job))
  <2>1. Quiet(s1, s2)
    BY <1>5, RepeatKeysAreQuiet, QuietReflexive DEF Sound
  <2> HIDE DEF s2
  <2>2. Sound(s2, hand) /\ Kept(st, s2)
    BY <1>5, <2>1, ThenQuiet
  <2>3. Loose(s2, hand, job.id, "waiting")
    BY <1>3, <1>6 DEF Loose
  <2>4. /\ Sound(enqueue_waiting_job(s2, job), hand \ {job.id})
        /\ Kept(s2, enqueue_waiting_job(s2, job))
    BY <1>3, <2>2, <2>3, EnqueueWaitingSound
  <2> QED
    BY <1>3, <1>6, <2>2, <2>4, KeptTransitive
<1> QED
  BY <1>1, <1>7, <1>8

LEMMA ExamineStalledSound ==
    ASSUME NEW st, Sound(st, {}), NEW j \in JobIds
    PROVE  Sound(examine_stalled(st, j), {}) /\ Kept(st, examine_stalled(st, j))
<1>1. CASE ~Is(st, j, "active")
  <2>1. Quiet(st, [st EXCEPT !.active = @ \ {j}])
    BY <1>1, NotActiveSound
  <2>2. examine_stalled(st, j) = [st EXCEPT !.active = @ \ {j}]
    BY <1>1 DEF examine_stalled, Is, Exists
  <2> QED
    BY <2>1, <2>2, QuietSound
<1>2. CASE Is(st, j, "active") /\ st.lock[j] # None
  BY <1>2, KeptReflexive DEF examine_stalled, Is, Exists
<1>3. CASE Is(st, j, "active") /\ st.lock[j] = None
  <2>1. examine_stalled(st, j) = recover_job(st, j)
    BY <1>3 DEF examine_stalled, Is, Exists
  <2> QED
    BY <1>3, <2>1, RecoverJobSound
<1> QED
  BY <1>1, <1>2, <1>3

\* The candidates of a recovery, one after the other.
StalledRun(F, x, s) ==
    /\ F[0] = x
    /\ \A n \in 0 .. Len(s) - 1 : F[n + 1] = examine_stalled(F[n], s[n + 1])
    /\ examine_each_stalled(x, s) = F[Len(s)]

LEMMA StalledRunExists ==
    ASSUME NEW x, NEW s, Len(s) \in Nat
    PROVE  \E F : StalledRun(F, x, s)
<1> DEFINE Runs(f, n) ==
               f = [i \in 0 .. n |-> IF i = 0 THEN x ELSE examine_stalled(f[i - 1], s[i])]
           N == Len(s)
           F == CHOOSE f : Runs(f, N)
           Reached == {n \in 0 .. N : \E f : Runs(f, n)}
<1>1. N \in Nat
  OBVIOUS
<1>2. examine_each_stalled(x, s) = F[N]
  BY DEF InTurn, examine_each_stalled
<1>3. Runs(F, N)
  <2>1. \E f : Runs(f, 0)
    <3> WITNESS [i \in 0 .. 0 |-> x]
    <3> QED
      OBVIOUS
  <2>2. ASSUME NEW n \in 0 .. N - 1, NEW f, Runs(f, n) PROVE \E g : Runs(g, n + 1)
    <3> DEFINE g == [i \in 0 .. n + 1 |->
                        IF i <= n THEN f[i] ELSE examine_stalled(f[n], s[n + 1])]
    <3>1. Runs(g, n + 1)
      BY <2>2
    <3> QED
      BY <3>1
  <2> HIDE DEF Runs, N
  <2>3. 0 \in Reached /\ \A n \in 0 .. N - 1 : n \in Reached => n + 1 \in Reached
    BY <1>1, <2>1, <2>2
  <2> HIDE DEF Reached
  <2>4. \A n \in 0 .. N : n \in Reached
    BY <1>1, <2>3, Climb
  <2>5. N \in Reached
    BY <1>1, <2>4
  <2> QED
    BY <2>5 DEF Reached
<1> HIDE DEF F
<1>4. F[0] = x
  BY <1>1, <1>3
<1>5. ASSUME NEW n \in 0 .. N - 1 PROVE F[n + 1] = examine_stalled(F[n], s[n + 1])
  <2>1. n + 1 \in 0 .. N /\ n + 1 # 0 /\ (n + 1) - 1 = n
    BY <1>1
  <2>2. F[n + 1] = examine_stalled(F[(n + 1) - 1], s[n + 1])
    BY <1>3, <2>1
  <2> QED
    BY <2>1, <2>2
<1>6. StalledRun(F, x, s)
  BY <1>2, <1>4, <1>5 DEF StalledRun
<1> QED
  BY <1>6

LEMMA ExamineEachStalledSound ==
    ASSUME NEW st, Sound(st, {}), NEW s \in Seq(JobIds)
    PROVE  Sound(examine_each_stalled(st, s), {}) /\ Kept(st, examine_each_stalled(st, s))
<1> DEFINE N == Len(s)
<1>1. N \in Nat /\ \A n \in 0 .. N - 1 : s[n + 1] \in JobIds
  OBVIOUS
<1>2. PICK F : StalledRun(F, st, s)
  BY <1>1, StalledRunExists
<1>3. /\ F[0] = st
      /\ \A n \in 0 .. N - 1 : F[n + 1] = examine_stalled(F[n], s[n + 1])
      /\ examine_each_stalled(st, s) = F[N]
  BY <1>2 DEF StalledRun
<1> DEFINE Good(n) == Sound(F[n], {}) /\ Kept(st, F[n])
           Goods == {n \in 0 .. N : Good(n)}
<1> HIDE DEF N
<1>4. Good(0)
  BY <1>3, KeptReflexive
<1>5. ASSUME NEW n \in 0 .. N - 1, Good(n) PROVE Good(n + 1)
  <2> DEFINE a == F[n]
             b == examine_stalled(a, s[n + 1])
  <2>1. F[n + 1] = b /\ s[n + 1] \in JobIds /\ Sound(a, {}) /\ Kept(st, a)
    BY <1>1, <1>3, <1>5
  <2> HIDE DEF a
  <2>2. Sound(b, {}) /\ Kept(a, b)
    BY <2>1, ExamineStalledSound
  <2> HIDE DEF b
  <2> QED
    BY <2>1, <2>2, KeptTransitive
<1> HIDE DEF Good
<1>6. 0 \in Goods /\ \A n \in 0 .. N - 1 : n \in Goods => n + 1 \in Goods
  BY <1>1, <1>4, <1>5
<1> HIDE DEF Goods
<1>7. \A n \in 0 .. N : n \in Goods
  BY <1>1, <1>6, Climb
<1>8. Good(N)
  BY <1>1, <1>7 DEF Goods
<1> QED
  BY <1>3, <1>8 DEF Good, N

LEMMA FiniteIds ==
    ASSUME NEW S, S \subseteq JobIds PROVE SetToSeq(S) \in Seq(JobIds)
<1>1. IsFiniteSet(S)
  BY RedisJobIdsAssumption, FS_Subset
<1>2. SetToSeq(S) \in Seq(S)
  BY <1>1, SetToSeqElements
<1> QED
  BY <1>2

LEMMA RecoverStalledSound ==
    ASSUME NEW st, Sound(st, {})
    PROVE  Sound(recover_stalled_script(st), {}) /\ Kept(st, recover_stalled_script(st))
<1> DEFINE s0 == [st EXCEPT !.stalled = {}]
           ids == SetToSeq(st.stalled)
           s1 == examine_each_stalled(s0, ids)
           s2 == mark_active_jobs_stalled(s1)
<1>1. recover_stalled_script(st) = s2
  BY DEF recover_stalled_script
<1>2. ids \in Seq(JobIds)
  BY FiniteIds DEF Sound, Shape
<1>3. Quiet(st, s0)
  BY DEF Sound, Shape, Keys, Quiet
<1> HIDE DEF s0, ids
<1>4. Sound(s0, {}) /\ Kept(st, s0)
  BY <1>3, QuietSound
<1>5. Sound(s1, {}) /\ Kept(s0, s1)
  BY <1>2, <1>4, ExamineEachStalledSound
<1> HIDE DEF s1
<1>6. Kept(st, s1)
  BY <1>4, <1>5, KeptTransitive
<1>7. Quiet(s1, s2)
  BY <1>5 DEF Sound, Shape, Keys, Quiet, mark_active_jobs_stalled
<1> HIDE DEF s2
<1> QED
  BY <1>1, <1>5, <1>6, <1>7, ThenQuiet

\* The job leaves the delayed set for the script's hand.
LEMMA LeaveDelayed ==
    ASSUME NEW st, Sound(st, {}), NEW j \in JobIds, Is(st, j, "delayed")
    PROVE  LET b == [st EXCEPT !.delayed = @ \ {j}] IN
           Sound(b, {j}) /\ Kept(st, b) /\ b.jobs = st.jobs
<1> DEFINE b == [st EXCEPT !.delayed = @ \ {j}]
           no == {}
           hand == {j}
<1>1. Shape(st) /\ Fine(st, j)
  BY DEF Sound
<1>2. /\ DOMAIN b = DOMAIN st /\ b.jobs = st.jobs
      /\ b.waiting = st.waiting /\ b.delayed = st.delayed \ {j} /\ b.active = st.active
      /\ b.waiting_children = st.waiting_children /\ b.completed = st.completed
      /\ b.failed = st.failed /\ b.lock = st.lock
      /\ b.stalled = st.stalled /\ b.dedup_next = st.dedup_next
  BY <1>1 DEF Shape, Keys
<1> HIDE DEF b
<1>3. Shape(b)
  BY <1>1, <1>2 DEF Shape
<1>4. \A i \in JobIds \ {j} : Alike(st, b, i)
  BY <1>2 DEF Alike
<1>5. Free(b, j)
  BY <1>1, <1>2 DEF Fine, Free, Is
<1>6. no \cup {j} = hand /\ Sound(st, no)
  OBVIOUS
<1> HIDE DEF no, hand
<1>7. Sound(b, no \cup {j}) /\ Kept(st, b)
  BY <1>3, <1>4, <1>5, <1>6, PickUp
<1> QED
  BY <1>2, <1>6, <1>7 DEF b, hand

LEMMA NotDelayedSound ==
    ASSUME NEW st, Sound(st, {}), NEW j \in JobIds, ~Is(st, j, "delayed")
    PROVE  Quiet(st, [st EXCEPT !.delayed = @ \ {j}])
<1>1. st.delayed \ {j} = st.delayed
  BY DEF Sound, Fine
<1> QED
  BY <1>1 DEF Sound, Shape, Keys, Quiet

LEMMA PromoteDelayedSound ==
    ASSUME NEW st, Sound(st, {}), NEW j \in JobIds, NEW quiet
    PROVE  Sound(promote_delayed(st, j, quiet), {}) /\ Kept(st, promote_delayed(st, j, quiet))
<1> DEFINE job == [st.jobs[j] EXCEPT !.state = "waiting"]
           hand == {j}
           s1 == [st EXCEPT !.delayed = @ \ {j}]
           t1 == enqueue_waiting_job(s1, job)
           s2 == [t1 EXCEPT !.marker = IF quiet THEN st.marker ELSE @]
           s3 == sync_repeat_scheduler(s2, job)
<1>1. CASE ~Is(st, j, "delayed")
  <2>1. promote_delayed(st, j, quiet) = s1
    BY <1>1 DEF promote_delayed, Is, Exists
  <2>2. Quiet(st, s1)
    BY <1>1, NotDelayedSound
  <2> QED
    BY <2>1, <2>2, QuietSound
<1>2. CASE Is(st, j, "delayed")
  <2>1. promote_delayed(st, j, quiet) = s3
    BY <1>2 DEF promote_delayed, Is, Exists
  <2>2. st.jobs[j] \in Job /\ st.jobs[j].id = j /\ st.jobs[j] # None
    BY <1>2 DEF Sound, Shape, Is
  <2>3. job \in Job /\ job.id = j
    BY <2>2 DEF Job, JobState
  <2>4. Sound(s1, hand) /\ Kept(st, s1)
    BY <1>2, LeaveDelayed
  <2>5. hand \ {j} = {} /\ j \in hand
    OBVIOUS
  <2> HIDE DEF job, s1, hand
  <2>6. Loose(s1, hand, job.id, "waiting")
    BY <2>3, <2>5 DEF Loose
  <2>7. Sound(t1, hand \ {job.id}) /\ Kept(s1, t1)
    BY <2>3, <2>4, <2>6, EnqueueWaitingSound
  <2> HIDE DEF t1
  <2>8. Sound(t1, {}) /\ Kept(st, t1)
    BY <2>3, <2>4, <2>5, <2>7, KeptTransitive
  <2>9. Quiet(t1, s2)
    BY <2>8 DEF Sound, Shape, Keys, Quiet
  <2> HIDE DEF s2
  <2>10. Sound(s2, {}) /\ Kept(st, s2)
    BY <2>8, <2>9, ThenQuiet
  <2>11. Quiet(s2, s3)
    BY <2>10, RepeatKeysAreQuiet DEF Sound
  <2> HIDE DEF s3
  <2> QED
    BY <2>1, <2>10, <2>11, ThenQuiet
<1> QED
  BY <1>1, <1>2

\* The jobs that are due, one after the other.
PromoteRun(F, x, s, quiet) ==
    /\ F[0] = x
    /\ \A n \in 0 .. Len(s) - 1 : F[n + 1] = promote_delayed(F[n], s[n + 1], quiet)
    /\ promote_each(x, s, quiet) = F[Len(s)]

LEMMA PromoteRunExists ==
    ASSUME NEW x, NEW s, Len(s) \in Nat, NEW quiet
    PROVE  \E F : PromoteRun(F, x, s, quiet)
<1> DEFINE Runs(f, n) ==
               f = [i \in 0 .. n |-> IF i = 0 THEN x ELSE promote_delayed(f[i - 1], s[i], quiet)]
           N == Len(s)
           F == CHOOSE f : Runs(f, N)
           Reached == {n \in 0 .. N : \E f : Runs(f, n)}
<1>1. N \in Nat
  OBVIOUS
<1>2. promote_each(x, s, quiet) = F[N]
  BY DEF InTurn, promote_each
<1>3. Runs(F, N)
  <2>1. \E f : Runs(f, 0)
    <3> WITNESS [i \in 0 .. 0 |-> x]
    <3> QED
      OBVIOUS
  <2>2. ASSUME NEW n \in 0 .. N - 1, NEW f, Runs(f, n) PROVE \E g : Runs(g, n + 1)
    <3> DEFINE g == [i \in 0 .. n + 1 |->
                        IF i <= n THEN f[i] ELSE promote_delayed(f[n], s[n + 1], quiet)]
    <3>1. Runs(g, n + 1)
      BY <2>2
    <3> QED
      BY <3>1
  <2> HIDE DEF Runs, N
  <2>3. 0 \in Reached /\ \A n \in 0 .. N - 1 : n \in Reached => n + 1 \in Reached
    BY <1>1, <2>1, <2>2
  <2> HIDE DEF Reached
  <2>4. \A n \in 0 .. N : n \in Reached
    BY <1>1, <2>3, Climb
  <2>5. N \in Reached
    BY <1>1, <2>4
  <2> QED
    BY <2>5 DEF Reached
<1> HIDE DEF F
<1>4. F[0] = x
  BY <1>1, <1>3
<1>5. ASSUME NEW n \in 0 .. N - 1 PROVE F[n + 1] = promote_delayed(F[n], s[n + 1], quiet)
  <2>1. n + 1 \in 0 .. N /\ n + 1 # 0 /\ (n + 1) - 1 = n
    BY <1>1
  <2>2. F[n + 1] = promote_delayed(F[(n + 1) - 1], s[n + 1], quiet)
    BY <1>3, <2>1
  <2> QED
    BY <2>1, <2>2
<1>6. PromoteRun(F, x, s, quiet)
  BY <1>2, <1>4, <1>5 DEF PromoteRun
<1> QED
  BY <1>6

LEMMA PromoteEachSound ==
    ASSUME NEW st, Sound(st, {}), NEW s \in Seq(JobIds), NEW quiet
    PROVE  Sound(promote_each(st, s, quiet), {}) /\ Kept(st, promote_each(st, s, quiet))
<1> DEFINE N == Len(s)
<1>1. N \in Nat /\ \A n \in 0 .. N - 1 : s[n + 1] \in JobIds
  OBVIOUS
<1>2. PICK F : PromoteRun(F, st, s, quiet)
  BY <1>1, PromoteRunExists
<1>3. /\ F[0] = st
      /\ \A n \in 0 .. N - 1 : F[n + 1] = promote_delayed(F[n], s[n + 1], quiet)
      /\ promote_each(st, s, quiet) = F[N]
  BY <1>2 DEF PromoteRun
<1> DEFINE Good(n) == Sound(F[n], {}) /\ Kept(st, F[n])
           Goods == {n \in 0 .. N : Good(n)}
<1> HIDE DEF N
<1>4. Good(0)
  BY <1>3, KeptReflexive
<1>5. ASSUME NEW n \in 0 .. N - 1, Good(n) PROVE Good(n + 1)
  <2> DEFINE a == F[n]
             b == promote_delayed(a, s[n + 1], quiet)
  <2>1. F[n + 1] = b /\ s[n + 1] \in JobIds /\ Sound(a, {}) /\ Kept(st, a)
    BY <1>1, <1>3, <1>5
  <2> HIDE DEF a
  <2>2. Sound(b, {}) /\ Kept(a, b)
    BY <2>1, PromoteDelayedSound
  <2> HIDE DEF b
  <2> QED
    BY <2>1, <2>2, KeptTransitive
<1> HIDE DEF Good
<1>6. 0 \in Goods /\ \A n \in 0 .. N - 1 : n \in Goods => n + 1 \in Goods
  BY <1>1, <1>4, <1>5
<1> HIDE DEF Goods
<1>7. \A n \in 0 .. N : n \in Goods
  BY <1>1, <1>6, Climb
<1>8. Good(N)
  BY <1>1, <1>7 DEF Goods
<1> QED
  BY <1>3, <1>8 DEF Good, N

LEMMA PromoteDueSound ==
    ASSUME NEW st, Sound(st, {}), NEW quiet
    PROVE  Sound(promote_due(st, quiet), {}) /\ Kept(st, promote_due(st, quiet))
<1> DEFINE due == {j \in st.delayed : Exists(st, j) => st.jobs[j].due}
           ids == SetToSeq(due)
           s1 == promote_each(st, ids, quiet)
           s2 == refresh_delay_marker(s1)
<1>1. promote_due(st, quiet) = s2
  BY DEF promote_due
<1>2. ids \in Seq(JobIds)
  <2>1. due \subseteq JobIds
    BY DEF Sound, Shape
  <2> HIDE DEF due
  <2> QED
    BY <2>1, FiniteIds
<1> HIDE DEF ids
<1>3. Sound(s1, {}) /\ Kept(st, s1)
  BY <1>2, PromoteEachSound
<1> HIDE DEF s1
<1>4. Quiet(s1, s2)
  BY <1>3, MarkersAreQuiet DEF Sound
<1> HIDE DEF s2
<1> QED
  BY <1>1, <1>3, <1>4, ThenQuiet

LEMMA PromoteJobSound ==
    ASSUME NEW st, Sound(st, {}), NEW j \in JobIds, Is(st, j, "delayed")
    PROVE  Sound(promote_job_script(st, j), {}) /\ Kept(st, promote_job_script(st, j))
<1> DEFINE job == [st.jobs[j] EXCEPT !.state = "waiting", !.due = TRUE]
           hand == {j}
           s0 == [st EXCEPT !.delayed = @ \ {j}]
           s1 == refresh_delay_marker(s0)
           s2 == enqueue_waiting_job(s1, job)
           s3 == sync_repeat_scheduler(s2, job)
<1>1. promote_job_script(st, j) = s3
  BY DEF promote_job_script
<1>2. st.jobs[j] \in Job /\ st.jobs[j].id = j /\ st.jobs[j] # None
  BY DEF Sound, Shape, Is
<1>3. job \in Job /\ job.id = j
  BY <1>2 DEF Job, JobState
<1>4. Sound(s0, hand) /\ Kept(st, s0)
  BY LeaveDelayed
<1>5. hand \ {j} = {} /\ j \in hand
  OBVIOUS
<1> HIDE DEF job, s0, hand
<1>6. Quiet(s0, s1)
  BY <1>4, MarkersAreQuiet DEF Sound
<1> HIDE DEF s1
<1>7. Sound(s1, hand) /\ Kept(st, s1)
  BY <1>4, <1>6, ThenQuiet
<1>8. Loose(s1, hand, job.id, "waiting")
  BY <1>3, <1>5 DEF Loose
<1>9. Sound(s2, hand \ {job.id}) /\ Kept(s1, s2)
  BY <1>3, <1>7, <1>8, EnqueueWaitingSound
<1> HIDE DEF s2
<1>10. Sound(s2, {}) /\ Kept(st, s2)
  BY <1>3, <1>5, <1>7, <1>9, KeptTransitive
<1>11. Quiet(s2, s3)
  BY <1>10, RepeatKeysAreQuiet DEF Sound
<1> HIDE DEF s3
<1> QED
  BY <1>1, <1>10, <1>11, ThenQuiet

LEMMA RescheduleSound ==
    ASSUME NEW st, Sound(st, {}), NEW j \in JobIds, Is(st, j, "delayed")
    PROVE  Sound(reschedule_job_script(st, j), {}) /\ Kept(st, reschedule_job_script(st, j))
<1> DEFINE job == [st.jobs[j] EXCEPT !.due = FALSE]
           hand == {}
           s1 == enqueue_delayed(st, job)
           s2 == sync_repeat_scheduler(s1, job)
<1>1. reschedule_job_script(st, j) = s2
  BY DEF reschedule_job_script
<1>2. st.jobs[j] \in Job /\ st.jobs[j].id = j /\ st.jobs[j] # None
  BY DEF Sound, Shape, Is
<1>3. job \in Job /\ job.id = j
  BY <1>2 DEF Job
<1>4. Loose(st, hand, job.id, "delayed")
  BY <1>3 DEF Loose
<1>5. Sound(st, hand) /\ hand \ {j} = {}
  OBVIOUS
<1> HIDE DEF job, hand
<1>6. Sound(s1, hand \ {job.id}) /\ Kept(st, s1)
  BY <1>3, <1>4, <1>5, EnqueueDelayedSound
<1> HIDE DEF s1
<1>7. Sound(s1, {}) /\ Kept(st, s1)
  BY <1>3, <1>5, <1>6
<1>8. Quiet(s1, s2)
  BY <1>7, RepeatKeysAreQuiet DEF Sound
<1> HIDE DEF s2
<1> QED
  BY <1>1, <1>7, <1>8, ThenQuiet

-----------------------------------------------------------------------------
(***************************************************************************)
(* Moves and removals by an operator.                                      *)
(***************************************************************************)
LEMMA ReclaimParentSound ==
    ASSUME NEW st, Sound(st, {}), NEW job
    PROVE  Sound(reclaim_parent(st, job), {}) /\ Kept(st, reclaim_parent(st, job))
<1> DEFINE p == job.parent_id
           c == job.id
           w == RemoveWaiting(st.waiting, p)
           r == [st.jobs[p] EXCEPT !.state = "waiting_children", !.deferred_failure = FALSE]
           deps == [Forget(st.deps[p], c) EXCEPT !.pending = @ \cup {c}]
           s1 == [st EXCEPT !.deps[p] = deps, !.jobs[p] = r,
                            !.waiting = w, !.delayed = @ \ {p},
                            !.waiting_children = @ \cup {p}]
<1>1. reclaim_parent(st, job) \in {st, s1, refresh_delay_marker(s1)}
  BY DEF reclaim_parent
<1>2. CASE ~(Exists(st, p) /\ st.jobs[p].state \notin Terminal \cup {"active"})
  BY <1>2, KeptReflexive DEF reclaim_parent
<1>3. CASE Exists(st, p) /\ st.jobs[p].state \notin Terminal \cup {"active"}
  <2>1. p \in JobIds /\ st.jobs[p] \in Job /\ st.jobs[p].id = p /\ Shape(st) /\ Fine(st, p)
    BY <1>3 DEF Exists, Sound, Shape
  <2>2. IsList(w) /\ EntryIds(w) = EntryIds(st.waiting) \ {p}
    BY <2>1, RemoveWaitingIds DEF Shape
  <2> HIDE DEF w, p, c, deps
  <2>3. r \in Job /\ r.id = p /\ r.state = "waiting_children" /\ r # None
    BY <2>1, RedisRecordsAssumption DEF Job, JobState
  <2>4. /\ DOMAIN s1 = DOMAIN st /\ s1.jobs = [st.jobs EXCEPT ![p] = r]
        /\ s1.waiting = w /\ s1.delayed = st.delayed \ {p} /\ s1.active = st.active
        /\ s1.waiting_children = st.waiting_children \cup {p} /\ s1.completed = st.completed
        /\ s1.failed = st.failed /\ s1.lock = st.lock
        /\ s1.stalled = st.stalled /\ s1.dedup_next = st.dedup_next
    <3> HIDE DEF r
    <3> QED
      BY <2>1 DEF Shape, Keys
  <2> HIDE DEF s1, r
  <2>5. Shape(s1)
    BY <2>1, <2>2, <2>3, <2>4 DEF Shape
  <2>6. \A i \in JobIds \ {p} : Alike(st, s1, i)
    BY <2>1, <2>2, <2>4 DEF Shape, Alike
  <2>7. Fine(s1, p) /\ s1.lock[p] = None
    <3>1. s1.jobs[p] = r
      BY <2>1, <2>4 DEF Shape
    <3>2. /\ p \notin st.active /\ p \notin ToSet(st.completed) /\ p \notin ToSet(st.failed)
          /\ st.lock[p] = None
      BY <1>3, <2>1 DEF Fine, Is, Terminal
    <3> QED
      BY <2>2, <2>3, <2>4, <3>1, <3>2 DEF Fine, Is
  <2>8. Sound(s1, {}) /\ Kept(st, s1)
    <3> DEFINE hand == {}
    <3>1. Sound(st, hand) /\ hand \ {p} = {}
      OBVIOUS
    <3> HIDE DEF hand
    <3>2. Sound(s1, hand \ {p}) /\ Kept(st, s1)
      BY <2>1, <2>5, <2>6, <2>7, <3>1, PutDown
    <3> QED
      BY <3>1, <3>2
  <2>9. Quiet(s1, refresh_delay_marker(s1))
    BY <2>5, MarkersAreQuiet
  <2>10. Sound(refresh_delay_marker(s1), {}) /\ Kept(st, refresh_delay_marker(s1))
    BY <2>8, <2>9, ThenQuiet
  <2> QED
    BY <1>1, <2>8, <2>10, KeptReflexive
<1> QED
  BY <1>2, <1>3

LEMMA RetryJobSound ==
    ASSUME NEW st, Sound(st, {}), NEW j \in ToSet(st.completed) \cup ToSet(st.failed)
    PROVE  Sound(retry_job_script(st, j), {}) /\ Kept(st, retry_job_script(st, j))
<1> DEFINE job == [st.jobs[j] EXCEPT !.state = "waiting", !.due = TRUE, !.deferred_failure = FALSE]
           hand == {j}
           no == {}
           s0 == prune_deduplication_key(st, deduplication_id(job))
           s1 == prune_repeat_keys(s0, repeat_key(job))
           done == RemoveFrom(s1.completed, j)
           lost == RemoveFrom(s1.failed, j)
           s2 == [s1 EXCEPT !.completed = done, !.failed = lost]
           t2 == enqueue_waiting_job(s2, job)
           s3 == reclaim_parent(t2, job)
           t3 == set_deduplication_key(s3, job)
           s4 == set_repeat_key(t3, job)
<1>1. retry_job_script(st, j) \in {s1, s4}
  BY DEF retry_job_script
<1>2. /\ j \in JobIds /\ st.jobs[j] # None /\ st.jobs[j].state \in Terminal
      /\ st.jobs[j] \in Job /\ st.jobs[j].id = j
  <2>1. j \in JobIds
    BY DEF Sound, Shape
  <2>2. Fine(st, j) /\ Shape(st)
    BY <2>1 DEF Sound
  <2> QED
    BY <2>1, <2>2 DEF Shape, Fine, Is, Terminal
<1>3. job \in Job /\ job.id = j
  BY <1>2 DEF Job, JobState
<1>4. hand \ {j} = {} /\ j \in hand /\ no \cup {j} = hand /\ Sound(st, no)
  OBVIOUS
<1> HIDE DEF job, hand, no
<1>5. Quiet(st, s0)
  BY DedupKeysAreQuiet DEF Sound
<1> HIDE DEF s0
<1>6. Sound(s0, no) /\ Kept(st, s0) /\ s0.jobs = st.jobs
  BY <1>4, <1>5, QuietSound, QuietJobs
<1>7. Quiet(s0, s1)
  BY <1>6, RepeatKeysAreQuiet DEF Sound
<1> HIDE DEF s1
<1>8. Sound(s1, no) /\ Kept(st, s1) /\ s1.jobs = st.jobs
  BY <1>6, <1>7, ThenQuiet
<1>9. Sound(s2, hand) /\ Kept(s1, s2)
  <2>1. Shape(s1)
    BY <1>8 DEF Sound
  <2>2. /\ IsList(done) /\ ToSet(done) = ToSet(s1.completed) \ {j}
        /\ IsList(lost) /\ ToSet(lost) = ToSet(s1.failed) \ {j}
    BY <2>1, RemoveFromList DEF Shape
  <2> HIDE DEF done, lost
  <2>3. /\ DOMAIN s2 = DOMAIN s1 /\ s2.jobs = s1.jobs
        /\ s2.waiting = s1.waiting /\ s2.delayed = s1.delayed /\ s2.active = s1.active
        /\ s2.waiting_children = s1.waiting_children /\ s2.completed = done
        /\ s2.failed = lost /\ s2.lock = s1.lock
        /\ s2.stalled = s1.stalled /\ s2.dedup_next = s1.dedup_next
    BY <2>1 DEF Shape, Keys
  <2> HIDE DEF s2
  <2>4. Shape(s2)
    BY <2>1, <2>2, <2>3 DEF Shape
  <2>5. \A i \in JobIds \ {j} : Alike(s1, s2, i)
    BY <2>2, <2>3 DEF Alike
  <2>6. Free(s2, j)
    <3>1. Fine(s1, j)
      BY <1>2, <1>8 DEF Sound, no
    <3>2. s1.jobs[j].state \in Terminal /\ s1.jobs[j] # None
      BY <1>2, <1>8
    <3> QED
      BY <2>2, <2>3, <3>1, <3>2 DEF Fine, Free, Is, Terminal
  <2>7. Sound(s2, no \cup {j}) /\ Kept(s1, s2)
    BY <1>2, <1>8, <2>4, <2>5, <2>6, PickUp
  <2> QED
    BY <1>4, <2>7
<1> HIDE DEF s2
<1>10. Loose(s2, hand, job.id, "waiting")
  BY <1>3, <1>4 DEF Loose
<1>11. Sound(t2, hand \ {job.id}) /\ Kept(s2, t2)
  BY <1>3, <1>9, <1>10, EnqueueWaitingSound
<1> HIDE DEF t2
<1>12. Sound(t2, {})
  BY <1>3, <1>4, <1>11
<1>13. Sound(s3, {}) /\ Kept(t2, s3)
  BY <1>12, ReclaimParentSound
<1> HIDE DEF s3
<1>14. Kept(st, s3)
  BY <1>8, <1>9, <1>11, <1>13, KeptTransitive
<1>15. Quiet(s3, t3)
  BY <1>13, DedupKeysAreQuiet DEF Sound
<1> HIDE DEF t3
<1>16. Sound(t3, {}) /\ Kept(st, t3)
  BY <1>13, <1>14, <1>15, ThenQuiet
<1>17. Quiet(t3, s4)
  BY <1>16, RepeatKeysAreQuiet DEF Sound
<1> HIDE DEF s4
<1>18. Sound(s4, {}) /\ Kept(st, s4)
  BY <1>16, <1>17, ThenQuiet
<1> QED
  BY <1>1, <1>8, <1>18 DEF no

LEMMA UpdatePrioritySound ==
    ASSUME NEW st, Sound(st, {}), NEW j \in JobIds, st.jobs[j] # None,
           NEW priority \in Nat, NEW lifo \in BOOLEAN
    PROVE  /\ Sound(update_priority_script(st, j, priority, lifo), {})
           /\ Kept(st, update_priority_script(st, j, priority, lifo))
<1> DEFINE job == [st.jobs[j] EXCEPT !.options.priority = priority, !.options.lifo = lifo]
           b == [st EXCEPT !.jobs[j] = job]
           hand == {}
<1>1. st.jobs[j] \in Job /\ st.jobs[j].id = j /\ Shape(st)
  BY DEF Sound, Shape
<1>2. /\ job \in Job /\ job.id = j /\ job.state = st.jobs[j].state
      /\ job.attempts_made = st.jobs[j].attempts_made
      /\ job.options.max_retries = st.jobs[j].options.max_retries
  <2> DEFINE old == st.jobs[j]
             options == [old.options EXCEPT !.priority = priority, !.lifo = lifo]
  <2>1. old \in Job /\ old.options \in JobOptions
    BY <1>1 DEF Job
  <2>2. options \in JobOptions /\ options.max_retries = old.options.max_retries
    BY <2>1 DEF JobOptions
  <2>3. job = [old EXCEPT !.options = options]
    BY <2>1 DEF Job
  <2> HIDE DEF options, job
  <2> QED
    BY <1>1, <2>1, <2>2, <2>3 DEF Job
<1>3. job # None
  BY <1>2, RedisRecordsAssumption
<1> HIDE DEF job
<1>4. CASE job.state = "waiting"
  <2>1. update_priority_script(st, j, priority, lifo) = enqueue_waiting_job(st, job)
    BY <1>4 DEF update_priority_script, job
  <2>2. Loose(st, hand, job.id, "waiting") /\ Sound(st, hand) /\ hand \ {j} = {}
    BY <1>2, <1>4 DEF Loose, Is
  <2> HIDE DEF hand
  <2>3. /\ Sound(enqueue_waiting_job(st, job), hand \ {job.id})
        /\ Kept(st, enqueue_waiting_job(st, job))
    BY <1>2, <2>2, EnqueueWaitingSound
  <2> QED
    BY <1>2, <2>1, <2>2, <2>3
<1>5. CASE job.state # "waiting"
  <2>1. update_priority_script(st, j, priority, lifo) = b
    BY <1>5 DEF update_priority_script, job
  <2>2. /\ DOMAIN b = DOMAIN st /\ b.jobs = [st.jobs EXCEPT ![j] = job]
        /\ b.waiting = st.waiting /\ b.delayed = st.delayed /\ b.active = st.active
        /\ b.waiting_children = st.waiting_children /\ b.completed = st.completed
        /\ b.failed = st.failed /\ b.lock = st.lock /\ b.stalled = st.stalled
        /\ b.dedup_next = st.dedup_next
    BY <1>1 DEF Shape, Keys
  <2> HIDE DEF b
  <2>3. Shape(b)
    BY <1>1, <1>2, <1>3, <2>2 DEF Shape
  <2>4. \A i \in JobIds : Alike(st, b, i)
    BY <1>1, <1>2, <1>3, <2>2 DEF Shape, Alike
  <2> QED
    BY <2>1, <2>3, <2>4, AllAlike
<1> QED
  BY <1>4, <1>5

LEMMA RemoveJobScriptSound ==
    ASSUME NEW st, Sound(st, {}), NEW j
    PROVE  Sound(remove_job_script(st, j), {}) /\ Kept(st, remove_job_script(st, j))
<1>1. CASE ~Exists(st, j)
  <2>1. Quiet(st, remove_dependency_keys(st, j))
    BY DEF Sound, Shape, Keys, Quiet, remove_dependency_keys
  <2> QED
    BY <1>1, <2>1, QuietSound DEF remove_job_script
<1>2. CASE Exists(st, j) /\ ActiveLocked(st, j)
  BY <1>2, KeptReflexive DEF remove_job_script
<1>3. CASE Exists(st, j) /\ ~ActiveLocked(st, j)
  <2>1. st.jobs[j].id \in JobIds
    BY <1>3 DEF Exists, Sound, Shape
  <2>2. /\ Sound(remove_with_dependency(st, st.jobs[j]), {})
        /\ Kept(st, remove_with_dependency(st, st.jobs[j]))
    BY <2>1, RemoveWithDependencySound
  <2> QED
    BY <1>3, <2>2 DEF remove_job_script
<1> QED
  BY <1>1, <1>2, <1>3

\* The candidates of a clean or a drain, one after the other.
RemoveRun(F, x, s, copies) ==
    /\ F[0] = x
    /\ \A n \in 0 .. Len(s) - 1 : F[n + 1] = remove_with_dependency(F[n], copies[s[n + 1]])
    /\ remove_each(x, copies, s) = F[Len(s)]

LEMMA RemoveRunExists ==
    ASSUME NEW x, NEW s, Len(s) \in Nat, NEW copies
    PROVE  \E F : RemoveRun(F, x, s, copies)
<1> DEFINE Runs(f, n) ==
               f = [i \in 0 .. n |-> IF i = 0 THEN x ELSE remove_with_dependency(f[i - 1], copies[s[i]])]
           N == Len(s)
           F == CHOOSE f : Runs(f, N)
           Reached == {n \in 0 .. N : \E f : Runs(f, n)}
<1>1. N \in Nat
  OBVIOUS
<1>2. remove_each(x, copies, s) = F[N]
  BY DEF InTurn, remove_each
<1>3. Runs(F, N)
  <2>1. \E f : Runs(f, 0)
    <3> WITNESS [i \in 0 .. 0 |-> x]
    <3> QED
      OBVIOUS
  <2>2. ASSUME NEW n \in 0 .. N - 1, NEW f, Runs(f, n) PROVE \E g : Runs(g, n + 1)
    <3> DEFINE g == [i \in 0 .. n + 1 |->
                        IF i <= n THEN f[i] ELSE remove_with_dependency(f[n], copies[s[n + 1]])]
    <3>1. Runs(g, n + 1)
      BY <2>2
    <3> QED
      BY <3>1
  <2> HIDE DEF Runs, N
  <2>3. 0 \in Reached /\ \A n \in 0 .. N - 1 : n \in Reached => n + 1 \in Reached
    BY <1>1, <2>1, <2>2
  <2> HIDE DEF Reached
  <2>4. \A n \in 0 .. N : n \in Reached
    BY <1>1, <2>3, Climb
  <2>5. N \in Reached
    BY <1>1, <2>4
  <2> QED
    BY <2>5 DEF Reached
<1> HIDE DEF F
<1>4. F[0] = x
  BY <1>1, <1>3
<1>5. ASSUME NEW n \in 0 .. N - 1 PROVE F[n + 1] = remove_with_dependency(F[n], copies[s[n + 1]])
  <2>1. n + 1 \in 0 .. N /\ n + 1 # 0 /\ (n + 1) - 1 = n
    BY <1>1
  <2>2. F[n + 1] = remove_with_dependency(F[(n + 1) - 1], copies[s[n + 1]])
    BY <1>3, <2>1
  <2> QED
    BY <2>1, <2>2
<1>6. RemoveRun(F, x, s, copies)
  BY <1>2, <1>4, <1>5 DEF RemoveRun
<1> QED
  BY <1>6

LEMMA RemoveEachSound ==
    ASSUME NEW st, Sound(st, {}), NEW s \in Seq(JobIds), NEW copies,
           \A i \in DOMAIN s : copies[s[i]].id \in JobIds
    PROVE  Sound(remove_each(st, copies, s), {}) /\ Kept(st, remove_each(st, copies, s))
<1> DEFINE N == Len(s)
<1>1. N \in Nat /\ \A n \in 0 .. N - 1 : copies[s[n + 1]].id \in JobIds
  <2>1. \A n \in 0 .. N - 1 : n + 1 \in DOMAIN s
    OBVIOUS
  <2> QED
    BY <2>1
<1>2. PICK F : RemoveRun(F, st, s, copies)
  BY <1>1, RemoveRunExists
<1>3. /\ F[0] = st
      /\ \A n \in 0 .. N - 1 : F[n + 1] = remove_with_dependency(F[n], copies[s[n + 1]])
      /\ remove_each(st, copies, s) = F[N]
  BY <1>2 DEF RemoveRun
<1> DEFINE Good(n) == Sound(F[n], {}) /\ Kept(st, F[n])
           Goods == {n \in 0 .. N : Good(n)}
<1> HIDE DEF N
<1>4. Good(0)
  BY <1>3, KeptReflexive
<1>5. ASSUME NEW n \in 0 .. N - 1, Good(n) PROVE Good(n + 1)
  <2> DEFINE a == F[n]
             b == remove_with_dependency(a, copies[s[n + 1]])
  <2>1. F[n + 1] = b /\ copies[s[n + 1]].id \in JobIds /\ Sound(a, {}) /\ Kept(st, a)
    BY <1>1, <1>3, <1>5
  <2> HIDE DEF a
  <2>2. Sound(b, {}) /\ Kept(a, b)
    BY <2>1, RemoveWithDependencySound
  <2> HIDE DEF b
  <2> QED
    BY <2>1, <2>2, KeptTransitive
<1> HIDE DEF Good
<1>6. 0 \in Goods /\ \A n \in 0 .. N - 1 : n \in Goods => n + 1 \in Goods
  BY <1>1, <1>4, <1>5
<1> HIDE DEF Goods
<1>7. \A n \in 0 .. N : n \in Goods
  BY <1>1, <1>6, Climb
<1>8. Good(N)
  BY <1>1, <1>7 DEF Goods
<1> QED
  BY <1>3, <1>8 DEF Good, N

\* The candidates are jobs that exist.
LEMMA RemoveCandidatesSound ==
    ASSUME NEW st, Sound(st, {}), NEW states, NEW candidates, candidates \subseteq JobIds,
           \A j \in candidates : st.jobs[j] # None
    PROVE  /\ Sound(remove_candidates(st, states, candidates), {})
           /\ Kept(st, remove_candidates(st, states, candidates))
<1> DEFINE seen == {j \in JobIds : Exists(st, j) /\ st.jobs[j].state \in states \ Terminal}
           Restores(k) == /\ st.repeat[k] = None /\ st.repeat_meta[k] \in seen
                          /\ repeat_key(st.jobs[st.repeat_meta[k]]) = k
           new == [k \in RepeatKeys |-> IF Restores(k) THEN st.repeat_meta[k] ELSE st.repeat[k]]
           s1 == [st EXCEPT !.repeat = new]
           ids == SetToSeq(candidates)
           copies == st.jobs
           s2 == remove_each(s1, copies, ids)
<1>1. remove_candidates(st, states, candidates) = s2
  BY DEF remove_candidates
<1>2. ids \in Seq(candidates) /\ ids \in Seq(JobIds)
  <2>1. IsFiniteSet(candidates)
    BY RedisJobIdsAssumption, FS_Subset
  <2> QED
    BY <2>1, SetToSeqElements
<1> HIDE DEF new, ids
<1>3. Quiet(st, s1)
  BY DEF Sound, Shape, Keys, Quiet
<1> HIDE DEF s1
<1>4. Sound(s1, {}) /\ Kept(st, s1)
  BY <1>3, QuietSound
<1>5. \A i \in DOMAIN ids : copies[ids[i]].id \in JobIds
  <2>1. \A i \in DOMAIN ids : ids[i] \in candidates
    BY <1>2
  <2> QED
    BY <2>1 DEF Sound, Shape
<1> HIDE DEF copies
<1>6. Sound(s2, {}) /\ Kept(s1, s2)
  BY <1>2, <1>4, <1>5, RemoveEachSound
<1> QED
  BY <1>1, <1>4, <1>6, KeptTransitive

\* What is removed below a parent are jobs that exist, and not the parent itself.
LEMMA UnprocessedBelowExist ==
    ASSUME NEW st, NEW p
    PROVE  \A c \in UnprocessedBelow(st, p) : Exists(st, c) /\ c # p
<1> DEFINE More(S) == S \cup UNION {Unprocessed(st, q) : q \in S}
           start == {p}
           Runs(f, n) == f = [i \in 0 .. n |-> IF i = 0 THEN start ELSE More(f[i - 1])]
           N == Cardinality(JobIds)
           F == CHOOSE f : Runs(f, N)
           Reached == {n \in 0 .. N : \E f : Runs(f, n)}
<1>1. N \in Nat
  BY RedisJobIdsAssumption, FS_CardinalityType
<1>2. UnprocessedBelow(st, p) = F[N] \ {p}
  BY DEF UnprocessedBelow
<1>3. \A S : \A c \in More(S) : c \in S \/ Exists(st, c)
  BY DEF Unprocessed
<1> HIDE DEF More, start
<1>4. Runs(F, N)
  <2>1. \E f : Runs(f, 0)
    <3> WITNESS [i \in 0 .. 0 |-> start]
    <3> QED
      OBVIOUS
  <2> HIDE DEF N
  <2>2. ASSUME NEW n \in 0 .. N - 1, NEW f, Runs(f, n) PROVE \E g : Runs(g, n + 1)
    <3> DEFINE g == [i \in 0 .. n + 1 |-> IF i <= n THEN f[i] ELSE More(f[n])]
    <3>0. n \in Nat
      BY <1>1
    <3>1. Runs(g, n + 1)
      BY <2>2, <3>0
    <3> QED
      BY <3>1
  <2> HIDE DEF Runs
  <2>3. 0 \in Reached /\ \A n \in 0 .. N - 1 : n \in Reached => n + 1 \in Reached
    BY <1>1, <2>1, <2>2
  <2> HIDE DEF Reached
  <2>4. \A n \in 0 .. N : n \in Reached
    BY <1>1, <2>3, Climb
  <2>5. N \in Reached
    BY <1>1, <2>4
  <2> QED
    BY <2>5 DEF Reached
<1> HIDE DEF F, N
<1> DEFINE Good(n) == \A c \in F[n] : c = p \/ Exists(st, c)
           Goods == {n \in 0 .. N : Good(n)}
<1>5. Good(0)
  <2>1. F[0] = start
    BY <1>1, <1>4
  <2> QED
    BY <2>1 DEF start
<1>6. ASSUME NEW n \in 0 .. N - 1, Good(n) PROVE Good(n + 1)
  <2>1. n + 1 \in 0 .. N /\ n + 1 # 0 /\ (n + 1) - 1 = n
    BY <1>1
  <2>2. F[n + 1] = More(F[(n + 1) - 1])
    BY <1>4, <2>1
  <2>3. F[n + 1] = More(F[n])
    BY <2>1, <2>2
  <2> QED
    BY <1>3, <1>6, <2>3
<1> HIDE DEF Good
<1>7. 0 \in Goods /\ \A n \in 0 .. N - 1 : n \in Goods => n + 1 \in Goods
  BY <1>1, <1>5, <1>6
<1> HIDE DEF Goods
<1>8. \A n \in 0 .. N : n \in Goods
  BY <1>1, <1>7, Climb
<1>9. Good(N)
  BY <1>1, <1>8 DEF Goods
<1> QED
  BY <1>2, <1>9 DEF Good

\* The unprocessed children, one after the other.
DiscardRun(F, x, s, copies) ==
    /\ F[0] = x
    /\ \A n \in 0 .. Len(s) - 1 : F[n + 1] = remove_job_record(F[n], copies[s[n + 1]])
    /\ remove_each_record(x, copies, s) = F[Len(s)]

LEMMA DiscardRunExists ==
    ASSUME NEW x, NEW s, Len(s) \in Nat, NEW copies
    PROVE  \E F : DiscardRun(F, x, s, copies)
<1> DEFINE Runs(f, n) ==
               f = [i \in 0 .. n |-> IF i = 0 THEN x ELSE remove_job_record(f[i - 1], copies[s[i]])]
           N == Len(s)
           F == CHOOSE f : Runs(f, N)
           Reached == {n \in 0 .. N : \E f : Runs(f, n)}
<1>1. N \in Nat
  OBVIOUS
<1>2. remove_each_record(x, copies, s) = F[N]
  BY DEF InTurn, remove_each_record
<1>3. Runs(F, N)
  <2>1. \E f : Runs(f, 0)
    <3> WITNESS [i \in 0 .. 0 |-> x]
    <3> QED
      OBVIOUS
  <2>2. ASSUME NEW n \in 0 .. N - 1, NEW f, Runs(f, n) PROVE \E g : Runs(g, n + 1)
    <3> DEFINE g == [i \in 0 .. n + 1 |->
                        IF i <= n THEN f[i] ELSE remove_job_record(f[n], copies[s[n + 1]])]
    <3>1. Runs(g, n + 1)
      BY <2>2
    <3> QED
      BY <3>1
  <2> HIDE DEF Runs, N
  <2>3. 0 \in Reached /\ \A n \in 0 .. N - 1 : n \in Reached => n + 1 \in Reached
    BY <1>1, <2>1, <2>2
  <2> HIDE DEF Reached
  <2>4. \A n \in 0 .. N : n \in Reached
    BY <1>1, <2>3, Climb
  <2>5. N \in Reached
    BY <1>1, <2>4
  <2> QED
    BY <2>5 DEF Reached
<1> HIDE DEF F
<1>4. F[0] = x
  BY <1>1, <1>3
<1>5. ASSUME NEW n \in 0 .. N - 1 PROVE F[n + 1] = remove_job_record(F[n], copies[s[n + 1]])
  <2>1. n + 1 \in 0 .. N /\ n + 1 # 0 /\ (n + 1) - 1 = n
    BY <1>1
  <2>2. F[n + 1] = remove_job_record(F[(n + 1) - 1], copies[s[n + 1]])
    BY <1>3, <2>1
  <2> QED
    BY <2>1, <2>2
<1>6. DiscardRun(F, x, s, copies)
  BY <1>2, <1>4, <1>5 DEF DiscardRun
<1> QED
  BY <1>6

LEMMA RemoveEachRecordSound ==
    ASSUME NEW st, Sound(st, {}), NEW s \in Seq(JobIds), NEW copies, NEW p,
           \A i \in DOMAIN s : copies[s[i]].id \in JobIds /\ copies[s[i]].id # p
    PROVE  /\ Sound(remove_each_record(st, copies, s), {})
           /\ Kept(st, remove_each_record(st, copies, s))
           /\ p \in JobIds => remove_each_record(st, copies, s).jobs[p] = st.jobs[p]
<1> DEFINE N == Len(s)
           no == {}
<1>1. N \in Nat /\ \A n \in 0 .. N - 1 : copies[s[n + 1]].id \in JobIds /\ copies[s[n + 1]].id # p
  <2>1. \A n \in 0 .. N - 1 : n + 1 \in DOMAIN s
    OBVIOUS
  <2> QED
    BY <2>1
<1>2. PICK F : DiscardRun(F, st, s, copies)
  BY <1>1, DiscardRunExists
<1>3. /\ F[0] = st
      /\ \A n \in 0 .. N - 1 : F[n + 1] = remove_job_record(F[n], copies[s[n + 1]])
      /\ remove_each_record(st, copies, s) = F[N]
  BY <1>2 DEF DiscardRun
<1> DEFINE Good(n) == /\ Sound(F[n], no) /\ Kept(st, F[n])
                      /\ p \in JobIds => F[n].jobs[p] = st.jobs[p]
           Goods == {n \in 0 .. N : Good(n)}
<1>0. Sound(st, no) /\ \A i : no \ {i} = no
  OBVIOUS
<1> HIDE DEF N, no
<1>4. Good(0)
  BY <1>0, <1>3, KeptReflexive
<1>5. ASSUME NEW n \in 0 .. N - 1, Good(n) PROVE Good(n + 1)
  <2> DEFINE a == F[n]
             job == copies[s[n + 1]]
             b == remove_job_record(a, job)
  <2>1. /\ F[n + 1] = b /\ job.id \in JobIds /\ job.id # p
        /\ Sound(a, no) /\ Kept(st, a) /\ (p \in JobIds => a.jobs[p] = st.jobs[p])
    BY <1>1, <1>3, <1>5
  <2> HIDE DEF a, job
  <2>2. /\ Sound(b, no \ {job.id}) /\ Kept(a, b)
        /\ b.jobs = [a.jobs EXCEPT ![job.id] = None]
    BY <2>1, RemoveJobRecordSound
  <2> HIDE DEF b
  <2>3. p \in JobIds => b.jobs[p] = st.jobs[p]
    BY <2>1, <2>2 DEF Sound, Shape
  <2>4. Sound(b, no) /\ Kept(st, b)
    BY <1>0, <2>1, <2>2, KeptTransitive
  <2> QED
    BY <2>1, <2>3, <2>4
<1> HIDE DEF Good
<1>6. 0 \in Goods /\ \A n \in 0 .. N - 1 : n \in Goods => n + 1 \in Goods
  BY <1>1, <1>4, <1>5
<1> HIDE DEF Goods
<1>7. \A n \in 0 .. N : n \in Goods
  BY <1>1, <1>6, Climb
<1>8. Good(N)
  BY <1>1, <1>7 DEF Goods
<1> QED
  BY <1>3, <1>8 DEF Good, N, no

LEMMA RemoveUnprocessedSound ==
    ASSUME NEW st, Sound(st, {}), NEW p \in JobIds, st.jobs[p] # None
    PROVE  /\ Sound(remove_unprocessed_script(st, p), {})
           /\ Kept(st, remove_unprocessed_script(st, p))
<1> DEFINE gone == UnprocessedBelow(st, p)
           missing == {c \in ToSet(st.jobs[p].child_ids) : ~Exists(st, c)}
           copies == st.jobs
           ids == SetToSeq(gone)
           s1 == remove_each_record(st, copies, ids)
           s2 == [s1 EXCEPT !.deps[p].pending = @ \ (gone \cup missing)]
           s3 == scan_remaining_children(s2, p)
<1>1. remove_unprocessed_script(st, p) =
        IF s2.jobs[p].state # "waiting_children" \/ s2.deps[p].pending # {} THEN s2 ELSE s3
  BY DEF remove_unprocessed_script
<1>2. \A c \in gone : Exists(st, c) /\ c # p
  BY UnprocessedBelowExist
<1> HIDE DEF gone, missing
<1>3. ids \in Seq(gone) /\ ids \in Seq(JobIds)
  <2>1. gone \subseteq JobIds
    BY <1>2 DEF Exists
  <2>2. IsFiniteSet(gone)
    BY <2>1, RedisJobIdsAssumption, FS_Subset
  <2> QED
    BY <2>1, <2>2, SetToSeqElements
<1> HIDE DEF ids
<1>4. \A i \in DOMAIN ids : copies[ids[i]].id \in JobIds /\ copies[ids[i]].id # p
  <2>1. \A i \in DOMAIN ids : ids[i] \in gone
    BY <1>3
  <2>2. \A c \in gone : copies[c].id = c /\ c \in JobIds
    BY <1>2 DEF Exists, Sound, Shape
  <2> QED
    BY <1>2, <2>1, <2>2
<1> HIDE DEF copies
<1>5. Sound(s1, {}) /\ Kept(st, s1) /\ s1.jobs[p] = st.jobs[p]
  BY <1>3, <1>4, RemoveEachRecordSound
<1> HIDE DEF s1
<1>6. Quiet(s1, s2)
  BY <1>5 DEF Sound, Shape, Keys, Quiet
<1> HIDE DEF s2
<1>7. Sound(s2, {}) /\ Kept(st, s2) /\ s2.jobs[p] # None
  BY <1>5, <1>6, ThenQuiet
<1>8. CASE s2.jobs[p].state # "waiting_children"
  BY <1>1, <1>7, <1>8
<1>9. CASE s2.jobs[p].state = "waiting_children"
  <2>1. Is(s2, p, "waiting_children")
    BY <1>7, <1>9 DEF Is
  <2>2. Sound(s3, {}) /\ Kept(s2, s3)
    BY <1>7, <2>1, ScanRemainingChildrenSound
  <2> HIDE DEF s3
  <2>3. Kept(st, s3)
    BY <1>7, <2>2, KeptTransitive
  <2> QED
    BY <1>1, <1>7, <2>2, <2>3
<1> QED
  BY <1>8, <1>9

LEMMA RemoveChildDependencySound ==
    ASSUME NEW st, Sound(st, {}), NEW c \in JobIds, st.jobs[c] # None
    PROVE  /\ Sound(remove_child_dependency_script(st, c), {})
           /\ Kept(st, remove_child_dependency_script(st, c))
<1> DEFINE p == st.jobs[c].parent_id
           list == RemoveFrom(st.jobs[p].child_ids, c)
           s1 == [st EXCEPT !.deps[p] = Forget(@, c),
                            !.jobs[p].child_ids = list,
                            !.jobs[c].parent_id = None]
           s2 == scan_remaining_children(s1, p)
<1>1. remove_child_dependency_script(st, c) \in {st, s1, s2}
  BY DEF remove_child_dependency_script
<1>2. CASE ~Exists(st, p)
  BY <1>2, KeptReflexive DEF remove_child_dependency_script
<1>3. CASE Exists(st, p)
  <2>1. /\ p \in JobIds /\ st.jobs[p] \in Job /\ st.jobs[p] # None /\ st.jobs[p].id = p
        /\ st.jobs[c] \in Job /\ st.jobs[c].id = c /\ Shape(st)
    BY <1>3 DEF Exists, Sound, Shape
  <2>2. list \in Seq(JobIds)
    <3>1. st.jobs[p].child_ids \in Seq(JobIds)
      BY <2>1 DEF Job
    <3> QED
      BY <3>1, KeepOnlyElements DEF RemoveFrom
  <2>3. remove_child_dependency_script(st, c) = s2 => s1.jobs[p].state = "waiting_children"
                                                     \/ remove_child_dependency_script(st, c) \in {st, s1}
    <3> HIDE DEF s1, s2
    <3> QED
      BY DEF remove_child_dependency_script, s1, s2
  <2> HIDE DEF list, p
  <2> DEFINE r == [st.jobs[p] EXCEPT !.child_ids = list]
             mid == [st.jobs EXCEPT ![p] = r]
             q == [mid[c] EXCEPT !.parent_id = None]
             new == [mid EXCEPT ![c] = q]
  <2>4. /\ DOMAIN s1 = DOMAIN st /\ s1.jobs = new
        /\ s1.waiting = st.waiting /\ s1.delayed = st.delayed /\ s1.active = st.active
        /\ s1.waiting_children = st.waiting_children /\ s1.completed = st.completed
        /\ s1.failed = st.failed /\ s1.lock = st.lock /\ s1.stalled = st.stalled
        /\ s1.dedup_next = st.dedup_next
    BY <2>1 DEF Shape, Keys
  <2>5. r \in Job /\ r.id = p /\ r.state = st.jobs[p].state /\ r # None
        /\ r.attempts_made = st.jobs[p].attempts_made /\ r.options = st.jobs[p].options
    BY <2>1, <2>2, RedisRecordsAssumption DEF Job
  <2> HIDE DEF r
  <2>6. /\ mid \in [JobIds -> Job \cup {None}] /\ mid[c] \in Job /\ mid[c].id = c
        /\ mid[c].state = st.jobs[c].state /\ mid[c].attempts_made = st.jobs[c].attempts_made
        /\ mid[c].options = st.jobs[c].options
        /\ \A i \in JobIds \ {p} : mid[i] = st.jobs[i]
        /\ mid[p] = r
    BY <2>1, <2>5 DEF Shape
  <2> HIDE DEF mid
  <2>7. q \in Job /\ q.id = c /\ q.state = st.jobs[c].state /\ q # None
        /\ q.attempts_made = st.jobs[c].attempts_made /\ q.options = st.jobs[c].options
    BY <2>6, RedisRecordsAssumption DEF Job
  <2> HIDE DEF q
  <2>8. /\ new \in [JobIds -> Job \cup {None}]
        /\ \A i \in JobIds : /\ new[i] = None <=> st.jobs[i] = None
                             /\ new[i] # None => new[i].id = i
                             /\ new[i].state = st.jobs[i].state
                             /\ new[i].attempts_made = st.jobs[i].attempts_made
                             /\ new[i].options = st.jobs[i].options
    <3>1. new \in [JobIds -> Job \cup {None}] /\ new[c] = q /\ \A i \in JobIds \ {c} : new[i] = mid[i]
      BY <2>6, <2>7
    <3> HIDE DEF new
    <3> QED
      BY <2>1, <2>5, <2>6, <2>7, <3>1, SMTT(60) DEF Shape
  <2> HIDE DEF new, s1
  <2>9. Shape(s1)
    BY <2>1, <2>4, <2>8 DEF Shape
  <2>10. \A i \in JobIds : Alike(st, s1, i)
    BY <2>4, <2>8 DEF Alike
  <2>11. Sound(s1, {}) /\ Kept(st, s1)
    BY <2>9, <2>10, AllAlike
  <2>12. CASE s1.jobs[p].state = "waiting_children"
    <3>1. Is(s1, p, "waiting_children")
      BY <2>1, <2>4, <2>8, <2>12 DEF Is
    <3>2. Sound(s2, {}) /\ Kept(s1, s2)
      BY <2>1, <2>11, <3>1, ScanRemainingChildrenSound
    <3> HIDE DEF s2
    <3>3. Kept(st, s2)
      BY <2>11, <3>2, KeptTransitive
    <3> QED
      BY <1>1, <2>11, <3>2, <3>3, KeptReflexive
  <2>13. CASE s1.jobs[p].state # "waiting_children"
    <3>1. remove_child_dependency_script(st, c) \in {st, s1}
      BY <1>1, <2>3, <2>13
    <3> QED
      BY <2>11, <3>1, KeptReflexive
  <2> QED
    BY <2>12, <2>13
<1> QED
  BY <1>2, <1>3

LEMMA EmptyDbSound == Sound(EmptyDb, {}) /\ \A st : Kept(st, EmptyDb)
<1> DEFINE b == EmptyDb
           empty == <<>>
<1>1. IsList(empty) /\ ToSet(empty) = {} /\ EntryIds(empty) = {}
  <2>1. empty \in Seq({}) /\ ToSet(empty) = {}
    BY DEF ToSet
  <2> HIDE DEF empty
  <2> QED
    BY <2>1 DEF IsList, EntryIds
<1>2. /\ DOMAIN b = Keys /\ b.jobs = [j \in JobIds |-> None]
      /\ b.waiting = empty /\ b.delayed = {} /\ b.active = {}
      /\ b.waiting_children = {} /\ b.completed = empty
      /\ b.failed = empty /\ b.lock = [j \in JobIds |-> None] /\ b.stalled = {}
      /\ b.dedup_next = [d \in DedupIds |-> None]
  BY DEF EmptyDb, Keys
<1> HIDE DEF b, empty
<1>3. Shape(b)
  BY <1>1, <1>2 DEF Shape
<1>4. \A j \in JobIds : Fine(b, j)
  BY <1>1, <1>2 DEF Fine, Is
<1>5. \A st : Kept(st, b)
  BY <1>2 DEF Kept
<1> QED
  BY <1>3, <1>4, <1>5 DEF Sound, b

LEMMA ObliterateSound ==
    ASSUME NEW st, Sound(st, {}), NEW force
    PROVE  Sound(obliterate_script(st, force), {}) /\ Kept(st, obliterate_script(st, force))
<1>1. Quiet(st, [st EXCEPT !.paused = TRUE])
  BY DEF Sound, Shape, Keys, Quiet
<1>2. Sound([st EXCEPT !.paused = TRUE], {}) /\ Kept(st, [st EXCEPT !.paused = TRUE])
  BY <1>1, QuietSound
<1> QED
  BY <1>2, EmptyDbSound DEF obliterate_script

\* There are no orphans to remove.
LEMMA RemoveOrphansSound ==
    ASSUME NEW st, Sound(st, {})
    PROVE  Sound(remove_orphans(st), {}) /\ Kept(st, remove_orphans(st))
<1> DEFINE b == remove_orphans(st)
<1>1. \A j \in JobIds : j \notin Orphans(st)
  <2>1. \A j \in JobIds : Exists(st, j) => st.jobs[j].state \in JobState /\ Fine(st, j)
    BY DEF Sound, Shape, Exists, Job
  <2>2. WaitingIds(st) = EntryIds(st.waiting)
    BY WaitingIdsAreEntryIds
  <2> QED
    BY <2>1, <2>2 DEF Orphans, JobState, Terminal, Fine, Is, Exists
<1>2. Shape(st)
  BY DEF Sound
<1>3. /\ DOMAIN b = DOMAIN st
      /\ b.jobs = [j \in JobIds |-> IF j \in Orphans(st) THEN None ELSE st.jobs[j]]
      /\ b.lock = [j \in JobIds |-> IF j \in Orphans(st) THEN None ELSE st.lock[j]]
      /\ b.waiting = st.waiting /\ b.delayed = st.delayed /\ b.active = st.active
      /\ b.waiting_children = st.waiting_children /\ b.completed = st.completed
      /\ b.failed = st.failed /\ b.stalled = st.stalled /\ b.dedup_next = st.dedup_next
  BY <1>2 DEF Shape, Keys, remove_orphans
<1> HIDE DEF b
<1>4. b.jobs \in [JobIds -> Job \cup {None}] /\ \A j \in JobIds : b.jobs[j] = st.jobs[j] /\ b.lock[j] = st.lock[j]
  BY <1>1, <1>2, <1>3 DEF Shape
<1>5. Shape(b)
  BY <1>2, <1>3, <1>4 DEF Shape
<1>6. \A j \in JobIds : Alike(st, b, j)
  BY <1>3, <1>4 DEF Alike
<1> QED
  BY <1>5, <1>6, AllAlike DEF b

-----------------------------------------------------------------------------
(***************************************************************************)
(* Submission.                                                             *)
(***************************************************************************)
\* A job that a submission script writes.
Fresh(job) == job \in Job /\ job.state \in {"waiting", "delayed", "waiting_children"}

LEMMA InsertJobSound ==
    ASSUME NEW st, Sound(st, {}), NEW job, Fresh(job), st.jobs[job.id] = None
    PROVE  /\ Sound(insert_job(st, job), {}) /\ Kept(st, insert_job(st, job))
           /\ Exists(insert_job(st, job), job.id)
           /\ \A i \in JobIds \ {job.id} : insert_job(st, job).jobs[i] = st.jobs[i]
<1> DEFINE no == {}
           s1 == enqueue_prepared_job(st, job)
           s2 == set_repeat_key(s1, job)
<1>1. Sound(st, no) /\ Held(st, no) /\ job \in Job
      /\ job.state \in {"waiting", "delayed", "waiting_children"}
  BY DEF Held, Fresh
<1> HIDE DEF no
<1>2. /\ Sound(s1, no) /\ Kept(st, s1) /\ Exists(s1, job.id)
      /\ \A i \in JobIds \ {job.id} : s1.jobs[i] = st.jobs[i]
  BY <1>1, EnqueueNewSound
<1> HIDE DEF s1
<1>3. Quiet(s1, s2)
  BY <1>2, RepeatKeysAreQuiet DEF Sound
<1> HIDE DEF s2
<1>4. Sound(s2, no) /\ Kept(st, s2) /\ s2.jobs = s1.jobs
  BY <1>2, <1>3, ThenQuiet
<1>5. insert_job(st, job) = s2
  BY DEF insert_job, s1, s2
<1> QED
  BY <1>2, <1>4, <1>5 DEF no, Exists

LEMMA InsertUnlessRepeatingSound ==
    ASSUME NEW st, Sound(st, {}), NEW job, Fresh(job), st.jobs[job.id] = None, NEW replacing
    PROVE  /\ Sound(insert_unless_repeating(st, job, replacing), {})
           /\ Kept(st, insert_unless_repeating(st, job, replacing))
<1> DEFINE k == repeat_key(job)
           s1 == prune_repeat_keys(st, k)
           s2 == insert_job(s1, job)
           s3 == set_replaced_deduplication_key(s2, job)
           s4 == set_deduplication_key(s2, job)
<1>1. insert_unless_repeating(st, job, replacing) \in {s1, s3, s4}
  BY DEF insert_unless_repeating
<1>2. Quiet(st, s1)
  BY RepeatKeysAreQuiet DEF Sound
<1> HIDE DEF s1
<1>3. Sound(s1, {}) /\ Kept(st, s1) /\ s1.jobs = st.jobs
  BY <1>2, QuietSound, QuietJobs
<1>4. Sound(s2, {}) /\ Kept(s1, s2)
  BY <1>3, InsertJobSound
<1> HIDE DEF s2
<1>5. Kept(st, s2)
  BY <1>3, <1>4, KeptTransitive
<1>6. Quiet(s2, s3)
  BY <1>4, OwnerKeysAreQuiet DEF Sound
<1>7. Quiet(s2, s4)
  BY <1>4, DedupKeysAreQuiet DEF Sound
<1> HIDE DEF s3, s4
<1>8. Sound(s3, {}) /\ Kept(st, s3) /\ Sound(s4, {}) /\ Kept(st, s4)
  BY <1>4, <1>5, <1>6, <1>7, ThenQuiet
<1> QED
  BY <1>1, <1>3, <1>8

LEMMA RemoveReplacedSound ==
    ASSUME NEW st, Sound(st, {}), NEW j \in JobIds, Is(st, j, "delayed")
    PROVE  LET b == remove_replaced_owner(st, st.jobs[j]) IN
           /\ Sound(b, {}) /\ Kept(st, b)
           /\ b.jobs = [st.jobs EXCEPT ![j] = None]
<1> DEFINE b == remove_replaced_owner(st, st.jobs[j])
           no == {}
<1>1. Shape(st) /\ Fine(st, j) /\ st.jobs[j].id = j
  BY DEF Sound, Shape, Is
<1>2. /\ DOMAIN b = DOMAIN st /\ b.jobs = [st.jobs EXCEPT ![j] = None]
      /\ b.waiting = st.waiting /\ b.delayed = st.delayed \ {j} /\ b.active = st.active
      /\ b.waiting_children = st.waiting_children /\ b.completed = st.completed
      /\ b.failed = st.failed /\ b.lock = st.lock
      /\ b.stalled = st.stalled /\ b.dedup_next = st.dedup_next
  BY <1>1 DEF Shape, Keys, remove_replaced_owner
<1> HIDE DEF b
<1>3. Shape(b)
  BY <1>1, <1>2 DEF Shape
<1>4. \A i \in JobIds \ {j} : Alike(st, b, i)
  BY <1>1, <1>2 DEF Shape, Alike
<1>5. Fine(b, j) /\ b.lock[j] = None
  <2>1. b.jobs[j] = None
    BY <1>1, <1>2 DEF Shape
  <2> QED
    BY <1>1, <1>2, <2>1 DEF Fine, Is
<1>6. Sound(st, no) /\ no \ {j} = {}
  OBVIOUS
<1> HIDE DEF no
<1>7. Sound(b, no \ {j}) /\ Kept(st, b)
  BY <1>3, <1>4, <1>5, <1>6, PutDown
<1> QED
  BY <1>2, <1>6, <1>7 DEF b

LEMMA SingleIsProper ==
    ASSUME NEW job \in Job PROVE Proper([job |-> job, children |-> <<>>])
  BY DEF Proper, Parked, DistinctIds

LEMMA OwnerExists ==
    ASSUME NEW st, NEW d, deduplication_owner(st, d) # None
    PROVE  Exists(st, deduplication_owner(st, d))
  BY DEF deduplication_owner, DeduplicationKeyIsLive

LEMMA AddJobSound ==
    ASSUME NEW st, Sound(st, {}), NEW job, Fresh(job)
    PROVE  Sound(add_job(st, job), {}) /\ Kept(st, add_job(st, job))
<1> DEFINE d == deduplication_id(job)
           s1 == prune_deduplication_key(st, d)
           o == deduplication_owner(s1, d)
           owner == s1.jobs[o]
           yes == TRUE
           no == FALSE
           t1 == insert_unless_repeating(s1, job, no)
           s2 == remove_replaced_owner(s1, owner)
           t2 == insert_unless_repeating(s2, job, yes)
           payload == [job |-> job, children |-> <<>>]
           t3 == park(s1, d, payload)
           t4 == extend_deduplicated_owner(s1, job)
<1>1. CASE Exists(st, job.id)
  BY <1>1, KeptReflexive DEF add_job
<1>2. CASE ~Exists(st, job.id)
  <2>1. job.id \in JobIds /\ st.jobs[job.id] = None
    BY <1>2 DEF Exists, Fresh, Job
  <2>2. add_job(st, job) = IF o = None THEN t1
                           ELSE IF can_replace_deduplicated_owner(job, owner)
                                THEN IF owner.id \notin s1.delayed THEN s1 ELSE t2
                           ELSE IF can_store_deduplicated_next(s1, job, owner) THEN t3
                           ELSE IF job.options.deduplication.replace THEN s1
                           ELSE t4
    BY <1>2 DEF add_job
  <2>3. Quiet(st, s1)
    BY DedupKeysAreQuiet DEF Sound
  <2> HIDE DEF s1, yes, no
  <2>4. Sound(s1, {}) /\ Kept(st, s1) /\ s1.jobs = st.jobs
    BY <2>3, QuietSound, QuietJobs
  <2>5. Sound(t1, {}) /\ Kept(st, t1)
    <3>1. Sound(t1, {}) /\ Kept(s1, t1)
      BY <2>1, <2>4, InsertUnlessRepeatingSound
    <3> QED
      BY <2>4, <3>1, KeptTransitive
  <2> HIDE DEF t1
  <2>6. Sound(t3, {}) /\ Kept(st, t3)
    <3>1. Proper(payload)
      BY SingleIsProper DEF Fresh
    <3> HIDE DEF payload
    <3>2. Quiet(s1, t3)
      BY <2>4, <3>1, ParkIsQuiet DEF Sound
    <3> HIDE DEF t3
    <3> QED
      BY <2>4, <3>2, ThenQuiet
  <2> HIDE DEF t3
  <2>7. Sound(t4, {}) /\ Kept(st, t4)
    <3>1. Quiet(s1, t4)
      BY <2>4, OwnerKeysAreQuiet DEF Sound
    <3> HIDE DEF t4
    <3> QED
      BY <2>4, <3>1, ThenQuiet
  <2> HIDE DEF t4, d
  <2>8. ASSUME o # None, can_replace_deduplicated_owner(job, owner)
        PROVE  Sound(t2, {}) /\ Kept(st, t2)
    <3>1. o \in JobIds /\ s1.jobs[o] # None
      BY <2>8, OwnerExists DEF Exists
    <3> HIDE DEF o
    <3>2. Is(s1, o, "delayed")
      BY <2>8, <3>1 DEF can_replace_deduplicated_owner, Is
    <3>3. /\ Sound(s2, {}) /\ Kept(s1, s2)
          /\ s2.jobs = [s1.jobs EXCEPT ![o] = None]
      BY <2>4, <3>1, <3>2, RemoveReplacedSound
    <3> HIDE DEF s2
    <3>4. s2.jobs[job.id] = None
      BY <2>1, <2>4, <3>1, <3>3 DEF Sound, Shape
    <3>5. Sound(t2, {}) /\ Kept(s2, t2)
      BY <3>3, <3>4, InsertUnlessRepeatingSound
    <3> QED
      BY <2>4, <3>3, <3>5, KeptTransitive
  <2> HIDE DEF t2, o, owner
  <2> QED
    BY <2>2, <2>4, <2>5, <2>6, <2>7, <2>8
<1> QED
  BY <1>1, <1>2

LEMMA RepeatOwnerExists ==
    ASSUME NEW st, NEW k, repeat_owner(st, k) # None
    PROVE  Exists(st, repeat_owner(st, k))
  BY DEF repeat_owner, IsLiveRepeat

LEMMA UpsertRepeatSound ==
    ASSUME NEW st, Sound(st, {}), NEW job, Fresh(job)
    PROVE  Sound(upsert_repeat_script(st, job), {}) /\ Kept(st, upsert_repeat_script(st, job))
<1> DEFINE k == repeat_key(job)
           d == deduplication_id(job)
           owner == repeat_owner(st, k)
           s1 == prune_repeat_keys(st, k)
           other == d # None /\ s1.dedup[d] # None /\ s1.dedup[d].owner # owner
           s2 == IF other THEN prune_deduplication_key(s1, d) ELSE s1
           s3 == IF owner = None THEN s2 ELSE remove_job_record(s2, s2.jobs[owner])
           refused == IF owner = None THEN FALSE
                      ELSE st.jobs[owner].state = "active" \/ IsFlowMember(st.jobs[owner])
           s4 == enqueue_prepared_job(s3, job)
           s5 == set_deduplication_key(s4, job)
           s6 == SetRepeat(s5, k, job.id)
           no == {}
<1>1. upsert_repeat_script(st, job) =
        IF refused \/ (Exists(s1, job.id) /\ job.id # owner) THEN s1
        ELSE IF deduplication_owner(s2, d) \notin {None, owner} THEN s2
        ELSE s6
  BY DEF upsert_repeat_script
<1>2. Quiet(st, s1)
  BY RepeatKeysAreQuiet DEF Sound
<1> HIDE DEF s1, refused, other
<1>3. Sound(s1, {}) /\ Kept(st, s1) /\ s1.jobs = st.jobs
  BY <1>2, QuietSound, QuietJobs
<1>4. Quiet(s1, s2)
  BY <1>3, DedupKeysAreQuiet, QuietReflexive DEF Sound
<1> HIDE DEF s2
<1>5. Sound(s2, {}) /\ Kept(st, s2) /\ s2.jobs = st.jobs
  BY <1>3, <1>4, ThenQuiet
<1>6. job.id \in JobIds /\ job \in Job /\ job.state \in {"waiting", "delayed", "waiting_children"}
      /\ job.id # None
  BY RedisNoneAssumption DEF Fresh, Job
<1>7. owner # None => owner \in JobIds /\ st.jobs[owner] # None
  BY RepeatOwnerExists DEF Exists
<1> HIDE DEF owner
<1>8. Sound(s3, no) /\ Kept(st, s3) /\ Held(s3, no)
      /\ (owner = None => s3.jobs = st.jobs)
      /\ (owner # None => s3.jobs = [st.jobs EXCEPT ![owner] = None])
  <2>1. CASE owner = None
    BY <1>5, <2>1 DEF Held
  <2>2. CASE owner # None
    <3> DEFINE r == s2.jobs[owner]
               b == remove_job_record(s2, r)
    <3>1. r.id = owner /\ owner \in JobIds
      BY <1>5, <1>7, <2>2 DEF Sound, Shape
    <3>2. Sound(s2, no) /\ no \ {owner} = no
      BY <1>5
    <3> HIDE DEF no, r
    <3>3. Sound(b, no \ {r.id}) /\ Kept(s2, b) /\ b.jobs = [s2.jobs EXCEPT ![r.id] = None]
      BY <3>1, <3>2, RemoveJobRecordSound
    <3>4. s3 = b
      BY <2>2 DEF r
    <3> HIDE DEF b, s3
    <3>5. Kept(st, b)
      BY <1>5, <3>3, KeptTransitive
    <3>6. Held(b, no)
      BY DEF Held, no
    <3> QED
      BY <1>5, <2>2, <3>1, <3>2, <3>3, <3>4, <3>5, <3>6
  <2> QED
    BY <2>1, <2>2
<1> HIDE DEF s3
<1>9. ASSUME ~(Exists(s1, job.id) /\ job.id # owner)
      PROVE  Sound(s6, {}) /\ Kept(st, s6)
  <2>1. s3.jobs[job.id] = None
    BY <1>3, <1>6, <1>7, <1>8, <1>9 DEF Exists, Sound, Shape
  <2> HIDE DEF no
  <2>2. Sound(s4, no) /\ Kept(s3, s4)
    BY <1>6, <1>8, <2>1, EnqueueNewSound
  <2> HIDE DEF s4
  <2>3. Kept(st, s4)
    BY <1>8, <2>2, KeptTransitive
  <2>4. Quiet(s4, s5)
    BY <2>2, DedupKeysAreQuiet DEF Sound
  <2> HIDE DEF s5
  <2>5. Sound(s5, no) /\ Kept(st, s5)
    BY <2>2, <2>3, <2>4, ThenQuiet
  <2>6. Quiet(s5, s6)
    BY <2>5, RepeatKeysAreQuiet DEF Sound
  <2> HIDE DEF s6
  <2>7. Sound(s6, no) /\ Kept(st, s6)
    BY <2>5, <2>6, ThenQuiet
  <2> QED
    BY <2>7 DEF no
<1> HIDE DEF s6
<1> QED
  BY <1>1, <1>3, <1>5, <1>9

-----------------------------------------------------------------------------
(***************************************************************************)
(* Flows: the examination changes no job, and tells the children that      *)
(* exist from those that do not.                                           *)
(***************************************************************************)
AccKeys == {"db", "result", "skipped", "duplicated", "next", "staged"}

Review(st, acc) ==
    /\ DOMAIN acc = AccKeys
    /\ Quiet(st, acc.db)
    /\ \A j \in acc.duplicated : Exists(st, j)

\* What is settled stays settled.
Onward(a, b) ==
    /\ b.result = "ok" => a.result = "ok"
    /\ a.duplicated \subseteq b.duplicated /\ a.skipped \subseteq b.skipped

\* A child that is to be inserted does not exist.
Judged(st, acc, j) ==
    acc.result = "ok" => j \in acc.duplicated \/ j \in acc.skipped \/ ~Exists(st, j)

LEMMA ExaminedReview ==
    ASSUME NEW st PROVE Review(st, Examined(st))
  BY QuietReflexive DEF Review, Examined, AccKeys

\* Another db in the accumulator.
LEMMA ReviewQuiet ==
    ASSUME NEW st, Sound(st, {}), NEW acc, Review(st, acc), NEW new, Quiet(acc.db, new)
    PROVE  /\ Review(st, [acc EXCEPT !.db = new]) /\ Onward(acc, [acc EXCEPT !.db = new])
           /\ [acc EXCEPT !.db = new].db = new
           /\ [acc EXCEPT !.db = new].skipped = acc.skipped
<1> DEFINE b == [acc EXCEPT !.db = new]
<1>1. /\ DOMAIN b = AccKeys /\ b.db = new /\ b.result = acc.result
      /\ b.duplicated = acc.duplicated /\ b.skipped = acc.skipped
  BY DEF Review, AccKeys
<1> HIDE DEF b
<1>2. Quiet(st, new)
  BY QuietTransitive DEF Review
<1>3. Review(st, b) /\ Onward(acc, b) /\ b.db = new /\ b.skipped = acc.skipped
  BY <1>1, <1>2 DEF Review, Onward
<1> QED
  BY <1>3 DEF b

LEMMA ReviewShape ==
    ASSUME NEW st, Sound(st, {}), NEW acc, Review(st, acc)
    PROVE  Shape(acc.db) /\ \A j : Exists(acc.db, j) <=> Exists(st, j)
  BY QuietShape, QuietJobs DEF Review, Sound

LEMMA OnwardTransitive ==
    ASSUME NEW a, NEW b, NEW c, Onward(a, b), Onward(b, c) PROVE Onward(a, c)
  BY DEF Onward

LEMMA OnwardJudged ==
    ASSUME NEW st, NEW a, NEW b, Onward(a, b), NEW j, Judged(st, a, j) PROVE Judged(st, b, j)
  BY DEF Onward, Judged

LEMMA ExamineNewReview ==
    ASSUME NEW st, Sound(st, {}), NEW acc, Review(st, acc), NEW job
    PROVE  Review(st, examine_new(acc, job)) /\ Onward(acc, examine_new(acc, job))
<1> DEFINE k == repeat_key(job)
           s1 == prune_repeat_keys(acc.db, k)
           claims == {deduplication_id(job), k} \ {None}
           refused == claims \cap acc.staged # {} \/ repeat_owner(acc.db, k) # None
           b == [acc EXCEPT !.db = s1, !.result = IF refused THEN "refused" ELSE @,
                            !.staged = @ \cup claims]
<1>1. examine_new(acc, job) = b
  BY DEF examine_new
<1>2. Quiet(acc.db, s1)
  BY ReviewShape, RepeatKeysAreQuiet
<1> HIDE DEF s1, refused, claims
<1>3. /\ DOMAIN b = AccKeys /\ b.db = s1 /\ (b.result = "ok" => acc.result = "ok")
      /\ b.duplicated = acc.duplicated /\ b.skipped = acc.skipped
  BY DEF Review, AccKeys
<1> HIDE DEF b
<1>4. Quiet(st, s1)
  BY <1>2, QuietTransitive DEF Review
<1> QED
  BY <1>1, <1>3, <1>4 DEF Review, Onward

LEMMA ExamineDuplicateReview ==
    ASSUME NEW st, Sound(st, {}), NEW acc, Review(st, acc), NEW child \in Job, NEW owner
    PROVE  /\ Review(st, examine_duplicate(acc, child, owner))
           /\ Onward(acc, examine_duplicate(acc, child, owner))
           /\ child.id \in examine_duplicate(acc, child, owner).skipped
<1> DEFINE d == deduplication_id(child)
           payload == [job |-> child, children |-> <<>>]
           s1 == park(acc.db, d, payload)
           s2 == extend_deduplicated_owner(acc.db, child)
           b1 == [acc EXCEPT !.db = s1, !.skipped = @ \cup {child.id}, !.next[d] = child.id]
           b2 == [acc EXCEPT !.db = s2, !.skipped = @ \cup {child.id}]
<1>1. examine_duplicate(acc, child, owner) \in {b1, b2}
  BY DEF examine_duplicate
<1>2. Quiet(acc.db, s1)
  <2>1. Proper(payload)
    BY SingleIsProper
  <2> HIDE DEF payload
  <2> QED
    BY <2>1, ReviewShape, ParkIsQuiet
<1>3. Quiet(acc.db, s2)
  BY ReviewShape, OwnerKeysAreQuiet
<1> HIDE DEF s1, s2, d
<1>4. /\ DOMAIN b1 = AccKeys /\ b1.db = s1 /\ b1.result = acc.result
      /\ b1.duplicated = acc.duplicated /\ b1.skipped = acc.skipped \cup {child.id}
  BY DEF Review, AccKeys
<1>5. /\ DOMAIN b2 = AccKeys /\ b2.db = s2 /\ b2.result = acc.result
      /\ b2.duplicated = acc.duplicated /\ b2.skipped = acc.skipped \cup {child.id}
  BY DEF Review, AccKeys
<1> HIDE DEF b1, b2
<1>6. Quiet(st, s1) /\ Quiet(st, s2)
  BY <1>2, <1>3, QuietTransitive DEF Review
<1> QED
  BY <1>1, <1>4, <1>5, <1>6 DEF Review, Onward

LEMMA ExamineChildReview ==
    ASSUME NEW st, Sound(st, {}), NEW acc, Review(st, acc), NEW child \in Job
    PROVE  /\ Review(st, examine_child(acc, child)) /\ Onward(acc, examine_child(acc, child))
           /\ Judged(st, examine_child(acc, child), child.id)
<1> DEFINE d == deduplication_id(child)
           s1 == prune_deduplication_key(acc.db, d)
           o == deduplication_owner(acc.db, d)
           a1 == [acc EXCEPT !.db = s1]
           t1 == [acc EXCEPT !.result = "refused"]
           t2 == [acc EXCEPT !.duplicated = @ \cup {child.id}]
           t3 == examine_duplicate(a1, child, s1.jobs[o])
           t4 == examine_new(a1, child)
<1>1. examine_child(acc, child) =
        IF acc.result # "ok" THEN acc
        ELSE IF Exists(acc.db, child.id) THEN IF ParentConflict(acc.db, child) THEN t1 ELSE t2
        ELSE IF o # None THEN t3 ELSE t4
  BY DEF examine_child
<1>2. Quiet(acc.db, s1)
  BY ReviewShape, DedupKeysAreQuiet
<1> HIDE DEF s1, o
<1>3. Review(st, a1) /\ Onward(acc, a1)
  BY <1>2, ReviewQuiet
<1> HIDE DEF a1
<1>4. Review(st, t3) /\ Onward(a1, t3) /\ child.id \in t3.skipped
  BY <1>3, ExamineDuplicateReview
<1>5. Review(st, t4) /\ Onward(a1, t4)
  BY <1>3, ExamineNewReview
<1> HIDE DEF t3, t4
<1>6. Onward(acc, t3) /\ Onward(acc, t4) /\ Onward(acc, acc)
  BY <1>3, <1>4, <1>5, OnwardTransitive DEF Onward
<1>7. /\ DOMAIN t1 = AccKeys /\ t1.db = acc.db /\ t1.result = "refused"
      /\ t1.duplicated = acc.duplicated /\ t1.skipped = acc.skipped
  BY DEF Review, AccKeys
<1>8. /\ DOMAIN t2 = AccKeys /\ t2.db = acc.db /\ t2.result = acc.result
      /\ t2.duplicated = acc.duplicated \cup {child.id} /\ t2.skipped = acc.skipped
  BY DEF Review, AccKeys
<1> HIDE DEF t1, t2
<1>9. Review(st, t1) /\ Onward(acc, t1) /\ Judged(st, t1, child.id)
  BY <1>7 DEF Review, Onward, Judged
<1>10. Exists(acc.db, child.id) <=> Exists(st, child.id)
  BY ReviewShape
<1>11. Exists(acc.db, child.id) => Review(st, t2) /\ Onward(acc, t2) /\ Judged(st, t2, child.id)
  BY <1>8, <1>10 DEF Review, Onward, Judged
<1>12. Judged(st, t3, child.id) /\ (acc.result # "ok" => Judged(st, acc, child.id))
       /\ (~Exists(acc.db, child.id) => Judged(st, t4, child.id))
  BY <1>4, <1>10 DEF Judged
<1> HIDE DEF d
<1> QED
  BY <1>1, <1>4, <1>5, <1>6, <1>9, <1>11, <1>12

LEMMA ExamineDynamicChildReview ==
    ASSUME NEW st, Sound(st, {}), NEW acc, Review(st, acc), NEW child \in Job
    PROVE  /\ Review(st, examine_dynamic_child(acc, child))
           /\ Onward(acc, examine_dynamic_child(acc, child))
           /\ Judged(st, examine_dynamic_child(acc, child), child.id)
<1> DEFINE t1 == [acc EXCEPT !.result = "refused"]
           t2 == examine_child(acc, child)
<1>1. examine_dynamic_child(acc, child) \in {t1, t2}
  BY DEF examine_dynamic_child
<1>2. Review(st, t2) /\ Onward(acc, t2) /\ Judged(st, t2, child.id)
  BY ExamineChildReview
<1>3. /\ DOMAIN t1 = AccKeys /\ t1.db = acc.db /\ t1.result = "refused"
      /\ t1.duplicated = acc.duplicated /\ t1.skipped = acc.skipped
  BY DEF Review, AccKeys
<1> HIDE DEF t1, t2
<1>4. Review(st, t1) /\ Onward(acc, t1) /\ Judged(st, t1, child.id)
  BY <1>3 DEF Review, Onward, Judged
<1> QED
  BY <1>1, <1>2, <1>4

LEMMA ExamineParentReview ==
    ASSUME NEW st, Sound(st, {}), NEW acc, Review(st, acc), NEW parent \in Job,
           NEW children \in Seq(Job), DistinctIds(parent.id, children)
    PROVE  Review(st, examine_parent(acc, parent, children))
<1> DEFINE d == deduplication_id(parent)
           s1 == prune_deduplication_key(acc.db, d)
           o == deduplication_owner(acc.db, d)
           a1 == [acc EXCEPT !.db = s1]
           t1 == examine_new(a1, parent)
           payload == [job |-> parent, children |-> children]
           s2 == park(s1, d, payload)
           s3 == extend_deduplicated_owner(s1, parent)
           s4 == IF can_store_deduplicated_next_flow(s1, parent, children, s1.jobs[o])
                 THEN s2 ELSE s3
           t2 == [acc EXCEPT !.result = "deduplicated_parent", !.db = s4]
<1>1. examine_parent(acc, parent, children) \in {acc, t1, t2}
  BY DEF examine_parent
<1>2. Quiet(acc.db, s1)
  BY ReviewShape, DedupKeysAreQuiet
<1> HIDE DEF s1, o, d
<1>3. Review(st, a1) /\ Quiet(st, s1) /\ Shape(s1)
  BY <1>2, ReviewQuiet, ReviewShape, QuietShape, QuietTransitive DEF Review
<1> HIDE DEF a1
<1>4. Review(st, t1)
  BY <1>3, ExamineNewReview
<1> HIDE DEF t1
<1>5. Proper(payload)
  BY DEF Proper, Parked
<1> HIDE DEF payload
<1>6. Quiet(s1, s2) /\ Quiet(s1, s3)
  BY <1>3, <1>5, ParkIsQuiet, OwnerKeysAreQuiet
<1> HIDE DEF s2, s3
<1>7. Quiet(st, s4)
  BY <1>3, <1>6, QuietTransitive
<1> HIDE DEF s4
<1>8. DOMAIN t2 = AccKeys /\ t2.db = s4 /\ t2.duplicated = acc.duplicated
  BY DEF Review, AccKeys
<1> HIDE DEF t2
<1> QED
  BY <1>1, <1>4, <1>7, <1>8 DEF Review

\* The children of a flow, one after the other.
ExamineRun(F, x, s) ==
    /\ F[0] = x
    /\ \A n \in 0 .. Len(s) - 1 : F[n + 1] = examine_child(F[n], s[n + 1])
    /\ examine_children(x, s) = F[Len(s)]

LEMMA ExamineRunExists ==
    ASSUME NEW x, NEW s, Len(s) \in Nat
    PROVE  \E F : ExamineRun(F, x, s)
<1> DEFINE Runs(f, n) ==
               f = [i \in 0 .. n |-> IF i = 0 THEN x ELSE examine_child(f[i - 1], s[i])]
           N == Len(s)
           F == CHOOSE f : Runs(f, N)
           Reached == {n \in 0 .. N : \E f : Runs(f, n)}
<1>1. N \in Nat
  OBVIOUS
<1>2. examine_children(x, s) = F[N]
  BY DEF InTurn, examine_children
<1>3. Runs(F, N)
  <2>1. \E f : Runs(f, 0)
    <3> WITNESS [i \in 0 .. 0 |-> x]
    <3> QED
      OBVIOUS
  <2>2. ASSUME NEW n \in 0 .. N - 1, NEW f, Runs(f, n) PROVE \E g : Runs(g, n + 1)
    <3> DEFINE g == [i \in 0 .. n + 1 |->
                        IF i <= n THEN f[i] ELSE examine_child(f[n], s[n + 1])]
    <3>1. Runs(g, n + 1)
      BY <2>2
    <3> QED
      BY <3>1
  <2> HIDE DEF Runs, N
  <2>3. 0 \in Reached /\ \A n \in 0 .. N - 1 : n \in Reached => n + 1 \in Reached
    BY <1>1, <2>1, <2>2
  <2> HIDE DEF Reached
  <2>4. \A n \in 0 .. N : n \in Reached
    BY <1>1, <2>3, Climb
  <2>5. N \in Reached
    BY <1>1, <2>4
  <2> QED
    BY <2>5 DEF Reached
<1> HIDE DEF F
<1>4. F[0] = x
  BY <1>1, <1>3
<1>5. ASSUME NEW n \in 0 .. N - 1 PROVE F[n + 1] = examine_child(F[n], s[n + 1])
  <2>1. n + 1 \in 0 .. N /\ n + 1 # 0 /\ (n + 1) - 1 = n
    BY <1>1
  <2>2. F[n + 1] = examine_child(F[(n + 1) - 1], s[n + 1])
    BY <1>3, <2>1
  <2> QED
    BY <2>1, <2>2
<1>6. ExamineRun(F, x, s)
  BY <1>2, <1>4, <1>5 DEF ExamineRun
<1> QED
  BY <1>6

LEMMA ExamineChildrenReview ==
    ASSUME NEW st, Sound(st, {}), NEW acc, Review(st, acc), NEW s \in Seq(Job)
    PROVE  /\ Review(st, examine_children(acc, s))
           /\ \A i \in DOMAIN s : Judged(st, examine_children(acc, s), s[i].id)
<1> DEFINE N == Len(s)
<1>1. N \in Nat /\ \A n \in 0 .. N - 1 : s[n + 1] \in Job
  OBVIOUS
<1>2. PICK F : ExamineRun(F, acc, s)
  BY <1>1, ExamineRunExists
<1>3. /\ F[0] = acc
      /\ \A n \in 0 .. N - 1 : F[n + 1] = examine_child(F[n], s[n + 1])
      /\ examine_children(acc, s) = F[N]
  BY <1>2 DEF ExamineRun
<1> DEFINE Good(n) == Review(st, F[n]) /\ \A i \in 1 .. n : Judged(st, F[n], s[i].id)
           Goods == {n \in 0 .. N : Good(n)}
<1>0. DOMAIN s = 1 .. N
  OBVIOUS
<1> HIDE DEF N
<1>4. Good(0)
  BY <1>3
<1>5. ASSUME NEW n \in 0 .. N - 1, Good(n) PROVE Good(n + 1)
  <2> DEFINE a == F[n]
             job == s[n + 1]
             b == examine_child(a, job)
  <2>1. F[n + 1] = b /\ job \in Job /\ Review(st, a) /\ \A i \in 1 .. n : Judged(st, a, s[i].id)
    BY <1>1, <1>3, <1>5
  <2> HIDE DEF a, job
  <2>2. Review(st, b) /\ Onward(a, b) /\ Judged(st, b, job.id)
    BY <2>1, ExamineChildReview
  <2> HIDE DEF b
  <2>3. ASSUME NEW i \in 1 .. n + 1 PROVE Judged(st, b, s[i].id)
    <3>1. CASE i \in 1 .. n
      BY <2>1, <2>2, <3>1, OnwardJudged
    <3>2. CASE i = n + 1
      BY <2>2, <3>2 DEF job
    <3> QED
      BY <3>1, <3>2, <1>1
  <2> QED
    BY <2>1, <2>2, <2>3
<1> HIDE DEF Good
<1>6. 0 \in Goods /\ \A n \in 0 .. N - 1 : n \in Goods => n + 1 \in Goods
  BY <1>1, <1>4, <1>5
<1> HIDE DEF Goods
<1>7. \A n \in 0 .. N : n \in Goods
  BY <1>1, <1>6, Climb
<1>8. Good(N)
  BY <1>1, <1>7 DEF Goods
<1> QED
  BY <1>0, <1>3, <1>8 DEF Good

\* The children a running parent adds, one after the other.
DynamicRun(F, x, s) ==
    /\ F[0] = x
    /\ \A n \in 0 .. Len(s) - 1 : F[n + 1] = examine_dynamic_child(F[n], s[n + 1])
    /\ examine_dynamic_children(x, s) = F[Len(s)]

LEMMA DynamicRunExists ==
    ASSUME NEW x, NEW s, Len(s) \in Nat
    PROVE  \E F : DynamicRun(F, x, s)
<1> DEFINE Runs(f, n) ==
               f = [i \in 0 .. n |-> IF i = 0 THEN x ELSE examine_dynamic_child(f[i - 1], s[i])]
           N == Len(s)
           F == CHOOSE f : Runs(f, N)
           Reached == {n \in 0 .. N : \E f : Runs(f, n)}
<1>1. N \in Nat
  OBVIOUS
<1>2. examine_dynamic_children(x, s) = F[N]
  BY DEF InTurn, examine_dynamic_children
<1>3. Runs(F, N)
  <2>1. \E f : Runs(f, 0)
    <3> WITNESS [i \in 0 .. 0 |-> x]
    <3> QED
      OBVIOUS
  <2>2. ASSUME NEW n \in 0 .. N - 1, NEW f, Runs(f, n) PROVE \E g : Runs(g, n + 1)
    <3> DEFINE g == [i \in 0 .. n + 1 |->
                        IF i <= n THEN f[i] ELSE examine_dynamic_child(f[n], s[n + 1])]
    <3>1. Runs(g, n + 1)
      BY <2>2
    <3> QED
      BY <3>1
  <2> HIDE DEF Runs, N
  <2>3. 0 \in Reached /\ \A n \in 0 .. N - 1 : n \in Reached => n + 1 \in Reached
    BY <1>1, <2>1, <2>2
  <2> HIDE DEF Reached
  <2>4. \A n \in 0 .. N : n \in Reached
    BY <1>1, <2>3, Climb
  <2>5. N \in Reached
    BY <1>1, <2>4
  <2> QED
    BY <2>5 DEF Reached
<1> HIDE DEF F
<1>4. F[0] = x
  BY <1>1, <1>3
<1>5. ASSUME NEW n \in 0 .. N - 1 PROVE F[n + 1] = examine_dynamic_child(F[n], s[n + 1])
  <2>1. n + 1 \in 0 .. N /\ n + 1 # 0 /\ (n + 1) - 1 = n
    BY <1>1
  <2>2. F[n + 1] = examine_dynamic_child(F[(n + 1) - 1], s[n + 1])
    BY <1>3, <2>1
  <2> QED
    BY <2>1, <2>2
<1>6. DynamicRun(F, x, s)
  BY <1>2, <1>4, <1>5 DEF DynamicRun
<1> QED
  BY <1>6

LEMMA ExamineDynamicChildrenReview ==
    ASSUME NEW st, Sound(st, {}), NEW acc, Review(st, acc), NEW s \in Seq(Job)
    PROVE  /\ Review(st, examine_dynamic_children(acc, s))
           /\ \A i \in DOMAIN s : Judged(st, examine_dynamic_children(acc, s), s[i].id)
<1> DEFINE N == Len(s)
<1>1. N \in Nat /\ \A n \in 0 .. N - 1 : s[n + 1] \in Job
  OBVIOUS
<1>2. PICK F : DynamicRun(F, acc, s)
  BY <1>1, DynamicRunExists
<1>3. /\ F[0] = acc
      /\ \A n \in 0 .. N - 1 : F[n + 1] = examine_dynamic_child(F[n], s[n + 1])
      /\ examine_dynamic_children(acc, s) = F[N]
  BY <1>2 DEF DynamicRun
<1> DEFINE Good(n) == Review(st, F[n]) /\ \A i \in 1 .. n : Judged(st, F[n], s[i].id)
           Goods == {n \in 0 .. N : Good(n)}
<1>0. DOMAIN s = 1 .. N
  OBVIOUS
<1> HIDE DEF N
<1>4. Good(0)
  BY <1>3
<1>5. ASSUME NEW n \in 0 .. N - 1, Good(n) PROVE Good(n + 1)
  <2> DEFINE a == F[n]
             job == s[n + 1]
             b == examine_dynamic_child(a, job)
  <2>1. F[n + 1] = b /\ job \in Job /\ Review(st, a) /\ \A i \in 1 .. n : Judged(st, a, s[i].id)
    BY <1>1, <1>3, <1>5
  <2> HIDE DEF a, job
  <2>2. Review(st, b) /\ Onward(a, b) /\ Judged(st, b, job.id)
    BY <2>1, ExamineDynamicChildReview
  <2> HIDE DEF b
  <2>3. ASSUME NEW i \in 1 .. n + 1 PROVE Judged(st, b, s[i].id)
    <3>1. CASE i \in 1 .. n
      BY <2>1, <2>2, <3>1, OnwardJudged
    <3>2. CASE i = n + 1
      BY <2>2, <3>2 DEF job
    <3> QED
      BY <3>1, <3>2, <1>1
  <2> QED
    BY <2>1, <2>2, <2>3
<1> HIDE DEF Good
<1>6. 0 \in Goods /\ \A n \in 0 .. N - 1 : n \in Goods => n + 1 \in Goods
  BY <1>1, <1>4, <1>5
<1> HIDE DEF Goods
<1>7. \A n \in 0 .. N : n \in Goods
  BY <1>1, <1>6, Climb
<1>8. Good(N)
  BY <1>1, <1>7 DEF Goods
<1> QED
  BY <1>0, <1>3, <1>8 DEF Good

-----------------------------------------------------------------------------
(***************************************************************************)
(* Flows: the writes.                                                      *)
(***************************************************************************)
\* A record changes in what neither an index nor a retry depends on.
LEMMA RewriteRecord ==
    ASSUME NEW st, NEW hand, Sound(st, hand), NEW j \in JobIds, st.jobs[j] # None, NEW r \in Job,
           r.id = j, r.state = st.jobs[j].state, r.attempts_made = st.jobs[j].attempts_made,
           r.options = st.jobs[j].options
    PROVE  LET b == [st EXCEPT !.jobs[j] = r] IN
           Sound(b, hand) /\ Kept(st, b) /\ b.jobs = [st.jobs EXCEPT ![j] = r]
<1> DEFINE b == [st EXCEPT !.jobs[j] = r]
<1>1. Shape(st) /\ r # None
  BY RedisRecordsAssumption DEF Sound
<1>2. /\ DOMAIN b = DOMAIN st /\ b.jobs = [st.jobs EXCEPT ![j] = r]
      /\ b.waiting = st.waiting /\ b.delayed = st.delayed /\ b.active = st.active
      /\ b.waiting_children = st.waiting_children /\ b.completed = st.completed
      /\ b.failed = st.failed /\ b.lock = st.lock
      /\ b.stalled = st.stalled /\ b.dedup_next = st.dedup_next
  BY <1>1 DEF Shape, Keys
<1> HIDE DEF b
<1>3. Shape(b)
  BY <1>1, <1>2 DEF Shape
<1>4. \A i \in JobIds : Alike(st, b, i)
  BY <1>1, <1>2 DEF Shape, Alike
<1> QED
  BY <1>2, <1>3, <1>4, AllAlike DEF b

LEMMA IdsAreIds ==
    ASSUME NEW acc, NEW children \in Seq(Job)
    PROVE  RetainedIds(acc, children) \in Seq(JobIds)
<1>1. Ids(children) \in Seq(JobIds)
  <2>1. Len(children) \in Nat /\ DOMAIN children = 1 .. Len(children)
        /\ \A i \in 1 .. Len(children) : children[i].id \in JobIds
    <3>1. \A i \in 1 .. Len(children) : children[i] \in Job
      OBVIOUS
    <3>2. \A job \in Job : job.id \in JobIds
      BY DEF Job
    <3> QED
      BY <3>1, <3>2
  <2> DEFINE n == Len(children)
             ids == [i \in 1 .. n |-> children[i].id]
  <2>2. ids \in [1 .. n -> JobIds] /\ Ids(children) = ids
    BY <2>1 DEF Ids
  <2> HIDE DEF n, ids
  <2> QED
    BY <2>1, <2>2 DEF n
<1> QED
  BY <1>1, KeepOnlyElements DEF RetainedIds

\* The ids that a parent takes on.
LEMMA TakenIds ==
    ASSUME NEW old \in Seq(JobIds), NEW ids \in Seq(JobIds), NEW K
    PROVE  old \o KeepOnly(ids, K) \in Seq(JobIds)
<1>1. KeepOnly(ids, K) \in Seq(JobIds)
  BY KeepOnlyElements
<1> QED
  BY <1>1

\* One of the accumulators that the writes pass on.
Writing(st, acc, old) ==
    /\ DOMAIN acc = AccKeys
    /\ acc.duplicated = old.duplicated /\ acc.skipped = old.skipped
    /\ Sound(acc.db, {}) /\ Kept(st, acc.db)

\* Exactly the jobs of S are new.
Created(a, b, S) ==
    \A j \in JobIds : b.jobs[j] # None <=> a.jobs[j] # None \/ j \in S

LEMMA InsertChildSound ==
    ASSUME NEW st, Sound(st, {}), NEW job, Fresh(job), st.jobs[job.id] = None, NEW deps
    PROVE  LET b == set_deduplication_key(insert_job(st, job), job)
               c == [b EXCEPT !.deps = deps] IN
           /\ Sound(b, {}) /\ Kept(st, b) /\ Created(st, b, {job.id})
           /\ Sound(c, {}) /\ Kept(st, c) /\ Created(st, c, {job.id})
<1> DEFINE a == insert_job(st, job)
           b == set_deduplication_key(a, job)
           c == [b EXCEPT !.deps = deps]
<1>1. /\ Sound(a, {}) /\ Kept(st, a) /\ Exists(a, job.id)
      /\ \A i \in JobIds \ {job.id} : a.jobs[i] = st.jobs[i]
  BY InsertJobSound
<1> HIDE DEF a
<1>2. Created(st, a, {job.id})
  BY <1>1 DEF Created, Exists
<1>3. Quiet(a, b)
  BY <1>1, DedupKeysAreQuiet DEF Sound
<1> HIDE DEF b
<1>4. Sound(b, {}) /\ Kept(st, b) /\ b.jobs = a.jobs
  BY <1>1, <1>3, ThenQuiet
<1>5. Quiet(b, c)
  BY <1>4, DependenciesAreQuiet DEF Sound
<1> HIDE DEF c
<1>6. Sound(c, {}) /\ Kept(st, c) /\ c.jobs = b.jobs
  BY <1>4, <1>5, ThenQuiet
<1>7. Created(st, b, {job.id}) /\ Created(st, c, {job.id})
  BY <1>2, <1>4, <1>6 DEF Created
<1> QED
  BY <1>4, <1>6, <1>7 DEF a, b, c

LEMMA WriteParentSound ==
    ASSUME NEW st, NEW acc, DOMAIN acc = AccKeys, Sound(acc.db, {}), Kept(st, acc.db),
           NEW parent, Fresh(parent), NEW children \in Seq(Job)
    PROVE  LET b == write_parent(acc, parent, children) IN
           /\ Writing(st, b, acc)
           /\ Created(acc.db, b.db, {parent.id})
<1> DEFINE p == parent.id
           ids == RetainedIds(acc, children)
           K == ToSet(ids) \ ToSet(acc.db.jobs[p].child_ids)
           new == KeepOnly(ids, K)
           job == [parent EXCEPT !.child_ids = ids]
           listed == acc.db.jobs[p].child_ids \o new
           r == [acc.db.jobs[p] EXCEPT !.child_ids = listed]
           s1 == [acc.db EXCEPT !.jobs[p] = r]
           i1 == set_deduplication_key(insert_job(acc.db, job), job)
           deps == [i1.deps EXCEPT ![p].pending = {}]
           s2 == [i1 EXCEPT !.deps = deps]
           b == write_parent(acc, parent, children)
<1>1. ids \in Seq(JobIds) /\ p \in JobIds
  BY IdsAreIds DEF Fresh, Job
<1> HIDE DEF ids
<1>2. CASE Exists(acc.db, p)
  <2>1. b = [acc EXCEPT !.db = s1]
    BY <1>2 DEF write_parent, ids
  <2>2. acc.db.jobs[p] \in Job /\ acc.db.jobs[p] # None /\ acc.db.jobs[p].id = p
    BY <1>1, <1>2 DEF Exists, Sound, Shape
  <2>3. listed \in Seq(JobIds)
    <3>1. acc.db.jobs[p].child_ids \in Seq(JobIds)
      BY <2>2 DEF Job
    <3> HIDE DEF K
    <3> QED
      BY <1>1, <3>1, TakenIds
  <2> HIDE DEF listed
  <2>4. /\ r \in Job /\ r.id = p /\ r.state = acc.db.jobs[p].state
        /\ r.attempts_made = acc.db.jobs[p].attempts_made /\ r.options = acc.db.jobs[p].options
    BY <2>2, <2>3 DEF Job
  <2> DEFINE d == acc.db
             no == {}
  <2>5. Sound(d, no) /\ d.jobs[p] # None /\ r.state = d.jobs[p].state
        /\ r.attempts_made = d.jobs[p].attempts_made /\ r.options = d.jobs[p].options
        /\ s1 = [d EXCEPT !.jobs[p] = r]
    BY <2>2, <2>4
  <2> HIDE DEF r, no, d, p, s1
  <2>6. Sound(s1, no) /\ Kept(d, s1) /\ s1.jobs = [d.jobs EXCEPT ![p] = r]
    BY <1>1, <2>2, <2>4, <2>5, RewriteRecord
  <2>7. Kept(st, s1)
    BY <2>6, KeptTransitive DEF d
  <2>8. Created(acc.db, s1, {p})
    BY <1>1, <2>2, <2>4, <2>6, RedisRecordsAssumption DEF Created, Sound, Shape, d
  <2>9. DOMAIN b = AccKeys /\ b.db = s1 /\ b.duplicated = acc.duplicated /\ b.skipped = acc.skipped
    BY <2>1 DEF AccKeys
  <2> HIDE DEF b
  <2>10. Writing(st, b, acc) /\ Created(acc.db, b.db, {p})
    BY <2>6, <2>7, <2>8, <2>9 DEF Writing, no
  <2> QED
    BY <2>10 DEF b, p
<1>3. CASE ~Exists(acc.db, p)
  <2>1. b = [acc EXCEPT !.db = [i1 EXCEPT !.deps[p].pending = {}]]
    BY <1>3 DEF write_parent, ids
  <2>2. [i1 EXCEPT !.deps[p].pending = {}] = s2
    OBVIOUS
  <2>3. Fresh(job) /\ job.id = p /\ acc.db.jobs[p] = None
    BY <1>1, <1>3 DEF Fresh, Job, Exists
  <2> HIDE DEF job, deps
  <2>4. Sound(s2, {}) /\ Kept(acc.db, s2) /\ Created(acc.db, s2, {job.id})
    BY <2>3, InsertChildSound
  <2> HIDE DEF s2, i1
  <2>5. Kept(st, s2)
    BY <2>4, KeptTransitive
  <2>6. DOMAIN b = AccKeys /\ b.db = s2 /\ b.duplicated = acc.duplicated /\ b.skipped = acc.skipped
    BY <2>1, <2>2 DEF AccKeys
  <2> HIDE DEF b
  <2>7. Writing(st, b, acc) /\ Created(acc.db, b.db, {p})
    BY <2>3, <2>4, <2>5, <2>6 DEF Writing
  <2> QED
    BY <2>7 DEF b
<1> QED
  BY <1>2, <1>3

LEMMA WriteChildSound ==
    ASSUME NEW st, NEW old, NEW acc, Writing(st, acc, old), NEW child, Fresh(child),
           child.id \in acc.duplicated => acc.db.jobs[child.id] # None,
           child.id \in acc.duplicated \/ child.id \in acc.skipped \/ acc.db.jobs[child.id] = None
    PROVE  LET b == write_child(acc, child) IN
           /\ Writing(st, b, old)
           /\ \A j \in JobIds \ {child.id} : b.db.jobs[j] # None <=> acc.db.jobs[j] # None
<1> DEFINE c == child.id
           d == acc.db
           r == [d.jobs[c] EXCEPT !.parent_id = child.parent_id]
           s1 == [d EXCEPT !.jobs[c] = r]
           s2 == set_deduplication_key(insert_job(d, child), child)
           b == write_child(acc, child)
           no == {}
<1>1. c \in JobIds /\ Sound(d, no) /\ DOMAIN acc = AccKeys /\ Kept(st, d) /\ child \in Job
      /\ acc.duplicated = old.duplicated /\ acc.skipped = old.skipped
  BY DEF Fresh, Job, Writing
<1>2. CASE c \in acc.duplicated
  <2>1. b = [acc EXCEPT !.db = s1]
    BY <1>2 DEF write_child
  <2>2. d.jobs[c] \in Job /\ d.jobs[c] # None /\ d.jobs[c].id = c
    BY <1>1, <1>2 DEF Sound, Shape
  <2>4. /\ r \in Job /\ r.id = c /\ r.state = d.jobs[c].state
        /\ r.attempts_made = d.jobs[c].attempts_made /\ r.options = d.jobs[c].options
    <3>1. child.parent_id \in JobIds \cup {None}
      BY <1>1 DEF Job
    <3> QED
      BY <2>2, <3>1 DEF Job
  <2> HIDE DEF r, no, d
  <2>6. Sound(s1, no) /\ Kept(d, s1) /\ s1.jobs = [d.jobs EXCEPT ![c] = r]
    BY <1>1, <2>2, <2>4, RewriteRecord
  <2> HIDE DEF s1
  <2>7. Kept(st, s1)
    BY <1>1, <2>6, KeptTransitive
  <2>8. \A j \in JobIds \ {c} : s1.jobs[j] # None <=> d.jobs[j] # None
    BY <1>1, <2>6 DEF Sound, Shape
  <2>9. DOMAIN b = AccKeys /\ b.db = s1 /\ b.duplicated = acc.duplicated /\ b.skipped = acc.skipped
    BY <1>1, <2>1 DEF AccKeys
  <2> HIDE DEF b
  <2>10. Writing(st, b, old) /\ \A j \in JobIds \ {c} : b.db.jobs[j] # None <=> d.jobs[j] # None
    BY <1>1, <2>6, <2>7, <2>8, <2>9 DEF Writing, no
  <2> QED
    BY <2>10 DEF b, d
<1>3. CASE c \notin acc.duplicated /\ c \in acc.skipped
  BY <1>3 DEF write_child
<1>4. CASE c \notin acc.duplicated /\ c \notin acc.skipped
  <2>1. b = [acc EXCEPT !.db = s2]
    BY <1>4 DEF write_child
  <2>2. d.jobs[c] = None /\ Sound(d, {})
    BY <1>1, <1>4
  <2> DEFINE deps == {}
  <2> HIDE DEF d, deps
  <2>3. Sound(s2, {}) /\ Kept(d, s2) /\ Created(d, s2, {c})
    BY <2>2, InsertChildSound
  <2> HIDE DEF s2
  <2>5. Kept(st, s2)
    BY <1>1, <2>3, KeptTransitive
  <2>6. DOMAIN b = AccKeys /\ b.db = s2 /\ b.duplicated = acc.duplicated /\ b.skipped = acc.skipped
    BY <1>1, <2>1 DEF AccKeys
  <2> HIDE DEF b
  <2>7. Writing(st, b, old) /\ \A j \in JobIds \ {c} : b.db.jobs[j] # None <=> d.jobs[j] # None
    BY <1>1, <2>3, <2>5, <2>6 DEF Writing, Created
  <2> QED
    BY <2>7 DEF b, d
<1> QED
  BY <1>2, <1>3, <1>4

\* The children are written one after the other.
WriteRun(F, x, s) ==
    /\ F[0] = x
    /\ \A n \in 0 .. Len(s) - 1 : F[n + 1] = write_child(F[n], s[n + 1])
    /\ write_children(x, s) = F[Len(s)]

LEMMA WriteRunExists ==
    ASSUME NEW x, NEW s, Len(s) \in Nat
    PROVE  \E F : WriteRun(F, x, s)
<1> DEFINE Runs(f, n) ==
               f = [i \in 0 .. n |-> IF i = 0 THEN x ELSE write_child(f[i - 1], s[i])]
           N == Len(s)
           F == CHOOSE f : Runs(f, N)
           Reached == {n \in 0 .. N : \E f : Runs(f, n)}
<1>1. N \in Nat
  OBVIOUS
<1>2. write_children(x, s) = F[N]
  BY DEF InTurn, write_children
<1>3. Runs(F, N)
  <2>1. \E f : Runs(f, 0)
    <3> WITNESS [i \in 0 .. 0 |-> x]
    <3> QED
      OBVIOUS
  <2>2. ASSUME NEW n \in 0 .. N - 1, NEW f, Runs(f, n) PROVE \E g : Runs(g, n + 1)
    <3> DEFINE g == [i \in 0 .. n + 1 |->
                        IF i <= n THEN f[i] ELSE write_child(f[n], s[n + 1])]
    <3>1. Runs(g, n + 1)
      BY <2>2
    <3> QED
      BY <3>1
  <2> HIDE DEF Runs, N
  <2>3. 0 \in Reached /\ \A n \in 0 .. N - 1 : n \in Reached => n + 1 \in Reached
    BY <1>1, <2>1, <2>2
  <2> HIDE DEF Reached
  <2>4. \A n \in 0 .. N : n \in Reached
    BY <1>1, <2>3, Climb
  <2>5. N \in Reached
    BY <1>1, <2>4
  <2> QED
    BY <2>5 DEF Reached
<1> HIDE DEF F
<1>4. F[0] = x
  BY <1>1, <1>3
<1>5. ASSUME NEW n \in 0 .. N - 1 PROVE F[n + 1] = write_child(F[n], s[n + 1])
  <2>1. n + 1 \in 0 .. N /\ n + 1 # 0 /\ (n + 1) - 1 = n
    BY <1>1
  <2>2. F[n + 1] = write_child(F[(n + 1) - 1], s[n + 1])
    BY <1>3, <2>1
  <2> QED
    BY <2>1, <2>2
<1>6. WriteRun(F, x, s)
  BY <1>2, <1>4, <1>5 DEF WriteRun
<1> QED
  BY <1>6

\* No two of the jobs are one.
AllDistinct(s) == \A i, k \in DOMAIN s : s[i].id = s[k].id => i = k

\* What the writes may rely on: a child that is attached exists, one that is inserted does not.
Ready(acc, s, n) ==
    \A i \in DOMAIN s : i > n =>
        /\ s[i].id \in acc.duplicated => acc.db.jobs[s[i].id] # None
        /\ s[i].id \in acc.duplicated \/ s[i].id \in acc.skipped \/ acc.db.jobs[s[i].id] = None

LEMMA WriteChildrenSound ==
    ASSUME NEW st, NEW old, NEW acc, Writing(st, acc, old), NEW s \in Seq(Job), AllDistinct(s),
           \A i \in DOMAIN s : Fresh(s[i]), Ready(acc, s, 0)
    PROVE  Writing(st, write_children(acc, s), old)
<1> DEFINE N == Len(s)
<1>1. N \in Nat /\ DOMAIN s = 1 .. N
  OBVIOUS
<1>2. PICK F : WriteRun(F, acc, s)
  BY <1>1, WriteRunExists
<1>3. /\ F[0] = acc
      /\ \A n \in 0 .. N - 1 : F[n + 1] = write_child(F[n], s[n + 1])
      /\ write_children(acc, s) = F[N]
  BY <1>2 DEF WriteRun
<1> DEFINE Good(n) == Writing(st, F[n], old) /\ Ready(F[n], s, n)
           Goods == {n \in 0 .. N : Good(n)}
<1> HIDE DEF N
<1>4. Good(0)
  BY <1>3
<1>5. ASSUME NEW n \in 0 .. N - 1, Good(n) PROVE Good(n + 1)
  <2> DEFINE a == F[n]
             job == s[n + 1]
             b == write_child(a, job)
  <2>1. n + 1 \in DOMAIN s /\ n + 1 > n
    BY <1>1
  <2>2. F[n + 1] = b /\ Fresh(job) /\ Writing(st, a, old) /\ Ready(a, s, n)
    BY <1>3, <1>5, <2>1
  <2>3. /\ job.id \in a.duplicated => a.db.jobs[job.id] # None
        /\ job.id \in a.duplicated \/ job.id \in a.skipped \/ a.db.jobs[job.id] = None
    BY <2>1, <2>2 DEF Ready
  <2> HIDE DEF a, job
  <2>4. /\ Writing(st, b, old)
        /\ \A j \in JobIds \ {job.id} : b.db.jobs[j] # None <=> a.db.jobs[j] # None
    BY <2>2, <2>3, WriteChildSound
  <2> HIDE DEF b
  <2>5. Ready(b, s, n + 1)
    <3> SUFFICES ASSUME NEW i \in DOMAIN s, i > n + 1
                 PROVE  /\ s[i].id \in b.duplicated => b.db.jobs[s[i].id] # None
                        /\ \/ s[i].id \in b.duplicated \/ s[i].id \in b.skipped
                           \/ b.db.jobs[s[i].id] = None
      BY DEF Ready
    <3>1. i > n /\ i # n + 1
      BY <1>1
    <3>2. s[i].id # job.id
      BY <2>1, <3>1 DEF AllDistinct, job
    <3>3. s[i].id \in JobIds
      <4>1. Fresh(s[i])
        OBVIOUS
      <4> QED
        BY <4>1 DEF Fresh, Job
    <3>4. b.db.jobs[s[i].id] # None <=> a.db.jobs[s[i].id] # None
      BY <2>4, <3>2, <3>3
    <3>5. b.duplicated = a.duplicated /\ b.skipped = a.skipped
      BY <2>2, <2>4 DEF Writing
    <3> QED
      BY <2>2, <3>1, <3>4, <3>5 DEF Ready
  <2> QED
    BY <2>2, <2>4, <2>5
<1> HIDE DEF Good
<1>6. 0 \in Goods /\ \A n \in 0 .. N - 1 : n \in Goods => n + 1 \in Goods
  BY <1>1, <1>4, <1>5
<1> HIDE DEF Goods
<1>7. \A n \in 0 .. N : n \in Goods
  BY <1>1, <1>6, Climb
<1>8. Good(N)
  BY <1>1, <1>7 DEF Goods
<1> QED
  BY <1>3, <1>8 DEF Good

LEMMA AwaitChildrenIsQuiet ==
    ASSUME NEW acc, Shape(acc.db), NEW p, NEW children
    PROVE  Quiet(acc.db, await_children(acc, p, children))
<1> DEFINE d == acc.db
           awaited == ToSet(Ids(children)) \ acc.skipped
           done == {c \in awaited : Exists(d, c) /\ d.jobs[c].state = "completed"}
           deps == [d.deps EXCEPT ![p].processed = @ \cup done,
                                  ![p].pending = @ \cup (awaited \ done)]
<1>1. await_children(acc, p, children) = [d EXCEPT !.deps = deps]
  <2> DEFINE X == awaited \ done
  <2>1. await_children(acc, p, children) =
            [d EXCEPT !.deps[p].processed = @ \cup done, !.deps[p].pending = @ \cup X]
    BY DEF await_children
  <2>2. DOMAIN d = Keys
    BY DEF Shape
  <2> HIDE DEF d, done, X, awaited
  <2>3. [d EXCEPT !.deps[p].processed = @ \cup done, !.deps[p].pending = @ \cup X]
            = [d EXCEPT !.deps = [d.deps EXCEPT ![p].processed = @ \cup done, ![p].pending = @ \cup X]]
    BY <2>2 DEF Keys
  <2> QED
    BY <2>1, <2>3 DEF X
<1>2. Shape(d)
  OBVIOUS
<1> HIDE DEF d, deps
<1>3. Quiet(d, [d EXCEPT !.deps = deps])
  BY <1>2, DependenciesAreQuiet
<1> QED
  BY <1>1, <1>3 DEF d

LEMMA ReleaseIfReadySound ==
    ASSUME NEW st, Sound(st, {}), NEW p \in JobIds, NEW due \in BOOLEAN
    PROVE  /\ Sound(release_parent_if_ready(st, p, due), {})
           /\ Kept(st, release_parent_if_ready(st, p, due))
<1> DEFINE r == [st.jobs[p] EXCEPT !.due = due]
           s1 == [st EXCEPT !.jobs[p] = r]
           no == {}
           off == FALSE
           s2 == release_parent(s1, p, off)
<1>1. release_parent_if_ready(st, p, due) =
        IF Exists(st, p) /\ st.jobs[p].state = "waiting_children" /\ st.deps[p].pending = {}
        THEN s2 ELSE st
  BY DEF release_parent_if_ready
<1>2. CASE ~(Exists(st, p) /\ st.jobs[p].state = "waiting_children")
  BY <1>1, <1>2, KeptReflexive
<1>3. CASE Exists(st, p) /\ st.jobs[p].state = "waiting_children"
  <2>1. st.jobs[p] \in Job /\ st.jobs[p] # None /\ st.jobs[p].id = p /\ Sound(st, no)
    BY <1>3 DEF Exists, Sound, Shape
  <2>2. /\ r \in Job /\ r.id = p /\ r.state = st.jobs[p].state
        /\ r.attempts_made = st.jobs[p].attempts_made /\ r.options = st.jobs[p].options
    BY <2>1 DEF Job
  <2> HIDE DEF r, no
  <2>3. Sound(s1, no) /\ Kept(st, s1) /\ s1.jobs = [st.jobs EXCEPT ![p] = r]
    BY <2>1, <2>2, RewriteRecord
  <2> HIDE DEF s1
  <2>4. Is(s1, p, "waiting_children")
    BY <1>3, <2>1, <2>2, <2>3, RedisRecordsAssumption DEF Is, Sound, Shape
  <2>5. off \in BOOLEAN /\ Sound(s1, {})
    BY <2>3 DEF no
  <2> HIDE DEF off
  <2>6. Sound(s2, {}) /\ Kept(s1, s2)
    BY <2>4, <2>5, ReleaseParentSound
  <2> HIDE DEF s2
  <2>7. Kept(st, s2)
    BY <2>3, <2>6, KeptTransitive
  <2> QED
    BY <1>1, <2>6, <2>7, KeptReflexive
<1> QED
  BY <1>2, <1>3

\* The examination has made the children ready, and the parent's write leaves them so.
LEMMA ReviewReady ==
    ASSUME NEW st, Sound(st, {}), NEW acc, Review(st, acc), acc.result = "ok", NEW p,
           NEW s \in Seq(Job), DistinctIds(p, s),
           \A i \in DOMAIN s : Judged(st, acc, s[i].id),
           NEW b, b.duplicated = acc.duplicated, b.skipped = acc.skipped,
           Created(acc.db, b.db, {p})
    PROVE  Ready(b, s, 0) /\ AllDistinct(s)
<1>1. ASSUME NEW i \in DOMAIN s
      PROVE  /\ s[i].id \in b.duplicated => b.db.jobs[s[i].id] # None
             /\ s[i].id \in b.duplicated \/ s[i].id \in b.skipped \/ b.db.jobs[s[i].id] = None
  <2>1. s[i] \in Job
    OBVIOUS
  <2>2. s[i].id \in JobIds /\ s[i].id # p
    BY <2>1 DEF Job, DistinctIds
  <2>3. b.db.jobs[s[i].id] # None <=> acc.db.jobs[s[i].id] # None
    BY <2>2 DEF Created
  <2>4. Exists(st, s[i].id) <=> acc.db.jobs[s[i].id] # None
    BY <2>2, ReviewShape DEF Exists
  <2>5. Judged(st, acc, s[i].id)
    OBVIOUS
  <2>6. s[i].id \in acc.duplicated => Exists(st, s[i].id)
    BY DEF Review
  <2> QED
    BY <2>3, <2>4, <2>5, <2>6 DEF Judged
<1>2. Ready(b, s, 0)
  BY <1>1 DEF Ready
<1>3. AllDistinct(s)
  BY DEF AllDistinct, DistinctIds
<1> QED
  BY <1>2, <1>3

\* The end of both scripts: the children are written, and the parent may be released.
LEMMA FlowEndSound ==
    ASSUME NEW st, NEW old, NEW a1, Writing(st, a1, old), NEW p \in JobIds, NEW due \in BOOLEAN,
           NEW s \in Seq(Job), AllDistinct(s), \A i \in DOMAIN s : Fresh(s[i]), Ready(a1, s, 0)
    PROVE  LET s1 == await_children(write_children(a1, s), p, s)
               s2 == release_parent_if_ready(s1, p, due)
           IN  Sound(s1, {}) /\ Kept(st, s1) /\ Sound(s2, {}) /\ Kept(st, s2)
<1> DEFINE a2 == write_children(a1, s)
           d == a2.db
           s1 == await_children(a2, p, s)
           s2 == release_parent_if_ready(s1, p, due)
<1>1. Writing(st, a2, old)
  BY WriteChildrenSound
<1> HIDE DEF a2
<1>2. Sound(d, {}) /\ Kept(st, d) /\ Shape(d)
  BY <1>1 DEF Writing, Sound
<1>3. Quiet(d, s1)
  BY <1>2, AwaitChildrenIsQuiet
<1> HIDE DEF s1, d
<1>4. Sound(s1, {}) /\ Kept(st, s1)
  BY <1>2, <1>3, ThenQuiet
<1>5. Sound(s2, {}) /\ Kept(s1, s2)
  BY <1>4, ReleaseIfReadySound
<1> HIDE DEF s2
<1>6. Kept(st, s2)
  BY <1>4, <1>5, KeptTransitive
<1> QED
  BY <1>4, <1>5, <1>6 DEF a2, s1, s2

LEMMA AddFlowSound ==
    ASSUME NEW st, Sound(st, {}), NEW parent, Fresh(parent), NEW children \in Seq(Job),
           DistinctIds(parent.id, children), \A i \in DOMAIN children : Fresh(children[i])
    PROVE  Sound(add_flow(st, parent, children), {}) /\ Kept(st, add_flow(st, parent, children))
<1> DEFINE a0 == Examined(st)
           ap == examine_parent(a0, parent, children)
           acc == examine_children(ap, children)
           a1 == write_parent(acc, parent, children)
           s1 == await_children(write_children(a1, children), parent.id, children)
           s2 == release_parent_if_ready(s1, parent.id, parent.due)
<1>1. /\ acc.result # "ok" => add_flow(st, parent, children) = acc.db
      /\ acc.result = "ok" => add_flow(st, parent, children) \in {s1, s2}
  BY DEF add_flow, examine_flow, write_flow
<1>2. parent \in Job /\ parent.id \in JobIds /\ parent.due \in BOOLEAN
  BY DEF Fresh, Job
<1>3. Review(st, a0)
  BY ExaminedReview
<1> HIDE DEF a0
<1>4. Review(st, ap)
  BY <1>2, <1>3, ExamineParentReview
<1> HIDE DEF ap
<1>5. Review(st, acc) /\ \A i \in DOMAIN children : Judged(st, acc, children[i].id)
  BY <1>4, ExamineChildrenReview
<1> HIDE DEF acc
<1>6. Sound(acc.db, {}) /\ Kept(st, acc.db) /\ DOMAIN acc = AccKeys
  BY <1>5, QuietSound DEF Review
<1>7. Writing(st, a1, acc) /\ Created(acc.db, a1.db, {parent.id})
  BY <1>6, WriteParentSound
<1> HIDE DEF a1
<1>8. a1.duplicated = acc.duplicated /\ a1.skipped = acc.skipped
  BY <1>7 DEF Writing
<1>9. CASE acc.result # "ok"
  BY <1>1, <1>6, <1>9
<1>10. CASE acc.result = "ok"
  <2> DEFINE p == parent.id
             due == parent.due
  <2>1. /\ p \in JobIds /\ due \in BOOLEAN /\ DistinctIds(p, children)
        /\ Created(acc.db, a1.db, {p})
    BY <1>2, <1>7
  <2> HIDE DEF p, due
  <2>2. Ready(a1, children, 0) /\ AllDistinct(children)
    BY <1>5, <1>8, <1>10, <2>1, ReviewReady
  <2> DEFINE u1 == await_children(write_children(a1, children), p, children)
             u2 == release_parent_if_ready(u1, p, due)
  <2>3. Sound(u1, {}) /\ Kept(st, u1) /\ Sound(u2, {}) /\ Kept(st, u2)
    BY <1>7, <2>1, <2>2, FlowEndSound
  <2>4. s1 = u1 /\ s2 = u2
    BY DEF p, due
  <2> HIDE DEF u1, u2, s1, s2
  <2> QED
    BY <1>1, <1>10, <2>3, <2>4
<1> QED
  BY <1>9, <1>10

LEMMA ParkParentSound ==
    ASSUME NEW st, NEW acc, DOMAIN acc = AccKeys, Sound(acc.db, {}), Kept(st, acc.db),
           NEW p \in JobIds, Is(acc.db, p, "active"), NEW ids \in Seq(JobIds)
    PROVE  LET b == park_parent(acc, p, ids) IN
           /\ Writing(st, b, acc)
           /\ Created(acc.db, b.db, {p})
<1> DEFINE d == acc.db
           parked == {acc.next[x] : x \in DedupIds} \ {None}
           K == ToSet(ids) \ ToSet(d.jobs[p].child_ids)
           new == KeepOnly(ids, K)
           listed == d.jobs[p].child_ids \o new
           r == [d.jobs[p] EXCEPT !.state = "waiting_children", !.deferred_failure = FALSE,
                                  !.child_ids = listed]
           s1 == [d EXCEPT !.lock[p] = None, !.stalled = @ \ {p}, !.active = @ \ {p},
                           !.jobs[p] = r, !.waiting_children = @ \cup {p},
                           !.deps[p].pending = @ \cup parked]
           b == park_parent(acc, p, ids)
           no == {}
<1>1. /\ Shape(d) /\ Fine(d, p) /\ d.jobs[p] \in Job /\ d.jobs[p] # None
      /\ d.jobs[p].id = p /\ d.jobs[p].state = "active" /\ Sound(d, no) /\ no \ {p} = {}
  BY DEF Sound, Shape, Is
<1>2. listed \in Seq(JobIds)
  <2>1. d.jobs[p].child_ids \in Seq(JobIds)
    BY <1>1 DEF Job
  <2> HIDE DEF K, d
  <2> QED
    BY <2>1, TakenIds
<1>3. b = [acc EXCEPT !.db = s1]
  BY DEF park_parent
<1> HIDE DEF listed, parked
<1>4. r \in Job /\ r.id = p /\ r.state = "waiting_children" /\ r # None
  <2> DEFINE old == d.jobs[p]
  <2>1. old \in Job /\ old.id = p
    BY <1>1
  <2> HIDE DEF d, old
  <2>2. r \in Job /\ r.id = p /\ r.state = "waiting_children"
    BY <1>2, <2>1 DEF Job, JobState, old
  <2> QED
    BY <2>2, RedisRecordsAssumption
<1> HIDE DEF r
<1>5. /\ DOMAIN s1 = DOMAIN d /\ s1.jobs = [d.jobs EXCEPT ![p] = r]
      /\ s1.waiting = d.waiting /\ s1.delayed = d.delayed /\ s1.active = d.active \ {p}
      /\ s1.waiting_children = d.waiting_children \cup {p} /\ s1.completed = d.completed
      /\ s1.failed = d.failed /\ s1.lock = [d.lock EXCEPT ![p] = None]
      /\ s1.stalled = d.stalled \ {p} /\ s1.dedup_next = d.dedup_next
  BY <1>1 DEF Shape, Keys
<1>6. DOMAIN b = AccKeys /\ b.db = s1 /\ b.duplicated = acc.duplicated /\ b.skipped = acc.skipped
  <2> HIDE DEF s1, b
  <2> QED
    BY <1>3 DEF AccKeys
<1> HIDE DEF s1, d
<1>7. Shape(s1)
  BY <1>1, <1>4, <1>5 DEF Shape
<1>8. \A i \in JobIds \ {p} : Alike(d, s1, i)
  BY <1>1, <1>5 DEF Shape, Alike
<1>9. Fine(s1, p) /\ s1.lock[p] = None
  <2>1. s1.jobs[p] = r /\ s1.lock[p] = None
    BY <1>1, <1>5 DEF Shape
  <2> QED
    BY <1>1, <1>4, <1>5, <2>1 DEF Fine, Is
<1> HIDE DEF no
<1>10. Sound(s1, no \ {p}) /\ Kept(d, s1)
  BY <1>1, <1>7, <1>8, <1>9, PutDown
<1>11. Sound(s1, {}) /\ Kept(st, s1)
  BY <1>1, <1>10, KeptTransitive DEF d
<1>12. Created(acc.db, s1, {p})
  BY <1>1, <1>4, <1>5 DEF Created, Shape, d
<1> HIDE DEF b
<1>13. Writing(st, b, acc) /\ Created(acc.db, b.db, {p})
  BY <1>6, <1>11, <1>12 DEF Writing
<1> QED
  BY <1>13 DEF b

LEMMA AddFlowChildrenSound ==
    ASSUME NEW st, Sound(st, {}), NEW p \in JobIds, Is(st, p, "active"), NEW children \in Seq(Job),
           DistinctIds(p, children), \A i \in DOMAIN children : Fresh(children[i])
    PROVE  /\ Sound(add_flow_children(st, p, children), {})
           /\ Kept(st, add_flow_children(st, p, children))
<1> DEFINE a0 == Examined(st)
           acc == examine_dynamic_children(a0, children)
           ids == RetainedIds(acc, children)
           a1 == park_parent(acc, p, ids)
           due == TRUE
           s1 == await_children(write_children(a1, children), p, children)
           s2 == release_parent_if_ready(s1, p, due)
<1>1. /\ acc.result # "ok" => add_flow_children(st, p, children) = acc.db
      /\ acc.result = "ok" => add_flow_children(st, p, children) = s2
  BY DEF add_flow_children, write_flow_children
<1>2. due \in BOOLEAN
  OBVIOUS
<1>3. Review(st, a0)
  BY ExaminedReview
<1> HIDE DEF a0, due
<1>4. Review(st, acc) /\ \A i \in DOMAIN children : Judged(st, acc, children[i].id)
  BY <1>3, ExamineDynamicChildrenReview
<1> HIDE DEF acc
<1>5. ids \in Seq(JobIds)
  BY IdsAreIds
<1> HIDE DEF ids
<1>6. Sound(acc.db, {}) /\ Kept(st, acc.db) /\ DOMAIN acc = AccKeys
  BY <1>4, QuietSound DEF Review
<1>7. Is(acc.db, p, "active")
  BY <1>4, QuietJobs DEF Is, Review
<1>8. Writing(st, a1, acc) /\ Created(acc.db, a1.db, {p})
  BY <1>5, <1>6, <1>7, ParkParentSound
<1> HIDE DEF a1
<1>9. a1.duplicated = acc.duplicated /\ a1.skipped = acc.skipped
  BY <1>8 DEF Writing
<1>10. CASE acc.result # "ok"
  BY <1>1, <1>6, <1>10
<1>11. CASE acc.result = "ok"
  <2>1. Ready(a1, children, 0) /\ AllDistinct(children)
    BY <1>4, <1>8, <1>9, <1>11, ReviewReady
  <2>2. Sound(s2, {}) /\ Kept(st, s2)
    BY <1>2, <1>8, <2>1, FlowEndSound
  <2> HIDE DEF s2
  <2> QED
    BY <1>1, <1>11, <2>2
<1> QED
  BY <1>10, <1>11

-----------------------------------------------------------------------------
(***************************************************************************)
(* Claims.                                                                 *)
(***************************************************************************)
LEMMA DropStaleSound ==
    ASSUME NEW st, Sound(st, {})
    PROVE  LET b == drop_stale_waiting(st) IN
           /\ Sound(b, {}) /\ Kept(st, b) /\ b.jobs = st.jobs
           /\ b.waiting # <<>> => /\ Head(b.waiting).id \in JobIds
                                  /\ Is(b, Head(b.waiting).id, "waiting")
<1> DEFINE b == drop_stale_waiting(st)
           K == {e \in ToSet(st.waiting) : Exists(st, e.id) /\ st.jobs[e.id].state = "waiting"}
           w == KeepOnly(st.waiting, K)
<1>1. Shape(st)
  BY DEF Sound
<1>2. IsList(w) /\ ToSet(w) = K
  BY <1>1, KeepOnlyList DEF Shape
<1>3. /\ DOMAIN b = DOMAIN st /\ b.jobs = st.jobs
      /\ b.waiting = w /\ b.delayed = st.delayed /\ b.active = st.active
      /\ b.waiting_children = st.waiting_children /\ b.completed = st.completed
      /\ b.failed = st.failed /\ b.lock = st.lock
      /\ b.stalled = st.stalled /\ b.dedup_next = st.dedup_next
  <2> HIDE DEF K
  <2> QED
    BY <1>1 DEF Shape, Keys, drop_stale_waiting, K
<1> HIDE DEF b, w
<1>4. Shape(b)
  BY <1>1, <1>2, <1>3 DEF Shape
<1>5. ASSUME NEW i \in JobIds PROVE i \in EntryIds(w) <=> i \in EntryIds(st.waiting)
  <2>1. i \in EntryIds(st.waiting) => Is(st, i, "waiting")
    BY DEF Sound, Fine
  <2> QED
    BY <1>2, <2>1 DEF EntryIds, Is, Exists
<1>6. \A i \in JobIds : Alike(st, b, i)
  BY <1>3, <1>5 DEF Alike
<1>7. Sound(b, {}) /\ Kept(st, b)
  BY <1>4, <1>6, AllAlike
<1>8. ASSUME b.waiting # <<>>
      PROVE  Head(b.waiting).id \in JobIds /\ Is(b, Head(b.waiting).id, "waiting")
  <2>1. Head(w) \in ToSet(w)
    <3>1. PICK S : w \in Seq(S)
      BY <1>2 DEF IsList
    <3>2. w # <<>> /\ Len(w) \in Nat /\ Len(w) # 0 /\ Head(w) = w[1] /\ 1 \in DOMAIN w
      BY <1>3, <1>8, <3>1
    <3> QED
      BY <3>2 DEF ToSet
  <2> QED
    BY <1>2, <1>3, <2>1 DEF Is, Exists
<1> QED
  BY <1>3, <1>7, <1>8 DEF b

\* Kept, but for a job that was given a token that is not in old.
Follows(a, b, old) ==
    \A j \in JobIds : b.lock[j] # None =>
        \/ /\ b.lock[j] = a.lock[j]
           /\ b.jobs[j].attempts_made = a.jobs[j].attempts_made
           /\ b.jobs[j].options.max_retries = a.jobs[j].options.max_retries
        \/ b.lock[j] \notin old

LEMMA KeptFollows ==
    ASSUME NEW a, NEW b, Kept(a, b), NEW old PROVE Follows(a, b, old)
  BY DEF Kept, Follows

LEMMA LeaseSound ==
    ASSUME NEW st, Sound(st, {}), NEW j \in JobIds, Is(st, j, "waiting"), NEW token, token # None
    PROVE  LET b == lease(st, j, token) IN
           /\ Sound(b, {}) /\ b.lock = [st.lock EXCEPT ![j] = token]
           /\ \A i \in JobIds \ {j} : b.jobs[i] = st.jobs[i]
<1> DEFINE job == [st.jobs[j] EXCEPT !.state = "active", !.attempts_made = @ + 1]
           w == RemoveWaiting(st.waiting, j)
           s1 == [st EXCEPT !.lock[j] = token, !.jobs[j] = job, !.waiting = w,
                            !.active = @ \cup {j}, !.claims = @ + 1]
           s2 == sync_repeat_scheduler(s1, job)
           s3 == add_base_marker(s2)
           no == {}
<1>1. Shape(st) /\ Fine(st, j) /\ st.jobs[j] \in Job /\ st.jobs[j] # None /\ st.jobs[j].id = j
  BY DEF Sound, Shape, Is
<1>2. job \in Job /\ job.id = j /\ job.state = "active" /\ job # None
  <2> DEFINE old == st.jobs[j]
  <2>1. old \in Job /\ old.id = j /\ old.attempts_made + 1 \in Nat
    BY <1>1 DEF Job
  <2> HIDE DEF old
  <2>2. job \in Job /\ job.id = j /\ job.state = "active"
    BY <2>1 DEF Job, JobState, old
  <2> QED
    BY <2>2, RedisRecordsAssumption
<1>3. IsList(w) /\ EntryIds(w) = EntryIds(st.waiting) \ {j}
  BY <1>1, RemoveWaitingIds DEF Shape
<1>4. lease(st, j, token) = s3
  BY DEF lease
<1> HIDE DEF job, w
<1>5. /\ DOMAIN s1 = DOMAIN st /\ s1.jobs = [st.jobs EXCEPT ![j] = job]
      /\ s1.waiting = w /\ s1.delayed = st.delayed /\ s1.active = st.active \cup {j}
      /\ s1.waiting_children = st.waiting_children /\ s1.completed = st.completed
      /\ s1.failed = st.failed /\ s1.lock = [st.lock EXCEPT ![j] = token]
      /\ s1.stalled = st.stalled /\ s1.dedup_next = st.dedup_next
  BY <1>1 DEF Shape, Keys
<1> HIDE DEF s1
<1>6. Shape(s1)
  BY <1>1, <1>2, <1>3, <1>5 DEF Shape
<1>7. s1.jobs[j] = job /\ s1.lock[j] = token /\ \A i \in JobIds \ {j} : s1.jobs[i] = st.jobs[i] /\ s1.lock[i] = st.lock[i]
  BY <1>1, <1>5 DEF Shape
<1>8. Fine(s1, j)
  BY <1>1, <1>2, <1>3, <1>5, <1>7 DEF Fine, Is
<1>9. ASSUME NEW i \in JobIds \ {j} PROVE Fine(s1, i)
  <2>1. Fine(st, i)
    BY DEF Sound
  <2> QED
    BY <1>3, <1>5, <1>7, <2>1 DEF Fine, Is
<1>10. Sound(s1, no) /\ Kept(s1, s1)
  BY <1>6, <1>8, <1>9, KeptReflexive DEF Sound
<1> HIDE DEF no
<1>11. Quiet(s1, s2)
  BY <1>6, RepeatKeysAreQuiet
<1> HIDE DEF s2
<1>12. Sound(s2, no) /\ Shape(s2)
  BY <1>10, <1>11, ThenQuiet DEF Sound
<1>13. Quiet(s2, s3)
  BY <1>12, MarkersAreQuiet
<1> HIDE DEF s3
<1>14. Quiet(s1, s3)
  BY <1>11, <1>13, QuietTransitive
<1>15. Sound(s3, no) /\ s3.jobs = s1.jobs /\ s3.lock = s1.lock
  BY <1>10, <1>14, ThenQuiet, QuietJobs
<1> QED
  BY <1>4, <1>5, <1>7, <1>15 DEF no

\* What CLAIM_SCRIPT does before it takes a job.
LEMMA ClaimableSound ==
    ASSUME Sound(db, {})
    PROVE  /\ Sound(Claimable, {}) /\ Kept(db, Claimable)
           /\ MayClaim /\ Claimable.waiting # <<>> =>
                /\ Head(Claimable.waiting).id \in JobIds
                /\ Is(Claimable, Head(Claimable.waiting).id, "waiting")
<1> DEFINE quiet == queue_is_paused_or_maxed(db)
           a == promote_due(db, quiet)
           b == drop_stale_waiting(a)
<1>1. Claimable = IF MayClaim THEN b ELSE a
  BY DEF Claimable, Promoted
<1> HIDE DEF quiet
<1>2. Sound(a, {}) /\ Kept(db, a)
  BY PromoteDueSound
<1> HIDE DEF a
<1>3. /\ Sound(b, {}) /\ Kept(a, b)
      /\ b.waiting # <<>> => Head(b.waiting).id \in JobIds /\ Is(b, Head(b.waiting).id, "waiting")
  BY <1>2, DropStaleSound
<1> HIDE DEF b
<1>4. Kept(db, b)
  BY <1>2, <1>3, KeptTransitive
<1>5. CASE MayClaim
  <2>1. Claimable = b
    BY <1>1, <1>5
  <2> QED
    BY <1>3, <1>4, <2>1
<1>6. CASE ~MayClaim
  <2>1. Claimable = a
    BY <1>1, <1>6
  <2> QED
    BY <1>2, <1>6, <2>1
<1> QED
  BY <1>5, <1>6

-----------------------------------------------------------------------------
(***************************************************************************)
(* What callers submit.                                                    *)
(***************************************************************************)
LEMMA NewJobIsFresh ==
    ASSUME NEW s \in Submission
    PROVE  Fresh(new_job(s.id, s.options)) /\ new_job(s.id, s.options).id = s.id
<1>1. s.id \in JobIds /\ s.options \in JobOptions
  BY DEF Submission
<1> QED
  BY <1>1, NewJobIsJob DEF Fresh

LEMMA ChildIsFresh ==
    ASSUME NEW s \in Submission, NEW p \in JobIds
    PROVE  LET job == [new_job(s.id, s.options) EXCEPT !.parent_id = p] IN
           Fresh(job) /\ job.id = s.id
<1> DEFINE new == new_job(s.id, s.options)
<1>1. Fresh(new) /\ new.id = s.id
  BY NewJobIsFresh
<1> HIDE DEF new
<1>2. Fresh([new EXCEPT !.parent_id = p]) /\ [new EXCEPT !.parent_id = p].id = s.id
  BY <1>1 DEF Fresh, Job
<1> QED
  BY <1>2 DEF new

LEMMA FlowChildrenAreFresh ==
    ASSUME NEW s \in Seq(Submission), NEW p \in JobIds, DistinctIds(p, s)
    PROVE  LET jobs == FlowChildren(p, s) IN
           /\ jobs \in Seq(Job) /\ DistinctIds(p, jobs)
           /\ \A i \in DOMAIN jobs : Fresh(jobs[i])
<1> DEFINE n == Len(s)
           jobs == FlowChildren(p, s)
           New(i) == [new_job(s[i].id, s[i].options) EXCEPT !.parent_id = p]
<1>1. n \in Nat /\ DOMAIN s = 1 .. n /\ \A i \in 1 .. n : s[i] \in Submission
  OBVIOUS
<1>2. \A i \in 1 .. n : Fresh(New(i)) /\ New(i).id = s[i].id
  BY <1>1, ChildIsFresh
<1>3. jobs = [i \in 1 .. n |-> New(i)]
  BY <1>1 DEF FlowChildren
<1> HIDE DEF New, n, jobs
<1>4. jobs \in [1 .. n -> Job] /\ DOMAIN jobs = 1 .. n
      /\ \A i \in 1 .. n : Fresh(jobs[i]) /\ jobs[i].id = s[i].id
  BY <1>2, <1>3 DEF Fresh
<1>5. jobs \in Seq(Job)
  BY <1>1, <1>4
<1>6. DistinctIds(p, jobs)
  BY <1>1, <1>4 DEF DistinctIds
<1> QED
  BY <1>4, <1>5, <1>6 DEF jobs

LEMMA FlowParentIsFresh ==
    ASSUME NEW f, f.parent \in Submission, f.children \in Seq(Submission)
    PROVE  Fresh(FlowParent(f)) /\ FlowParent(f).id = f.parent.id
<1> DEFINE s == f.children
           ids == [i \in DOMAIN s |-> s[i].id]
           new == new_job(f.parent.id, f.parent.options)
           job == [new EXCEPT !.state = "waiting_children", !.child_ids = ids]
<1>1. ids \in Seq(JobIds)
  <2>1. Len(s) \in Nat /\ DOMAIN s = 1 .. Len(s) /\ \A i \in 1 .. Len(s) : s[i] \in Submission
    OBVIOUS
  <2>2. \A e \in Submission : e.id \in JobIds
    BY DEF Submission
  <2>3. ids \in [1 .. Len(s) -> JobIds]
    BY <2>1, <2>2
  <2> HIDE DEF ids, s
  <2> QED
    BY <2>1, <2>3
<1>2. Fresh(new) /\ new.id = f.parent.id
  BY NewJobIsFresh
<1>3. FlowParent(f) = job
  BY DEF FlowParent
<1> HIDE DEF ids, new
<1>4. job \in Job /\ job.state = "waiting_children" /\ job.id = new.id
  BY <1>1, <1>2 DEF Fresh, Job, JobState
<1> QED
  BY <1>2, <1>3, <1>4 DEF Fresh

LEMMA NextRepeatIsJob ==
    ASSUME NEW seen \in Job, NEW next \in NextRepeats(seen), next # None
    PROVE  next \in Job /\ next.state \in {"waiting", "delayed"}
<1>1. PICK j \in FreshIds, due \in BOOLEAN : next = next_repeat_job(seen, j, due)
  BY DEF NextRepeats
<1> DEFINE new == new_job(j, seen.options)
           state == IF due THEN "waiting" ELSE "delayed"
           count == seen.repeat_count + 1
<1>2. j \in JobIds /\ seen.options \in JobOptions /\ count \in Nat
  BY DEF FreshIds, Job
<1>3. new \in Job
  BY <1>2, NewJobIsJob
<1>4. next = [new EXCEPT !.state = state, !.due = due, !.repeat_count = count]
  BY <1>1 DEF next_repeat_job
<1>5. state \in {"waiting", "delayed"}
  OBVIOUS
<1> HIDE DEF new, count, state
<1>6. [new EXCEPT !.state = state, !.due = due, !.repeat_count = count] \in Job
      /\ [new EXCEPT !.state = state, !.due = due, !.repeat_count = count].state = state
  BY <1>2, <1>3, <1>5 DEF Job, JobState
<1> QED
  BY <1>4, <1>5, <1>6

-----------------------------------------------------------------------------
(***************************************************************************)
(* Steps that are not scripts.                                             *)
(***************************************************************************)
LEMMA ExpireLockSound ==
    ASSUME NEW st, Sound(st, {}), NEW j \in JobIds
    PROVE  LET b == [st EXCEPT !.lock[j] = None] IN Sound(b, {}) /\ Kept(st, b)
<1> DEFINE b == [st EXCEPT !.lock[j] = None]
<1>1. Shape(st)
  BY DEF Sound
<1>2. /\ DOMAIN b = DOMAIN st /\ b.jobs = st.jobs
      /\ b.waiting = st.waiting /\ b.delayed = st.delayed /\ b.active = st.active
      /\ b.waiting_children = st.waiting_children /\ b.completed = st.completed
      /\ b.failed = st.failed /\ b.lock = [st.lock EXCEPT ![j] = None]
      /\ b.stalled = st.stalled /\ b.dedup_next = st.dedup_next
  BY <1>1 DEF Shape, Keys
<1> HIDE DEF b
<1>3. Shape(b)
  BY <1>1, <1>2 DEF Shape
<1>4. \A i \in JobIds : b.lock[i] # None => b.lock[i] = st.lock[i]
  BY <1>1, <1>2 DEF Shape
<1>5. ASSUME NEW i \in JobIds PROVE Fine(b, i)
  <2>1. Fine(st, i)
    BY DEF Sound
  <2> QED
    BY <1>2, <1>4, <2>1 DEF Fine, Is
<1>6. Sound(b, {}) /\ Kept(st, b)
  BY <1>2, <1>3, <1>4, <1>5 DEF Sound, Kept
<1> QED
  BY <1>6 DEF b

LEMMA BecomeDueSound ==
    ASSUME NEW st, Sound(st, {}), NEW j \in JobIds, st.jobs[j] # None
    PROVE  LET b == [st EXCEPT !.jobs[j].due = TRUE] IN Sound(b, {}) /\ Kept(st, b)
<1> DEFINE r == [st.jobs[j] EXCEPT !.due = TRUE]
           no == {}
<1>1. st.jobs[j] \in Job /\ st.jobs[j].id = j /\ Sound(st, no)
  BY DEF Sound, Shape
<1>2. /\ r \in Job /\ r.id = j /\ r.state = st.jobs[j].state
      /\ r.attempts_made = st.jobs[j].attempts_made /\ r.options = st.jobs[j].options
  BY <1>1 DEF Job
<1>3. [st EXCEPT !.jobs[j].due = TRUE] = [st EXCEPT !.jobs[j] = r]
  OBVIOUS
<1> HIDE DEF r, no
<1>4. Sound([st EXCEPT !.jobs[j] = r], no) /\ Kept(st, [st EXCEPT !.jobs[j] = r])
  BY <1>1, <1>2, RewriteRecord
<1> QED
  BY <1>3, <1>4 DEF no

\* The claims of the window and the marks of a recovery say nothing of where a job is.
LEMMA OtherKeysAreQuiet ==
    ASSUME NEW st, Shape(st), NEW x, NEW j \in JobIds
    PROVE  Quiet(st, [st EXCEPT !.claims = x]) /\ Quiet(st, [st EXCEPT !.stalled = @ \ {j}])
  BY DEF Shape, Keys, Quiet

-----------------------------------------------------------------------------
(***************************************************************************)
(* The invariant.  A token names the job it was drawn for, and a client    *)
(* that is about to fail a job knows what a retry is decided on while it   *)
(* holds the lease.                                                        *)
(***************************************************************************)
CallIsTrue(st, tokens, call) ==
    /\ "op" \in DOMAIN call
    /\ call.op = "complete" => call.seen \in Job
    /\ call.op = "fail" =>
        /\ call.token \in tokens
        /\ HoldsLock(st, call.job, call.token) =>
            call.retry = (call.allowed /\ should_retry(st.jobs[call.job]))

Tokens ==
    /\ issued \in Seq(JobIds)
    /\ \A j \in JobIds : db.lock[j] # None =>
            db.lock[j] \in DOMAIN issued /\ issued[db.lock[j]] = j

Calls ==
    /\ DOMAIN client = Clients
    /\ \A c \in Clients : CallIsTrue(db, DOMAIN issued, client[c])

RedisInv == Sound(db, {}) /\ Tokens /\ Calls

LEMMA CallStays ==
    ASSUME NEW a, NEW b, NEW tokens, NEW more, Sound(a, {}), Sound(b, {}),
           Follows(a, b, tokens), tokens \subseteq more, NEW call, CallIsTrue(a, tokens, call)
    PROVE  CallIsTrue(b, more, call)
<1> SUFFICES ASSUME call.op = "fail", HoldsLock(b, call.job, call.token)
             PROVE  call.retry = (call.allowed /\ should_retry(b.jobs[call.job]))
  BY DEF CallIsTrue
<1> DEFINE j == call.job
<1>1. j \in JobIds /\ b.lock[j] # None /\ b.lock[j] = call.token /\ call.token \in tokens
  BY DEF HoldsLock, Exists, CallIsTrue
<1>2. /\ a.lock[j] = call.token /\ b.jobs[j].attempts_made = a.jobs[j].attempts_made
      /\ b.jobs[j].options.max_retries = a.jobs[j].options.max_retries
  BY <1>1 DEF Follows
<1>3. Is(a, j, "active")
  BY <1>1, <1>2 DEF Sound, Fine
<1>4. HoldsLock(a, j, call.token)
  BY <1>1, <1>2, <1>3 DEF HoldsLock, Exists, Is
<1>5. should_retry(b.jobs[j]) <=> should_retry(a.jobs[j])
  BY <1>2 DEF should_retry
<1>6. call.retry = (call.allowed /\ should_retry(a.jobs[j]))
  BY <1>4 DEF CallIsTrue
<1> HIDE DEF j
<1>7. (call.allowed /\ should_retry(b.jobs[j])) = (call.allowed /\ should_retry(a.jobs[j]))
  BY <1>5
<1> QED
  BY <1>6, <1>7 DEF j

\* A script that sets no lock, run by whoever calls it.
LEMMA RunKeeps ==
    ASSUME RedisInv, Sound(db', {}), Kept(db, db'), issued' = issued, client' = client
    PROVE  RedisInv'
<1>1. Follows(db, db', DOMAIN issued)
  BY KeptFollows
<1>2. Tokens'
  BY DEF RedisInv, Tokens, Kept
<1>3. Calls'
  <2> SUFFICES ASSUME NEW c \in Clients PROVE CallIsTrue(db', DOMAIN issued, client[c])
    BY DEF Calls, RedisInv
  <2> DEFINE tokens == DOMAIN issued
             call == client[c]
  <2>1. CallIsTrue(db, tokens, call) /\ Sound(db, {}) /\ tokens \subseteq tokens
    BY DEF RedisInv, Calls
  <2> HIDE DEF tokens, call
  <2>2. CallIsTrue(db', tokens, call)
    BY <1>1, <2>1, CallStays DEF tokens
  <2> QED
    BY <2>2 DEF tokens, call
<1> QED
  BY <1>2, <1>3 DEF RedisInv

\* The same by a client, which then is in another call.
LEMMA CallKeeps ==
    ASSUME RedisInv, Sound(db', {}), Kept(db, db'), issued' = issued, NEW c \in Clients,
           NEW call, client' = [client EXCEPT ![c] = call],
           CallIsTrue(db', DOMAIN issued, call)
    PROVE  RedisInv'
<1>1. Follows(db, db', DOMAIN issued)
  BY KeptFollows
<1>2. Tokens'
  BY DEF RedisInv, Tokens, Kept
<1>3. Calls'
  <2>1. DOMAIN client' = Clients
    BY DEF RedisInv, Calls
  <2>2. ASSUME NEW k \in Clients PROVE CallIsTrue(db', DOMAIN issued, client'[k])
    <3>1. CASE k = c
      BY <3>1 DEF RedisInv, Calls
    <3>2. CASE k # c
      <4> DEFINE tokens == DOMAIN issued
                 old == client[k]
      <4>1. /\ CallIsTrue(db, tokens, old) /\ Sound(db, {}) /\ tokens \subseteq tokens
            /\ client'[k] = old
        BY <3>2 DEF RedisInv, Calls
      <4> HIDE DEF tokens, old
      <4>2. CallIsTrue(db', tokens, old)
        BY <1>1, <4>1, CallStays DEF tokens
      <4> QED
        BY <4>1, <4>2 DEF tokens
    <3> QED
      BY <3>1, <3>2
  <2> QED
    BY <2>1, <2>2 DEF Calls
<1> QED
  BY <1>2, <1>3 DEF RedisInv

\* The client forgets its call, or goes on to one about which nothing is said.
LEMMA OtherCall ==
    ASSUME NEW st, NEW tokens, NEW call, "op" \in DOMAIN call, call.op \notin {"complete", "fail"}
    PROVE  CallIsTrue(st, tokens, call)
  BY DEF CallIsTrue

LEMMA IdleCall ==
    ASSUME NEW st, NEW tokens, NEW delayed
    PROVE  CallIsTrue(st, tokens, Idle) /\ CallIsTrue(st, tokens, Claiming(delayed))
  BY DEF CallIsTrue, Idle, Claiming

LEMMA ReadsOnly ==
    ASSUME RedisInv, db' = db, issued' = issued, NEW c \in Clients, NEW call,
           client' = [client EXCEPT ![c] = call], CallIsTrue(db, DOMAIN issued, call)
    PROVE  RedisInv'
<1>1. Sound(db', {}) /\ Kept(db, db')
  BY KeptReflexive DEF RedisInv
<1> QED
  BY <1>1, CallKeeps

-----------------------------------------------------------------------------
(***************************************************************************)
(* The steps.                                                              *)
(***************************************************************************)
\* A job is leased: nobody has its token yet.
LEMMA ClaimFoundKeeps ==
    ASSUME RedisInv, claim_found
    PROVE  /\ Sound(db', {}) /\ Tokens'
           /\ Follows(db, db', DOMAIN issued) /\ DOMAIN issued \subseteq DOMAIN issued'
<1> DEFINE j == Head(Claimable.waiting).id
           n == Len(issued) + 1
           a == Claimable
           b == lease(a, j, n)
           x == IF RateMax = 0 THEN 0 ELSE b.claims
           c == [b EXCEPT !.claims = x]
<1>1. /\ issued \in Seq(JobIds) /\ Len(issued) \in Nat /\ DOMAIN issued = 1 .. Len(issued)
      /\ n \in Nat /\ n # None
  BY RedisNoneAssumption DEF RedisInv, Tokens
<1>2. db' = c /\ issued' = Append(issued, j) /\ MayClaim /\ Claimable.waiting # <<>>
  BY DEF claim_found
<1>3. Sound(a, {}) /\ Kept(db, a) /\ j \in JobIds /\ Is(a, j, "waiting")
  BY <1>2, ClaimableSound DEF RedisInv
<1> HIDE DEF j, n, a
<1>4. /\ Sound(b, {}) /\ b.lock = [a.lock EXCEPT ![j] = n]
      /\ \A i \in JobIds \ {j} : b.jobs[i] = a.jobs[i]
  BY <1>1, <1>3, LeaseSound
<1> HIDE DEF b, x
<1>5. Quiet(b, c)
  BY <1>3, <1>4, OtherKeysAreQuiet DEF Sound
<1> HIDE DEF c
<1>6. Sound(c, {}) /\ c.lock = b.lock /\ c.jobs = b.jobs
  BY <1>4, <1>5, QuietSound, QuietJobs
<1>7. /\ c.lock[j] = n
      /\ \A i \in JobIds \ {j} : c.lock[i] = a.lock[i] /\ c.jobs[i] = a.jobs[i]
  BY <1>3, <1>4, <1>6 DEF Sound, Shape
<1>8. /\ DOMAIN issued' = 1 .. n /\ issued'[n] = j /\ issued' \in Seq(JobIds)
      /\ \A i \in DOMAIN issued : i \in DOMAIN issued' /\ issued'[i] = issued[i]
      /\ n \notin DOMAIN issued /\ n \in DOMAIN issued'
  BY <1>1, <1>2, <1>3 DEF n
<1>9. Follows(db, c, DOMAIN issued)
  BY <1>3, <1>7, <1>8 DEF Follows, Kept
<1>10. ASSUME NEW i \in JobIds, c.lock[i] # None
       PROVE  c.lock[i] \in DOMAIN issued' /\ issued'[c.lock[i]] = i
  <2>1. CASE i = j
    BY <1>1, <1>7, <1>8, <2>1
  <2>2. CASE i # j
    <3>1. c.lock[i] = db.lock[i]
      BY <1>3, <1>7, <1>10, <2>2 DEF Kept
    <3> QED
      BY <1>8, <1>10, <3>1 DEF RedisInv, Tokens
  <2> QED
    BY <2>1, <2>2
<1> QED
  BY <1>2, <1>6, <1>8, <1>9, <1>10 DEF Tokens

LEMMA ClaimEmptyKeeps ==
    ASSUME RedisInv, claim_empty PROVE Sound(db', {}) /\ Kept(db, db') /\ issued' = issued
<1>1. Sound(Claimable, {}) /\ Kept(db, Claimable)
  BY ClaimableSound DEF RedisInv
<1> QED
  BY <1>1 DEF claim_empty

LEMMA SubmitKeeps == ASSUME RedisInv, Submit PROVE RedisInv'
<1>0. Sound(db, {})
  BY DEF RedisInv
<1> SUFFICES Sound(db', {}) /\ Kept(db, db') /\ issued' = issued /\ client' = client
  BY RunKeeps
<1>1. CASE AddJob
  <2>1. PICK s \in Submissions : Run(add_job(db, new_job(s.id, s.options)))
    BY <1>1 DEF AddJob
  <2> DEFINE job == new_job(s.id, s.options)
  <2>2. Fresh(job)
    BY RedisInputsAssumption, NewJobIsFresh
  <2>3. db' = add_job(db, job) /\ issued' = issued /\ client' = client
    BY <2>1 DEF Run
  <2> HIDE DEF job
  <2> QED
    BY <1>0, <2>2, <2>3, AddJobSound
<1>2. CASE AddJobs
  <2>1. PICK s, t \in Submissions :
            Run(add_job(add_job(db, new_job(s.id, s.options)), new_job(t.id, t.options)))
    BY <1>2 DEF AddJobs
  <2> DEFINE job == new_job(s.id, s.options)
             other == new_job(t.id, t.options)
             s1 == add_job(db, job)
             s2 == add_job(s1, other)
  <2>2. Fresh(job) /\ Fresh(other)
    BY RedisInputsAssumption, NewJobIsFresh
  <2>3. db' = s2 /\ issued' = issued /\ client' = client
    BY <2>1 DEF Run
  <2> HIDE DEF job, other
  <2>4. Sound(s1, {}) /\ Kept(db, s1)
    BY <1>0, <2>2, AddJobSound
  <2> HIDE DEF s1
  <2>5. Sound(s2, {}) /\ Kept(s1, s2)
    BY <2>2, <2>4, AddJobSound
  <2> HIDE DEF s2
  <2>6. Kept(db, s2)
    BY <2>4, <2>5, KeptTransitive
  <2> QED
    BY <2>3, <2>5, <2>6
<1>3. CASE UpsertRepeat
  <2>1. PICK s \in Submissions : Run(upsert_repeat_script(db, new_job(s.id, s.options)))
    BY <1>3 DEF UpsertRepeat
  <2> DEFINE job == new_job(s.id, s.options)
  <2>2. Fresh(job)
    BY RedisInputsAssumption, NewJobIsFresh
  <2>3. db' = upsert_repeat_script(db, job) /\ issued' = issued /\ client' = client
    BY <2>1 DEF Run
  <2> HIDE DEF job
  <2> QED
    BY <1>0, <2>2, <2>3, UpsertRepeatSound
<1>4. CASE AddFlow
  <2>1. PICK f \in Flows :
            Run(add_flow(db, FlowParent(f), FlowChildren(f.parent.id, f.children)))
    BY <1>4 DEF AddFlow
  <2> DEFINE p == f.parent.id
             s == f.children
             parent == FlowParent(f)
             children == FlowChildren(p, s)
  <2>2. /\ f.parent \in Submission /\ f.children \in Seq(Submission)
        /\ DistinctIds(f.parent.id, f.children)
    BY RedisInputsAssumption
  <2>3. Fresh(parent) /\ parent.id = p
    BY <2>2, FlowParentIsFresh
  <2>4. p \in JobIds /\ s \in Seq(Submission) /\ DistinctIds(p, s)
    BY <2>2 DEF Submission
  <2>5. db' = add_flow(db, parent, children) /\ issued' = issued /\ client' = client
    BY <2>1 DEF Run
  <2> HIDE DEF parent, p, s
  <2>6. /\ children \in Seq(Job) /\ DistinctIds(p, children)
        /\ \A i \in DOMAIN children : Fresh(children[i])
    BY <2>4, FlowChildrenAreFresh
  <2> HIDE DEF children
  <2>7. DistinctIds(parent.id, children)
    BY <2>3, <2>6
  <2> QED
    BY <1>0, <2>3, <2>5, <2>6, <2>7, AddFlowSound
<1>5. CASE AddFlowChildren
  <2>1. PICK b \in Batches, t \in DOMAIN issued :
            /\ HoldsLock(db, b.parent, t)
            /\ Run(add_flow_children(db, b.parent, FlowChildren(b.parent, b.children)))
    BY <1>5 DEF AddFlowChildren
  <2> DEFINE p == b.parent
             s == b.children
             children == FlowChildren(p, s)
  <2>2. p \in JobIds /\ s \in Seq(Submission) /\ DistinctIds(p, s)
    BY RedisInputsAssumption
  <2>3. Is(db, p, "active")
    BY <2>1 DEF HoldsLock, Exists, Is
  <2>4. db' = add_flow_children(db, p, children) /\ issued' = issued /\ client' = client
    BY <2>1 DEF Run
  <2> HIDE DEF p, s
  <2>5. /\ children \in Seq(Job) /\ DistinctIds(p, children)
        /\ \A i \in DOMAIN children : Fresh(children[i])
    BY <2>2, FlowChildrenAreFresh
  <2> HIDE DEF children
  <2> QED
    BY <1>0, <2>2, <2>3, <2>4, <2>5, AddFlowChildrenSound
<1> QED
  BY <1>1, <1>2, <1>3, <1>4, <1>5 DEF Submit

LEMMA LeaseKeeps == ASSUME RedisInv, Lease PROVE RedisInv'
<1>0. Sound(db, {}) /\ Shape(db) /\ issued \in Seq(JobIds)
  BY DEF RedisInv, Sound, Tokens
<1>1. CASE claim_found /\ UNCHANGED client
  <2>1. /\ Sound(db', {}) /\ Tokens'
        /\ Follows(db, db', DOMAIN issued) /\ DOMAIN issued \subseteq DOMAIN issued'
    BY <1>1, ClaimFoundKeeps
  <2>2. ASSUME NEW c \in Clients PROVE CallIsTrue(db', DOMAIN issued', client[c])
    <3> DEFINE tokens == DOMAIN issued
               more == DOMAIN issued'
               call == client[c]
    <3>1. CallIsTrue(db, tokens, call) /\ Follows(db, db', tokens) /\ tokens \subseteq more
      BY <2>1 DEF RedisInv, Calls
    <3> HIDE DEF tokens, more, call
    <3>2. CallIsTrue(db', more, call)
      BY <1>0, <2>1, <3>1, CallStays
    <3> QED
      BY <3>2 DEF more, call
  <2>3. Calls'
    BY <1>1, <2>2 DEF Calls, RedisInv
  <2> QED
    BY <2>1, <2>3 DEF RedisInv
<1> SUFFICES ASSUME ~(claim_found /\ UNCHANGED client)
             PROVE  Sound(db', {}) /\ Kept(db, db') /\ issued' = issued /\ client' = client
  BY <1>1, RunKeeps
<1>2. CASE ClaimOnce
  BY <1>2, ClaimEmptyKeeps DEF ClaimOnce
<1>3. CASE RenewLeases
  <2>1. PICK t \in DOMAIN issued : Run([db EXCEPT !.stalled = @ \ {issued[t]}])
    BY <1>3 DEF RenewLeases
  <2> DEFINE j == issued[t]
             b == [db EXCEPT !.stalled = @ \ {j}]
  <2>2. j \in JobIds /\ db' = b /\ issued' = issued /\ client' = client
    BY <1>0, <2>1 DEF Run
  <2> HIDE DEF j
  <2>3. Quiet(db, b)
    BY <1>0, <2>2, OtherKeysAreQuiet
  <2> HIDE DEF b
  <2> QED
    BY <1>0, <2>2, <2>3, QuietSound
<1>4. CASE DelayActive
  <2>1. PICK t \in DOMAIN issued :
            HoldsLock(db, issued[t], t) /\ Run(delay_active_script(db, issued[t]))
    BY <1>4 DEF DelayActive
  <2> DEFINE j == issued[t]
  <2>2. /\ j \in JobIds /\ Is(db, j, "active") /\ db' = delay_active_script(db, j)
        /\ issued' = issued /\ client' = client
    BY <2>1 DEF Run, HoldsLock, Exists, Is
  <2> HIDE DEF j
  <2> QED
    BY <1>0, <2>2, DelayActiveSound
<1>5. CASE ReleaseActive
  <2>1. PICK t \in DOMAIN issued :
            HoldsLock(db, issued[t], t) /\ Run(release_active_script(db, issued[t]))
    BY <1>5 DEF ReleaseActive
  <2> DEFINE j == issued[t]
  <2>2. /\ j \in JobIds /\ Is(db, j, "active") /\ db' = release_active_script(db, j)
        /\ issued' = issued /\ client' = client
    BY <2>1 DEF Run, HoldsLock, Exists, Is
  <2> HIDE DEF j
  <2> QED
    BY <1>0, <2>2, ReleaseActiveSound
<1>6. CASE RecoverStalled
  BY <1>0, <1>6, RecoverStalledSound DEF RecoverStalled, Run
<1> QED
  BY <1>2, <1>3, <1>4, <1>5, <1>6 DEF Lease

LEMMA ManageKeeps == ASSUME RedisInv, Manage PROVE RedisInv'
<1>0. Sound(db, {}) /\ Shape(db)
  BY DEF RedisInv, Sound
<1> SUFFICES Sound(db', {}) /\ Kept(db, db') /\ issued' = issued /\ client' = client
  BY RunKeeps
<1>1. CASE PromoteDueJobs
  <2> DEFINE quiet == FALSE
  <2>1. db' = promote_due(db, quiet) /\ issued' = issued /\ client' = client
    BY <1>1 DEF PromoteDueJobs, Run
  <2> HIDE DEF quiet
  <2> QED
    BY <1>0, <2>1, PromoteDueSound
<1>2. ASSUME NEW j \in db.delayed PROVE j \in JobIds /\ Is(db, j, "delayed")
  BY <1>0 DEF Sound, Shape, Fine
<1>3. CASE PromoteJob
  <2>1. PICK j \in db.delayed : Run(promote_job_script(db, j))
    BY <1>3 DEF PromoteJob
  <2> QED
    BY <1>0, <1>2, <2>1, PromoteJobSound DEF Run
<1>4. CASE RescheduleJob
  <2>1. PICK j \in db.delayed : Run(reschedule_job_script(db, j))
    BY <1>4 DEF RescheduleJob
  <2> QED
    BY <1>0, <1>2, <2>1, RescheduleSound DEF Run
<1>5. CASE RetryJob
  <2>1. PICK j \in ToSet(db.completed) \cup ToSet(db.failed) : Run(retry_job_script(db, j))
    BY <1>5 DEF RetryJob
  <2> QED
    BY <1>0, <2>1, RetryJobSound DEF Run
<1>6. CASE UpdatePriority
  <2>0. PICK j \in JobIds, order \in {<<s.options.priority, s.options.lifo>> : s \in Submissions} :
            Exists(db, j) /\ Run(update_priority_script(db, j, order[1], order[2]))
    BY <1>6 DEF UpdatePriority
  <2>1. PICK s \in Submissions :
            Exists(db, j) /\ Run(update_priority_script(db, j, s.options.priority, s.options.lifo))
    BY <2>0
  <2> DEFINE priority == s.options.priority
             lifo == s.options.lifo
  <2>2. s.options \in JobOptions
    BY RedisInputsAssumption DEF Submission
  <2>3. priority \in Nat /\ lifo \in BOOLEAN /\ db.jobs[j] # None
    BY <2>1, <2>2 DEF JobOptions, Exists
  <2>4. db' = update_priority_script(db, j, priority, lifo) /\ issued' = issued /\ client' = client
    BY <2>1 DEF Run
  <2> HIDE DEF priority, lifo
  <2> QED
    BY <1>0, <2>3, <2>4, UpdatePrioritySound
<1>7. CASE RemoveJob
  <2>1. PICK j \in JobIds : Run(remove_job_script(db, j))
    BY <1>7 DEF RemoveJob
  <2> QED
    BY <1>0, <2>1, RemoveJobScriptSound DEF Run
<1>8. CASE RemoveDeduplicationKey
  <2>1. PICK d \in DedupIds : Run([db EXCEPT !.dedup[d] = None, !.dedup_next[d] = None])
    BY <1>8 DEF RemoveDeduplicationKey
  <2> DEFINE b == [db EXCEPT !.dedup[d] = None, !.dedup_next[d] = None]
  <2>2. Quiet(db, b)
    BY <1>0 DEF Shape, Keys, Quiet
  <2>3. db' = b /\ issued' = issued /\ client' = client
    BY <2>1 DEF Run
  <2> HIDE DEF b
  <2> QED
    BY <1>0, <2>2, <2>3, QuietSound
<1>9. CASE CleanJobs
  <2>0. PICK k \in JobIds : \E victims \in SUBSET Cleanable(db, db.jobs[k].state) :
            Run(remove_candidates(db, {db.jobs[k].state}, victims))
    BY <1>9 DEF CleanJobs
  <2> DEFINE state == db.jobs[k].state
  <2>1. \E victims \in SUBSET Cleanable(db, state) : Run(remove_candidates(db, {state}, victims))
    BY <2>0
  <2> HIDE DEF state
  <2>2. PICK victims \in SUBSET Cleanable(db, state) :
            Run(remove_candidates(db, {state}, victims))
    BY <2>1
  <2>3. victims \subseteq JobIds /\ \A j \in victims : db.jobs[j] # None
    BY DEF Cleanable, Exists
  <2> DEFINE states == {state}
  <2>4. db' = remove_candidates(db, states, victims) /\ issued' = issued /\ client' = client
    BY <2>2 DEF Run
  <2> HIDE DEF states
  <2> QED
    BY <1>0, <2>3, <2>4, RemoveCandidatesSound
<1>10. CASE DrainJobs
  <2>1. PICK include_delayed \in BOOLEAN :
            Run(remove_candidates(db, IF include_delayed THEN {"delayed"} ELSE {},
                                  Drainable(db, include_delayed)))
    BY <1>10 DEF DrainJobs
  <2> DEFINE states == IF include_delayed THEN {"delayed"} ELSE {}
             victims == Drainable(db, include_delayed)
  <2>2. victims \subseteq JobIds /\ \A j \in victims : db.jobs[j] # None
    BY DEF Drainable, Exists
  <2>3. db' = remove_candidates(db, states, victims) /\ issued' = issued /\ client' = client
    BY <2>1 DEF Run
  <2> HIDE DEF states, victims
  <2> QED
    BY <1>0, <2>2, <2>3, RemoveCandidatesSound
<1>11. CASE Obliterate
  <2>1. PICK force \in BOOLEAN : Run(obliterate_script(db, force))
    BY <1>11 DEF Obliterate
  <2> QED
    BY <1>0, <2>1, ObliterateSound DEF Run
<1>12. CASE RemoveOrphanedJobs
  BY <1>0, <1>12, RemoveOrphansSound DEF RemoveOrphanedJobs, Run
<1>13. CASE RemoveUnprocessedChildren
  <2>1. PICK p \in JobIds : Exists(db, p) /\ Run(remove_unprocessed_script(db, p))
    BY <1>13 DEF RemoveUnprocessedChildren
  <2> QED
    BY <1>0, <2>1, RemoveUnprocessedSound DEF Run, Exists
<1>14. CASE RemoveChildDependency
  <2>1. PICK c \in JobIds : Exists(db, c) /\ Run(remove_child_dependency_script(db, c))
    BY <1>14 DEF RemoveChildDependency
  <2> QED
    BY <1>0, <2>1, RemoveChildDependencySound DEF Run, Exists
<1>15. CASE Pause
  <2> DEFINE b == [db EXCEPT !.paused = TRUE, !.marker = {}]
  <2>1. Quiet(db, b)
    BY <1>0 DEF Shape, Keys, Quiet
  <2>2. db' = b /\ issued' = issued /\ client' = client
    BY <1>15 DEF Pause, Run
  <2> HIDE DEF b
  <2> QED
    BY <1>0, <2>1, <2>2, QuietSound
<1>16. CASE Resume
  <2> DEFINE s1 == [db EXCEPT !.paused = FALSE]
             s2 == add_base_marker_if_waiting(s1)
             s3 == refresh_delay_marker(s2)
  <2>1. Quiet(db, s1)
    BY <1>0 DEF Shape, Keys, Quiet
  <2>2. db' = s3 /\ issued' = issued /\ client' = client
    BY <1>16 DEF Resume, Run
  <2> HIDE DEF s1
  <2>3. Shape(s1)
    BY <1>0, <2>1, QuietShape
  <2>4. Quiet(s1, s2)
    BY <2>3, MarkersAreQuiet
  <2> HIDE DEF s2
  <2>5. Shape(s2)
    BY <2>3, <2>4, QuietShape
  <2>6. Quiet(s2, s3)
    BY <2>5, MarkersAreQuiet
  <2> HIDE DEF s3
  <2>7. Quiet(db, s3)
    BY <2>1, <2>4, <2>6, QuietTransitive
  <2> QED
    BY <1>0, <2>2, <2>7, QuietSound
<1>17. CASE SetMaxActiveJobs
  <2>1. PICK n \in Limits : Run([db EXCEPT !.concurrency = n])
    BY <1>17 DEF SetMaxActiveJobs
  <2> DEFINE b == [db EXCEPT !.concurrency = n]
  <2>2. Quiet(db, b)
    BY <1>0 DEF Shape, Keys, Quiet
  <2>3. db' = b /\ issued' = issued /\ client' = client
    BY <2>1 DEF Run
  <2> HIDE DEF b
  <2> QED
    BY <1>0, <2>2, <2>3, QuietSound
<1> QED
  BY <1>1, <1>3, <1>4, <1>5, <1>6, <1>7, <1>8, <1>9, <1>10, <1>11, <1>12, <1>13, <1>14, <1>15,
     <1>16, <1>17 DEF Manage

LEMMA EnvironmentKeeps == ASSUME RedisInv, Environment PROVE RedisInv'
<1>0. Sound(db, {}) /\ Shape(db)
  BY DEF RedisInv, Sound
<1> SUFFICES Sound(db', {}) /\ Kept(db, db') /\ issued' = issued /\ client' = client
  BY RunKeeps
<1>1. CASE ExpireLock
  <2>1. PICK j \in JobIds : Run([db EXCEPT !.lock[j] = None])
    BY <1>1 DEF ExpireLock
  <2> QED
    BY <1>0, <2>1, ExpireLockSound DEF Run
<1>2. CASE ExpireDeduplication
  <2>1. PICK d \in DedupIds : Run([db EXCEPT !.dedup[d] = None])
    BY <1>2 DEF ExpireDeduplication
  <2> DEFINE b == [db EXCEPT !.dedup[d] = None]
  <2>2. Quiet(db, b)
    BY <1>0 DEF Shape, Keys, Quiet
  <2>3. db' = b /\ issued' = issued /\ client' = client
    BY <2>1 DEF Run
  <2> HIDE DEF b
  <2> QED
    BY <1>0, <2>2, <2>3, QuietSound
<1>3. CASE ExpireRateLimit
  <2> DEFINE b == [db EXCEPT !.claims = 0]
  <2>2. Quiet(db, b)
    BY <1>0 DEF Shape, Keys, Quiet
  <2>3. db' = b /\ issued' = issued /\ client' = client
    BY <1>3 DEF ExpireRateLimit, Run
  <2> HIDE DEF b
  <2> QED
    BY <1>0, <2>2, <2>3, QuietSound
<1>4. CASE BecomeDue
  <2>1. PICK j \in JobIds : Exists(db, j) /\ Run([db EXCEPT !.jobs[j].due = TRUE])
    BY <1>4 DEF BecomeDue
  <2>2. db.jobs[j] # None
    BY <2>1 DEF Exists
  <2> QED
    BY <1>0, <2>1, <2>2, BecomeDueSound DEF Run
<1> QED
  BY <1>1, <1>2, <1>3, <1>4 DEF Environment

\* A client that goes on with its call under another name.
LEMMA RenamedCall ==
    ASSUME NEW st, NEW tokens, NEW call, "op" \in DOMAIN call,
           NEW op \in {"check", "claim", "block", "clear_repeat"}
    PROVE  CallIsTrue(st, tokens, [call EXCEPT !.op = op])
<1> DEFINE new == [call EXCEPT !.op = op]
<1>1. "op" \in DOMAIN new /\ new.op = op
  OBVIOUS
<1> HIDE DEF new
<1>2. CallIsTrue(st, tokens, new)
  BY <1>1, OtherCall
<1> QED
  BY <1>2 DEF new

\* The steps of a client that claims.
LEMMA ClaimingKeeps ==
    ASSUME RedisInv, NEW c \in Clients,
           \/ StartClaim(c) \/ ClaimNext(c) \/ ClaimNothing(c) \/ CheckRateLimit(c)
           \/ PopMarker(c) \/ BlockTimesOut(c) \/ ClaimReturnsNone(c) \/ Abandon(c)
    PROVE  RedisInv'
<1> DEFINE tokens == DOMAIN issued
<1>0. /\ Sound(db, {}) /\ Shape(db) /\ DOMAIN client = Clients
      /\ \A k \in Clients : CallIsTrue(db, tokens, client[k])
  BY DEF RedisInv, Sound, Calls
<1>i. \A st, d : CallIsTrue(st, tokens, Idle) /\ CallIsTrue(st, tokens, Claiming(d))
  <2> HIDE DEF tokens
  <2> QED
    BY IdleCall
<1>o. "op" \in DOMAIN client[c]
  BY <1>0 DEF CallIsTrue
<1>1. CASE StartClaim(c)
  BY <1>1, <1>i, ReadsOnly DEF StartClaim, Call
<1>2. CASE ClaimNext(c)
  <2>1. /\ Sound(db', {}) /\ Tokens'
        /\ Follows(db, db', DOMAIN issued) /\ DOMAIN issued \subseteq DOMAIN issued'
    BY <1>2, ClaimFoundKeeps DEF ClaimNext
  <2>2. client' = [client EXCEPT ![c] = Idle]
    BY <1>2 DEF ClaimNext, Call
  <2>3. ASSUME NEW k \in Clients PROVE CallIsTrue(db', DOMAIN issued', client'[k])
    <3> DEFINE more == DOMAIN issued'
               call == client[k]
    <3>1. CASE k = c
      <4>1. client'[k] = Idle
        BY <1>0, <2>2, <3>1
      <4> HIDE DEF more
      <4>2. \A st : CallIsTrue(st, more, Idle)
        BY IdleCall
      <4> QED
        BY <4>1, <4>2 DEF more
    <3>2. CASE k # c
      <4>1. /\ CallIsTrue(db, tokens, call) /\ Follows(db, db', tokens) /\ tokens \subseteq more
            /\ client'[k] = call
        BY <1>0, <2>1, <2>2, <3>2
      <4> HIDE DEF tokens, more, call
      <4>2. CallIsTrue(db', more, call)
        BY <1>0, <2>1, <4>1, CallStays
      <4> QED
        BY <4>1, <4>2 DEF more
    <3> QED
      BY <3>1, <3>2
  <2>4. DOMAIN client' = Clients
    BY <1>0, <2>2
  <2>5. Calls'
    BY <2>3, <2>4 DEF Calls
  <2> QED
    BY <2>1, <2>5 DEF RedisInv
<1>3. CASE ClaimNothing(c)
  <2> DEFINE op == "check"
             call == [client[c] EXCEPT !.op = op]
  <2>1. Sound(db', {}) /\ Kept(db, db') /\ issued' = issued
    BY <1>3, ClaimEmptyKeeps DEF ClaimNothing
  <2>2. client' = [client EXCEPT ![c] = call] /\ op \in {"check", "claim", "block", "clear_repeat"}
    BY <1>3 DEF ClaimNothing, Call
  <2> HIDE DEF tokens, op
  <2>3. CallIsTrue(db', tokens, call)
    BY <1>o, <2>2, RenamedCall
  <2> HIDE DEF call
  <2> QED
    BY <2>1, <2>2, <2>3, CallKeeps DEF tokens
<1>4. CASE CheckRateLimit(c)
  <2> DEFINE op == IF rate_limited(db) THEN "claim" ELSE "block"
             call == [client[c] EXCEPT !.op = op]
  <2>1. db' = db /\ issued' = issued
    BY <1>4 DEF CheckRateLimit
  <2>2. client' = [client EXCEPT ![c] = call] /\ op \in {"check", "claim", "block", "clear_repeat"}
    BY <1>4 DEF CheckRateLimit, Call
  <2> HIDE DEF tokens, op
  <2>3. CallIsTrue(db, tokens, call)
    BY <1>o, <2>2, RenamedCall
  <2> HIDE DEF call
  <2> QED
    BY <2>1, <2>2, <2>3, ReadsOnly DEF tokens
<1>5. CASE PopMarker(c)
  <2> DEFINE member == IF "base" \in db.marker THEN "base" ELSE "delay"
             x == db.marker \ {member}
             b == [db EXCEPT !.marker = x]
             call == Claiming(member = "delay")
  <2>1. db' = b /\ issued' = issued /\ client' = [client EXCEPT ![c] = call]
    BY <1>5 DEF PopMarker, Call
  <2>2. CallIsTrue(b, tokens, call)
    BY <1>i
  <2> HIDE DEF x, call
  <2>3. Quiet(db, b)
    BY <1>0 DEF Shape, Keys, Quiet
  <2> HIDE DEF b
  <2>4. Sound(db', {}) /\ Kept(db, db')
    BY <1>0, <2>1, <2>3, QuietSound
  <2> QED
    BY <2>1, <2>2, <2>4, CallKeeps
<1>6. CASE BlockTimesOut(c)
  BY <1>6, <1>i, ReadsOnly DEF BlockTimesOut, Call
<1>7. CASE ClaimReturnsNone(c)
  BY <1>7, <1>i, ReadsOnly DEF ClaimReturnsNone, Call
<1>8. CASE Abandon(c)
  BY <1>8, <1>i, ReadsOnly DEF Abandon, Call
<1> QED
  BY <1>1, <1>2, <1>3, <1>4, <1>5, <1>6, <1>7, <1>8

\* The steps of a client that settles a job or removes a series.
LEMMA SettlingKeeps ==
    ASSUME RedisInv, NEW c \in Clients,
           \/ BeginComplete(c) \/ CompleteJob(c) \/ BeginFail(c) \/ FailJob(c)
           \/ RenewLease(c) \/ RenewReturns(c)
           \/ BeginRemoveRepeat(c) \/ RemoveRepeat(c) \/ ClearRepeatOwner(c)
    PROVE  RedisInv'
<1> DEFINE tokens == DOMAIN issued
<1>0. /\ Sound(db, {}) /\ Shape(db) /\ DOMAIN client = Clients
      /\ \A k \in Clients : CallIsTrue(db, tokens, client[k])
  BY DEF RedisInv, Sound, Calls
<1>i. \A st, d : CallIsTrue(st, tokens, Idle) /\ CallIsTrue(st, tokens, Claiming(d))
  <2> HIDE DEF tokens
  <2> QED
    BY IdleCall
<1>o. "op" \in DOMAIN client[c]
  BY <1>0 DEF CallIsTrue
<1>1. CASE BeginComplete(c)
  <2>1. PICK t \in DOMAIN issued :
            /\ Exists(db, issued[t])
            /\ Call(c, [op |-> "complete", job |-> issued[t], token |-> t,
                        seen |-> db.jobs[issued[t]]])
            /\ UNCHANGED <<db, issued>>
    BY <1>1 DEF BeginComplete
  <2> DEFINE call == [op |-> "complete", job |-> issued[t], token |-> t,
                      seen |-> db.jobs[issued[t]]]
  <2>2. db.jobs[issued[t]] \in Job
    BY <1>0, <2>1 DEF Exists, Shape
  <2>3. "op" \in DOMAIN call /\ call.op = "complete" /\ call.seen \in Job
    BY <2>2
  <2>4. client' = [client EXCEPT ![c] = call] /\ db' = db /\ issued' = issued
    BY <2>1 DEF Call
  <2> HIDE DEF call
  <2>5. CallIsTrue(db, DOMAIN issued, call)
    BY <2>3 DEF CallIsTrue
  <2> QED
    BY <2>4, <2>5, ReadsOnly
<1>2. CASE CompleteJob(c)
  <2> DEFINE j == client[c].job
  <2>1. issued' = issued /\ client' = [client EXCEPT ![c] = Idle] /\ client[c].seen \in Job
    BY <1>0, <1>2 DEF CompleteJob, Call, CallIsTrue
  <2>2. CASE HoldsLock(db, j, client[c].token) /\ can_complete(db, j)
    <3>1. PICK next \in NextRepeats(client[c].seen) : db' = complete_script(db, j, next)
      BY <1>2, <2>2 DEF CompleteJob
    <3>2. next # None => next \in Job /\ next.state \in {"waiting", "delayed"}
      BY <2>1, NextRepeatIsJob
    <3>3. j \in JobIds /\ Is(db, j, "active")
      BY <2>2 DEF HoldsLock, Exists, Is
    <3> HIDE DEF j
    <3>4. Sound(db', {}) /\ Kept(db, db')
      BY <1>0, <3>1, <3>2, <3>3, CompleteSound
    <3> QED
      BY <1>i, <2>1, <3>4, CallKeeps
  <2>3. CASE ~(HoldsLock(db, j, client[c].token) /\ can_complete(db, j))
    <3>1. db' = db
      BY <1>2, <2>3 DEF CompleteJob
    <3> QED
      BY <1>i, <2>1, <3>1, ReadsOnly
  <2> QED
    BY <2>2, <2>3
<1>3. CASE BeginFail(c)
  <2>1. PICK t \in DOMAIN issued, allow_retry \in BOOLEAN :
            /\ Call(c, [op |-> "fail", job |-> issued[t], token |-> t, allowed |-> allow_retry,
                        retry |-> allow_retry /\ should_retry(db.jobs[issued[t]])])
            /\ UNCHANGED <<db, issued>>
    BY <1>3 DEF BeginFail
  <2> DEFINE retry == (allow_retry /\ should_retry(db.jobs[issued[t]]))
             j == issued[t]
             call == [op |-> "fail", job |-> j, token |-> t, allowed |-> allow_retry,
                      retry |-> retry]
  <2>2. client' = [client EXCEPT ![c] = call] /\ db' = db /\ issued' = issued
    BY <2>1 DEF Call
  <2> HIDE DEF retry, j
  <2>3. /\ "op" \in DOMAIN call /\ call.op = "fail" /\ call.token = t /\ call.job = j
        /\ call.allowed = allow_retry /\ call.retry = retry
    OBVIOUS
  <2> HIDE DEF call
  <2>4. call.retry = (call.allowed /\ should_retry(db.jobs[call.job]))
    BY <2>3 DEF retry, j
  <2>5. CallIsTrue(db, DOMAIN issued, call)
    BY <2>3, <2>4 DEF CallIsTrue
  <2> QED
    BY <2>2, <2>5, ReadsOnly
<1>4. CASE FailJob(c)
  <2> DEFINE j == client[c].job
             retry == client[c].retry
  <2>1. issued' = issued /\ client' = [client EXCEPT ![c] = Idle]
    BY <1>4 DEF FailJob, Call
  <2>2. CASE HoldsLock(db, j, client[c].token)
    <3>1. db' = fail_script(db, j, retry)
      BY <1>4, <2>2 DEF FailJob
    <3>2. j \in JobIds /\ Is(db, j, "active")
      BY <2>2 DEF HoldsLock, Exists, Is
    <3> HIDE DEF j, retry
    <3>3. Sound(db', {}) /\ Kept(db, db')
      BY <1>0, <3>1, <3>2, FailSound
    <3> QED
      BY <1>i, <2>1, <3>3, CallKeeps
  <2>3. CASE ~HoldsLock(db, j, client[c].token)
    <3>1. db' = db
      BY <1>4, <2>3 DEF FailJob
    <3> QED
      BY <1>i, <2>1, <3>1, ReadsOnly
  <2> QED
    BY <2>2, <2>3
<1>5. CASE RenewLease(c)
  <2>1. PICK t \in DOMAIN issued :
            /\ Call(c, [op |-> "renewed", held |-> HoldsLock(db, issued[t], t),
                        result |-> renew_lease_script(db, MarkerKey, t)])
            /\ UNCHANGED <<db, issued>>
    BY <1>5 DEF RenewLease
  <2> DEFINE held == HoldsLock(db, issued[t], t)
             result == renew_lease_script(db, MarkerKey, t)
             call == [op |-> "renewed", held |-> held, result |-> result]
  <2>2. client' = [client EXCEPT ![c] = call] /\ db' = db /\ issued' = issued
    BY <2>1 DEF Call
  <2> HIDE DEF held, result
  <2>3. "op" \in DOMAIN call /\ call.op = "renewed"
    OBVIOUS
  <2> HIDE DEF call, tokens
  <2>4. CallIsTrue(db, tokens, call)
    BY <2>3, OtherCall
  <2> QED
    BY <2>2, <2>4, ReadsOnly DEF tokens
<1>6. CASE RenewReturns(c)
  BY <1>6, <1>i, ReadsOnly DEF RenewReturns, Call
<1>7. CASE BeginRemoveRepeat(c)
  <2>1. PICK k \in RepeatKeys : \E owner, by_metadata :
            /\ Call(c, [op |-> "remove_repeat", key |-> k, owner |-> owner,
                        by_metadata |-> by_metadata])
            /\ UNCHANGED <<db, issued>>
    BY <1>7 DEF BeginRemoveRepeat
  <2>2. PICK owner, by_metadata :
            /\ Call(c, [op |-> "remove_repeat", key |-> k, owner |-> owner,
                        by_metadata |-> by_metadata])
            /\ UNCHANGED <<db, issued>>
    BY <2>1
  <2> DEFINE call == [op |-> "remove_repeat", key |-> k, owner |-> owner,
                      by_metadata |-> by_metadata]
  <2>3. client' = [client EXCEPT ![c] = call] /\ db' = db /\ issued' = issued
    BY <2>2 DEF Call
  <2>4. "op" \in DOMAIN call /\ call.op = "remove_repeat"
    OBVIOUS
  <2> HIDE DEF call, tokens
  <2>5. CallIsTrue(db, tokens, call)
    BY <2>4, OtherCall
  <2> QED
    BY <2>3, <2>5, ReadsOnly DEF tokens
<1>8. CASE RemoveRepeat(c)
  <2> DEFINE j == client[c].owner
             op == "clear_repeat"
             call == [client[c] EXCEPT !.op = op]
  <2>1. /\ issued' = issued /\ db' \in {db, remove_job_script(db, j)}
        /\ client' \in {[client EXCEPT ![c] = call], [client EXCEPT ![c] = Idle]}
    BY <1>8 DEF RemoveRepeat, Call
  <2>2. op \in {"check", "claim", "block", "clear_repeat"}
    OBVIOUS
  <2> HIDE DEF j, op, tokens
  <2>3. \A st : CallIsTrue(st, tokens, call)
    BY <1>o, <2>2, RenamedCall
  <2> HIDE DEF call
  <2>4. Sound(db', {}) /\ Kept(db, db')
    BY <1>0, <2>1, RemoveJobScriptSound, KeptReflexive
  <2> QED
    BY <1>i, <2>1, <2>3, <2>4, CallKeeps DEF tokens
<1>9. CASE ClearRepeatOwner(c)
  <2> DEFINE k == client[c].key
             b1 == [db EXCEPT !.repeat_meta[k] = None]
             b2 == [db EXCEPT !.repeat[k] = None, !.repeat_meta[k] = None]
  <2>1. /\ issued' = issued /\ client' = [client EXCEPT ![c] = Idle]
        /\ db' \in {db, b1, b2}
    BY <1>9 DEF ClearRepeatOwner, Call
  <2> HIDE DEF k
  <2>2. Quiet(db, b1) /\ Quiet(db, b2)
    BY <1>0 DEF Shape, Keys, Quiet
  <2> HIDE DEF b1, b2
  <2>3. Sound(db', {}) /\ Kept(db, db')
    BY <1>0, <2>1, <2>2, QuietSound, KeptReflexive
  <2> QED
    BY <1>i, <2>1, <2>3, CallKeeps
<1> QED
  BY <1>1, <1>2, <1>3, <1>4, <1>5, <1>6, <1>7, <1>8, <1>9

LEMMA RedisInvInit == Init => RedisInv
<1> SUFFICES ASSUME Init PROVE RedisInv
  OBVIOUS
<1>1. Sound(db, {})
  BY EmptyDbSound DEF Init
<1>2. Tokens
  BY DEF Init, Tokens, EmptyDb
<1>3. Calls
  <2> DEFINE tokens == DOMAIN issued
  <2> HIDE DEF tokens
  <2>1. \A st : CallIsTrue(st, tokens, Idle)
    BY IdleCall
  <2> QED
    BY <2>1 DEF Init, Calls, tokens
<1> QED
  BY <1>1, <1>2, <1>3 DEF RedisInv

LEMMA RedisInvNext == RedisInv /\ [Next]_vars => RedisInv'
<1> SUFFICES ASSUME RedisInv, [Next]_vars PROVE RedisInv'
  OBVIOUS
<1>1. CASE UNCHANGED vars
  BY <1>1 DEF vars, RedisInv, Tokens, Calls
<1>2. ASSUME NEW c \in Clients, ClientStep(c) PROVE RedisInv'
  BY <1>2, ClaimingKeeps, SettlingKeeps DEF ClientStep
<1>3. CASE Submit
  BY <1>3, SubmitKeeps
<1>4. CASE Lease
  BY <1>4, LeaseKeeps
<1>5. CASE Manage
  BY <1>5, ManageKeeps
<1>6. CASE Environment
  BY <1>6, EnvironmentKeeps
<1> QED
  BY <1>1, <1>2, <1>3, <1>4, <1>5, <1>6 DEF Next

\* The inductive invariant holds in every state of every behaviour of the Redis queue.
THEOREM RedisInvHolds == Spec => []RedisInv
<1>1. Init => RedisInv
  BY RedisInvInit
<1>2. RedisInv /\ [Next]_vars => RedisInv'
  BY RedisInvNext
<1> QED
  BY <1>1, <1>2, PTL DEF Spec

\* Whichever scripts run in whatever order, for every set of jobs, flows, batches and clients:
\* a record is in the sorted set of its state and in no other, and no set names a job that has
\* no record.
THEOREM IndexTheorem == Spec => []IndexAgreesWithState
<1>1. RedisInv => IndexAgreesWithState
  <2> SUFFICES ASSUME RedisInv, NEW j \in JobIds
               PROVE  Indexed(j) = IF Exists(db, j) THEN {db.jobs[j].state} ELSE {}
    BY DEF IndexAgreesWithState
  <2>1. Fine(db, j) /\ (db.jobs[j] # None => db.jobs[j] \in Job)
    BY DEF RedisInv, Sound, Shape
  <2>2. db.jobs[j] # None => db.jobs[j].state \in JobState
    BY <2>1 DEF Job
  <2>3. WaitingIds(db) = EntryIds(db.waiting)
    BY WaitingIdsAreEntryIds
  <2>4. \A s \in JobState : s \in Indexed(j) <=> db.jobs[j] # None /\ db.jobs[j].state = s
    BY <2>1, <2>3 DEF Indexed, Fine, Is, JobState, Terminal
  <2>5. Indexed(j) \subseteq JobState
    BY DEF Indexed
  <2> QED
    BY <2>2, <2>4, <2>5 DEF Exists
<1> QED
  BY <1>1, RedisInvHolds, PTL

\* No script, recovery, removal or expiry leaves a lock behind on a job that is not active, and
\* no two jobs are held under one token.
THEOREM LockTheorem == Spec => []LockMeansActive
<1>1. RedisInv => LockMeansActive
  BY DEF RedisInv, LockMeansActive, Tokens, Sound, Fine, Is, Exists
<1> QED
  BY <1>1, RedisInvHolds, PTL

\* The retry that fail_job decided on from the job it read one round trip earlier is the one
\* that the current record calls for, whenever its script takes effect.
THEOREM RetryDecisionTheorem == Spec => []RetryDecisionIsCurrent
<1>1. RedisInv => RetryDecisionIsCurrent
  BY DEF RedisInv, RetryDecisionIsCurrent, Calls, CallIsTrue
<1> QED
  BY <1>1, RedisInvHolds, PTL

-----------------------------------------------------------------------------
(***************************************************************************)
(* Wake-ups.  A script that leaves the limits of the queue alone either    *)
(* sets the base marker, or takes none away and adds nothing to an empty   *)
(* waiting set.                                                            *)
(***************************************************************************)
Wired(st) ==
    /\ DOMAIN st = Keys
    /\ DOMAIN st.dedup_next = DedupIds
    /\ \A d \in DedupIds : st.dedup_next[d] # None => Len(st.dedup_next[d].children) \in Nat

Steady(a, b) ==
    Wired(a) => Wired(b) /\ b.paused = a.paused /\ b.concurrency = a.concurrency

Wakes(a, b) ==
    /\ Steady(a, b)
    /\ Wired(a) => \/ "base" \in b.marker
                   \/ /\ "base" \in a.marker => "base" \in b.marker
                      /\ a.waiting = <<>> => b.waiting = <<>>

LEMMA ShapeWired == ASSUME NEW st, Shape(st) PROVE Wired(st)
<1>1. \A d \in DedupIds : st.dedup_next[d] # None => st.dedup_next[d].children \in Seq(Job)
  BY DEF Shape, Proper, Parked
<1> QED
  BY <1>1 DEF Shape, Wired

LEMMA WakesReflexive == ASSUME NEW a PROVE Wakes(a, a)
  BY DEF Wakes, Steady

LEMMA WakesTransitive ==
    ASSUME NEW a, NEW b, NEW c, Wakes(a, b), Wakes(b, c) PROVE Wakes(a, c)
  BY DEF Wakes, Steady

LEMMA KeepNone == ASSUME NEW K PROVE KeepOnly(<<>>, K) = <<>>
<1> DEFINE none == <<>>
           S == {}
<1>1. none \in Seq(S)
  OBVIOUS
<1> HIDE DEF S
<1>2. KeepOnly(none, K) \in Seq(S)
  BY <1>1, KeepOnlyElements
<1> QED
  BY <1>2 DEF S

-----------------------------------------------------------------------------
LEMMA MarkersWake ==
    ASSUME NEW st
    PROVE  /\ Wakes(st, add_base_marker(st)) /\ Wakes(st, add_base_marker_if_waiting(st))
           /\ Wakes(st, refresh_delay_marker(st))
  BY DEF Wakes, Steady, Wired, Keys, add_base_marker, add_base_marker_if_waiting,
         refresh_delay_marker

\* What decides on wake-ups is the same.
LEMMA OtherKeysWake ==
    ASSUME NEW st, NEW x, NEW y
    PROVE  /\ Wakes(st, [st EXCEPT !.jobs = x]) /\ Wakes(st, [st EXCEPT !.deps = x])
           /\ Wakes(st, [st EXCEPT !.delayed = x]) /\ Wakes(st, [st EXCEPT !.active = x])
           /\ Wakes(st, [st EXCEPT !.stalled = x]) /\ Wakes(st, [st EXCEPT !.claims = x])
           /\ Wakes(st, [st EXCEPT !.lock = x]) /\ Wakes(st, [st EXCEPT !.waiting_children = x])
           /\ Wakes(st, [st EXCEPT !.repeat = x]) /\ Wakes(st, [st EXCEPT !.repeat_meta = x])
           /\ Wakes(st, [st EXCEPT !.dedup = x])
           /\ Wakes(st, [st EXCEPT !.completed = x]) /\ Wakes(st, [st EXCEPT !.failed = x])
  BY DEF Wakes, Steady, Wired, Keys

\* The waiting set loses entries only.
LEMMA FewerWaitingWake ==
    ASSUME NEW st, NEW K
    PROVE  Wakes(st, [st EXCEPT !.waiting = KeepOnly(@, K)])
  BY KeepNone DEF Wakes, Steady, Wired, Keys

LEMMA EnqueueWakes ==
    ASSUME NEW st, NEW job
    PROVE  /\ Wakes(st, enqueue_waiting_job(st, job)) /\ Wakes(st, enqueue_delayed(st, job))
           /\ Wakes(st, enqueue_prepared_job(st, job))
<1>1. Wakes(st, enqueue_waiting_job(st, job))
  BY DEF Wakes, Steady, Wired, Keys, enqueue_waiting_job, add_base_marker
<1>2. Wakes(st, enqueue_delayed(st, job))
  BY DEF Wakes, Steady, Wired, Keys, enqueue_delayed, refresh_delay_marker
<1>3. Wakes(st, [st EXCEPT !.jobs[job.id] = job, !.waiting_children = @ \cup {job.id}])
  BY DEF Wakes, Steady, Wired, Keys
<1> QED
  BY <1>1, <1>2, <1>3 DEF enqueue_prepared_job

LEMMA DedupKeysWake ==
    ASSUME NEW st, NEW job, NEW d
    PROVE  /\ Wakes(st, set_deduplication_key(st, job))
           /\ Wakes(st, release_deduplication_key(st, job))
           /\ Wakes(st, release_deduplication_key_on_finalization(st, job))
           /\ Wakes(st, prune_deduplication_key(st, d))
           /\ Wakes(st, extend_deduplicated_owner(st, job))
           /\ Wakes(st, set_replaced_deduplication_key(st, job))
<1>1. Wakes(st, set_deduplication_key(st, job))
  BY DEF Wakes, Steady, Wired, Keys, set_deduplication_key
<1>2. Wakes(st, release_deduplication_key(st, job))
  BY DEF Wakes, Steady, Wired, Keys, release_deduplication_key
<1>3. Wakes(st, release_deduplication_key_on_finalization(st, job))
  BY DEF Wakes, Steady, Wired, Keys, release_deduplication_key_on_finalization
<1>4. Wakes(st, prune_deduplication_key(st, d))
  BY DEF Wakes, Steady, Wired, Keys, prune_deduplication_key
<1>5. Wakes(st, extend_deduplicated_owner(st, job))
  BY DEF Wakes, Steady, Wired, Keys, extend_deduplicated_owner
<1>6. Wakes(st, set_replaced_deduplication_key(st, job))
  BY <1>1 DEF Wakes, Steady, Wired, Keys, set_replaced_deduplication_key
<1> QED
  BY <1>1, <1>2, <1>3, <1>4, <1>5, <1>6

LEMMA ParkWakes ==
    ASSUME NEW st, NEW d, NEW payload, Len(payload.children) \in Nat
    PROVE  Wakes(st, park(st, d, payload))
  BY DEF Wakes, Steady, Wired, Keys, park

LEMMA RemovedOwnersWake ==
    ASSUME NEW st, NEW before PROVE Wakes(st, release_removed_owners(before, st))
  BY DEF Wakes, Steady, Wired, Keys, release_removed_owners

LEMMA ForgetParkedWakes ==
    ASSUME NEW st, NEW d PROVE Wakes(st, [st EXCEPT !.dedup_next[d] = None])
  BY DEF Wakes, Steady, Wired, Keys

LEMMA RepeatKeysWake ==
    ASSUME NEW st, NEW job, NEW k, NEW j
    PROVE  /\ Wakes(st, SetRepeat(st, k, j)) /\ Wakes(st, set_repeat_key(st, job))
           /\ Wakes(st, release_repeat_key(st, job)) /\ Wakes(st, sync_repeat_scheduler(st, job))
           /\ Wakes(st, prune_repeat_keys(st, k)) /\ Wakes(st, restore_repeat_key(st, job))
<1>1. \A kk, jj : Wakes(st, SetRepeat(st, kk, jj))
  BY DEF Wakes, Steady, Wired, Keys, SetRepeat
<1>2. Wakes(st, set_repeat_key(st, job))
  BY <1>1, WakesReflexive DEF set_repeat_key
<1>3. Wakes(st, release_repeat_key(st, job))
  BY DEF Wakes, Steady, Wired, Keys, release_repeat_key
<1>4. Wakes(st, sync_repeat_scheduler(st, job))
  BY <1>1, WakesReflexive DEF sync_repeat_scheduler
<1>5. Wakes(st, prune_repeat_keys(st, k))
  BY DEF Wakes, Steady, Wired, Keys, prune_repeat_keys
<1>6. Wakes(st, restore_repeat_key(st, job))
  BY DEF Wakes, Steady, Wired, Keys, restore_repeat_key
<1> QED
  BY <1>1, <1>2, <1>3, <1>4, <1>5, <1>6

\* Finished jobs.
LEMMA FinishWakes ==
    ASSUME NEW st, NEW job, NEW gone
    PROVE  /\ Wakes(st, remove_finished_jobs(st, gone))
           /\ Wakes(st, finish_completed(st, job)) /\ Wakes(st, finish_failed(st, job))
<1>1. \A a, S : Wakes(a, remove_finished_jobs(a, S))
  BY DEF Wakes, Steady, Wired, Keys, remove_finished_jobs
<1>2. \A a, keep : Wakes(a, prune_completed(a, keep)) /\ Wakes(a, prune_failed(a, keep))
  BY <1>1, OtherKeysWake, WakesTransitive DEF prune_completed, prune_failed
<1>3. \A x : /\ Wakes(st, [st EXCEPT !.jobs[job.id] = job, !.completed = x])
             /\ Wakes(st, [st EXCEPT !.jobs[job.id] = job, !.failed = x])
  BY DEF Wakes, Steady, Wired, Keys
<1>4. Wakes(st, finish_completed(st, job))
  BY <1>1, <1>2, <1>3, WakesTransitive DEF finish_completed
<1>5. Wakes(st, finish_failed(st, job))
  BY <1>1, <1>2, <1>3, WakesTransitive DEF finish_failed
<1> QED
  BY <1>1, <1>4, <1>5

\* Parents.
LEMMA ReleaseParentWakes ==
    ASSUME NEW st, NEW p, NEW deferred
    PROVE  /\ Wakes(st, release_parent(st, p, deferred))
           /\ Wakes(st, release_parent_when_done(st, p))
<1>1. ASSUME NEW a, NEW x PROVE Wakes(a, release_parent(a, p, x))
  BY OtherKeysWake, EnqueueWakes, WakesTransitive DEF release_parent
<1>2. Wakes(st, [st EXCEPT !.deps[p].pending = {}])
  BY DEF Wakes, Steady, Wired, Keys
<1>3. Wakes(st, release_parent_when_done(st, p))
  BY <1>1, <1>2, WakesTransitive DEF release_parent_when_done
<1> QED
  BY <1>1, <1>3

LEMMA FailParentWakes ==
    ASSUME NEW st, NEW p
    PROVE  Wakes(st, fail_parent(st, p)) /\ Wakes(st, fail_parent_after_removal(st, p))
<1>1. Wakes(st, leave_waiting_children(st, p))
  BY DEF Wakes, Steady, Wired, Keys, leave_waiting_children
<1> QED
  BY <1>1, DedupKeysWake, RepeatKeysWake, FinishWakes, RemovedOwnersWake, WakesTransitive
     DEF fail_parent, fail_parent_after_removal

LEMMA ScanWakes ==
    ASSUME NEW st, NEW p, NEW job
    PROVE  Wakes(st, scan_children(st, p, job)) /\ Wakes(st, scan_remaining_children(st, p))
  BY ReleaseParentWakes, FailParentWakes, WakesReflexive DEF scan_children, scan_remaining_children

LEMMA ChildCompletedWakes ==
    ASSUME NEW st, NEW job PROVE Wakes(st, child_completed(st, job))
<1> DEFINE p == job.parent_id
           s0 == [st EXCEPT !.deps[p].pending = @ \ {job.id}, !.deps[p].processed = @ \cup {job.id}]
           s1 == IF job.id \in st.deps[p].pending THEN s0 ELSE st
<1>1. Wakes(st, s0)
  BY DEF Wakes, Steady, Wired, Keys
<1>2. Wakes(st, s1)
  BY <1>1, WakesReflexive
<1>3. child_completed(st, job) \in {st, s1, scan_children(s1, p, job), release_parent_when_done(s1, p)}
  BY DEF child_completed
<1> HIDE DEF s1, p
<1> QED
  BY <1>2, <1>3, ScanWakes, ReleaseParentWakes, WakesReflexive, WakesTransitive

LEMMA RecordFailedWakes ==
    ASSUME NEW st, NEW p, NEW job PROVE Wakes(st, record_failed_child(st, p, job))
  BY DEF Wakes, Steady, Wired, Keys, record_failed_child

LEMMA ChildFailedWakes ==
    ASSUME NEW st, NEW job, job.options.on_failure \in ChildFailure
    PROVE  Wakes(st, child_failed(st, job))
<1>1. ASSUME NEW a, NEW p PROVE Wakes(a, parent_after_child_failure(a, p, job))
  <2> DEFINE s2 == record_failed_child(a, p, job)
  <2>1. Wakes(a, s2)
    BY RecordFailedWakes
  <2>2. parent_after_child_failure(a, p, job) \in
            {fail_parent(a, p), release_parent(s2, p, TRUE), release_parent(s2, p, FALSE),
             scan_children(a, p, job), s2, release_parent_when_done(s2, p)}
    BY DEF parent_after_child_failure, ChildFailure
  <2> HIDE DEF s2
  <2>3. /\ Wakes(a, fail_parent(a, p)) /\ Wakes(a, scan_children(a, p, job))
        /\ \A x : Wakes(s2, release_parent(s2, p, x)) /\ Wakes(s2, release_parent_when_done(s2, p))
    BY FailParentWakes, ReleaseParentWakes, ScanWakes
  <2>4. \A x : Wakes(a, release_parent(s2, p, x)) /\ Wakes(a, release_parent_when_done(s2, p))
    BY <2>1, <2>3, WakesTransitive
  <2> QED
    BY <2>1, <2>2, <2>3, <2>4
<1> DEFINE p == job.parent_id
           s1 == IF job.options.on_failure # "fail" /\ job.id \in st.deps[p].pending
                 THEN record_failed_child(st, p, job) ELSE st
<1>2. Wakes(st, s1)
  BY RecordFailedWakes, WakesReflexive
<1>3. child_failed(st, job) \in {st, s1, parent_after_child_failure(s1, p, job)}
  BY DEF child_failed
<1> HIDE DEF s1, p
<1> QED
  BY <1>1, <1>2, <1>3, WakesReflexive, WakesTransitive

\* Removal.
LEMMA RemoveRecordWakes ==
    ASSUME NEW st, NEW job PROVE Wakes(st, remove_job_record(st, job))
<1> DEFINE s0 == release_deduplication_key(st, job)
           s1 == release_repeat_key(s0, job)
           s2 == [s1 EXCEPT !.lock[job.id] = None, !.stalled = @ \ {job.id},
                            !.waiting = RemoveWaiting(@, job.id), !.delayed = @ \ {job.id},
                            !.active = @ \ {job.id}, !.waiting_children = @ \ {job.id},
                            !.completed = RemoveFrom(@, job.id), !.failed = RemoveFrom(@, job.id),
                            !.jobs[job.id] = None]
           s3 == remove_dependency_keys(s2, job.id)
<1>1. Wakes(st, s0) /\ Wakes(s0, s1)
  BY DedupKeysWake, RepeatKeysWake
<1>2. remove_job_record(st, job) = s3
  BY DEF remove_job_record
<1> HIDE DEF s0, s1
<1>3. Wakes(s1, s2)
  BY KeepNone DEF Wakes, Steady, Wired, Keys, RemoveWaiting
<1> HIDE DEF s2
<1>4. Wakes(s2, s3)
  BY DEF Wakes, Steady, Wired, Keys, remove_dependency_keys
<1> QED
  BY <1>1, <1>2, <1>3, <1>4, WakesTransitive

LEMMA RemoveWithDependencyWakes ==
    ASSUME NEW st, NEW job PROVE Wakes(st, remove_with_dependency(st, job))
<1> DEFINE p == job.parent_id
           a == remove_job_record(st, job)
           s1 == [a EXCEPT !.deps[p].pending = @ \ {job.id}]
<1>1. remove_with_dependency(st, job) \in
          {a, s1, scan_remaining_children(a, p), release_parent_when_done(s1, p)}
  BY DEF remove_with_dependency, release_parent_after_removed_child
<1>2. Wakes(st, a)
  BY RemoveRecordWakes
<1> HIDE DEF a, p
<1>3. Wakes(a, s1)
  BY DEF Wakes, Steady, Wired, Keys
<1> HIDE DEF s1
<1>4. Wakes(a, scan_remaining_children(a, p)) /\ Wakes(s1, release_parent_when_done(s1, p))
  BY ScanWakes, ReleaseParentWakes
<1> QED
  BY <1>1, <1>2, <1>3, <1>4, WakesTransitive

\* Loops.
LEMMA LoopWakes ==
    ASSUME NEW N \in Nat, NEW F, \A n \in 0 .. N - 1 : Wakes(F[n], F[n + 1])
    PROVE  Wakes(F[0], F[N])
<1> DEFINE Goods == {n \in 0 .. N : Wakes(F[0], F[n])}
<1>1. 0 \in Goods
  BY WakesReflexive
<1>2. ASSUME NEW n \in 0 .. N - 1, n \in Goods PROVE n + 1 \in Goods
  BY <1>2, WakesTransitive
<1> HIDE DEF Goods
<1>3. \A n \in 0 .. N : n \in Goods
  BY <1>1, <1>2, Climb
<1> QED
  BY <1>3 DEF Goods

\* The duplicate parked behind an owner.
LEMMA ParkedChildrenWake ==
    ASSUME NEW st, NEW p, NEW s, Len(s) \in Nat
    PROVE  Wakes(st, enqueue_parked_children(st, p, s))
<1> DEFINE N == Len(s)
<1>1. PICK F : ParkedRun(F, st, s, p)
  BY ParkedRunExists
<1>2. /\ F[0] = st /\ enqueue_parked_children(st, p, s) = F[N]
      /\ \A n \in 0 .. N - 1 : F[n + 1] = enqueue_parked_child(F[n], p, s[n + 1])
  BY <1>1 DEF ParkedRun
<1>3. ASSUME NEW a, NEW child PROVE Wakes(a, enqueue_parked_child(a, p, child))
  <2>1. \A x : Wakes(a, [a EXCEPT !.deps[p].pending = @ \cup x])
    BY DEF Wakes, Steady, Wired, Keys
  <2> QED
    BY <2>1, DedupKeysWake, EnqueueWakes, WakesTransitive DEF enqueue_parked_child
<1> HIDE DEF N
<1>4. Wakes(F[0], F[N])
  BY <1>2, <1>3, LoopWakes DEF N
<1> QED
  BY <1>2, <1>4

LEMMA NextFlowWakes ==
    ASSUME NEW st, NEW d, NEW parked, Len(parked.children) \in Nat
    PROVE  Wakes(st, enqueue_deduplicated_next_flow(st, d, parked))
<1> DEFINE s == parked.children
           ids == [i \in DOMAIN s |-> s[i].id]
           parent == [prepare_deduplicated_next_job(parked.job) EXCEPT
                         !.parent_id = None, !.child_ids = ids, !.state = "waiting_children"]
           s0 == set_deduplication_key(st, parent)
           s1 == enqueue_prepared_job(s0, parent)
           s2 == [s1 EXCEPT !.deps[parent.id].pending = {}]
           s3 == enqueue_parked_children(s2, parent.id, s)
           s4 == IF \E j \in {parked.job.id} \cup ToSet(ids) : Exists(st, j) THEN st ELSE s3
<1>1. enqueue_deduplicated_next_flow(st, d, parked) = [s4 EXCEPT !.dedup_next[d] = None]
  BY DEF enqueue_deduplicated_next_flow
<1>2. s4 \in {st, s3} /\ Len(s) \in Nat
  OBVIOUS
<1> HIDE DEF parent, s
<1>3. Wakes(st, s0) /\ Wakes(s0, s1)
  BY DedupKeysWake, EnqueueWakes
<1> HIDE DEF s0, s1
<1>4. Wakes(s1, s2)
  BY DEF Wakes, Steady, Wired, Keys
<1> HIDE DEF s2
<1>5. Wakes(s2, s3)
  BY <1>2, ParkedChildrenWake
<1> HIDE DEF s3, s4
<1>6. Wakes(st, s4)
  BY <1>2, <1>3, <1>4, <1>5, WakesReflexive, WakesTransitive
<1>7. Wakes(s4, [s4 EXCEPT !.dedup_next[d] = None])
  BY ForgetParkedWakes
<1> QED
  BY <1>1, <1>6, <1>7, WakesTransitive

LEMMA NextJobWakes ==
    ASSUME NEW st, NEW d, NEW owner, NEW next
    PROVE  Wakes(st, enqueue_deduplicated_next_job(st, d, owner, next))
<1> DEFINE count == repeat_keep_last_next_count(owner, next)
           job == [prepare_deduplicated_next_job(next) EXCEPT !.repeat_count = count]
           s0 == set_deduplication_key(st, job)
           s1 == set_repeat_key(s0, job)
           s2 == enqueue_prepared_job(s1, job)
           s3 == adopt_parked_job(s2, job)
           s4 == IF Exists(st, next.id) \/ count = None THEN st ELSE s3
<1>1. enqueue_deduplicated_next_job(st, d, owner, next) = [s4 EXCEPT !.dedup_next[d] = None]
  BY DEF enqueue_deduplicated_next_job
<1>2. s4 \in {st, s3}
  OBVIOUS
<1> HIDE DEF job
<1>3. Wakes(st, s0) /\ Wakes(s0, s1) /\ Wakes(s1, s2)
  BY DedupKeysWake, RepeatKeysWake, EnqueueWakes
<1> HIDE DEF s0, s1, s2
<1>4. Wakes(s2, s3)
  BY DEF Wakes, Steady, Wired, Keys, adopt_parked_job
<1> HIDE DEF s3, s4
<1>5. Wakes(st, s4)
  BY <1>2, <1>3, <1>4, WakesReflexive, WakesTransitive
<1>6. Wakes(s4, [s4 EXCEPT !.dedup_next[d] = None])
  BY ForgetParkedWakes
<1> QED
  BY <1>1, <1>5, <1>6, WakesTransitive

LEMMA EnqueueNextWakes ==
    ASSUME NEW st, NEW owner, deduplication_id(owner) \in DedupIds \cup {None}
    PROVE  Wakes(st, enqueue_deduplicated_next(st, owner))
<1> DEFINE d == deduplication_id(owner)
<1>1. CASE Wired(st)
  <2>1. d # None /\ st.dedup_next[d] # None => Len(st.dedup_next[d].children) \in Nat
    BY <1>1 DEF Wired
  <2> QED
    BY <2>1, NextFlowWakes, NextJobWakes, WakesReflexive DEF enqueue_deduplicated_next
<1>2. CASE ~Wired(st)
  BY <1>2 DEF Wakes, Steady
<1> QED
  BY <1>1, <1>2

LEMMA OwnerIds ==
    ASSUME NEW job \in Job
    PROVE  /\ deduplication_id(job) \in DedupIds \cup {None}
           /\ job.options.on_failure \in ChildFailure
  BY DEF Job, JobOptions, DeduplicationOptions, deduplication_id

-----------------------------------------------------------------------------
\* Settling a lease.
LEMMA UnlockWakes == ASSUME NEW st, NEW j PROVE Wakes(st, unlock(st, j))
  BY DEF Wakes, Steady, Wired, Keys, unlock

LEMMA CompleteWakes ==
    ASSUME NEW st, NEW j, st.jobs[j] \in Job, NEW next
    PROVE  Wakes(st, complete_script(st, j, next))
<1> DEFINE job == [st.jobs[j] EXCEPT !.state = "completed", !.deferred_failure = FALSE]
           s0 == unlock(st, j)
           s1 == release_deduplication_key_on_finalization(s0, job)
           s2 == enqueue_deduplicated_next(s1, job)
           s3 == finish_completed(s2, job)
           s4 == child_completed(s3, job)
           s5 == IF enqueued_deduplicated_next(s1, s2) THEN s4 ELSE enqueue_repeat_next(s4, next)
           s6 == release_repeat_key(s5, job)
<1>1. complete_script(st, j, next) = add_base_marker_if_waiting(s6)
  BY DEF complete_script
<1>2. deduplication_id(job) \in DedupIds \cup {None}
  <2>1. job.options = st.jobs[j].options
    BY DEF Job
  <2> QED
    BY <2>1, OwnerIds DEF deduplication_id
<1> HIDE DEF job
<1>3. Wakes(st, s0) /\ Wakes(s0, s1)
  BY UnlockWakes, DedupKeysWake
<1> HIDE DEF s0, s1
<1>4. Wakes(s1, s2)
  BY <1>2, EnqueueNextWakes
<1> HIDE DEF s2
<1>5. Wakes(s2, s3) /\ Wakes(s3, s4)
  BY FinishWakes, ChildCompletedWakes
<1> HIDE DEF s3, s4
<1>6. Wakes(s4, enqueue_repeat_next(s4, next))
  BY DedupKeysWake, RepeatKeysWake, EnqueueWakes, WakesReflexive, WakesTransitive
     DEF enqueue_repeat_next
<1>7. Wakes(s4, s5)
  BY <1>6, WakesReflexive
<1> HIDE DEF s5
<1>8. Wakes(s5, s6) /\ Wakes(s6, add_base_marker_if_waiting(s6))
  BY RepeatKeysWake, MarkersWake
<1> HIDE DEF s6
<1>9. Wakes(st, s3)
  BY <1>3, <1>4, <1>5, WakesTransitive
<1>10. Wakes(s3, s6)
  BY <1>5, <1>7, <1>8, WakesTransitive
<1> QED
  BY <1>1, <1>8, <1>9, <1>10, WakesTransitive

LEMMA FailTerminallyWakes ==
    ASSUME NEW st, NEW job, deduplication_id(job) \in DedupIds \cup {None},
           job.options.on_failure \in ChildFailure
    PROVE  Wakes(st, fail_terminally(st, job))
<1> DEFINE s1 == release_deduplication_key_on_finalization(st, job)
           s2 == release_repeat_key(s1, job)
           s3 == enqueue_deduplicated_next(s2, job)
           s4 == finish_failed(s3, job)
           s5 == child_failed(s4, job)
<1>1. fail_terminally(st, job) = s5
  BY DEF fail_terminally
<1>2. Wakes(st, s1) /\ Wakes(s1, s2)
  BY DedupKeysWake, RepeatKeysWake
<1> HIDE DEF s1, s2
<1>3. Wakes(s2, s3)
  BY EnqueueNextWakes
<1> HIDE DEF s3
<1>4. Wakes(s3, s4) /\ Wakes(s4, s5)
  BY FinishWakes, ChildFailedWakes
<1> HIDE DEF s4, s5
<1> QED
  BY <1>1, <1>2, <1>3, <1>4, WakesTransitive

LEMMA DelayWakes ==
    ASSUME NEW st, NEW j
    PROVE  Wakes(st, retry_later(st, j)) /\ Wakes(st, delay_active_script(st, j))
  BY UnlockWakes, EnqueueWakes, MarkersWake, RepeatKeysWake, WakesTransitive
     DEF retry_later, delay_active_script

LEMMA FailWakes ==
    ASSUME NEW st, NEW j, st.jobs[j] \in Job, NEW retry
    PROVE  Wakes(st, fail_script(st, j, retry))
<1> DEFINE job == [st.jobs[j] EXCEPT !.state = "failed", !.deferred_failure = FALSE]
           s0 == unlock(st, j)
           s1 == fail_terminally(s0, job)
           s2 == add_base_marker_if_waiting(s1)
<1>1. fail_script(st, j, retry) \in {retry_later(st, j), s2}
  BY DEF fail_script
<1>2. deduplication_id(job) \in DedupIds \cup {None} /\ job.options.on_failure \in ChildFailure
  <2>1. job.options = st.jobs[j].options
    BY DEF Job
  <2> QED
    BY <2>1, OwnerIds DEF deduplication_id
<1> HIDE DEF job
<1>3. Wakes(st, s0) /\ Wakes(s0, s1) /\ Wakes(s1, s2)
  BY <1>2, UnlockWakes, FailTerminallyWakes, MarkersWake
<1> HIDE DEF s0, s1, s2
<1>4. Wakes(st, s2)
  BY <1>3, WakesTransitive
<1> QED
  BY <1>1, <1>4, DelayWakes

LEMMA ReleaseActiveWakes == ASSUME NEW st, NEW j PROVE Wakes(st, release_active_script(st, j))
<1> DEFINE job == [st.jobs[j] EXCEPT !.state = "waiting", !.due = TRUE, !.deferred_failure = FALSE]
           s0 == unlock(st, j)
           s1 == [s0 EXCEPT !.jobs[j] = job, !.waiting = PushBackWaiting(@, j, job.options.priority)]
           s2 == add_base_marker(s1)
<1>1. release_active_script(st, j) = sync_repeat_scheduler(s2, job)
  BY DEF release_active_script
<1> HIDE DEF job
<1>2. Wakes(st, s0)
  BY UnlockWakes
<1> HIDE DEF s0
<1>3. Wakes(s0, s2)
  BY DEF Wakes, Steady, Wired, Keys, add_base_marker
<1> HIDE DEF s2
<1> QED
  BY <1>1, <1>2, <1>3, RepeatKeysWake, WakesTransitive

\* Recovery.
LEMMA RecoverJobWakes ==
    ASSUME NEW st, NEW j, st.jobs[j] \in Job PROVE Wakes(st, recover_job(st, j))
<1> DEFINE job == [st.jobs[j] EXCEPT !.stalled_count = @ + 1, !.deferred_failure = FALSE]
           dead == [job EXCEPT !.state = "failed"]
           s1 == [st EXCEPT !.active = @ \ {j}]
           s2 == IF job.stalled_count > job.options.max_stalled_count
                 THEN restore_repeat_key(s1, job) ELSE s1
           s3 == [s1 EXCEPT !.deps[j].pending = {}]
<1>1. recover_job(st, j) \in {fail_terminally(s3, dead), enqueue_waiting_job(s2, job)}
  BY DEF recover_job
<1>2. deduplication_id(dead) \in DedupIds \cup {None} /\ dead.options.on_failure \in ChildFailure
  <2>1. dead.options = st.jobs[j].options
    BY DEF Job
  <2> QED
    BY <2>1, OwnerIds DEF deduplication_id
<1> HIDE DEF job, dead
<1>3. Wakes(st, s1)
  BY DEF Wakes, Steady, Wired, Keys
<1> HIDE DEF s1
<1>4. Wakes(s1, s2) /\ Wakes(s2, enqueue_waiting_job(s2, job))
  BY RepeatKeysWake, EnqueueWakes, WakesReflexive
<1>5. Wakes(s1, s3)
  BY DEF Wakes, Steady, Wired, Keys
<1> HIDE DEF s2, s3
<1>6. Wakes(s3, fail_terminally(s3, dead))
  BY <1>2, FailTerminallyWakes
<1> QED
  BY <1>1, <1>3, <1>4, <1>5, <1>6, WakesTransitive

LEMMA RecoverStalledWakes ==
    ASSUME NEW st, Sound(st, {}) PROVE Wakes(st, recover_stalled_script(st))
<1> DEFINE s == SetToSeq(st.stalled)
           s0 == [st EXCEPT !.stalled = {}]
           s1 == examine_each_stalled(s0, s)
           N == Len(s)
<1>1. s \in Seq(JobIds)
  BY FiniteIds DEF Sound, Shape
<1>2. recover_stalled_script(st) = mark_active_jobs_stalled(s1)
  BY DEF recover_stalled_script
<1>3. Quiet(st, s0) /\ Wakes(st, s0)
  BY DEF Sound, Shape, Keys, Quiet, Wakes, Steady, Wired
<1> HIDE DEF s, s0
<1>4. Sound(s0, {})
  BY <1>3, QuietSound
<1>5. N \in Nat /\ \A n \in 0 .. N - 1 : s[n + 1] \in JobIds
  BY <1>1
<1>6. PICK F : StalledRun(F, s0, s)
  BY <1>5, StalledRunExists
<1>7. /\ F[0] = s0 /\ s1 = F[N]
      /\ \A n \in 0 .. N - 1 : F[n + 1] = examine_stalled(F[n], s[n + 1])
  BY <1>6 DEF StalledRun
<1> HIDE DEF N
<1>8. \A n \in 0 .. N : Sound(F[n], {})
  <2> DEFINE Goods == {n \in 0 .. N : Sound(F[n], {})}
  <2>1. 0 \in Goods
    BY <1>4, <1>5, <1>7
  <2>2. ASSUME NEW n \in 0 .. N - 1, n \in Goods PROVE n + 1 \in Goods
    <3>1. Sound(F[n], {}) /\ s[n + 1] \in JobIds /\ n + 1 \in 0 .. N
      BY <1>5, <2>2
    <3>2. Sound(examine_stalled(F[n], s[n + 1]), {})
      BY <3>1, ExamineStalledSound
    <3> QED
      BY <1>7, <3>1, <3>2
  <2> HIDE DEF Goods
  <2>3. \A n \in 0 .. N : n \in Goods
    BY <1>5, <2>1, <2>2, Climb
  <2> QED
    BY <2>3 DEF Goods
<1>9. ASSUME NEW n \in 0 .. N - 1 PROVE Wakes(F[n], F[n + 1])
  <2> DEFINE a == F[n]
             j == s[n + 1]
  <2>1. F[n + 1] = examine_stalled(a, j) /\ Sound(a, {}) /\ j \in JobIds
    BY <1>5, <1>7, <1>8
  <2> HIDE DEF a, j
  <2>2. a.jobs[j] # None => a.jobs[j] \in Job
    BY <2>1 DEF Sound, Shape
  <2>3. Wakes(a, [a EXCEPT !.active = @ \ {j}])
    BY DEF Wakes, Steady, Wired, Keys
  <2>4. Wakes(a, examine_stalled(a, j))
    BY <2>2, <2>3, RecoverJobWakes, WakesReflexive DEF examine_stalled, Exists
  <2> QED
    BY <2>1, <2>4 DEF a
<1>10. Wakes(s0, s1)
  BY <1>5, <1>7, <1>9, LoopWakes
<1> HIDE DEF s1
<1>11. Wakes(s1, mark_active_jobs_stalled(s1))
  BY DEF Wakes, Steady, Wired, Keys, mark_active_jobs_stalled
<1> QED
  BY <1>2, <1>3, <1>10, <1>11, WakesTransitive

\* Delayed jobs.  A quiet promotion wakes nobody, but is one of a queue nobody may claim from.
LEMMA PromoteDelayedWakes ==
    ASSUME NEW st, NEW j, NEW quiet
    PROVE  /\ Steady(st, promote_delayed(st, j, quiet))
           /\ ~quiet => Wakes(st, promote_delayed(st, j, quiet))
<1> DEFINE job == [st.jobs[j] EXCEPT !.state = "waiting"]
           s1 == [st EXCEPT !.delayed = @ \ {j}]
           s2 == enqueue_waiting_job(s1, job)
           x == IF quiet THEN st.marker ELSE s2.marker
           s3 == [s2 EXCEPT !.marker = x]
<1>1. promote_delayed(st, j, quiet) \in {s1, sync_repeat_scheduler(s3, job)}
  BY DEF promote_delayed
<1>2. ~quiet => x = s2.marker
  OBVIOUS
<1>3. Wakes(st, s1)
  BY DEF Wakes, Steady, Wired, Keys
<1> HIDE DEF job, s1, x
<1>4. Wakes(s1, s2)
  BY EnqueueWakes
<1> HIDE DEF s2
<1>5. Steady(s2, s3) /\ (~quiet => Wakes(s2, s3))
  BY <1>2 DEF Wakes, Steady, Wired, Keys
<1> HIDE DEF s3
<1>6. Wakes(s3, sync_repeat_scheduler(s3, job))
  BY RepeatKeysWake
<1>7. Steady(st, s1) /\ Steady(st, sync_repeat_scheduler(s3, job))
  BY <1>3, <1>4, <1>5, <1>6 DEF Wakes, Steady
<1>8. ~quiet => Wakes(st, sync_repeat_scheduler(s3, job))
  BY <1>3, <1>4, <1>5, <1>6, WakesTransitive
<1> QED
  BY <1>1, <1>3, <1>7, <1>8

LEMMA PromoteDueWakes ==
    ASSUME NEW st, st.delayed \subseteq JobIds, NEW quiet
    PROVE  /\ Steady(st, promote_due(st, quiet))
           /\ ~quiet => Wakes(st, promote_due(st, quiet))
<1> DEFINE due == {j \in st.delayed : Exists(st, j) => st.jobs[j].due}
           s == SetToSeq(due)
           N == Len(s)
           s1 == promote_each(st, s, quiet)
<1>1. due \subseteq JobIds /\ promote_due(st, quiet) = refresh_delay_marker(s1)
  BY DEF promote_due
<1> HIDE DEF due
<1>2. s \in Seq(JobIds)
  BY <1>1, FiniteIds
<1> HIDE DEF s
<1>3. N \in Nat
  BY <1>2
<1>4. PICK F : PromoteRun(F, st, s, quiet)
  BY <1>3, PromoteRunExists
<1>5. /\ F[0] = st /\ s1 = F[N]
      /\ \A n \in 0 .. N - 1 : F[n + 1] = promote_delayed(F[n], s[n + 1], quiet)
  BY <1>4 DEF PromoteRun
<1> HIDE DEF N, s1
<1>6. \A n \in 0 .. N : Steady(st, F[n])
  <2> DEFINE Goods == {n \in 0 .. N : Steady(st, F[n])}
  <2>1. 0 \in Goods
    BY <1>3, <1>5 DEF Steady
  <2>2. ASSUME NEW n \in 0 .. N - 1, n \in Goods PROVE n + 1 \in Goods
    <3>1. Steady(st, F[n]) /\ n + 1 \in 0 .. N
      BY <1>3, <2>2
    <3>2. Steady(F[n], F[n + 1])
      BY <1>5, PromoteDelayedWakes
    <3>3. Steady(st, F[n + 1])
      BY <3>1, <3>2 DEF Steady
    <3> QED
      BY <3>1, <3>3
  <2> HIDE DEF Goods
  <2>3. \A n \in 0 .. N : n \in Goods
    BY <1>3, <2>1, <2>2, Climb
  <2> QED
    BY <2>3 DEF Goods
<1>7. Steady(st, s1)
  BY <1>3, <1>5, <1>6
<1>8. ~quiet => Wakes(st, s1)
  <2> SUFFICES ASSUME ~quiet PROVE Wakes(st, s1)
    OBVIOUS
  <2>1. \A n \in 0 .. N - 1 : Wakes(F[n], F[n + 1])
    BY <1>5, PromoteDelayedWakes
  <2> QED
    BY <1>3, <1>5, <2>1, LoopWakes
<1>9. Wakes(s1, refresh_delay_marker(s1))
  BY MarkersWake
<1>10. Steady(st, refresh_delay_marker(s1))
  BY <1>7, <1>9 DEF Wakes, Steady
<1> QED
  BY <1>1, <1>8, <1>9, <1>10, WakesTransitive

\* Moves by an operator.
LEMMA MovesWake ==
    ASSUME NEW st, NEW j
    PROVE  /\ Wakes(st, promote_job_script(st, j)) /\ Wakes(st, reschedule_job_script(st, j))
           /\ \A priority, lifo : Wakes(st, update_priority_script(st, j, priority, lifo))
<1>1. Wakes(st, [st EXCEPT !.delayed = @ \ {j}])
  BY DEF Wakes, Steady, Wired, Keys
<1>2. Wakes(st, promote_job_script(st, j))
  BY <1>1, EnqueueWakes, MarkersWake, RepeatKeysWake, WakesTransitive DEF promote_job_script
<1>3. Wakes(st, reschedule_job_script(st, j))
  BY EnqueueWakes, RepeatKeysWake, WakesTransitive DEF reschedule_job_script
<1>4. \A job : Wakes(st, [st EXCEPT !.jobs[j] = job])
  BY DEF Wakes, Steady, Wired, Keys
<1>5. ASSUME NEW priority, NEW lifo PROVE Wakes(st, update_priority_script(st, j, priority, lifo))
  BY <1>4, EnqueueWakes DEF update_priority_script
<1> QED
  BY <1>2, <1>3, <1>5

LEMMA ReclaimParentWakes == ASSUME NEW st, NEW job PROVE Wakes(st, reclaim_parent(st, job))
<1> DEFINE p == job.parent_id
           c == job.id
           parent == [st.jobs[p] EXCEPT !.state = "waiting_children", !.deferred_failure = FALSE]
           dependencies == [Forget(st.deps[p], c) EXCEPT !.pending = @ \cup {c}]
           s1 == [st EXCEPT !.deps[p] = dependencies, !.jobs[p] = parent,
                            !.waiting = RemoveWaiting(@, p), !.delayed = @ \ {p},
                            !.waiting_children = @ \cup {p}]
<1>1. reclaim_parent(st, job) \in {st, s1, refresh_delay_marker(s1)}
  BY DEF reclaim_parent
<1> HIDE DEF p, parent, dependencies
<1>2. Wakes(st, s1)
  BY KeepNone DEF Wakes, Steady, Wired, Keys, RemoveWaiting
<1> HIDE DEF s1
<1>3. Wakes(s1, refresh_delay_marker(s1))
  BY MarkersWake
<1> QED
  BY <1>1, <1>2, <1>3, WakesReflexive, WakesTransitive

LEMMA RetryJobWakes == ASSUME NEW st, NEW j PROVE Wakes(st, retry_job_script(st, j))
<1> DEFINE job == [st.jobs[j] EXCEPT !.state = "waiting", !.due = TRUE, !.deferred_failure = FALSE]
           s0 == prune_deduplication_key(st, deduplication_id(job))
           s1 == prune_repeat_keys(s0, repeat_key(job))
           s2 == [s1 EXCEPT !.completed = RemoveFrom(@, j), !.failed = RemoveFrom(@, j)]
           s3 == enqueue_waiting_job(s2, job)
           s4 == reclaim_parent(s3, job)
           s5 == set_deduplication_key(s4, job)
           s6 == set_repeat_key(s5, job)
<1>1. retry_job_script(st, j) \in {s1, s6}
  BY DEF retry_job_script
<1> HIDE DEF job
<1>2. Wakes(st, s0) /\ Wakes(s0, s1)
  BY DedupKeysWake, RepeatKeysWake
<1> HIDE DEF s0, s1
<1>3. Wakes(s1, s2)
  BY DEF Wakes, Steady, Wired, Keys
<1> HIDE DEF s2
<1>4. Wakes(s2, s3) /\ Wakes(s3, s4) /\ Wakes(s4, s5) /\ Wakes(s5, s6)
  BY EnqueueWakes, ReclaimParentWakes, DedupKeysWake, RepeatKeysWake
<1> HIDE DEF s3, s4, s5, s6
<1>5. Wakes(st, s1)
  BY <1>2, WakesTransitive
<1>6. Wakes(s1, s4)
  BY <1>3, <1>4, WakesTransitive
<1>7. Wakes(s1, s6)
  BY <1>4, <1>6, WakesTransitive
<1> QED
  BY <1>1, <1>5, <1>7, WakesTransitive

\* Removal by an operator.
LEMMA RemoveJobWakes == ASSUME NEW st, NEW j PROVE Wakes(st, remove_job_script(st, j))
<1>1. Wakes(st, remove_dependency_keys(st, j))
  BY DEF Wakes, Steady, Wired, Keys, remove_dependency_keys
<1> QED
  BY <1>1, RemoveWithDependencyWakes, WakesReflexive DEF remove_job_script

LEMMA RemoveCandidatesWake ==
    ASSUME NEW st, NEW states, NEW candidates, candidates \subseteq JobIds
    PROVE  Wakes(st, remove_candidates(st, states, candidates))
<1> DEFINE s == SetToSeq(candidates)
           N == Len(s)
           copies == st.jobs
<1>1. PICK x : remove_candidates(st, states, candidates)
                    = remove_each([st EXCEPT !.repeat = x], copies, s)
  BY DEF remove_candidates
<1> DEFINE s1 == [st EXCEPT !.repeat = x]
<1>2. Wakes(st, s1)
  BY DEF Wakes, Steady, Wired, Keys
<1>3. N \in Nat
  BY FiniteIds
<1> HIDE DEF s, s1, copies
<1>4. PICK F : RemoveRun(F, s1, s, copies)
  BY <1>3, RemoveRunExists
<1>5. /\ F[0] = s1 /\ remove_each(s1, copies, s) = F[N]
      /\ \A n \in 0 .. N - 1 : F[n + 1] = remove_with_dependency(F[n], copies[s[n + 1]])
  BY <1>4 DEF RemoveRun
<1> HIDE DEF N
<1>6. \A n \in 0 .. N - 1 : Wakes(F[n], F[n + 1])
  BY <1>5, RemoveWithDependencyWakes
<1>7. Wakes(s1, F[N])
  BY <1>3, <1>5, <1>6, LoopWakes
<1> QED
  BY <1>1, <1>2, <1>5, <1>7, WakesTransitive DEF s1

LEMMA RemoveUnprocessedWakes ==
    ASSUME NEW st, NEW p PROVE Wakes(st, remove_unprocessed_script(st, p))
<1> DEFINE gone == UnprocessedBelow(st, p)
           missing == {c \in ToSet(st.jobs[p].child_ids) : ~Exists(st, c)}
           copies == st.jobs
           s == SetToSeq(gone)
           N == Len(s)
           s1 == remove_each_record(st, copies, s)
           x == gone \cup missing
           s2 == [s1 EXCEPT !.deps[p].pending = @ \ x]
<1>1. remove_unprocessed_script(st, p) \in {s2, scan_remaining_children(s2, p)}
  BY DEF remove_unprocessed_script
<1>2. gone \subseteq JobIds
  BY UnprocessedBelowExist DEF Exists
<1> HIDE DEF x, gone
<1>3. N \in Nat
  BY <1>2, FiniteIds
<1> HIDE DEF s, copies
<1>4. PICK F : DiscardRun(F, st, s, copies)
  BY <1>3, DiscardRunExists
<1>5. /\ F[0] = st /\ s1 = F[N]
      /\ \A n \in 0 .. N - 1 : F[n + 1] = remove_job_record(F[n], copies[s[n + 1]])
  BY <1>4 DEF DiscardRun
<1> HIDE DEF N, s1
<1>6. \A n \in 0 .. N - 1 : Wakes(F[n], F[n + 1])
  BY <1>5, RemoveRecordWakes
<1>7. Wakes(st, s1)
  BY <1>3, <1>5, <1>6, LoopWakes
<1>8. Wakes(s1, s2)
  BY DEF Wakes, Steady, Wired, Keys
<1> HIDE DEF s2
<1>9. Wakes(s2, scan_remaining_children(s2, p))
  BY ScanWakes
<1> QED
  BY <1>1, <1>7, <1>8, <1>9, WakesTransitive

LEMMA RemoveChildDependencyWakes ==
    ASSUME NEW st, NEW c PROVE Wakes(st, remove_child_dependency_script(st, c))
<1> DEFINE p == st.jobs[c].parent_id
           s1 == [st EXCEPT !.deps[p] = Forget(@, c), !.jobs[p].child_ids = RemoveFrom(@, c),
                            !.jobs[c].parent_id = None]
<1>1. remove_child_dependency_script(st, c) \in {st, s1, scan_remaining_children(s1, p)}
  BY DEF remove_child_dependency_script
<1> HIDE DEF p
<1>2. Wakes(st, s1)
  BY DEF Wakes, Steady, Wired, Keys
<1> HIDE DEF s1
<1>3. Wakes(s1, scan_remaining_children(s1, p))
  BY ScanWakes
<1> QED
  BY <1>1, <1>2, <1>3, WakesReflexive, WakesTransitive

LEMMA RemoveOrphansWake == ASSUME NEW st PROVE Wakes(st, remove_orphans(st))
  BY DEF Wakes, Steady, Wired, Keys, remove_orphans

-----------------------------------------------------------------------------
\* Submission.
LEMMA InsertJobWakes ==
    ASSUME NEW st, NEW job, NEW replacing
    PROVE  Wakes(st, insert_job(st, job)) /\ Wakes(st, insert_unless_repeating(st, job, replacing))
<1>1. \A a : Wakes(a, insert_job(a, job))
  BY EnqueueWakes, RepeatKeysWake, WakesTransitive DEF insert_job
<1>2. Wakes(st, insert_unless_repeating(st, job, replacing))
  BY <1>1, RepeatKeysWake, DedupKeysWake, WakesTransitive DEF insert_unless_repeating
<1> QED
  BY <1>1, <1>2

LEMMA AddJobWakes == ASSUME NEW st, NEW job PROVE Wakes(st, add_job(st, job))
<1> DEFINE d == deduplication_id(job)
           s1 == prune_deduplication_key(st, d)
           owner == s1.jobs[deduplication_owner(s1, d)]
           s2 == remove_replaced_owner(s1, owner)
           payload == [job |-> job, children |-> <<>>]
<1>1. add_job(st, job) \in {st, s1, insert_unless_repeating(s1, job, FALSE),
                            insert_unless_repeating(s2, job, TRUE), park(s1, d, payload),
                            extend_deduplicated_owner(s1, job)}
  BY DEF add_job
<1>2. Len(payload.children) \in Nat
  OBVIOUS
<1>3. Wakes(st, s1)
  BY DedupKeysWake
<1> HIDE DEF s1, owner, payload
<1>4. Wakes(s1, s2)
  BY DEF Wakes, Steady, Wired, Keys, remove_replaced_owner
<1> HIDE DEF s2
<1>5. /\ \A x : Wakes(s1, insert_unless_repeating(s1, job, x))
      /\ \A x : Wakes(s2, insert_unless_repeating(s2, job, x))
      /\ Wakes(s1, park(s1, d, payload)) /\ Wakes(s1, extend_deduplicated_owner(s1, job))
  BY <1>2, InsertJobWakes, ParkWakes, DedupKeysWake
<1>6. /\ \A x : Wakes(st, insert_unless_repeating(s1, job, x))
      /\ \A x : Wakes(st, insert_unless_repeating(s2, job, x))
      /\ Wakes(st, park(s1, d, payload)) /\ Wakes(st, extend_deduplicated_owner(s1, job))
  BY <1>3, <1>4, <1>5, WakesTransitive
<1> QED
  BY <1>1, <1>3, <1>6, WakesReflexive

LEMMA UpsertRepeatWakes == ASSUME NEW st, NEW job PROVE Wakes(st, upsert_repeat_script(st, job))
<1> DEFINE k == repeat_key(job)
           d == deduplication_id(job)
           owner == repeat_owner(st, k)
           s1 == prune_repeat_keys(st, k)
           other == d # None /\ s1.dedup[d] # None /\ s1.dedup[d].owner # owner
           s2 == IF other THEN prune_deduplication_key(s1, d) ELSE s1
           s3 == IF owner = None THEN s2 ELSE remove_job_record(s2, s2.jobs[owner])
           s4 == enqueue_prepared_job(s3, job)
           s5 == set_deduplication_key(s4, job)
           s6 == SetRepeat(s5, k, job.id)
<1>1. upsert_repeat_script(st, job) \in {s1, s2, s6}
  BY DEF upsert_repeat_script
<1>2. Wakes(st, s1)
  BY RepeatKeysWake
<1> HIDE DEF s1, owner, other, k, d
<1>3. Wakes(s1, s2)
  BY DedupKeysWake, WakesReflexive
<1> HIDE DEF s2
<1>4. Wakes(s2, s3)
  BY RemoveRecordWakes, WakesReflexive
<1> HIDE DEF s3
<1>5. Wakes(s3, s4) /\ Wakes(s4, s5) /\ Wakes(s5, s6)
  BY EnqueueWakes, DedupKeysWake, RepeatKeysWake
<1> HIDE DEF s4, s5, s6
<1>6. Wakes(st, s2)
  BY <1>2, <1>3, WakesTransitive
<1>7. Wakes(s2, s5)
  BY <1>4, <1>5, WakesTransitive
<1>8. Wakes(st, s6)
  BY <1>5, <1>6, <1>7, WakesTransitive
<1> QED
  BY <1>1, <1>2, <1>6, <1>8

\* The examination and the writes of a flow pass the key space on in `db`.
Passes(a, b) == DOMAIN a = AccKeys => DOMAIN b = AccKeys /\ Wakes(a.db, b.db)

LEMMA PassesTransitive ==
    ASSUME NEW a, NEW b, NEW c, Passes(a, b), Passes(b, c) PROVE Passes(a, c)
  BY WakesTransitive DEF Passes

LEMMA PassesReflexive == ASSUME NEW a PROVE Passes(a, a)
  BY WakesReflexive DEF Passes

LEMMA LoopPasses ==
    ASSUME NEW N \in Nat, NEW F, \A n \in 0 .. N - 1 : Passes(F[n], F[n + 1])
    PROVE  Passes(F[0], F[N])
<1> DEFINE Goods == {n \in 0 .. N : Passes(F[0], F[n])}
<1>1. 0 \in Goods
  BY PassesReflexive
<1>2. ASSUME NEW n \in 0 .. N - 1, n \in Goods PROVE n + 1 \in Goods
  BY <1>2, PassesTransitive
<1> HIDE DEF Goods
<1>3. \A n \in 0 .. N : n \in Goods
  BY <1>1, <1>2, Climb
<1> QED
  BY <1>3 DEF Goods

LEMMA StoringPasses ==
    ASSUME NEW acc, NEW x, Wakes(acc.db, x) PROVE Passes(acc, [acc EXCEPT !.db = x])
  BY DEF Passes, AccKeys

LEMMA ExamineNewPasses == ASSUME NEW acc, NEW job PROVE Passes(acc, examine_new(acc, job))
<1>1. \A k : Wakes(acc.db, prune_repeat_keys(acc.db, k))
  BY RepeatKeysWake
<1> QED
  BY <1>1 DEF Passes, AccKeys, examine_new

LEMMA ExamineDuplicatePasses ==
    ASSUME NEW acc, NEW child, NEW owner PROVE Passes(acc, examine_duplicate(acc, child, owner))
<1> DEFINE d == deduplication_id(child)
           payload == [job |-> child, children |-> <<>>]
           s1 == park(acc.db, d, payload)
           s2 == extend_deduplicated_owner(acc.db, child)
           b1 == [acc EXCEPT !.db = s1, !.skipped = @ \cup {child.id}, !.next[d] = child.id]
           b2 == [acc EXCEPT !.db = s2, !.skipped = @ \cup {child.id}]
<1>1. Len(payload.children) \in Nat
  OBVIOUS
<1>2. examine_duplicate(acc, child, owner) \in {b1, b2}
  BY DEF examine_duplicate
<1> HIDE DEF payload, d
<1>3. Wakes(acc.db, s1) /\ Wakes(acc.db, s2)
  BY <1>1, ParkWakes, DedupKeysWake
<1> HIDE DEF s1, s2
<1>4. Passes(acc, b1) /\ Passes(acc, b2)
  BY <1>3 DEF Passes, AccKeys
<1> QED
  BY <1>2, <1>4

LEMMA ExamineChildPasses ==
    ASSUME NEW acc, NEW child
    PROVE  Passes(acc, examine_child(acc, child)) /\ Passes(acc, examine_dynamic_child(acc, child))
<1> DEFINE s1 == prune_deduplication_key(acc.db, deduplication_id(child))
           a1 == [acc EXCEPT !.db = s1]
           refusal == [acc EXCEPT !.result = "refused"]
<1>1. Passes(acc, a1)
  BY DedupKeysWake, StoringPasses
<1>2. Passes(acc, refusal) /\ Passes(acc, [acc EXCEPT !.duplicated = @ \cup {child.id}])
  BY WakesReflexive DEF Passes, AccKeys
<1>3. \E owner : examine_child(acc, child) \in
        {acc, refusal, [acc EXCEPT !.duplicated = @ \cup {child.id}],
         examine_duplicate(a1, child, owner), examine_new(a1, child)}
  BY DEF examine_child
<1>4. examine_dynamic_child(acc, child) \in {refusal, examine_child(acc, child)}
  BY DEF examine_dynamic_child
<1> HIDE DEF a1, refusal
<1>5. \A owner : Passes(acc, examine_duplicate(a1, child, owner))
  BY <1>1, ExamineDuplicatePasses, PassesTransitive
<1>6. Passes(acc, examine_new(a1, child))
  BY <1>1, ExamineNewPasses, PassesTransitive
<1>7. Passes(acc, examine_child(acc, child))
  BY <1>2, <1>3, <1>5, <1>6, PassesReflexive
<1> QED
  BY <1>2, <1>4, <1>7

LEMMA ExamineParentPasses ==
    ASSUME NEW acc, NEW parent, NEW children, Len(children) \in Nat
    PROVE  Passes(acc, examine_parent(acc, parent, children))
<1> DEFINE d == deduplication_id(parent)
           s1 == prune_deduplication_key(acc.db, d)
           a1 == [acc EXCEPT !.db = s1]
           payload == [job |-> parent, children |-> children]
           s2 == park(s1, d, payload)
           s3 == extend_deduplicated_owner(s1, parent)
<1>1. examine_parent(acc, parent, children) \in
        {acc, examine_new(a1, parent),
         [acc EXCEPT !.result = "deduplicated_parent", !.db = s2],
         [acc EXCEPT !.result = "deduplicated_parent", !.db = s3]}
  BY DEF examine_parent
<1>2. Len(payload.children) \in Nat
  OBVIOUS
<1>3. Wakes(acc.db, s1)
  BY DedupKeysWake
<1>4. Passes(acc, a1)
  BY <1>3, StoringPasses
<1> HIDE DEF s1, a1, payload
<1>5. Wakes(s1, s2) /\ Wakes(s1, s3)
  BY <1>2, ParkWakes, DedupKeysWake
<1> HIDE DEF s2, s3
<1>6. Wakes(acc.db, s2) /\ Wakes(acc.db, s3)
  BY <1>3, <1>5, WakesTransitive
<1>7. \A x : Wakes(acc.db, x) =>
          Passes(acc, [acc EXCEPT !.result = "deduplicated_parent", !.db = x])
  BY DEF Passes, AccKeys
<1>8. Passes(acc, examine_new(a1, parent))
  BY <1>4, ExamineNewPasses, PassesTransitive
<1> QED
  BY <1>1, <1>6, <1>7, <1>8, PassesReflexive

LEMMA ExaminePasses ==
    ASSUME NEW acc, NEW s, Len(s) \in Nat
    PROVE  Passes(acc, examine_children(acc, s)) /\ Passes(acc, examine_dynamic_children(acc, s))
<1> DEFINE N == Len(s)
<1>1. Passes(acc, examine_children(acc, s))
  <2>1. PICK F : ExamineRun(F, acc, s)
    BY ExamineRunExists
  <2>2. /\ F[0] = acc /\ examine_children(acc, s) = F[N]
        /\ \A n \in 0 .. N - 1 : F[n + 1] = examine_child(F[n], s[n + 1])
    BY <2>1 DEF ExamineRun
  <2>3. \A n \in 0 .. N - 1 : Passes(F[n], F[n + 1])
    BY <2>2, ExamineChildPasses
  <2> QED
    BY <2>2, <2>3, LoopPasses
<1>2. Passes(acc, examine_dynamic_children(acc, s))
  <2>1. PICK F : DynamicRun(F, acc, s)
    BY DynamicRunExists
  <2>2. /\ F[0] = acc /\ examine_dynamic_children(acc, s) = F[N]
        /\ \A n \in 0 .. N - 1 : F[n + 1] = examine_dynamic_child(F[n], s[n + 1])
    BY <2>1 DEF DynamicRun
  <2>3. \A n \in 0 .. N - 1 : Passes(F[n], F[n + 1])
    BY <2>2, ExamineChildPasses
  <2> QED
    BY <2>2, <2>3, LoopPasses
<1> QED
  BY <1>1, <1>2

LEMMA InsertChildWakes ==
    ASSUME NEW st, NEW job PROVE Wakes(st, set_deduplication_key(insert_job(st, job), job))
  BY InsertJobWakes, DedupKeysWake, WakesTransitive

LEMMA WriteChildrenPasses ==
    ASSUME NEW acc, NEW s, Len(s) \in Nat PROVE Passes(acc, write_children(acc, s))
<1> DEFINE N == Len(s)
<1>1. PICK F : WriteRun(F, acc, s)
  BY WriteRunExists
<1>2. /\ F[0] = acc /\ write_children(acc, s) = F[N]
      /\ \A n \in 0 .. N - 1 : F[n + 1] = write_child(F[n], s[n + 1])
  BY <1>1 DEF WriteRun
<1>3. ASSUME NEW a, NEW child PROVE Passes(a, write_child(a, child))
  <2> DEFINE s1 == set_deduplication_key(insert_job(a.db, child), child)
             s2 == [a.db EXCEPT !.jobs[child.id].parent_id = child.parent_id]
  <2>1. write_child(a, child) \in {a, [a EXCEPT !.db = s1], [a EXCEPT !.db = s2]}
    BY DEF write_child
  <2>2. Wakes(a.db, s1)
    BY InsertChildWakes
  <2>3. Wakes(a.db, s2)
    BY DEF Wakes, Steady, Wired, Keys
  <2> HIDE DEF s1, s2
  <2> QED
    <3>1. Passes(a, [a EXCEPT !.db = s1]) /\ Passes(a, [a EXCEPT !.db = s2])
      BY <2>2, <2>3, StoringPasses
    <3> QED
      BY <2>1, <3>1, PassesReflexive
<1>4. \A n \in 0 .. N - 1 : Passes(F[n], F[n + 1])
  BY <1>2, <1>3
<1> QED
  BY <1>2, <1>4, LoopPasses

LEMMA AwaitChildrenWakes ==
    ASSUME NEW acc, NEW p, NEW children PROVE Wakes(acc.db, await_children(acc, p, children))
  BY DEF Wakes, Steady, Wired, Keys, await_children

LEMMA ReleaseIfReadyWakes ==
    ASSUME NEW st, NEW p, NEW due PROVE Wakes(st, release_parent_if_ready(st, p, due))
<1>1. Wakes(st, [st EXCEPT !.jobs[p].due = due])
  BY DEF Wakes, Steady, Wired, Keys
<1> QED
  BY <1>1, ReleaseParentWakes, WakesReflexive, WakesTransitive DEF release_parent_if_ready

LEMMA WriteParentPasses ==
    ASSUME NEW acc, NEW parent, NEW children
    PROVE  Passes(acc, write_parent(acc, parent, children))
<1> DEFINE p == parent.id
           ids == RetainedIds(acc, children)
           new == KeepOnly(ids, ToSet(ids) \ ToSet(acc.db.jobs[p].child_ids))
           job == [parent EXCEPT !.child_ids = ids]
           s0 == set_deduplication_key(insert_job(acc.db, job), job)
           s1 == [s0 EXCEPT !.deps[p].pending = {}]
           s2 == [acc.db EXCEPT !.jobs[p].child_ids = @ \o new]
<1>1. write_parent(acc, parent, children) \in {[acc EXCEPT !.db = s1], [acc EXCEPT !.db = s2]}
  BY DEF write_parent
<1> HIDE DEF ids, new, job
<1>2. Wakes(acc.db, s0)
  BY InsertChildWakes
<1> HIDE DEF s0
<1>3. Wakes(s0, s1) /\ Wakes(acc.db, s2)
  BY DEF Wakes, Steady, Wired, Keys
<1> HIDE DEF s1, s2
<1>4. Wakes(acc.db, s1)
  BY <1>2, <1>3, WakesTransitive
<1> QED
  BY <1>1, <1>3, <1>4, StoringPasses

LEMMA AddFlowWakes ==
    ASSUME NEW st, NEW parent, NEW children, Len(children) \in Nat
    PROVE  Wakes(st, add_flow(st, parent, children))
<1> DEFINE a0 == Examined(st)
           ap == examine_parent(a0, parent, children)
           acc == examine_children(ap, children)
           a1 == write_parent(acc, parent, children)
           a2 == write_children(a1, children)
           s1 == await_children(a2, parent.id, children)
           s2 == release_parent_if_ready(s1, parent.id, parent.due)
<1>1. add_flow(st, parent, children) \in {acc.db, s1, s2}
  BY DEF add_flow, examine_flow, write_flow
<1>2. DOMAIN a0 = AccKeys /\ a0.db = st
  BY DEF Examined, AccKeys
<1> HIDE DEF a0
<1>3. Passes(a0, ap)
  BY ExamineParentPasses
<1> HIDE DEF ap
<1>4. Passes(ap, acc)
  BY ExaminePasses
<1> HIDE DEF acc
<1>5. Passes(acc, a1)
  BY WriteParentPasses
<1> HIDE DEF a1
<1>6. Passes(a1, a2)
  BY WriteChildrenPasses
<1> HIDE DEF a2
<1>7. Wakes(a2.db, s1) /\ Wakes(s1, s2)
  BY AwaitChildrenWakes, ReleaseIfReadyWakes
<1> HIDE DEF s1, s2
<1>8. Wakes(st, acc.db) /\ DOMAIN acc = AccKeys
  BY <1>2, <1>3, <1>4, WakesTransitive DEF Passes
<1>9. Wakes(acc.db, a2.db)
  BY <1>5, <1>6, <1>8, WakesTransitive DEF Passes
<1>10. Wakes(st, s1)
  BY <1>7, <1>8, <1>9, WakesTransitive
<1> QED
  BY <1>1, <1>7, <1>8, <1>10, WakesTransitive

LEMMA AddFlowChildrenWakes ==
    ASSUME NEW st, NEW p, NEW children, Len(children) \in Nat
    PROVE  Wakes(st, add_flow_children(st, p, children))
<1> DEFINE a0 == Examined(st)
           acc == examine_dynamic_children(a0, children)
           a1 == park_parent(acc, p, RetainedIds(acc, children))
           a2 == write_children(a1, children)
           s1 == await_children(a2, p, children)
           due == TRUE
           s2 == release_parent_if_ready(s1, p, due)
<1>1. add_flow_children(st, p, children) \in {acc.db, s2}
  BY DEF add_flow_children, write_flow_children
<1>2. DOMAIN a0 = AccKeys /\ a0.db = st
  BY DEF Examined, AccKeys
<1> HIDE DEF a0, due
<1>3. Passes(a0, acc)
  BY ExaminePasses
<1> HIDE DEF acc
<1>4. Passes(acc, a1)
  <2>1. \A parent, x : Wakes(acc.db, [acc.db EXCEPT !.lock[p] = None, !.stalled = @ \ {p},
                                        !.active = @ \ {p}, !.jobs[p] = parent,
                                        !.waiting_children = @ \cup {p},
                                        !.deps[p].pending = @ \cup x])
    BY DEF Wakes, Steady, Wired, Keys
  <2> QED
    BY <2>1, StoringPasses DEF park_parent
<1> HIDE DEF a1
<1>5. Passes(a1, a2)
  BY WriteChildrenPasses
<1> HIDE DEF a2
<1>6. Wakes(a2.db, s1) /\ Wakes(s1, s2)
  BY AwaitChildrenWakes, ReleaseIfReadyWakes
<1> HIDE DEF s1, s2
<1>7. Wakes(st, acc.db) /\ DOMAIN acc = AccKeys
  BY <1>2, <1>3 DEF Passes
<1>8. Wakes(acc.db, a2.db)
  BY <1>4, <1>5, <1>7, WakesTransitive DEF Passes
<1>9. Wakes(a2.db, s2)
  BY <1>6, WakesTransitive
<1> QED
  BY <1>1, <1>7, <1>8, <1>9, WakesTransitive

-----------------------------------------------------------------------------
\* Whoever claims next need not be woken, will be by the base marker, or is on the way.
Awake(st) == st.waiting = <<>> \/ st.paused \/ st.concurrency # 0 \/ "base" \in st.marker

Wakeful == Awake(db) \/ \E c \in Clients : client[c].op = "claim"

LEMMA LeaseWakes ==
    ASSUME NEW st, Wired(st), NEW j, NEW token
    PROVE  Wired(lease(st, j, token)) /\ "base" \in lease(st, j, token).marker
<1> DEFINE job == [st.jobs[j] EXCEPT !.state = "active", !.attempts_made = @ + 1]
           s1 == [st EXCEPT !.lock[j] = token, !.jobs[j] = job, !.waiting = RemoveWaiting(@, j),
                            !.active = @ \cup {j}, !.claims = @ + 1]
           s2 == sync_repeat_scheduler(s1, job)
<1>1. lease(st, j, token) = add_base_marker(s2)
  BY DEF lease
<1> HIDE DEF job
<1>2. Wired(s1)
  BY DEF Wired, Keys
<1> HIDE DEF s1
<1>3. Wired(s2)
  BY <1>2, RepeatKeysWake DEF Wakes, Steady
<1> HIDE DEF s2
<1> QED
  BY <1>1, <1>3 DEF Wired, Keys, add_base_marker

\* The queue as a claim finds it.
LEMMA ClaimableWired ==
    ASSUME RedisInv
    PROVE  /\ Wired(db) /\ Wired(Claimable)
           /\ Claimable.paused = db.paused /\ Claimable.concurrency = db.concurrency
<1> DEFINE quiet == queue_is_paused_or_maxed(db)
           s1 == promote_due(db, quiet)
           s2 == drop_stale_waiting(s1)
<1>1. Wired(db) /\ db.delayed \subseteq JobIds
  BY ShapeWired DEF RedisInv, Sound, Shape
<1>2. Claimable \in {s1, s2}
  BY DEF Claimable, Promoted
<1> HIDE DEF quiet
<1>3. Steady(db, s1)
  BY <1>1, PromoteDueWakes
<1> HIDE DEF s1
<1>4. Wakes(s1, s2)
  BY FewerWaitingWake DEF drop_stale_waiting
<1> HIDE DEF s2
<1> QED
  BY <1>1, <1>2, <1>3, <1>4 DEF Wakes, Steady

\* A claim that found a job leaves the base marker for the next one.
LEMMA ClaimFoundAwake == ASSUME RedisInv, claim_found PROVE Awake(db')
<1> DEFINE a == Claimable
           b == lease(a, Head(a.waiting).id, Len(issued) + 1)
           x == IF RateMax = 0 THEN 0 ELSE b.claims
<1>1. db' = [b EXCEPT !.claims = x]
  BY DEF claim_found
<1>2. Wired(a)
  BY ClaimableWired
<1> HIDE DEF a
<1>3. Wired(b) /\ "base" \in b.marker
  BY <1>2, LeaseWakes
<1> HIDE DEF b, x
<1> QED
  BY <1>1, <1>3 DEF Awake, Wired, Keys

\* A claim that found none has seen the waiting set empty, or may not claim.
LEMMA ClaimEmptyAwake == ASSUME RateMax = 0, RedisInv, claim_empty PROVE Awake(db')
<1>1. db' = Claimable /\ (MayClaim => Claimable.waiting = <<>>)
  BY DEF claim_empty
<1>2. Claimable.paused = db.paused /\ Claimable.concurrency = db.concurrency
  BY ClaimableWired
<1>3. ~rate_limited(Promoted)
  BY DEF rate_limited
<1>4. CASE MayClaim
  BY <1>1, <1>4 DEF Awake
<1>5. CASE ~MayClaim
  <2>1. db.paused \/ db.concurrency > 0
    BY <1>3, <1>5 DEF MayClaim, queue_is_paused_or_maxed, queue_is_maxed
  <2>2. db.paused \/ db.concurrency # 0
    BY <2>1
  <2> QED
    BY <1>1, <1>2, <2>2 DEF Awake
<1> QED
  BY <1>4, <1>5

LEMMA WakeStep ==
    ASSUME RedisInv, Wakeful, Wakes(db, db'),
           \A c \in Clients : client[c].op = "claim" => client'[c].op = "claim"
    PROVE  Wakeful'
<1>1. Wired(db)
  BY ShapeWired DEF RedisInv, Sound
<1>2. Awake(db) => Awake(db')
  BY <1>1 DEF Wakes, Steady, Awake
<1> QED
  BY <1>2 DEF Wakeful

LEMMA WakeCall ==
    ASSUME RedisInv, Wakeful, Wakes(db, db'), NEW c \in Clients, client[c].op # "claim",
           NEW call, client' = [client EXCEPT ![c] = call]
    PROVE  Wakeful'
<1>1. \A k \in Clients : client[k].op = "claim" => client'[k].op = "claim"
  BY DEF RedisInv, Calls
<1> QED
  BY <1>1, WakeStep

LEMMA SubmitWakeful == ASSUME RedisInv, Wakeful, Submit PROVE Wakeful'
<1> SUFFICES Wakes(db, db') /\ client' = client
  BY WakeStep
<1>1. CASE AddJob
  BY <1>1, AddJobWakes DEF AddJob, Run
<1>2. CASE AddJobs
  BY <1>2, AddJobWakes, WakesTransitive DEF AddJobs, Run
<1>3. CASE UpsertRepeat
  BY <1>3, UpsertRepeatWakes DEF UpsertRepeat, Run
<1>4. \A p, s : s \in Seq(Submission) => Len(FlowChildren(p, s)) \in Nat
  BY DEF FlowChildren
<1>5. CASE AddFlow
  <2>1. PICK f \in Flows :
            Run(add_flow(db, FlowParent(f), FlowChildren(f.parent.id, f.children)))
    BY <1>5 DEF AddFlow
  <2> DEFINE parent == FlowParent(f)
             children == FlowChildren(f.parent.id, f.children)
  <2>2. Len(children) \in Nat
    BY <1>4, RedisInputsAssumption
  <2>3. db' = add_flow(db, parent, children) /\ client' = client
    BY <2>1 DEF Run
  <2> HIDE DEF parent, children
  <2> QED
    BY <2>2, <2>3, AddFlowWakes
<1>6. CASE AddFlowChildren
  <2>1. PICK b \in Batches :
            Run(add_flow_children(db, b.parent, FlowChildren(b.parent, b.children)))
    BY <1>6 DEF AddFlowChildren
  <2> DEFINE p == b.parent
             children == FlowChildren(p, b.children)
  <2>2. Len(children) \in Nat
    BY <1>4, RedisInputsAssumption
  <2>3. db' = add_flow_children(db, p, children) /\ client' = client
    BY <2>1 DEF Run
  <2> HIDE DEF p, children
  <2> QED
    BY <2>2, <2>3, AddFlowChildrenWakes
<1> QED
  BY <1>1, <1>2, <1>3, <1>5, <1>6 DEF Submit

LEMMA LeaseWakeful == ASSUME RateMax = 0, RedisInv, Wakeful, Lease PROVE Wakeful'
<1>1. CASE ClaimOnce
  BY <1>1, ClaimFoundAwake, ClaimEmptyAwake DEF ClaimOnce, Wakeful
<1> SUFFICES ASSUME ~ClaimOnce PROVE Wakes(db, db') /\ client' = client
  BY <1>1, WakeStep
<1>2. CASE RenewLeases
  <2>1. \A j : Wakes(db, [db EXCEPT !.stalled = @ \ {j}])
    BY DEF Wakes, Steady, Wired, Keys
  <2> QED
    BY <1>2, <2>1 DEF RenewLeases, Run
<1>3. CASE DelayActive
  BY <1>3, DelayWakes DEF DelayActive, Run
<1>4. CASE ReleaseActive
  BY <1>4, ReleaseActiveWakes DEF ReleaseActive, Run
<1>5. CASE RecoverStalled
  BY <1>5, RecoverStalledWakes DEF RecoverStalled, Run, RedisInv
<1> QED
  BY <1>2, <1>3, <1>4, <1>5 DEF Lease

LEMMA ManageWakeful == ASSUME 0 \notin Limits, RedisInv, Wakeful, Manage PROVE Wakeful'
<1>0. Wired(db) /\ db.delayed \subseteq JobIds
  BY ShapeWired DEF RedisInv, Sound, Shape
<1>1. CASE Obliterate
  <2>1. PICK force \in BOOLEAN : db' = obliterate_script(db, force)
    BY <1>1 DEF Obliterate, Run
  <2>2. Awake([db EXCEPT !.paused = TRUE]) /\ Awake(EmptyDb)
    BY <1>0 DEF Awake, Wired, Keys, EmptyDb
  <2> QED
    BY <2>1, <2>2 DEF obliterate_script, Wakeful
<1>2. CASE Pause
  BY <1>0, <1>2 DEF Pause, Run, Wakeful, Awake, Wired, Keys
<1>3. CASE Resume
  <2> DEFINE s1 == [db EXCEPT !.paused = FALSE]
             s2 == add_base_marker_if_waiting(s1)
             s3 == refresh_delay_marker(s2)
  <2>1. db' = s3
    BY <1>3 DEF Resume, Run
  <2>2. Wired(s1)
    BY <1>0 DEF Wired, Keys
  <2> HIDE DEF s1
  <2>3. Wired(s2) /\ Awake(s2)
    BY <2>2 DEF Wired, Keys, Awake, add_base_marker_if_waiting, add_base_marker
  <2> HIDE DEF s2
  <2>4. Awake(s3)
    BY <2>3, MarkersWake DEF Wakes, Steady, Awake
  <2> QED
    BY <2>1, <2>4 DEF Wakeful
<1>4. CASE SetMaxActiveJobs
  <2>1. PICK n \in Limits : db' = [db EXCEPT !.concurrency = n]
    BY <1>4 DEF SetMaxActiveJobs, Run
  <2>2. db'.concurrency = n /\ n # 0
    BY <1>0, <2>1 DEF Wired, Keys
  <2> QED
    BY <2>2 DEF Wakeful, Awake
<1> SUFFICES ASSUME ~Obliterate, ~Pause, ~Resume, ~SetMaxActiveJobs
             PROVE  Wakes(db, db') /\ client' = client
  BY <1>1, <1>2, <1>3, <1>4, WakeStep
<1>5. CASE PromoteDueJobs
  <2> DEFINE quiet == FALSE
  <2>1. db' = promote_due(db, quiet) /\ client' = client /\ ~quiet
    BY <1>5 DEF PromoteDueJobs, Run
  <2> HIDE DEF quiet
  <2> QED
    BY <1>0, <2>1, PromoteDueWakes
<1>6. CASE PromoteJob
  BY <1>6, MovesWake DEF PromoteJob, Run
<1>7. CASE RescheduleJob
  BY <1>7, MovesWake DEF RescheduleJob, Run
<1>8. CASE RetryJob
  BY <1>8, RetryJobWakes DEF RetryJob, Run
<1>9. CASE UpdatePriority
  BY <1>9, MovesWake DEF UpdatePriority, Run
<1>10. CASE RemoveJob
  BY <1>10, RemoveJobWakes DEF RemoveJob, Run
<1>11. CASE RemoveDeduplicationKey
  <2>1. \A d : Wakes(db, [db EXCEPT !.dedup[d] = None, !.dedup_next[d] = None])
    BY DEF Wakes, Steady, Wired, Keys
  <2> QED
    BY <1>11, <2>1 DEF RemoveDeduplicationKey, Run
<1>12. CASE CleanJobs
  <2>1. \A state : Cleanable(db, state) \subseteq JobIds
    BY DEF Cleanable
  <2>2. \A states, victims : victims \subseteq JobIds =>
            Wakes(db, remove_candidates(db, states, victims))
    BY RemoveCandidatesWake
  <2> QED
    BY <1>12, <2>1, <2>2 DEF CleanJobs, Run
<1>13. CASE DrainJobs
  <2>1. \A include_delayed : Drainable(db, include_delayed) \subseteq JobIds
    BY DEF Drainable
  <2>2. \A states, victims : victims \subseteq JobIds =>
            Wakes(db, remove_candidates(db, states, victims))
    BY RemoveCandidatesWake
  <2> QED
    BY <1>13, <2>1, <2>2 DEF DrainJobs, Run
<1>14. CASE RemoveOrphanedJobs
  BY <1>14, RemoveOrphansWake DEF RemoveOrphanedJobs, Run
<1>15. CASE RemoveUnprocessedChildren
  BY <1>15, RemoveUnprocessedWakes DEF RemoveUnprocessedChildren, Run
<1>16. CASE RemoveChildDependency
  BY <1>16, RemoveChildDependencyWakes DEF RemoveChildDependency, Run
<1> QED
  BY <1>5, <1>6, <1>7, <1>8, <1>9, <1>10, <1>11, <1>12, <1>13, <1>14, <1>15, <1>16 DEF Manage

LEMMA EnvironmentWakeful == ASSUME RedisInv, Wakeful, Environment PROVE Wakeful'
<1> SUFFICES Wakes(db, db') /\ client' = client
  BY WakeStep
<1>1. \A j : /\ Wakes(db, [db EXCEPT !.lock[j] = None]) /\ Wakes(db, [db EXCEPT !.dedup[j] = None])
             /\ Wakes(db, [db EXCEPT !.claims = 0]) /\ Wakes(db, [db EXCEPT !.jobs[j].due = TRUE])
  BY DEF Wakes, Steady, Wired, Keys
<1> QED
  BY <1>1 DEF Environment, ExpireLock, ExpireDeduplication, ExpireRateLimit, BecomeDue, Run

LEMMA ClientWakeful ==
    ASSUME RateMax = 0, ~Abandons, RedisInv, Wakeful, NEW c \in Clients, ClientStep(c)
    PROVE  Wakeful'
<1>0. /\ Wired(db) /\ DOMAIN client = Clients /\ "op" \in DOMAIN client[c] /\ Wakes(db, db)
      /\ Idle.op # "claim"
  BY ShapeWired, WakesReflexive DEF RedisInv, Sound, Calls, CallIsTrue, Idle
<1>1. CASE ClaimNext(c)
  BY <1>1, ClaimFoundAwake DEF ClaimNext, Wakeful
<1>2. CASE ClaimNothing(c)
  BY <1>2, ClaimEmptyAwake DEF ClaimNothing, Wakeful
<1>3. CASE StartClaim(c) \/ PopMarker(c) \/ BlockTimesOut(c)
  <2>1. \E delayed : client' = [client EXCEPT ![c] = Claiming(delayed)]
    BY <1>3 DEF StartClaim, PopMarker, BlockTimesOut, Call
  <2>2. client'[c].op = "claim"
    BY <1>0, <2>1 DEF Claiming
  <2> QED
    BY <2>2 DEF Wakeful
<1>4. CASE CheckRateLimit(c) \/ ClaimReturnsNone(c) \/ RenewReturns(c)
  <2>1. db' = db /\ client[c].op # "claim" /\ \E call : client' = [client EXCEPT ![c] = call]
    BY <1>4 DEF CheckRateLimit, ClaimReturnsNone, RenewReturns, Call
  <2> QED
    BY <1>0, <2>1, WakeCall
<1>5. CASE BeginComplete(c) \/ BeginFail(c) \/ RenewLease(c) \/ BeginRemoveRepeat(c)
  <2>1. db' = db /\ client[c] = Idle /\ \E call : client' = [client EXCEPT ![c] = call]
    BY <1>5 DEF BeginComplete, BeginFail, RenewLease, BeginRemoveRepeat, Call
  <2> QED
    BY <1>0, <2>1, WakeCall
<1>6. CASE CompleteJob(c)
  <2> DEFINE j == client[c].job
  <2>1. client' = [client EXCEPT ![c] = Idle] /\ client[c].op # "claim"
    BY <1>6 DEF CompleteJob, Call
  <2>2. CASE HoldsLock(db, j, client[c].token) /\ can_complete(db, j)
    <3>1. PICK next \in NextRepeats(client[c].seen) : db' = complete_script(db, j, next)
      BY <1>6, <2>2 DEF CompleteJob
    <3>2. db.jobs[j] \in Job
      BY <2>2 DEF HoldsLock, Exists, RedisInv, Sound, Shape
    <3> HIDE DEF j
    <3>3. Wakes(db, db')
      BY <3>1, <3>2, CompleteWakes
    <3> QED
      BY <2>1, <3>3, WakeCall
  <2>3. CASE ~(HoldsLock(db, j, client[c].token) /\ can_complete(db, j))
    <3>1. db' = db
      BY <1>6, <2>3 DEF CompleteJob
    <3> QED
      BY <1>0, <2>1, <3>1, WakeCall
  <2> QED
    BY <2>2, <2>3
<1>7. CASE FailJob(c)
  <2> DEFINE j == client[c].job
             retry == client[c].retry
  <2>1. client' = [client EXCEPT ![c] = Idle] /\ client[c].op # "claim"
    BY <1>7 DEF FailJob, Call
  <2>2. CASE HoldsLock(db, j, client[c].token)
    <3>1. db' = fail_script(db, j, retry)
      BY <1>7, <2>2 DEF FailJob
    <3>2. db.jobs[j] \in Job
      BY <2>2 DEF HoldsLock, Exists, RedisInv, Sound, Shape
    <3> HIDE DEF j, retry
    <3>3. Wakes(db, db')
      BY <3>1, <3>2, FailWakes
    <3> QED
      BY <2>1, <3>3, WakeCall
  <2>3. CASE ~HoldsLock(db, j, client[c].token)
    <3>1. db' = db
      BY <1>7, <2>3 DEF FailJob
    <3> QED
      BY <1>0, <2>1, <3>1, WakeCall
  <2> QED
    BY <2>2, <2>3
<1>8. CASE RemoveRepeat(c)
  <2>1. /\ db' \in {db, remove_job_script(db, client[c].owner)}
        /\ client[c].op # "claim" /\ \E call : client' = [client EXCEPT ![c] = call]
    BY <1>8 DEF RemoveRepeat, Call
  <2>2. Wakes(db, db')
    BY <1>0, <2>1, RemoveJobWakes
  <2> QED
    BY <2>1, <2>2, WakeCall
<1>9. CASE ClearRepeatOwner(c)
  <2> DEFINE k == client[c].key
             b1 == [db EXCEPT !.repeat_meta[k] = None]
             b2 == [db EXCEPT !.repeat[k] = None, !.repeat_meta[k] = None]
  <2>1. /\ db' \in {db, b1, b2} /\ client[c].op # "claim"
        /\ client' = [client EXCEPT ![c] = Idle]
    BY <1>9 DEF ClearRepeatOwner, Call
  <2> HIDE DEF k
  <2>2. Wakes(db, b1) /\ Wakes(db, b2)
    BY DEF Wakes, Steady, Wired, Keys
  <2> HIDE DEF b1, b2
  <2>3. Wakes(db, db')
    BY <1>0, <2>1, <2>2
  <2> QED
    BY <2>1, <2>3, WakeCall
<1>10. ~Abandon(c)
  BY DEF Abandon
<1> QED
  BY <1>1, <1>2, <1>3, <1>4, <1>5, <1>6, <1>7, <1>8, <1>9, <1>10 DEF ClientStep

LEMMA WakefulNext ==
    ASSUME RateMax = 0, ~Abandons, 0 \notin Limits
    PROVE  RedisInv /\ Wakeful /\ [Next]_vars => Wakeful'
<1> SUFFICES ASSUME RedisInv, Wakeful, [Next]_vars PROVE Wakeful'
  OBVIOUS
<1>1. CASE UNCHANGED vars
  BY <1>1 DEF vars, Wakeful, Awake
<1>2. ASSUME NEW c \in Clients, ClientStep(c) PROVE Wakeful'
  BY <1>2, ClientWakeful
<1> QED
  BY <1>1, <1>2, SubmitWakeful, LeaseWakeful, ManageWakeful, EnvironmentWakeful DEF Next

\* No order of submissions, claims, wake-ups, settlements, recoveries, pauses and removals leaves
\* work that may be claimed while all clients sleep without a marker, in a queue whose claims are
\* not limited, whose limit on active jobs is never lifted, and whose clients do not give up
\* between taking a marker and claiming.
THEOREM WakeupTheorem ==
    ASSUME RateMax = 0, ~Abandons, 0 \notin Limits PROVE Spec => []NoLostWakeup
<1>1. Init => Wakeful
  BY DEF Init, Wakeful, Awake, EmptyDb
<1>2. RedisInv /\ Wakeful /\ [Next]_vars => Wakeful'
  BY WakefulNext
<1>3. Wakeful => NoLostWakeup
  BY DEF Wakeful, Awake, NoLostWakeup
<1> QED
  BY <1>1, <1>2, <1>3, RedisInvHolds, PTL DEF Spec

=============================================================================
