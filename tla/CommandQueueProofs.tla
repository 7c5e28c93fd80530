------------------------- MODULE CommandQueueProofs -------------------------
(***************************************************************************)
(* The lane scheduler, for every set of commands and lanes, every          *)
(* configuration of the lanes and every size of the dead letter queue.     *)
(*                                                                         *)
(* The counters of the code are tied to what they count: the permits to    *)
(* the accepted commands that are not finished, the active count of a lane *)
(* to its tasks, its delayed retries to the commands between two attempts. *)
(* Together with the place of every pending command in its lane this is    *)
(* inductive, and what an observer concludes from a counter that is zero   *)
(* follows from it.                                                        *)
(***************************************************************************)
EXTENDS CommandQueue, FiniteSetTheorems, TLAPS

SchedState ==
    [pc : {"off", "wait", "pressure", "rank", "dequeue", "check", "copy", "idle", "exited"},
     pass : SUBSET Lanes, todo : SUBSET Lanes, rank : [Lanes -> Nat \cup {None}]]

DrainState ==
    [pc : {"none", "waiting", "copy", "idle", "joining", "ok", "timeout"},
     todo : SUBSET Lanes, late : BOOLEAN]

WorkTyped ==
    /\ lanes \in [Lanes -> LaneState]
    /\ cmd \in [Commands -> CommandWrapper]
    /\ releasing \subseteq Commands \X Nat
    /\ outstanding \in Nat
    /\ stored \subseteq Commands
    /\ dlq \in Seq(Commands)

ControlTyped ==
    /\ registered \subseteq Lanes
    /\ is_shutting_down \in BOOLEAN
    /\ sched \in SchedState
    /\ sched.todo \subseteq sched.pass \cup registered
    /\ drain \in DrainState

\* A command has a lane from the moment the lane was found, and only then.
LanesAssigned ==
    \A c \in Commands :
        /\ cmd[c].phase \in {"new", "admitted"} => cmd[c].lane = None
        /\ cmd[c].phase \notin {"new", "admitted", "finished"} => cmd[c].lane \in Lanes
        /\ c \in Direct => cmd[c].phase # "admitted"

\* The commands that hold a permit.
Permits == {c \in Commands : c \notin Direct /\ cmd[c].phase \notin {"new", "finished"}}

PermitsCounted == outstanding = Cardinality(Permits)

\* m[c] is the wrapper of c, Q[l] the queue of l: the pending commands of a lane are the
\* ones in its queue, each once.
Queued(Q, m) ==
    /\ \A l \in Lanes : \A i \in 1 .. Len(Q[l]) :
          m[Q[l][i]].phase = "pending" /\ m[Q[l][i]].lane = l
    /\ \A l \in Lanes : \A i, j \in 1 .. Len(Q[l]) : Q[l][i] = Q[l][j] => i = j
    /\ \A c \in Commands : m[c].phase = "pending" =>
          \E i \in 1 .. Len(Q[m[c].lane]) : Q[m[c].lane][i] = c

Queues == [l \in Lanes |-> lanes[l].pending]

PendingQueued == Queued(Queues, cmd)

\* The commands of lane l between two attempts.
Delayed(l) == {c \in Commands : cmd[c].lane = l /\ cmd[c].phase = "delayed"}

RetriesCounted == \A l \in Lanes : lanes[l].delayed_retries = Cardinality(Delayed(l))

\* An attempt that has still to be released is over, and its command keeps its lane.
AttemptsPast ==
    \A t \in releasing : cmd[t[1]].lane \in Lanes /\ t[2] < cmd[t[1]].attempt

\* A panic loses a task and keeps its slot; nothing else tells the two apart.
TasksCounted ==
    \A l \in Lanes :
        /\ IsFiniteSet(Tasks(l))
        /\ Cardinality(Tasks(l)) <= lanes[l].active
        /\ ~MayPanic => Cardinality(Tasks(l)) = lanes[l].active
        /\ lanes[l].active <= Config[l].max_concurrency

InStorage(c) ==
    /\ cmd[c].lane # None
    /\ Config[cmd[c].lane].stored
    /\ cmd[c].phase \in {"saved", "pending", "running", "delayed", "unstoring"}

StoredExactly ==
    ~StorageMayFail /\ ~MayPanic => \A c \in Commands : c \in stored <=> InStorage(c)

Buried(c) == Len(dlq) = DlqSize \/ \E i \in 1 .. Len(dlq) : dlq[i] = c

\* A failure is buried before it is reported.
BuriedFirst ==
    /\ \A c \in Commands :
        /\ cmd[c].answer \in {"ok", "err"} =>
              cmd[c].phase \in {"completing", "dropping", "finished"}
        /\ cmd[c].phase = "burying" => DlqSize # None
    /\ DlqSize # None /\ DlqSize > 0 =>
        /\ Len(dlq) <= DlqSize
        /\ \A c \in Commands :
            /\ cmd[c].phase = "reporting" /\ cmd[c].outcome = "err" => Buried(c)
            /\ cmd[c].answer = "err" => Buried(c)

\* Whoever has seen no permit after shutdown had begun will never see one again.
ClosedAtZero ==
    /\ sched.pc \in {"copy", "idle", "exited"} => is_shutting_down /\ outstanding = 0
    /\ drain.late => is_shutting_down
    /\ drain.late /\ drain.pc \in {"copy", "idle", "joining", "ok"} => outstanding = 0

WorkInv ==
    /\ WorkTyped /\ LanesAssigned /\ PermitsCounted /\ PendingQueued /\ RetriesCounted
    /\ AttemptsPast /\ TasksCounted /\ StoredExactly /\ BuriedFirst

Inv == WorkInv /\ ControlTyped /\ ClosedAtZero

-----------------------------------------------------------------------------
(***************************************************************************)
(* What a step that rewrites the wrapper of one command keeps.             *)
(***************************************************************************)
Touches(c) ==
    /\ cmd' \in [Commands -> CommandWrapper]
    /\ \A d \in Commands : d # c => cmd'[d] = cmd[d]

\* The command has a task that has not called mark_completed.
OnTask(c) == cmd[c].phase \in Settling \cup {"running"}

\* The phases, one by one.
LEMMA PhaseNames ==
    /\ {"new", "admitted", "found", "saved", "pending", "running", "delayed", "dropping",
        "finished"} \subseteq Phase
    /\ {"unstoring", "burying", "reporting", "completing"} \subseteq Phase
BY DEF Phase, Settling

\* A command that neither gets nor returns a permit.
LEMMA PermitsKept ==
    ASSUME PermitsCounted, NEW c \in Commands, Touches(c), outstanding' = outstanding,
           c \notin Direct => cmd[c].phase \notin {"new", "finished"}
                              /\ cmd'[c].phase \notin {"new", "finished"}
    PROVE  PermitsCounted'
<1>1. Permits' = Permits
  BY DEF Permits, Touches
<1> QED
  BY <1>1 DEF PermitsCounted

\* A finished command has returned its permit, if it held one.
LEMMA PermitReturned ==
    ASSUME PermitsCounted, NEW c \in Commands, Touches(c), outstanding' = permit_released(c),
           cmd[c].phase \notin {"new", "finished"}, cmd'[c].phase = "finished"
    PROVE  PermitsCounted'
<1>1. IsFiniteSet(Permits)
  BY CommandsAssumption, FS_Subset DEF Permits
<1>2. CASE c \in Direct
  <2>1. Permits' = Permits
    BY <1>2 DEF Permits, Touches
  <2> QED
    BY <1>2, <2>1 DEF PermitsCounted, permit_released
<1>3. CASE c \notin Direct
  <2>1. c \in Permits /\ Permits' = Permits \ {c}
    BY <1>3 DEF Permits, Touches
  <2> QED
    BY <1>1, <1>3, <2>1, FS_RemoveElement DEF PermitsCounted, permit_released
<1> QED
  BY <1>2, <1>3

\* A command that is in no queue before and after.
LEMMA QueuedKept ==
    ASSUME NEW Q \in [Lanes -> Seq(Commands)], NEW m, NEW n, NEW c \in Commands,
           Queued(Q, m), m[c].phase # "pending", n[c].phase # "pending",
           \A d \in Commands : m[d].phase = "pending" => m[d].lane \in Lanes,
           \A d \in Commands : d # c => n[d] = m[d]
    PROVE  Queued(Q, n)
<1>1. \A l \in Lanes : /\ Len(Q[l]) \in Nat
                       /\ \A i \in 1 .. Len(Q[l]) : Q[l][i] \in Commands
  OBVIOUS
<1>2. \A l \in Lanes : \A i \in 1 .. Len(Q[l]) : n[Q[l][i]] = m[Q[l][i]]
  BY <1>1 DEF Queued
<1> QED
  BY <1>1, <1>2 DEF Queued

\* R is Q with c at the end of the queue of k.
Joined(Q, R, k, c) == R = [Q EXCEPT ![k] = Append(@, c)]

\* R is Q without the front of the queue of k.
Shortened(Q, R, k) == R = [Q EXCEPT ![k] = Tail(@)]

\* A command that joins the end of a queue.
LEMMA QueuedAppend ==
    ASSUME NEW Q \in [Lanes -> Seq(Commands)], NEW R, NEW m, NEW n, NEW c \in Commands,
           NEW k \in Lanes,
           Queued(Q, m), m[c].phase # "pending", n[c].phase = "pending", n[c].lane = k,
           \A d \in Commands : m[d].phase = "pending" => m[d].lane \in Lanes,
           \A d \in Commands : d # c => n[d] = m[d],
           Joined(Q, R, k, c)
    PROVE  Queued(R, n)
<1>1. /\ Len(R[k]) = Len(Q[k]) + 1 /\ Len(Q[k]) \in Nat
      /\ \A i \in 1 .. Len(Q[k]) : R[k][i] = Q[k][i]
      /\ R[k][Len(R[k])] = c
      /\ \A l \in Lanes : l # k => R[l] = Q[l]
  BY DEF Joined
<1>2. \A l \in Lanes : \A i \in 1 .. Len(Q[l]) :
          /\ Q[l][i] \in Commands /\ Q[l][i] # c /\ n[Q[l][i]] = m[Q[l][i]]
          /\ m[Q[l][i]].phase = "pending" /\ m[Q[l][i]].lane = l
  BY DEF Queued
<1>3. ASSUME NEW l \in Lanes, NEW i \in 1 .. Len(R[l])
      PROVE  n[R[l][i]].phase = "pending" /\ n[R[l][i]].lane = l
  <2>1. CASE l = k /\ i = Len(R[k])
    BY <1>1, <2>1
  <2>2. CASE ~(l = k /\ i = Len(R[k]))
    <3>1. i \in 1 .. Len(Q[l]) /\ R[l][i] = Q[l][i]
      BY <1>1, <2>2
    <3> QED
      BY <3>1, <1>2
  <2> QED
    BY <2>1, <2>2
<1>4. ASSUME NEW l \in Lanes, NEW i \in 1 .. Len(R[l]), NEW j \in 1 .. Len(R[l]),
             R[l][i] = R[l][j]
      PROVE  i = j
  <2>1. CASE l # k
    BY <1>1, <1>4, <2>1 DEF Queued
  <2>2. CASE l = k
    <3>1. \A h \in 1 .. Len(R[k]) : h # Len(R[k]) => h \in 1 .. Len(Q[k]) /\ R[k][h] # c
      BY <1>1, <1>2
    <3>2. CASE i # Len(R[k]) /\ j # Len(R[k])
      BY <1>1, <1>4, <2>2, <3>1, <3>2 DEF Queued
    <3>3. CASE i = Len(R[k]) \/ j = Len(R[k])
      BY <1>1, <1>4, <2>2, <3>1, <3>3
    <3> QED
      BY <3>2, <3>3
  <2> QED
    BY <2>1, <2>2
<1>5. ASSUME NEW d \in Commands, n[d].phase = "pending"
      PROVE  \E i \in 1 .. Len(R[n[d].lane]) : R[n[d].lane][i] = d
  <2>1. CASE d = c
    BY <1>1, <2>1
  <2>2. CASE d # c
    <3>1. PICK i \in 1 .. Len(Q[m[d].lane]) : Q[m[d].lane][i] = d
      BY <1>5, <2>2 DEF Queued
    <3>2. n[d].lane = m[d].lane /\ m[d].lane \in Lanes
      BY <1>5, <2>2
    <3>3. i \in 1 .. Len(R[m[d].lane]) /\ R[m[d].lane][i] = d
      BY <1>1, <3>1, <3>2
    <3> QED
      BY <3>2, <3>3
  <2> QED
    BY <2>1, <2>2
<1> QED
  BY <1>3, <1>4, <1>5 DEF Queued

\* The command at the front leaves its queue.
LEMMA QueuedTail ==
    ASSUME NEW Q \in [Lanes -> Seq(Commands)], NEW R, NEW m, NEW n, NEW c \in Commands,
           NEW k \in Lanes,
           Queued(Q, m), Q[k] # <<>>, c = Head(Q[k]), n[c].phase # "pending",
           \A d \in Commands : m[d].phase = "pending" => m[d].lane \in Lanes,
           \A d \in Commands : d # c => n[d] = m[d],
           Shortened(Q, R, k)
    PROVE  Queued(R, n)
<1>1. /\ Len(Q[k]) \in Nat \ {0} /\ Len(R[k]) = Len(Q[k]) - 1 
      /\ \A i \in 1 .. Len(R[k]) : R[k][i] = Q[k][i + 1]
      /\ Q[k][1] = c
      /\ \A l \in Lanes : l # k => R[l] = Q[l]
  BY DEF Shortened
<1>2. \A l \in Lanes : Len(Q[l]) \in Nat /\ \A i \in 1 .. Len(Q[l]) : Q[l][i] \in Commands
  OBVIOUS
<1>3. ASSUME NEW l \in Lanes, NEW i \in 1 .. Len(R[l])
      PROVE  n[R[l][i]].phase = "pending" /\ n[R[l][i]].lane = l
  <2> SUFFICES /\ R[l][i] \in Commands \ {c}
               /\ m[R[l][i]].phase = "pending" /\ m[R[l][i]].lane = l
    OBVIOUS
  <2>1. CASE l # k
    BY <1>1, <1>2, <2>1 DEF Queued
  <2>2. CASE l = k
    <3>1. i + 1 \in 1 .. Len(Q[k]) /\ i + 1 # 1 /\ 1 \in 1 .. Len(Q[k])
      BY <1>1, <2>2
    <3> QED
      BY <1>1, <1>2, <2>2, <3>1 DEF Queued
  <2> QED
    BY <2>1, <2>2
<1>4. ASSUME NEW l \in Lanes, NEW i \in 1 .. Len(R[l]), NEW j \in 1 .. Len(R[l]),
             R[l][i] = R[l][j]
      PROVE  i = j
  <2>1. CASE l # k
    BY <1>1, <1>4, <2>1 DEF Queued
  <2>2. CASE l = k
    <3>1. i + 1 \in 1 .. Len(Q[k]) /\ j + 1 \in 1 .. Len(Q[k])
      BY <1>1, <2>2
    <3> QED
      BY <1>1, <1>4, <2>2, <3>1 DEF Queued
  <2> QED
    BY <2>1, <2>2
<1>5. ASSUME NEW d \in Commands, n[d].phase = "pending"
      PROVE  \E i \in 1 .. Len(R[n[d].lane]) : R[n[d].lane][i] = d
  <2>1. d # c /\ n[d] = m[d] /\ m[d].lane \in Lanes
    BY <1>5
  <2>2. PICK i \in 1 .. Len(Q[m[d].lane]) : Q[m[d].lane][i] = d
    BY <1>5, <2>1 DEF Queued
  <2>3. CASE m[d].lane # k
    BY <1>1, <2>1, <2>2, <2>3
  <2>4. CASE m[d].lane = k
    <3>1. i - 1 \in 1 .. Len(R[k]) /\ R[k][i - 1] = d
      BY <1>1, <2>1, <2>2, <2>4
    <3> QED
      BY <2>1, <2>4, <3>1
  <2> QED
    BY <2>3, <2>4
<1> QED
  BY <1>3, <1>4, <1>5 DEF Queued

\* A command that is not between two attempts before and after.
LEMMA RetriesKept ==
    ASSUME RetriesCounted, NEW c \in Commands, Touches(c),
           cmd[c].phase # "delayed", cmd'[c].phase # "delayed",
           \A l \in Lanes : lanes'[l].delayed_retries = lanes[l].delayed_retries
    PROVE  RetriesCounted'
<1>1. \A l \in Lanes : Delayed(l)' = Delayed(l)
  BY DEF Delayed, Touches
<1> QED
  BY <1>1 DEF RetriesCounted

\* A command that keeps its lane, once it has one, and its attempt.
LEMMA AttemptsKept ==
    ASSUME AttemptsPast, releasing \subseteq Commands \X Nat, releasing' = releasing,
           NEW c \in Commands, Touches(c),
           cmd[c].lane \in Lanes => cmd'[c].lane = cmd[c].lane,
           cmd'[c].attempt = cmd[c].attempt
    PROVE  AttemptsPast'
BY DEF AttemptsPast, Touches

\* A command whose task, if it has one, stays.
LEMMA TasksKept ==
    ASSUME AttemptsPast, TasksCounted, releasing \subseteq Commands \X Nat,
           releasing' = releasing, NEW c \in Commands, Touches(c),
           cmd[c].lane \in Lanes => cmd'[c].lane = cmd[c].lane,
           cmd'[c].attempt = cmd[c].attempt, OnTask(c)' <=> OnTask(c),
           OnTask(c) => cmd[c].lane \in Lanes,
           \A l \in Lanes : lanes'[l].active = lanes[l].active
    PROVE  TasksCounted'
<1>1. \A l \in Lanes : Tasks(l)' = Tasks(l)
  <2> SUFFICES ASSUME NEW l \in Lanes PROVE Tasks(l)' = Tasks(l)
    OBVIOUS
  <2>1. \A d \in Commands : (cmd'[d].lane = l /\ OnTask(d)') <=> (cmd[d].lane = l /\ OnTask(d))
    BY DEF OnTask, Touches
  <2>2. \A d \in Commands : cmd'[d].attempt = cmd[d].attempt
    BY DEF Touches
  <2>3. \A t \in releasing : cmd'[t[1]].lane = cmd[t[1]].lane
    BY DEF AttemptsPast, Touches
  <2> QED
    BY <2>1, <2>2, <2>3 DEF Tasks, OnTask
<1> QED
  BY <1>1 DEF TasksCounted

\* A command whose place in the storage is not touched.
LEMMA StoredKept ==
    ASSUME StoredExactly, NEW c \in Commands, Touches(c), stored' = stored,
           InStorage(c)' <=> InStorage(c)
    PROVE  StoredExactly'
BY DEF StoredExactly, InStorage, Touches

\* A command that is not about to be reported, and gets no answer from its task.
LEMMA BuriedKept ==
    ASSUME BuriedFirst, NEW c \in Commands, Touches(c), dlq' = dlq,
           cmd'[c].phase = "burying" => DlqSize # None,
           cmd'[c].phase = "reporting" => cmd'[c].outcome # "err",
           \/ cmd'[c].answer \notin {"ok", "err"}
           \/ /\ cmd'[c].answer = cmd[c].answer
              /\ cmd'[c].phase \in {"completing", "dropping", "finished"}
    PROVE  BuriedFirst'
<1>1. \A d \in Commands : Buried(d)' = Buried(d)
  BY DEF Buried
<1> QED
  BY <1>1 DEF BuriedFirst, Touches

\* QueuedKept for the state of the system.
LEMMA PendingKept ==
    ASSUME WorkTyped, LanesAssigned, PendingQueued, NEW c \in Commands, Touches(c),
           cmd[c].phase # "pending", cmd'[c].phase # "pending",
           \A l \in Lanes : lanes'[l].pending = lanes[l].pending
    PROVE  PendingQueued'
<1>1. Queues \in [Lanes -> Seq(Commands)] /\ Queues' = Queues
  BY DEF Queues, WorkTyped, LaneState
<1>2. \A d \in Commands : cmd[d].phase = "pending" => cmd[d].lane \in Lanes
  BY DEF LanesAssigned
<1> QED
  BY <1>1, <1>2, QueuedKept DEF PendingQueued, Touches

\* The count of permits is a natural number.
LEMMA PermitsNat ==
    ASSUME PermitsCounted' PROVE outstanding' \in Nat
<1>1. IsFiniteSet(Permits')
  BY CommandsAssumption, FS_Subset DEF Permits
<1> QED
  BY <1>1, FS_CardinalityType DEF PermitsCounted

\* A command that moves on outside of the queues, its task, if any, with it.
LEMMA MoveInv ==
    ASSUME WorkInv, NEW c \in Commands, Touches(c), UNCHANGED <<lanes, releasing>>,
           cmd[c].phase \notin {"pending", "delayed"},
           cmd'[c].phase \notin {"pending", "delayed"},
           OnTask(c)' <=> OnTask(c),
           cmd[c].lane \in Lanes => cmd'[c].lane = cmd[c].lane,
           cmd'[c].attempt = cmd[c].attempt,
           LanesAssigned', PermitsCounted', StoredExactly', BuriedFirst',
           stored' \subseteq Commands, dlq' \in Seq(Commands)
    PROVE  WorkInv'
<1>1. WorkTyped'
  BY PermitsNat DEF WorkInv, WorkTyped, Touches
<1>2. PendingQueued'
  BY PendingKept DEF WorkInv
<1>3. RetriesCounted'
  BY RetriesKept DEF WorkInv
<1>4. AttemptsPast'
  BY AttemptsKept DEF WorkInv, WorkTyped
<1>5. OnTask(c) => cmd[c].lane \in Lanes
  BY DEF WorkInv, LanesAssigned, OnTask, Settling
<1>6. TasksCounted'
  BY <1>5, TasksKept DEF WorkInv, WorkTyped
<1> QED
  BY <1>1, <1>2, <1>3, <1>4, <1>6 DEF WorkInv

-----------------------------------------------------------------------------
(***************************************************************************)
(* The callers keep the invariant.                                         *)
(***************************************************************************)
\* Admission draws a permit.
LEMMA AdmitInv ==
    ASSUME WorkInv, NEW c \in Commands, admit(c)
    PROVE  WorkInv'
<1>1. Touches(c) /\ cmd'[c] = [cmd[c] EXCEPT !.phase = "admitted"] /\ cmd[c].phase = "new"
  BY DEF admit, WorkInv, WorkTyped, Touches, CommandWrapper, Phase
<1>2. cmd[c] \in CommandWrapper /\ cmd'[c].phase = "admitted" /\ cmd'[c].lane = cmd[c].lane
      /\ cmd'[c].attempt = cmd[c].attempt /\ cmd'[c].answer = cmd[c].answer
  BY <1>1 DEF WorkInv, WorkTyped, CommandWrapper
<1>3. LanesAssigned'
  BY <1>1, <1>2 DEF admit, WorkInv, LanesAssigned, Touches
<1>4. PermitsCounted'
  <2>1. c \notin Permits /\ Permits' = Permits \cup {c}
    BY <1>1, <1>2 DEF admit, Permits, Touches
  <2>2. IsFiniteSet(Permits)
    BY CommandsAssumption, FS_Subset DEF Permits
  <2> QED
    BY <2>1, <2>2, FS_AddElement DEF WorkInv, PermitsCounted, admit
<1>5. StoredExactly'
  BY <1>1, <1>2, StoredKept DEF admit, WorkInv, InStorage
<1>6. BuriedFirst'
  BY <1>1, <1>2, BuriedKept DEF admit, WorkInv, BuriedFirst
<1> QED
  BY <1>1, <1>2, <1>3, <1>4, <1>5, <1>6, MoveInv
  DEF admit, OnTask, Settling, WorkInv, WorkTyped

\* A submitted command finds its lane, or is refused and returns its permit.
LEMMA SubmitInv ==
    ASSUME WorkInv, NEW c \in Commands, NEW l \in Lanes, submit(c, l)
    PROVE  WorkInv'
<1>1. cmd[c] \in CommandWrapper /\ cmd[c].phase = "admitted" /\ c \notin Direct
      /\ cmd[c].lane = None
  BY DEF submit, WorkInv, WorkTyped, LanesAssigned
<1>2. CASE l \in registered
  <2> cmd' = [cmd EXCEPT ![c].phase = "found", ![c].lane = l] /\ outstanding' = outstanding
    BY <1>2 DEF submit
  <2>1. Touches(c) /\ cmd'[c] = [cmd[c] EXCEPT !.phase = "found", !.lane = l]
    BY DEF WorkInv, WorkTyped, Touches, CommandWrapper, Phase
  <2>2. /\ cmd'[c].phase = "found" /\ cmd'[c].lane = l
        /\ cmd'[c].attempt = cmd[c].attempt /\ cmd'[c].answer = cmd[c].answer
    BY <1>1, <2>1 DEF CommandWrapper
  <2>3. LanesAssigned'
    BY <2>1, <2>2 DEF WorkInv, LanesAssigned, Touches
  <2>4. PermitsCounted'
    BY <1>1, <2>1, <2>2, PermitsKept DEF WorkInv
  <2>5. StoredExactly'
    BY <1>1, <2>1, <2>2, StoredKept DEF submit, WorkInv, InStorage
  <2>6. BuriedFirst'
    BY <1>1, <2>1, <2>2, BuriedKept DEF submit, WorkInv, BuriedFirst
  <2> QED
    BY <1>1, <2>1, <2>2, <2>3, <2>4, <2>5, <2>6, MoveInv, OptionsAssumption
    DEF submit, OnTask, Settling, WorkInv, WorkTyped
<1>3. CASE l \notin registered
  <2> cmd' = [cmd EXCEPT ![c].phase = "finished", ![c].answer = "closed"]
      /\ outstanding' = permit_released(c)
    BY <1>3 DEF submit
  <2>1. Touches(c)
    BY DEF WorkInv, WorkTyped, Touches, CommandWrapper, Phase
  <2>2. /\ cmd'[c].phase = "finished" /\ cmd'[c].lane = cmd[c].lane
        /\ cmd'[c].attempt = cmd[c].attempt /\ cmd'[c].answer = "closed"
    BY DEF WorkInv, WorkTyped, CommandWrapper
  <2>3. LanesAssigned'
    BY <2>1, <2>2 DEF WorkInv, LanesAssigned, Touches
  <2>4. PermitsCounted'
    BY <1>1, <2>1, <2>2, PermitReturned DEF WorkInv
  <2>5. StoredExactly'
    BY <1>1, <2>1, <2>2, StoredKept DEF submit, WorkInv, InStorage
  <2>6. BuriedFirst'
    BY <1>1, <2>1, <2>2, BuriedKept DEF submit, WorkInv
  <2> QED
    BY <1>1, <2>1, <2>2, <2>3, <2>4, <2>5, <2>6, MoveInv
    DEF submit, OnTask, Settling, WorkInv, WorkTyped
<1> QED
  BY <1>2, <1>3

\* A command handed to a lane directly.
LEMMA EnqueueInv ==
    ASSUME WorkInv, NEW c \in Commands, NEW l \in Lanes, enqueue(c, l)
    PROVE  WorkInv'
<1>1. cmd[c] \in CommandWrapper /\ cmd[c].phase = "new" /\ c \in Direct /\ cmd[c].lane = None
  BY DEF enqueue, WorkInv, WorkTyped, LanesAssigned
<1>2. Touches(c)
  <2>1. cmd' = [cmd EXCEPT ![c].phase = "found", ![c].lane = l]
    BY DEF enqueue
  <2> QED
    BY <1>1, <2>1, PhaseNames DEF WorkInv, WorkTyped, Touches, CommandWrapper
<1>3. /\ cmd'[c].phase = "found" /\ cmd'[c].lane = l
      /\ cmd'[c].attempt = cmd[c].attempt /\ cmd'[c].answer = cmd[c].answer
  BY DEF enqueue, WorkInv, WorkTyped, CommandWrapper
<1>4. LanesAssigned'
  BY <1>1, <1>2, <1>3 DEF WorkInv, LanesAssigned, Touches
<1>5. PermitsCounted'
  BY <1>1, <1>2, <1>3, PermitsKept DEF enqueue, WorkInv
<1>6. StoredExactly'
  BY <1>1, <1>2, <1>3, StoredKept DEF enqueue, WorkInv, InStorage
<1>7. BuriedFirst'
  BY <1>1, <1>2, <1>3, BuriedKept DEF enqueue, WorkInv, BuriedFirst
<1> QED
  BY <1>1, <1>2, <1>3, <1>4, <1>5, <1>6, <1>7, MoveInv, OptionsAssumption
  DEF enqueue, OnTask, Settling, WorkInv, WorkTyped

\* A command reaches the storage before it can reach a queue.
LEMMA SaveCommandInv ==
    ASSUME WorkInv, NEW c \in Commands, save_command(c)
    PROVE  WorkInv'
<1>1. cmd[c] \in CommandWrapper /\ cmd[c].phase = "found" /\ cmd[c].lane \in Lanes
  BY DEF save_command, WorkInv, WorkTyped, LanesAssigned
<1>2. Touches(c)
  BY DEF save_command, WorkInv, WorkTyped, Touches, CommandWrapper, Phase, Settling
<1>3. /\ cmd'[c].phase = "saved" /\ cmd'[c].lane = cmd[c].lane
      /\ cmd'[c].attempt = cmd[c].attempt /\ cmd'[c].answer = cmd[c].answer
  BY DEF save_command, WorkInv, WorkTyped, CommandWrapper
<1>4. LanesAssigned'
  BY <1>1, <1>2, <1>3 DEF WorkInv, LanesAssigned, Touches
<1>5. PermitsCounted'
  BY <1>1, <1>2, <1>3, PermitsKept DEF save_command, WorkInv
<1>6. StoredExactly'
  BY <1>1, <1>2, <1>3, OptionsAssumption
  DEF save_command, WorkInv, StoredExactly, InStorage, Touches
<1>7. BuriedFirst'
  BY <1>1, <1>2, <1>3, BuriedKept DEF save_command, WorkInv, BuriedFirst
<1> QED
  BY <1>1, <1>2, <1>3, <1>4, <1>5, <1>6, <1>7, MoveInv
  DEF save_command, OnTask, Settling, WorkInv, WorkTyped

-----------------------------------------------------------------------------
(***************************************************************************)
(* The tasks keep the invariant.                                           *)
(***************************************************************************)
\* An attempt that ends for good goes on to settle its outcome.
LEMMA ExecuteInv ==
    ASSUME WorkInv, NEW c \in Commands,
           NEW outcome \in {"ok", "err"}, execute(c, outcome)
    PROVE  WorkInv'
<1>1. cmd[c] \in CommandWrapper /\ cmd[c].phase = "running" /\ cmd[c].lane \in Lanes
  BY DEF execute, WorkInv, WorkTyped, LanesAssigned
<1>2. Touches(c)
  <2>1. cmd' = [cmd EXCEPT ![c].phase = "unstoring", ![c].outcome = outcome]
    BY DEF execute
  <2> QED
    BY <1>1, <2>1, PhaseNames DEF WorkInv, WorkTyped, Touches, CommandWrapper
<1>3. /\ cmd'[c].phase = "unstoring" /\ cmd'[c].lane = cmd[c].lane
      /\ cmd'[c].attempt = cmd[c].attempt /\ cmd'[c].answer = cmd[c].answer
  BY DEF execute, WorkInv, WorkTyped, CommandWrapper
<1>4. LanesAssigned'
  BY <1>1, <1>2, <1>3 DEF WorkInv, LanesAssigned, Touches
<1>5. PermitsCounted'
  BY <1>1, <1>2, <1>3, PermitsKept DEF execute, WorkInv
<1>6. StoredExactly'
  BY <1>1, <1>2, <1>3, StoredKept DEF execute, WorkInv, InStorage
<1>7. BuriedFirst'
  BY <1>1, <1>2, <1>3, BuriedKept DEF execute, WorkInv, BuriedFirst
<1> QED
  BY <1>1, <1>2, <1>3, <1>4, <1>5, <1>6, <1>7, MoveInv
  DEF execute, OnTask, Settling, WorkInv, WorkTyped

\* The storage forgets a command when it is settled.
LEMMA RemoveCommandInv ==
    ASSUME WorkInv, NEW c \in Commands, remove_command(c)
    PROVE  WorkInv'
<1>1. cmd[c] \in CommandWrapper /\ cmd[c].phase = "unstoring" /\ cmd[c].lane \in Lanes
  BY DEF remove_command, WorkInv, WorkTyped, LanesAssigned
<1>2. Touches(c)
  <2>1. cmd' = [cmd EXCEPT ![c].phase =
                IF cmd[c].outcome = "err" /\ DlqSize # None THEN "burying" ELSE "reporting"]
    BY DEF remove_command
  <2> QED
    BY <1>1, <2>1, PhaseNames DEF WorkInv, WorkTyped, Touches, CommandWrapper
<1>3. /\ cmd'[c].phase = IF cmd[c].outcome = "err" /\ DlqSize # None THEN "burying"
                                                                ELSE "reporting"
      /\ cmd'[c].lane = cmd[c].lane /\ cmd'[c].outcome = cmd[c].outcome
      /\ cmd'[c].attempt = cmd[c].attempt /\ cmd'[c].answer = cmd[c].answer
  BY DEF remove_command, WorkInv, WorkTyped, CommandWrapper
<1>4. LanesAssigned'
  BY <1>1, <1>2, <1>3 DEF WorkInv, LanesAssigned, Touches
<1>5. PermitsCounted'
  BY <1>1, <1>2, <1>3, PermitsKept DEF remove_command, WorkInv
<1>6. StoredExactly'
  BY <1>1, <1>2, <1>3, OptionsAssumption
  DEF remove_command, WorkInv, StoredExactly, InStorage, Touches
<1>7. BuriedFirst'
  <2>1. CASE DlqSize # None
    BY <1>1, <1>2, <1>3, <2>1, BuriedKept DEF remove_command, WorkInv, BuriedFirst
  <2>2. CASE DlqSize = None
    BY <1>1, <1>2, <1>3, <2>2 DEF WorkInv, BuriedFirst, Touches
  <2> QED
    BY <2>1, <2>2
<1> QED
  BY <1>1, <1>2, <1>3, <1>4, <1>5, <1>6, <1>7, MoveInv
  DEF remove_command, OnTask, Settling, WorkInv, WorkTyped

\* A failed command is buried before its failure is reported.
LEMMA PushInv ==
    ASSUME WorkInv, NEW c \in Commands, push(c)
    PROVE  WorkInv'
<1>1. cmd[c] \in CommandWrapper /\ cmd[c].phase = "burying" /\ cmd[c].lane \in Lanes
  BY DEF push, WorkInv, WorkTyped, LanesAssigned
<1>2. Touches(c)
  BY DEF push, WorkInv, WorkTyped, Touches, CommandWrapper, Phase, Settling
<1>3. /\ cmd'[c].phase = "reporting" /\ cmd'[c].lane = cmd[c].lane
      /\ cmd'[c].attempt = cmd[c].attempt /\ cmd'[c].answer = cmd[c].answer
  BY DEF push, WorkInv, WorkTyped, CommandWrapper
<1>4. LanesAssigned'
  BY <1>1, <1>2, <1>3 DEF WorkInv, LanesAssigned, Touches
<1>5. PermitsCounted'
  BY <1>1, <1>2, <1>3, PermitsKept DEF push, WorkInv
<1>6. StoredExactly'
  BY <1>1, <1>2, <1>3, StoredKept DEF push, WorkInv, InStorage
<1>7. BuriedFirst'
  <2>1. DlqSize \in Nat
    BY <1>1, OptionsAssumption DEF WorkInv, BuriedFirst
  <2>2. DlqSize > 0 => Len(dlq) <= DlqSize
    BY <2>1, OptionsAssumption DEF WorkInv, BuriedFirst
  <2>3. /\ dlq' \in Seq(Commands)
        /\ DlqSize > 0 => /\ Len(dlq') <= DlqSize /\ Buried(c)'
                          /\ \A d \in Commands : Buried(d) => Buried(d)'
    <3>1. CASE Len(dlq) >= DlqSize /\ dlq # <<>>
      BY <2>1, <2>2, <3>1 DEF push, Buried, WorkInv, WorkTyped
    <3>2. CASE ~(Len(dlq) >= DlqSize /\ dlq # <<>>)
      BY <2>1, <2>2, <3>2 DEF push, Buried, WorkInv, WorkTyped
    <3> QED
      BY <3>1, <3>2
  <2> QED
    BY <1>1, <1>2, <1>3, <2>1, <2>3 DEF WorkInv, BuriedFirst, Touches
<1> QED
  BY <1>1, <1>2, <1>3, <1>4, <1>5, <1>6, <1>7, MoveInv
  DEF push, OnTask, Settling, WorkInv, WorkTyped

\* The answer is the outcome.
LEMMA SendInv ==
    ASSUME WorkInv, NEW c \in Commands, send(c)
    PROVE  WorkInv'
<1>1. cmd[c] \in CommandWrapper /\ cmd[c].phase = "reporting" /\ cmd[c].lane \in Lanes
  BY DEF send, WorkInv, WorkTyped, LanesAssigned
<1>2. Touches(c)
  <2>1. cmd' = [cmd EXCEPT ![c].phase = "completing", ![c].answer = cmd[c].outcome]
    BY DEF send
  <2> QED
    BY <1>1, <2>1, PhaseNames DEF WorkInv, WorkTyped, Touches, CommandWrapper
<1>3. /\ cmd'[c].phase = "completing" /\ cmd'[c].lane = cmd[c].lane
      /\ cmd'[c].attempt = cmd[c].attempt /\ cmd'[c].answer = cmd[c].outcome
  BY DEF send, WorkInv, WorkTyped, CommandWrapper
<1>4. LanesAssigned'
  BY <1>1, <1>2, <1>3 DEF WorkInv, LanesAssigned, Touches
<1>5. PermitsCounted'
  BY <1>1, <1>2, <1>3, PermitsKept DEF send, WorkInv
<1>6. StoredExactly'
  BY <1>1, <1>2, <1>3, StoredKept DEF send, WorkInv, InStorage
<1>7. BuriedFirst'
  <2>1. \A d \in Commands : Buried(d)' = Buried(d)
    BY DEF send, Buried
  <2>2. \A d \in Commands :
          /\ cmd'[d].answer \in {"ok", "err"} =>
                cmd'[d].phase \in {"completing", "dropping", "finished"}
          /\ cmd'[d].phase = "burying" => DlqSize # None
    BY <1>1, <1>2, <1>3 DEF WorkInv, BuriedFirst, Touches
  <2>3. ASSUME DlqSize # None, DlqSize > 0, NEW d \in Commands
        PROVE  /\ cmd'[d].phase = "reporting" /\ cmd'[d].outcome = "err" => Buried(d)
               /\ cmd'[d].answer = "err" => Buried(d)
    BY <1>1, <1>2, <1>3, <2>3 DEF WorkInv, BuriedFirst, Touches
  <2> QED
    BY <2>1, <2>2, <2>3 DEF send, WorkInv, BuriedFirst
<1> QED
  BY <1>1, <1>2, <1>3, <1>4, <1>5, <1>6, <1>7, MoveInv
  DEF send, OnTask, Settling, WorkInv, WorkTyped

\* The permit is returned when the wrapper is dropped.
LEMMA DropWrapperInv ==
    ASSUME WorkInv, NEW c \in Commands, drop_wrapper(c)
    PROVE  WorkInv'
<1>1. cmd[c] \in CommandWrapper /\ cmd[c].phase = "dropping" /\ cmd[c].lane \in Lanes
  BY DEF drop_wrapper, WorkInv, WorkTyped, LanesAssigned
<1>2. Touches(c)
  BY DEF drop_wrapper, WorkInv, WorkTyped, Touches, CommandWrapper, Phase, Settling
<1>3. /\ cmd'[c].phase = "finished" /\ cmd'[c].lane = cmd[c].lane
      /\ cmd'[c].attempt = cmd[c].attempt /\ cmd'[c].answer = cmd[c].answer
  BY DEF drop_wrapper, WorkInv, WorkTyped, CommandWrapper
<1>4. LanesAssigned'
  BY <1>1, <1>2, <1>3 DEF WorkInv, LanesAssigned, Touches
<1>5. PermitsCounted'
  BY <1>1, <1>2, <1>3, PermitReturned DEF drop_wrapper, WorkInv
<1>6. StoredExactly'
  BY <1>1, <1>2, <1>3, StoredKept DEF drop_wrapper, WorkInv, InStorage
<1>7. BuriedFirst'
  BY <1>1, <1>2, <1>3, BuriedKept DEF drop_wrapper, WorkInv, BuriedFirst
<1> QED
  BY <1>1, <1>2, <1>3, <1>4, <1>5, <1>6, <1>7, MoveInv
  DEF drop_wrapper, OnTask, Settling, WorkInv, WorkTyped

\* A task ends: no attempt that has still to be released is this one.
LEMMA TaskEnded ==
    ASSUME AttemptsPast, cmd \in [Commands -> CommandWrapper],
           releasing \subseteq Commands \X Nat, releasing' = releasing,
           NEW c \in Commands, Touches(c), cmd[c].lane \in Lanes,
           cmd'[c].lane = cmd[c].lane, cmd'[c].attempt = cmd[c].attempt,
           OnTask(c), ~OnTask(c)'
    PROVE  /\ <<c, cmd[c].attempt>> \in Tasks(cmd[c].lane)
           /\ \A l \in Lanes : Tasks(l)' = IF l = cmd[c].lane
                                           THEN Tasks(l) \ {<<c, cmd[c].attempt>>} ELSE Tasks(l)
<1>1. <<c, cmd[c].attempt>> \in Tasks(cmd[c].lane)
  BY DEF Tasks, OnTask
<1>2. \A d \in Commands : cmd'[d].attempt = cmd[d].attempt /\ cmd'[d].lane = cmd[d].lane
  BY DEF Touches
<1>3. \A d \in Commands : OnTask(d)' <=> OnTask(d) /\ d # c
  BY DEF OnTask, Touches
<1>4. \A t \in releasing : t # <<c, cmd[c].attempt>> /\ cmd'[t[1]].lane = cmd[t[1]].lane
  BY <1>2 DEF AttemptsPast, CommandWrapper
<1>5. ASSUME NEW l \in Lanes
      PROVE  Tasks(l)' = IF l = cmd[c].lane
                         THEN Tasks(l) \ {<<c, cmd[c].attempt>>} ELSE Tasks(l)
  <2> DEFINE own == {<<d, cmd[d].attempt>> : d \in {e \in Commands : cmd[e].lane = l /\ OnTask(e)}}
             old == {t \in releasing : cmd[t[1]].lane = l}
  <2>1. Tasks(l) = own \cup old /\ Tasks(l)' = own' \cup old'
    BY DEF Tasks, OnTask
  <2>2. old' = old /\ <<c, cmd[c].attempt>> \notin old
    BY <1>4
  <2>3. CASE l = cmd[c].lane
    <3>1. own' = own \ {<<c, cmd[c].attempt>>}
      BY <1>2, <1>3, <2>3
    <3> QED
      BY <2>1, <2>2, <2>3, <3>1
  <2>4. CASE l # cmd[c].lane
    <3>1. own' = own
      BY <1>2, <1>3, <2>4
    <3> QED
      BY <2>1, <2>2, <2>4, <3>1
  <2> QED
    BY <2>3, <2>4
<1> QED
  BY <1>1, <1>5

\* A lane that loses a task, and its slot unless the task panicked.
LEMMA SlotFreed ==
    ASSUME WorkTyped, TasksCounted, NEW k \in Lanes, NEW t, t \in Tasks(k),
           \A l \in Lanes : Tasks(l)' = IF l = k THEN Tasks(l) \ {t} ELSE Tasks(l),
           \A l \in Lanes : l # k => lanes'[l].active = lanes[l].active,
           \/ lanes'[k].active = Decremented(lanes[k].active)
           \/ MayPanic /\ lanes'[k].active = lanes[k].active
    PROVE  TasksCounted'
<1>1. ASSUME NEW l \in Lanes, l # k
      PROVE  /\ IsFiniteSet(Tasks(l)')
             /\ Cardinality(Tasks(l)') <= lanes'[l].active
             /\ ~MayPanic => Cardinality(Tasks(l)') = lanes'[l].active
             /\ lanes'[l].active <= Config[l].max_concurrency
  BY <1>1 DEF TasksCounted
<1>2. /\ IsFiniteSet(Tasks(k)')
      /\ Cardinality(Tasks(k)') = Cardinality(Tasks(k)) - 1
      /\ Cardinality(Tasks(k)) \in Nat
      /\ Cardinality(Tasks(k)') \in Nat
  BY FS_RemoveElement, FS_CardinalityType DEF TasksCounted
<1>3. lanes[k].active \in Nat /\ Config[k].max_concurrency \in Nat
  BY LanesAssumption DEF WorkTyped, LaneState, LaneConfig
<1>4. /\ Cardinality(Tasks(k)') <= lanes'[k].active
      /\ ~MayPanic => Cardinality(Tasks(k)') = lanes'[k].active
      /\ lanes'[k].active <= Config[k].max_concurrency
  BY <1>2, <1>3 DEF TasksCounted, Decremented
<1> QED
  BY <1>1, <1>2, <1>4 DEF TasksCounted

\* A task that panics leaves its slot taken and returns its permit.
LEMMA PanicInv ==
    ASSUME WorkInv, NEW c \in Commands, panic(c)
    PROVE  WorkInv'
<1>1. cmd[c] \in CommandWrapper /\ cmd[c].phase = "running" /\ cmd[c].lane \in Lanes
  BY DEF panic, WorkInv, WorkTyped, LanesAssigned
<1>2. Touches(c)
  <2>1. cmd' = [cmd EXCEPT ![c].phase = "finished", ![c].answer = "closed"]
    BY DEF panic
  <2> QED
    BY <1>1, <2>1, PhaseNames DEF WorkInv, WorkTyped, Touches, CommandWrapper
<1>3. /\ cmd'[c].phase = "finished" /\ cmd'[c].lane = cmd[c].lane
      /\ cmd'[c].attempt = cmd[c].attempt /\ cmd'[c].answer = "closed"
  BY DEF panic, WorkInv, WorkTyped, CommandWrapper
<1>4. LanesAssigned'
  BY <1>1, <1>2, <1>3 DEF WorkInv, LanesAssigned, Touches
<1>5. PermitsCounted'
  BY <1>1, <1>2, <1>3, PermitReturned DEF panic, WorkInv
<1>6. StoredExactly'
  BY DEF panic, StoredExactly
<1>7. BuriedFirst'
  BY <1>1, <1>2, <1>3, BuriedKept DEF panic, WorkInv
<1>8. PendingQueued' /\ RetriesCounted' /\ AttemptsPast'
  BY <1>1, <1>2, <1>3, PendingKept, RetriesKept, AttemptsKept DEF panic, WorkInv, WorkTyped
<1>9. TasksCounted'
  <2>1. OnTask(c) /\ ~OnTask(c)'
    BY <1>1, <1>3 DEF OnTask, Settling
  <2>2. /\ <<c, cmd[c].attempt>> \in Tasks(cmd[c].lane)
        /\ \A l \in Lanes : Tasks(l)' = IF l = cmd[c].lane
                                        THEN Tasks(l) \ {<<c, cmd[c].attempt>>} ELSE Tasks(l)
    BY <1>1, <1>2, <1>3, <2>1, TaskEnded DEF panic, WorkInv, WorkTyped
  <2> QED
    BY <1>1, <2>2, SlotFreed DEF panic, WorkInv
<1>10. WorkTyped'
  BY <1>2, <1>5, PermitsNat DEF panic, WorkInv, WorkTyped, Touches
<1> QED
  BY <1>4, <1>5, <1>6, <1>7, <1>8, <1>9, <1>10 DEF WorkInv

\* A task that calls mark_completed gives its slot back.
LEMMA MarkCompletedInv ==
    ASSUME WorkInv, NEW c \in Commands, mark_completed(c)
    PROVE  WorkInv'
<1>1. cmd[c] \in CommandWrapper /\ cmd[c].phase = "completing" /\ cmd[c].lane \in Lanes
  BY DEF mark_completed, WorkInv, WorkTyped, LanesAssigned
<1>2. Touches(c)
  BY PhaseNames DEF mark_completed, WorkInv, WorkTyped, Touches, CommandWrapper
<1>3. /\ cmd'[c].phase = "dropping" /\ cmd'[c].lane = cmd[c].lane
      /\ cmd'[c].attempt = cmd[c].attempt /\ cmd'[c].answer = cmd[c].answer
  BY DEF mark_completed, WorkInv, WorkTyped, CommandWrapper
<1>4. /\ lanes' \in [Lanes -> LaneState]
      /\ \A l \in Lanes : /\ lanes'[l].pending = lanes[l].pending
                          /\ lanes'[l].delayed_retries = lanes[l].delayed_retries
                          /\ l # cmd[c].lane => lanes'[l].active = lanes[l].active
      /\ lanes'[cmd[c].lane].active = Decremented(lanes[cmd[c].lane].active)
  <2>1. Decremented(lanes[cmd[c].lane].active) \in Nat
    BY <1>1 DEF Decremented, WorkInv, WorkTyped, LaneState
  <2>2. lanes' = [lanes EXCEPT ![cmd[c].lane].active = Decremented(@)]
    BY DEF mark_completed
  <2> QED
    BY <1>1, <2>1, <2>2 DEF WorkInv, WorkTyped, LaneState
<1>5. LanesAssigned'
  BY <1>1, <1>2, <1>3 DEF WorkInv, LanesAssigned, Touches
<1>6. PermitsCounted'
  BY <1>1, <1>2, <1>3, PermitsKept DEF mark_completed, WorkInv
<1>7. StoredExactly'
  BY <1>1, <1>2, <1>3, StoredKept DEF mark_completed, WorkInv, InStorage
<1>8. BuriedFirst'
  BY <1>1, <1>2, <1>3, BuriedKept DEF mark_completed, WorkInv, BuriedFirst
<1>9. PendingQueued' /\ RetriesCounted' /\ AttemptsPast'
  BY <1>1, <1>2, <1>3, <1>4, PendingKept, RetriesKept, AttemptsKept
  DEF mark_completed, WorkInv, WorkTyped
<1>10. TasksCounted'
  <2>1. OnTask(c) /\ ~OnTask(c)'
    BY <1>1, <1>3 DEF OnTask, Settling
  <2>2. /\ <<c, cmd[c].attempt>> \in Tasks(cmd[c].lane)
        /\ \A l \in Lanes : Tasks(l)' = IF l = cmd[c].lane
                                        THEN Tasks(l) \ {<<c, cmd[c].attempt>>} ELSE Tasks(l)
    BY <1>1, <1>2, <1>3, <2>1, TaskEnded DEF mark_completed, WorkInv, WorkTyped
  <2> QED
    BY <1>1, <1>4, <2>2, SlotFreed DEF mark_completed, WorkInv
<1>11. WorkTyped'
  BY <1>2, <1>4, <1>6, PermitsNat DEF mark_completed, WorkInv, WorkTyped, Touches
<1> QED
  BY <1>5, <1>6, <1>7, <1>8, <1>9, <1>10, <1>11 DEF WorkInv

\* QueuedAppend for the state of the system.
LEMMA PendingAppended ==
    ASSUME WorkTyped, LanesAssigned, PendingQueued, NEW c \in Commands, Touches(c),
           cmd[c].phase # "pending", cmd'[c].phase = "pending",
           cmd'[c].lane \in Lanes,
           Joined(Queues, Queues', cmd'[c].lane, c)
    PROVE  PendingQueued'
<1>1. Queues \in [Lanes -> Seq(Commands)]
  BY DEF Queues, WorkTyped, LaneState
<1>2. \A d \in Commands : cmd[d].phase = "pending" => cmd[d].lane \in Lanes
  BY DEF LanesAssigned
<1> QED
  BY <1>1, <1>2, QueuedAppend DEF PendingQueued, Touches

\* The end of enqueue_with_permit puts the command into its queue.
LEMMA PushPendingInv ==
    ASSUME WorkInv, NEW c \in Commands, push_pending(c)
    PROVE  WorkInv'
<1>1. cmd[c] \in CommandWrapper /\ cmd[c].phase = "saved" /\ cmd[c].lane \in Lanes
  BY DEF push_pending, WorkInv, WorkTyped, LanesAssigned
<1>2. Touches(c)
  BY PhaseNames DEF push_pending, WorkInv, WorkTyped, Touches, CommandWrapper
<1>3. /\ cmd'[c].phase = "pending" /\ cmd'[c].lane = cmd[c].lane
      /\ cmd'[c].attempt = cmd[c].attempt /\ cmd'[c].answer = cmd[c].answer
  BY DEF push_pending, WorkInv, WorkTyped, CommandWrapper
<1>4. /\ lanes' \in [Lanes -> LaneState]
      /\ \A l \in Lanes : /\ lanes'[l].active = lanes[l].active
                          /\ lanes'[l].delayed_retries = lanes[l].delayed_retries
                          /\ lanes'[l].pending = IF l = cmd[c].lane
                                THEN Append(lanes[l].pending, c) ELSE lanes[l].pending
  <2>1. Append(lanes[cmd[c].lane].pending, c) \in Seq(Commands)
    BY <1>1 DEF WorkInv, WorkTyped, LaneState
  <2>2. lanes' = [lanes EXCEPT ![cmd[c].lane].pending = Append(@, c)]
    BY DEF push_pending
  <2> QED
    BY <1>1, <2>1, <2>2 DEF WorkInv, WorkTyped, LaneState
<1>5. LanesAssigned'
  BY <1>1, <1>2, <1>3 DEF WorkInv, LanesAssigned, Touches
<1>6. PermitsCounted'
  BY <1>1, <1>2, <1>3, PermitsKept DEF push_pending, WorkInv
<1>7. StoredExactly'
  BY <1>1, <1>2, <1>3, StoredKept DEF push_pending, WorkInv, InStorage
<1>8. BuriedFirst'
  BY <1>1, <1>2, <1>3, BuriedKept DEF push_pending, WorkInv, BuriedFirst
<1>9. RetriesCounted' /\ AttemptsPast'
  BY <1>1, <1>2, <1>3, <1>4, RetriesKept, AttemptsKept DEF push_pending, WorkInv, WorkTyped
<1>10. TasksCounted'
  <2>1. ~OnTask(c) /\ ~OnTask(c)'
    BY <1>1, <1>3 DEF OnTask, Settling
  <2> QED
    BY <1>1, <1>2, <1>3, <1>4, <2>1, TasksKept DEF push_pending, WorkInv, WorkTyped
<1>11. PendingQueued'
  <2>1. Joined(Queues, Queues', cmd[c].lane, c)
    BY <1>4 DEF Queues, Joined
  <2> QED
    BY <1>1, <1>2, <1>3, <2>1, PendingAppended DEF WorkInv
<1>12. WorkTyped'
  BY <1>2, <1>4, <1>6, PermitsNat DEF push_pending, WorkInv, WorkTyped, Touches
<1> QED
  BY <1>5, <1>6, <1>7, <1>8, <1>9, <1>10, <1>11, <1>12 DEF WorkInv

\* The delayed retry is counted until the command is back in its queue.
LEMMA WakeInv ==
    ASSUME WorkInv, NEW c \in Commands, wake(c)
    PROVE  WorkInv'
<1>1. cmd[c] \in CommandWrapper /\ cmd[c].phase = "delayed" /\ cmd[c].lane \in Lanes
  BY DEF wake, WorkInv, WorkTyped, LanesAssigned
<1>2. Touches(c)
  BY PhaseNames DEF wake, WorkInv, WorkTyped, Touches, CommandWrapper
<1>3. /\ cmd'[c].phase = "pending" /\ cmd'[c].lane = cmd[c].lane
      /\ cmd'[c].attempt = cmd[c].attempt /\ cmd'[c].answer = cmd[c].answer
  BY DEF wake, WorkInv, WorkTyped, CommandWrapper
<1>4. /\ lanes' \in [Lanes -> LaneState]
      /\ \A l \in Lanes : /\ lanes'[l].active = lanes[l].active
                          /\ lanes'[l].delayed_retries = IF l = cmd[c].lane
                                THEN Decremented(lanes[l].delayed_retries)
                                ELSE lanes[l].delayed_retries
                          /\ lanes'[l].pending = IF l = cmd[c].lane
                                THEN Append(lanes[l].pending, c) ELSE lanes[l].pending
  <2>1. Append(lanes[cmd[c].lane].pending, c) \in Seq(Commands)
    BY <1>1 DEF WorkInv, WorkTyped, LaneState
  <2>2. Decremented(lanes[cmd[c].lane].delayed_retries) \in Nat
    BY <1>1 DEF Decremented, WorkInv, WorkTyped, LaneState
  <2>3. lanes' = [lanes EXCEPT ![cmd[c].lane].delayed_retries = Decremented(@),
                               ![cmd[c].lane].pending = Append(@, c)]
    BY DEF wake
  <2> QED
    BY <1>1, <2>1, <2>2, <2>3 DEF WorkInv, WorkTyped, LaneState
<1>5. LanesAssigned'
  BY <1>1, <1>2, <1>3 DEF WorkInv, LanesAssigned, Touches
<1>6. PermitsCounted'
  BY <1>1, <1>2, <1>3, PermitsKept DEF wake, WorkInv
<1>7. StoredExactly'
  BY <1>1, <1>2, <1>3, StoredKept DEF wake, WorkInv, InStorage
<1>8. BuriedFirst'
  BY <1>1, <1>2, <1>3, BuriedKept DEF wake, WorkInv, BuriedFirst
<1>9. AttemptsPast'
  BY <1>1, <1>2, <1>3, <1>4, AttemptsKept DEF wake, WorkInv, WorkTyped
<1>10. TasksCounted'
  <2>1. ~OnTask(c) /\ ~OnTask(c)'
    BY <1>1, <1>3 DEF OnTask, Settling
  <2> QED
    BY <1>1, <1>2, <1>3, <1>4, <2>1, TasksKept DEF wake, WorkInv, WorkTyped
<1>11. PendingQueued'
  <2>1. Joined(Queues, Queues', cmd[c].lane, c)
    BY <1>4 DEF Queues, Joined
  <2> QED
    BY <1>1, <1>2, <1>3, <2>1, PendingAppended DEF WorkInv
<1>12. RetriesCounted'
  <2> SUFFICES ASSUME NEW l \in Lanes
               PROVE  lanes'[l].delayed_retries = Cardinality(Delayed(l)')
    BY DEF RetriesCounted
  <2>1. CASE l = cmd[c].lane
    <3>1. c \in Delayed(l) /\ Delayed(l)' = Delayed(l) \ {c}
      BY <1>1, <1>2, <1>3, <2>1 DEF Delayed, Touches
    <3>2. IsFiniteSet(Delayed(l))
      BY CommandsAssumption, FS_Subset DEF Delayed
    <3>3. lanes[l].delayed_retries = Cardinality(Delayed(l)) /\ Cardinality(Delayed(l)) \in Nat
      BY <3>2, FS_CardinalityType DEF WorkInv, RetriesCounted
    <3>4. Cardinality(Delayed(l)') = Cardinality(Delayed(l)) - 1 /\ Cardinality(Delayed(l)') \in Nat
      BY <3>1, <3>2, FS_RemoveElement, FS_CardinalityType
    <3> QED
      BY <1>4, <2>1, <3>3, <3>4 DEF Decremented
  <2>2. CASE l # cmd[c].lane
    <3>1. Delayed(l)' = Delayed(l)
      BY <1>2, <1>3, <2>2 DEF Delayed, Touches
    <3> QED
      BY <1>4, <2>2, <3>1 DEF WorkInv, RetriesCounted
  <2> QED
    BY <2>1, <2>2
<1>13. WorkTyped'
  BY <1>2, <1>4, <1>6, PermitsNat DEF wake, WorkInv, WorkTyped, Touches
<1> QED
  BY <1>5, <1>6, <1>7, <1>8, <1>9, <1>10, <1>11, <1>12, <1>13 DEF WorkInv

\* The task of a failed attempt stays a task of its lane under its old number, and the
\* retry is counted in the same step.
LEMMA RetryCommandInv ==
    ASSUME WorkInv, NEW c \in Commands, retry_command(c)
    PROVE  WorkInv'
<1> DEFINE old == <<c, cmd[c].attempt>>
<1>1. cmd[c] \in CommandWrapper /\ cmd[c].phase = "running" /\ cmd[c].lane \in Lanes
      /\ cmd[c].attempt \in Nat
  BY DEF retry_command, WorkInv, WorkTyped, LanesAssigned, CommandWrapper
<1>2. Touches(c)
  <2> DEFINE n == cmd[c].attempt + 1
  <2>1. cmd' = [cmd EXCEPT ![c].phase = "delayed", ![c].attempt = n] /\ n \in Nat
    BY <1>1 DEF retry_command
  <2> HIDE DEF n
  <2> QED
    BY <1>1, <2>1, PhaseNames DEF WorkInv, WorkTyped, Touches, CommandWrapper
<1>3. /\ cmd'[c].phase = "delayed" /\ cmd'[c].lane = cmd[c].lane
      /\ cmd'[c].attempt = cmd[c].attempt + 1 /\ cmd'[c].answer = cmd[c].answer
  BY DEF retry_command, WorkInv, WorkTyped, CommandWrapper
<1>4. releasing' = releasing \cup {old}
  BY DEF retry_command
<1>5. /\ lanes' \in [Lanes -> LaneState]
      /\ \A l \in Lanes : /\ lanes'[l].active = lanes[l].active
                          /\ lanes'[l].pending = lanes[l].pending
                          /\ lanes'[l].delayed_retries = IF l = cmd[c].lane
                                THEN lanes[l].delayed_retries + 1
                                ELSE lanes[l].delayed_retries
  <2> DEFINE n == lanes[cmd[c].lane].delayed_retries + 1
  <2>1. lanes' = [lanes EXCEPT ![cmd[c].lane].delayed_retries = n]
    BY DEF retry_command
  <2>2. n \in Nat
    BY <1>1 DEF WorkInv, WorkTyped, LaneState
  <2> HIDE DEF n
  <2>3. /\ lanes' \in [Lanes -> LaneState]
        /\ \A l \in Lanes : /\ lanes'[l].active = lanes[l].active
                            /\ lanes'[l].pending = lanes[l].pending
                            /\ lanes'[l].delayed_retries = IF l = cmd[c].lane
                                  THEN n ELSE lanes[l].delayed_retries
    BY <1>1, <2>1, <2>2 DEF WorkInv, WorkTyped, LaneState
  <2> QED
    BY <2>3 DEF n
<1>6. LanesAssigned'
  BY <1>1, <1>2, <1>3 DEF WorkInv, LanesAssigned, Touches
<1>7. PermitsCounted'
  BY <1>1, <1>2, <1>3, PermitsKept DEF retry_command, WorkInv
<1>8. StoredExactly'
  BY <1>1, <1>2, <1>3, StoredKept DEF retry_command, WorkInv, InStorage
<1>9. BuriedFirst'
  BY <1>1, <1>2, <1>3, BuriedKept DEF retry_command, WorkInv, BuriedFirst
<1>10. PendingQueued'
  BY <1>1, <1>2, <1>3, <1>5, PendingKept DEF WorkInv
<1>11. AttemptsPast'
  <2> SUFFICES ASSUME NEW t \in releasing'
               PROVE  cmd'[t[1]].lane \in Lanes /\ t[2] < cmd'[t[1]].attempt
    BY DEF AttemptsPast
  <2>1. CASE t = old
    BY <1>1, <1>3, <2>1
  <2>2. CASE t # old
    <3>1. t \in releasing /\ t[1] \in Commands /\ t[2] \in Nat
      BY <1>4, <2>2 DEF WorkInv, WorkTyped
    <3>2. cmd[t[1]].lane \in Lanes /\ t[2] < cmd[t[1]].attempt
      BY <3>1 DEF WorkInv, AttemptsPast
    <3>3. CASE t[1] = c
      BY <1>1, <1>3, <3>1, <3>2, <3>3
    <3>4. CASE t[1] # c
      BY <1>2, <3>1, <3>2, <3>4 DEF Touches
    <3> QED
      BY <3>3, <3>4
  <2> QED
    BY <2>1, <2>2
<1>12. RetriesCounted'
  <2> SUFFICES ASSUME NEW l \in Lanes
               PROVE  lanes'[l].delayed_retries = Cardinality(Delayed(l)')
    BY DEF RetriesCounted
  <2>1. CASE l = cmd[c].lane
    <3>1. c \notin Delayed(l) /\ Delayed(l)' = Delayed(l) \cup {c}
      BY <1>1, <1>2, <1>3, <2>1 DEF Delayed, Touches
    <3>2. IsFiniteSet(Delayed(l))
      BY CommandsAssumption, FS_Subset DEF Delayed
    <3>3. Cardinality(Delayed(l)') = Cardinality(Delayed(l)) + 1
      BY <3>1, <3>2, FS_AddElement
    <3> QED
      BY <1>5, <2>1, <3>3 DEF WorkInv, RetriesCounted
  <2>2. CASE l # cmd[c].lane
    <3>1. Delayed(l)' = Delayed(l)
      BY <1>2, <1>3, <2>2 DEF Delayed, Touches
    <3> QED
      BY <1>5, <2>2, <3>1 DEF WorkInv, RetriesCounted
  <2> QED
    BY <2>1, <2>2
<1>13. TasksCounted'
  <2>1. \A d \in Commands : OnTask(d)' <=> OnTask(d) /\ d # c
    BY <1>1, <1>2, <1>3 DEF OnTask, Touches, Settling
  <2>2. \A d \in Commands : /\ cmd'[d].lane = cmd[d].lane
                            /\ d # c => cmd'[d].attempt = cmd[d].attempt
    BY <1>2, <1>3 DEF Touches
  <2>3. OnTask(c)
    BY <1>1 DEF OnTask
  <2>4. ASSUME NEW l \in Lanes PROVE Tasks(l)' = Tasks(l)
    <3> DEFINE own == {<<d, cmd[d].attempt>> : d \in {e \in Commands : cmd[e].lane = l /\ OnTask(e)}}
               past == {t \in releasing : cmd[t[1]].lane = l}
    <3>1. Tasks(l) = own \cup past /\ Tasks(l)' = own' \cup past'
      BY DEF Tasks, OnTask
    <3>2. CASE l = cmd[c].lane
      <4>1. past' = past \cup {old}
        BY <1>3, <1>4, <2>2, <3>2 DEF WorkInv, WorkTyped
      <4>2. old \in own /\ own' = own \ {old}
        BY <2>1, <2>2, <2>3, <3>2
      <4> QED
        BY <3>1, <4>1, <4>2
    <3>3. CASE l # cmd[c].lane
      <4>1. past' = past
        BY <1>3, <1>4, <2>2, <3>3 DEF WorkInv, WorkTyped
      <4>2. own' = own
        BY <2>1, <2>2, <3>3
      <4> QED
        BY <3>1, <4>1, <4>2
    <3> QED
      BY <3>2, <3>3
  <2> QED
    BY <1>5, <2>4 DEF WorkInv, TasksCounted
<1>14. WorkTyped'
  BY <1>1, <1>2, <1>4, <1>5, <1>7, PermitsNat DEF retry_command, WorkInv, WorkTyped, Touches
<1> QED
  BY <1>6, <1>7, <1>8, <1>9, <1>10, <1>11, <1>12, <1>13, <1>14 DEF WorkInv

\* The released attempt is not the current one of its command, so one task of the lane
\* is gone.
LEMMA ReleaseInv ==
    ASSUME WorkInv, NEW t \in releasing, release(t)
    PROVE  WorkInv'
<1> DEFINE k == cmd[t[1]].lane
<1>1. /\ t \in Commands \X Nat /\ k \in Lanes /\ t[2] < cmd[t[1]].attempt
      /\ cmd' = cmd /\ releasing' = releasing \ {t}
  BY DEF release, WorkInv, WorkTyped, AttemptsPast
<1> HIDE DEF k
<1>2. /\ lanes' \in [Lanes -> LaneState]
      /\ \A l \in Lanes : /\ lanes'[l].pending = lanes[l].pending
                          /\ lanes'[l].delayed_retries = lanes[l].delayed_retries
                          /\ l # k => lanes'[l].active = lanes[l].active
      /\ lanes'[k].active = Decremented(lanes[k].active)
  <2>1. Decremented(lanes[k].active) \in Nat
    BY <1>1 DEF Decremented, WorkInv, WorkTyped, LaneState
  <2>2. lanes' = [lanes EXCEPT ![k].active = Decremented(@)]
    BY DEF release, k
  <2> QED
    BY <1>1, <2>1, <2>2 DEF WorkInv, WorkTyped, LaneState
<1>3. TasksCounted'
  <2>1. t \in Tasks(k)
    BY DEF Tasks, k
  <2>2. ASSUME NEW l \in Lanes
        PROVE  Tasks(l)' = IF l = k THEN Tasks(l) \ {t} ELSE Tasks(l)
    <3> DEFINE own == {<<d, cmd[d].attempt>> : d \in {e \in Commands : cmd[e].lane = l /\ OnTask(e)}}
               past == {u \in releasing : cmd[u[1]].lane = l}
    <3>1. Tasks(l) = own \cup past /\ Tasks(l)' = own' \cup past'
      BY DEF Tasks, OnTask
    <3>2. own' = own /\ t \notin own
      BY <1>1 DEF WorkInv, WorkTyped, CommandWrapper, OnTask
    <3>3. past' = IF l = k THEN past \ {t} ELSE past
      BY <1>1 DEF k
    <3> QED
      BY <3>1, <3>2, <3>3
  <2> QED
    BY <1>1, <1>2, <2>1, <2>2, SlotFreed DEF WorkInv
<1>4. WorkTyped'
  BY <1>1, <1>2 DEF release, WorkInv, WorkTyped
<1>5. LanesAssigned' /\ AttemptsPast' /\ StoredExactly'
  BY <1>1 DEF release, WorkInv, LanesAssigned, AttemptsPast, StoredExactly, InStorage
<1>6. PermitsCounted'
  BY <1>1 DEF release, WorkInv, PermitsCounted, Permits
<1>7. PendingQueued'
  <2>1. Queues' = Queues
    BY <1>2 DEF Queues
  <2> QED
    BY <1>1, <2>1 DEF WorkInv, PendingQueued
<1>8. RetriesCounted'
  BY <1>1, <1>2 DEF WorkInv, RetriesCounted, Delayed
<1>9. BuriedFirst'
  BY <1>1 DEF release, WorkInv, BuriedFirst, Buried
<1> QED
  BY <1>3, <1>4, <1>5, <1>6, <1>7, <1>8, <1>9 DEF WorkInv

-----------------------------------------------------------------------------
(***************************************************************************)
(* The scheduler keeps the invariant.                                      *)
(***************************************************************************)
\* A dispatched command leaves its queue and becomes a task of its lane, which has room.
LEMMA DispatchInv ==
    ASSUME WorkInv, NEW k \in Lanes, dispatch(k),
           UNCHANGED <<releasing, outstanding, stored, dlq>>
    PROVE  WorkInv'
<1> DEFINE c == Head(lanes[k].pending)
           new == <<c, cmd[c].attempt>>
<1>1. /\ lanes[k] \in LaneState /\ lanes[k].pending \in Seq(Commands)
      /\ lanes[k].pending # <<>> /\ lanes[k].active < Config[k].max_concurrency
      /\ c = lanes[k].pending[1] /\ 1 \in 1 .. Len(lanes[k].pending) /\ c \in Commands
      /\ Tail(lanes[k].pending) \in Seq(Commands)
  BY DEF dispatch, has_capacity, has_pending, WorkInv, WorkTyped, LaneState
<1>2. cmd[c] \in CommandWrapper /\ cmd[c].phase = "pending" /\ cmd[c].lane = k
      /\ cmd[c].attempt \in Nat
  BY <1>1 DEF WorkInv, WorkTyped, PendingQueued, Queued, Queues, CommandWrapper
<1>3. cmd' = [cmd EXCEPT ![c].phase = "running"]
  BY DEF dispatch
<1>4. lanes' = [lanes EXCEPT ![k].active = @ + 1, ![k].pending = Tail(@)]
  BY DEF dispatch
<1> HIDE DEF c
<1>5. Touches(c)
  BY <1>1, <1>3, PhaseNames DEF WorkInv, WorkTyped, Touches, CommandWrapper
<1>6. /\ cmd'[c].phase = "running" /\ cmd'[c].lane = cmd[c].lane
      /\ cmd'[c].attempt = cmd[c].attempt /\ cmd'[c].answer = cmd[c].answer
  BY <1>1, <1>3 DEF WorkInv, WorkTyped, CommandWrapper
<1>7. /\ lanes' \in [Lanes -> LaneState]
      /\ \A l \in Lanes :
            /\ lanes'[l].delayed_retries = lanes[l].delayed_retries
            /\ lanes'[l].pending = IF l = k THEN Tail(lanes[l].pending) ELSE lanes[l].pending
            /\ l # k => lanes'[l].active = lanes[l].active
      /\ lanes'[k].active = lanes[k].active + 1 /\ lanes[k].active \in Nat
  <2> DEFINE n == lanes[k].active + 1
             rest == Tail(lanes[k].pending)
  <2>1. n \in Nat /\ lanes[k].active \in Nat
    BY <1>1 DEF LaneState
  <2>2. lanes' = [lanes EXCEPT ![k].active = n, ![k].pending = rest] /\ rest \in Seq(Commands)
    BY <1>1, <1>4
  <2> HIDE DEF n, rest
  <2>3. /\ lanes' \in [Lanes -> LaneState]
        /\ \A l \in Lanes :
              /\ lanes'[l].delayed_retries = lanes[l].delayed_retries
              /\ lanes'[l].pending = IF l = k THEN rest ELSE lanes[l].pending
              /\ l # k => lanes'[l].active = lanes[l].active
        /\ lanes'[k].active = n
    BY <2>1, <2>2 DEF WorkInv, WorkTyped, LaneState
  <2> QED
    BY <2>1, <2>3 DEF n, rest
<1>8. LanesAssigned'
  BY <1>1, <1>2, <1>5, <1>6 DEF WorkInv, LanesAssigned, Touches
<1>9. PermitsCounted'
  BY <1>1, <1>2, <1>5, <1>6, PermitsKept DEF WorkInv
<1>10. StoredExactly'
  BY <1>1, <1>2, <1>5, <1>6, StoredKept DEF WorkInv, InStorage
<1>11. BuriedFirst'
  BY <1>1, <1>2, <1>5, <1>6, BuriedKept DEF WorkInv, BuriedFirst
<1>12. RetriesCounted' /\ AttemptsPast'
  BY <1>1, <1>2, <1>5, <1>6, <1>7, RetriesKept, AttemptsKept DEF WorkInv, WorkTyped
<1>13. PendingQueued'
  <2>1. Queues \in [Lanes -> Seq(Commands)] /\ Queues[k] = lanes[k].pending
    BY DEF Queues, WorkInv, WorkTyped, LaneState
  <2>2. Shortened(Queues, Queues', k)
    BY <1>7 DEF Queues, Shortened
  <2>3. \A d \in Commands : cmd[d].phase = "pending" => cmd[d].lane \in Lanes
    BY DEF WorkInv, LanesAssigned
  <2>4. Queues[k] # <<>> /\ c = Head(Queues[k])
    BY <1>1, <2>1 DEF c
  <2> QED
    BY <1>1, <1>5, <1>6, <2>1, <2>2, <2>3, <2>4, QueuedTail DEF WorkInv, PendingQueued, Touches
<1>14. TasksCounted'
  <2>1. \A d \in Commands : OnTask(d)' <=> OnTask(d) \/ d = c
    BY <1>1, <1>2, <1>5, <1>6 DEF OnTask, Touches
  <2>2. \A d \in Commands : cmd'[d].lane = cmd[d].lane /\ cmd'[d].attempt = cmd[d].attempt
    BY <1>5, <1>6 DEF Touches
  <2>3. ~OnTask(c)
    BY <1>2 DEF OnTask, Settling
  <2>4. \A t \in releasing : t \in Commands \X Nat /\ t # new
    BY <1>1, <1>2 DEF WorkInv, WorkTyped, AttemptsPast
  <2>5. ASSUME NEW l \in Lanes
        PROVE  /\ Tasks(l)' = IF l = k THEN Tasks(l) \cup {new} ELSE Tasks(l)
               /\ l = k => new \notin Tasks(l)
    <3> DEFINE own == {<<d, cmd[d].attempt>> : d \in {e \in Commands : cmd[e].lane = l /\ OnTask(e)}}
               past == {u \in releasing : cmd[u[1]].lane = l}
    <3>1. Tasks(l) = own \cup past /\ Tasks(l)' = own' \cup past'
      BY DEF Tasks, OnTask
    <3>2. past' = past /\ new \notin past
      BY <2>2, <2>4
    <3>3. new \notin own
      BY <2>3
    <3>4. own' = IF l = k THEN own \cup {new} ELSE own
      BY <1>1, <1>2, <2>1, <2>2
    <3> QED
      BY <3>1, <3>2, <3>3, <3>4
  <2>6. /\ IsFiniteSet(Tasks(k)')
        /\ Cardinality(Tasks(k)') = Cardinality(Tasks(k)) + 1
        /\ Cardinality(Tasks(k)) \in Nat
    BY <2>5, FS_AddElement, FS_CardinalityType DEF WorkInv, TasksCounted
  <2>7. Config[k].max_concurrency \in Nat
    BY LanesAssumption DEF LaneConfig
  <2>8. /\ Cardinality(Tasks(k)') <= lanes'[k].active
        /\ ~MayPanic => Cardinality(Tasks(k)') = lanes'[k].active
        /\ lanes'[k].active <= Config[k].max_concurrency
    BY <1>1, <1>7, <2>6, <2>7 DEF WorkInv, TasksCounted
  <2>9. ASSUME NEW l \in Lanes, l # k
        PROVE  /\ IsFiniteSet(Tasks(l)')
               /\ Cardinality(Tasks(l)') <= lanes'[l].active
               /\ ~MayPanic => Cardinality(Tasks(l)') = lanes'[l].active
               /\ lanes'[l].active <= Config[l].max_concurrency
    BY <1>7, <2>5, <2>9 DEF WorkInv, TasksCounted
  <2> QED
    BY <2>6, <2>8, <2>9 DEF TasksCounted
<1>15. WorkTyped'
  BY <1>5, <1>7, <1>9, PermitsNat DEF WorkInv, WorkTyped, Touches
<1> QED
  BY <1>8, <1>9, <1>10, <1>11, <1>12, <1>13, <1>14, <1>15 DEF WorkInv

\* A step that leaves the commands, their queues and their counts alone.
LEMMA QuietInv ==
    ASSUME WorkInv, UNCHANGED <<cmd, releasing, outstanding, stored, dlq>>,
           lanes' \in [Lanes -> LaneState],
           \A l \in Lanes : /\ lanes'[l].pending = lanes[l].pending
                            /\ lanes'[l].active = lanes[l].active
                            /\ lanes'[l].delayed_retries = lanes[l].delayed_retries
    PROVE  WorkInv'
<1>1. WorkTyped'
  BY DEF WorkInv, WorkTyped
<1>2. LanesAssigned' /\ AttemptsPast' /\ StoredExactly'
  BY DEF WorkInv, LanesAssigned, AttemptsPast, StoredExactly, InStorage
<1>3. PermitsCounted'
  BY DEF WorkInv, PermitsCounted, Permits
<1>4. PendingQueued'
  <2>1. Queues' = Queues
    BY DEF Queues
  <2> QED
    BY <2>1 DEF WorkInv, PendingQueued
<1>5. RetriesCounted'
  BY DEF WorkInv, RetriesCounted, Delayed
<1>6. TasksCounted'
  <2>1. \A l \in Lanes : Tasks(l)' = Tasks(l)
    BY DEF Tasks
  <2> QED
    BY <2>1 DEF WorkInv, TasksCounted
<1>7. BuriedFirst'
  BY DEF WorkInv, BuriedFirst, Buried
<1> QED
  BY <1>1, <1>2, <1>3, <1>4, <1>5, <1>6, <1>7 DEF WorkInv

\* Looking at the pressure of a lane changes nothing but its flag.
LEMMA CheckPressureInv ==
    ASSUME WorkInv, NEW k \in Lanes, check_pressure(k)
    PROVE  WorkInv'
<1>1. PICK p \in BOOLEAN : lanes' = [lanes EXCEPT ![k].is_pressured = p]
  <2>1. lanes[k].is_pressured \in BOOLEAN /\ Len(lanes[k].pending) \in Nat
    BY DEF WorkInv, WorkTyped, LaneState
  <2> DEFINE p == CASE Config[k].pressure_threshold = None -> lanes[k].is_pressured
                    [] Config[k].pressure_threshold # None /\ lanes[k].is_pressured ->
                          Len(lanes[k].pending) # 0
                    [] Config[k].pressure_threshold # None /\ ~lanes[k].is_pressured ->
                          Len(lanes[k].pending) >= Config[k].pressure_threshold
  <2>2. p \in BOOLEAN
    <3>1. CASE Config[k].pressure_threshold = None
      BY <2>1, <3>1
    <3>2. CASE Config[k].pressure_threshold # None /\ lanes[k].is_pressured
      BY <3>2
    <3>3. CASE Config[k].pressure_threshold # None /\ ~lanes[k].is_pressured
      <4>1. p = (Len(lanes[k].pending) >= Config[k].pressure_threshold)
        BY <3>3
      <4>2. Config[k].pressure_threshold \in Nat
        BY <3>3, LanesAssumption DEF LaneConfig
      <4> HIDE DEF p
      <4> QED
        BY <2>1, <4>1, <4>2
    <3> QED
      BY <3>1, <3>2, <3>3
  <2>3. lanes' = [lanes EXCEPT ![k].is_pressured = p]
    BY DEF check_pressure
  <2> HIDE DEF p
  <2> QED
    BY <2>2, <2>3
<1>2. /\ lanes' \in [Lanes -> LaneState]
      /\ \A l \in Lanes : /\ lanes'[l].pending = lanes[l].pending
                          /\ lanes'[l].active = lanes[l].active
                          /\ lanes'[l].delayed_retries = lanes[l].delayed_retries
  BY <1>1 DEF WorkInv, WorkTyped, LaneState
<1> QED
  BY <1>2, QuietInv DEF check_pressure, SchedulerOnly

\* Every step keeps what the counters stand for.
LEMMA WorkStep ==
    ASSUME WorkInv, [Next]_vars
    PROVE  WorkInv'
<1> DEFINE Quiet == UNCHANGED <<lanes, cmd, releasing, outstanding, stored, dlq>>
<1>1. CASE Quiet
  BY <1>1, QuietInv DEF WorkInv, WorkTyped
<1>2. CASE Caller
  <2>1. ASSUME NEW c \in Commands, admit(c) PROVE WorkInv'
    BY <2>1, AdmitInv
  <2>2. ASSUME NEW c \in Commands, NEW l \in Lanes, enqueue(c, l) PROVE WorkInv'
    BY <2>2, EnqueueInv
  <2>3. start \/ begin_shutdown \/ (\E l \in Lanes : register_lane(l)) => Quiet
    BY DEF start, SchedulerOnly, begin_shutdown, register_lane
  <2> QED
    BY <1>1, <1>2, <2>1, <2>2, <2>3 DEF Caller
<1>3. ASSUME NEW c \in Commands, Proceed(c) PROVE WorkInv'
  <2>1. CASE \E l \in Lanes : submit(c, l)
    BY <2>1, SubmitInv
  <2>2. CASE \E outcome \in {"ok", "err"} : execute(c, outcome)
    BY <2>2, ExecuteInv
  <2>3. CASE save_command(c) \/ push_pending(c) \/ retry_command(c) \/ wake(c)
    BY <2>3, SaveCommandInv, PushPendingInv, RetryCommandInv, WakeInv
  <2>4. CASE remove_command(c) \/ push(c) \/ send(c)
    BY <2>4, RemoveCommandInv, PushInv, SendInv
  <2>5. CASE mark_completed(c) \/ drop_wrapper(c) \/ panic(c)
    BY <2>5, MarkCompletedInv, DropWrapperInv, PanicInv
  <2> QED
    BY <1>3, <2>1, <2>2, <2>3, <2>4, <2>5 DEF Proceed
<1>4. CASE Release
  BY <1>4, ReleaseInv DEF Release
<1>5. CASE Scheduler
  <2>1. ASSUME NEW l \in Lanes, check_pressure(l) PROVE WorkInv'
    BY <2>1, CheckPressureInv
  <2>2. ASSUME NEW l \in Lanes, try_dequeue(l) PROVE WorkInv'
    <3>1. CASE dispatch(l)
      BY <2>2, <3>1, DispatchInv DEF try_dequeue, SchedulerOnly
    <3>2. CASE UNCHANGED <<lanes, cmd>>
      BY <1>1, <2>2, <3>2 DEF try_dequeue, SchedulerOnly
    <3> QED
      BY <2>2, <3>1, <3>2 DEF try_dequeue
  <2>3. schedule_next \/ check_end \/ scheduler_copies_lanes \/ exit_scheduler => Quiet
    BY DEF schedule_next, check_end, scheduler_copies_lanes, exit_scheduler, SchedulerOnly
  <2>4. ASSUME NEW l \in Lanes PROVE rank_lane(l) \/ scheduler_checks_lane(l) => Quiet
    BY DEF rank_lane, scheduler_checks_lane, SchedulerOnly
  <2> QED
    BY <1>1, <1>5, <2>1, <2>2, <2>3, <2>4 DEF Scheduler
<1>6. CASE Drain
  <2>1. Quiet
    BY <1>6 DEF Drain, drain_begins, wait_for_idle, drain_copies_lanes, drain_idle, drain_joins,
                drain_times_out, drain_checks_lane, DrainOnly
  <2> QED
    BY <1>1, <2>1
<1>7. CASE UNCHANGED vars
  BY <1>1, <1>7 DEF vars
<1> QED
  BY <1>2, <1>3, <1>4, <1>5, <1>6, <1>7 DEF Next

-----------------------------------------------------------------------------
(***************************************************************************)
(* The scheduler task and drain as observers.                              *)
(***************************************************************************)
\* The scheduler moves on within a pass, never to its end.
LEMMA AdvanceTyped ==
    ASSUME NEW s \in SchedState, NEW r, s.todo \subseteq s.pass \cup r,
           s.pc \notin {"copy", "idle", "exited"}
    PROVE  /\ Advance(s) \in SchedState
           /\ Advance(s).todo \subseteq Advance(s).pass \cup r
           /\ Advance(s).pc \notin {"copy", "idle", "exited"}
<1>1. CASE s.todo # {}
  BY <1>1 DEF Advance
<1>2. CASE s.todo = {} /\ s.pass # {} /\ s.pc = "pressure"
  <2>1. Advance(s) = [s EXCEPT !.pc = "rank", !.todo = s.pass]
    BY <1>2 DEF Advance
  <2> QED
    BY <2>1 DEF SchedState
<1>3. CASE s.todo = {} /\ s.pass # {} /\ s.pc = "rank"
  <2>1. Advance(s) = [s EXCEPT !.pc = "dequeue", !.todo = s.pass]
    BY <1>3 DEF Advance
  <2> QED
    BY <2>1 DEF SchedState
<1>4. CASE s.todo = {} /\ ~(s.pass # {} /\ s.pc \in {"pressure", "rank"})
  <2>1. Advance(s) = [pc |-> "check", pass |-> {}, todo |-> {}, rank |-> Unranked]
    BY <1>4 DEF Advance
  <2> QED
    BY <2>1 DEF SchedState, Unranked
<1> QED
  BY <1>1, <1>2, <1>3, <1>4

\* Without a permit nobody holds one.
LEMMA NoPermits ==
    ASSUME WorkInv, outstanding = 0
    PROVE  Permits = {}
<1>1. IsFiniteSet(Permits)
  BY CommandsAssumption, FS_Subset DEF Permits
<1> QED
  BY <1>1, FS_EmptySet DEF WorkInv, PermitsCounted

\* After shutdown has begun and the last permit is gone, there is never another.
LEMMA StaysClosed ==
    ASSUME WorkInv, [Next]_vars, is_shutting_down, outstanding = 0
    PROVE  is_shutting_down' /\ outstanding' = 0
<1>1. \A c \in Commands : c \notin Direct => cmd[c].phase \in {"new", "finished"}
  BY NoPermits DEF Permits
<1>2. CASE Caller
  BY <1>2 DEF Caller, start, SchedulerOnly, begin_shutdown, register_lane, admit, enqueue
<1>3. ASSUME NEW c \in Commands, Proceed(c)
      PROVE  is_shutting_down' /\ outstanding' = 0
  <2>1. CASE \E l \in Lanes : submit(c, l)
    BY <1>1, <2>1 DEF submit, permit_released
  <2>2. CASE \/ \E outcome \in {"ok", "err"} : execute(c, outcome)
             \/ save_command(c) \/ push_pending(c) \/ retry_command(c) \/ wake(c)
             \/ remove_command(c) \/ push(c) \/ send(c) \/ mark_completed(c)
    BY <2>2 DEF execute, save_command, push_pending, retry_command, wake, remove_command, push,
                send, mark_completed
  <2>3. CASE drop_wrapper(c) \/ panic(c)
    BY <1>1, <2>3 DEF drop_wrapper, panic, permit_released
  <2> QED
    BY <1>3, <2>1, <2>2, <2>3 DEF Proceed
<1>4. CASE Release
  BY <1>4 DEF Release, release
<1>5. CASE Scheduler
  BY <1>5 DEF Scheduler, schedule_next, check_end, scheduler_copies_lanes, exit_scheduler,
              check_pressure, rank_lane, try_dequeue, scheduler_checks_lane, SchedulerOnly
<1>6. CASE Drain
  BY <1>6 DEF Drain, drain_begins, wait_for_idle, drain_copies_lanes, drain_idle, drain_joins,
              drain_times_out, drain_checks_lane, DrainOnly
<1>7. CASE UNCHANGED vars
  BY <1>7 DEF vars
<1> QED
  BY <1>2, <1>3, <1>4, <1>5, <1>6, <1>7 DEF Next

\* A step of the scheduler within its pass.
LEMMA PassStep ==
    ASSUME Inv, NEW s \in SchedState, s.todo \subseteq s.pass \cup registered,
           s.pc \notin {"copy", "idle", "exited"}, sched' = Advance(s),
           UNCHANGED <<registered, is_shutting_down, outstanding, drain>>
    PROVE  ControlTyped' /\ ClosedAtZero'
<1>1. /\ sched' \in SchedState /\ sched'.todo \subseteq sched'.pass \cup registered
      /\ sched'.pc \notin {"copy", "idle", "exited"}
  BY AdvanceTyped
<1> QED
  BY <1>1 DEF Inv, ControlTyped, ClosedAtZero

\* Every step of the scheduler keeps what it knows when it ends.
LEMMA SchedulerControl ==
    ASSUME Inv, Scheduler
    PROVE  ControlTyped' /\ ClosedAtZero'
<1>1. CASE schedule_next
  <2> DEFINE s == [pc |-> "pressure", pass |-> registered, todo |-> registered,
                   rank |-> Unranked]
  <2>1. s \in SchedState /\ s.todo \subseteq s.pass \cup registered
        /\ s.pc \notin {"copy", "idle", "exited"}
    BY DEF Inv, ControlTyped, SchedState, Unranked
  <2>2. sched' = Advance(s)
    BY <1>1 DEF schedule_next
  <2> QED
    BY <1>1, <2>1, <2>2, PassStep DEF schedule_next, SchedulerOnly
<1>2. CASE check_end
  BY <1>2 DEF check_end, SchedulerOnly, Inv, ControlTyped, ClosedAtZero, SchedState
<1>3. CASE scheduler_copies_lanes
  BY <1>3 DEF scheduler_copies_lanes, SchedulerOnly, Inv, ControlTyped, ClosedAtZero, SchedState
<1>4. CASE exit_scheduler
  BY <1>4 DEF exit_scheduler, SchedulerOnly, Inv, ControlTyped, ClosedAtZero, SchedState
<1>5. ASSUME NEW l \in Lanes, check_pressure(l) PROVE ControlTyped' /\ ClosedAtZero'
  <2> DEFINE s == [sched EXCEPT !.todo = @ \ {l}]
  <2>1. s \in SchedState /\ s.todo \subseteq s.pass \cup registered
        /\ s.pc \notin {"copy", "idle", "exited"}
    BY <1>5 DEF check_pressure, Inv, ControlTyped, SchedState
  <2>2. sched' = Advance(s)
    BY <1>5 DEF check_pressure
  <2> QED
    BY <1>5, <2>1, <2>2, PassStep DEF check_pressure, SchedulerOnly
<1>6. ASSUME NEW l \in Lanes, rank_lane(l) PROVE ControlTyped' /\ ClosedAtZero'
  <2>1. PICK p \in effective_priority(l) :
          sched' = Advance([sched EXCEPT !.rank[l] = p, !.todo = @ \ {l}])
    BY <1>6 DEF rank_lane
  <2>2. p \in Nat
    BY LanesAssumption DEF effective_priority, LaneConfig
  <2> DEFINE s == [sched EXCEPT !.rank[l] = p, !.todo = @ \ {l}]
  <2>3. s \in SchedState /\ s.todo \subseteq s.pass \cup registered
        /\ s.pc \notin {"copy", "idle", "exited"}
    BY <1>6, <2>2 DEF rank_lane, Inv, ControlTyped, SchedState
  <2> QED
    BY <1>6, <2>1, <2>3, PassStep DEF rank_lane, SchedulerOnly
<1>7. ASSUME NEW l \in Lanes, try_dequeue(l) PROVE ControlTyped' /\ ClosedAtZero'
  <2>1. PICK t \in {{}, sched.todo \ {l}} : sched' = Advance([sched EXCEPT !.todo = t])
    BY <1>7 DEF try_dequeue
  <2> DEFINE s == [sched EXCEPT !.todo = t]
  <2>2. s \in SchedState /\ s.todo \subseteq s.pass \cup registered
        /\ s.pc \notin {"copy", "idle", "exited"}
    BY <1>7 DEF try_dequeue, Inv, ControlTyped, SchedState
  <2> QED
    BY <1>7, <2>1, <2>2, PassStep DEF try_dequeue, SchedulerOnly
<1>8. ASSUME NEW l \in Lanes, scheduler_checks_lane(l) PROVE ControlTyped' /\ ClosedAtZero'
  BY <1>8 DEF scheduler_checks_lane, SchedulerOnly, Inv, ControlTyped, ClosedAtZero, SchedState
<1> QED
  BY <1>1, <1>2, <1>3, <1>4, <1>5, <1>6, <1>7, <1>8 DEF Scheduler

\* So does every step of drain.
LEMMA DrainControl ==
    ASSUME Inv, Drain
    PROVE  ControlTyped' /\ ClosedAtZero'
<1> USE DEF Inv, ControlTyped, ClosedAtZero, SchedState, DrainState, DrainOnly
<1>1. CASE drain_begins
  BY <1>1 DEF drain_begins
<1>2. CASE wait_for_idle
  BY <1>2 DEF wait_for_idle
<1>3. CASE drain_copies_lanes
  BY <1>3 DEF drain_copies_lanes
<1>4. CASE drain_idle
  BY <1>4 DEF drain_idle
<1>5. CASE drain_joins
  BY <1>5 DEF drain_joins
<1>6. CASE drain_times_out
  BY <1>6 DEF drain_times_out
<1>7. ASSUME NEW l \in Lanes, drain_checks_lane(l) PROVE ControlTyped' /\ ClosedAtZero'
  BY <1>7 DEF drain_checks_lane
<1> QED
  BY <1>1, <1>2, <1>3, <1>4, <1>5, <1>6, <1>7 DEF Drain

\* A step that leaves both alone.
LEMMA OthersControl ==
    ASSUME Inv, [Next]_vars, UNCHANGED <<registered, is_shutting_down, sched, drain>>
    PROVE  ControlTyped' /\ ClosedAtZero'
<1>1. ControlTyped'
  BY DEF Inv, ControlTyped
<1>2. is_shutting_down /\ outstanding = 0 => outstanding' = 0
  BY StaysClosed DEF Inv
<1> QED
  BY <1>1, <1>2 DEF Inv, ClosedAtZero

\* Every step keeps what the observers know.
LEMMA ControlStep ==
    ASSUME Inv, [Next]_vars
    PROVE  ControlTyped' /\ ClosedAtZero'
<1>1. CASE start
  BY <1>1 DEF start, SchedulerOnly, Inv, ControlTyped, ClosedAtZero, SchedState
<1>2. CASE begin_shutdown
  BY <1>2 DEF begin_shutdown, Inv, ControlTyped, ClosedAtZero
<1>3. ASSUME NEW l \in Lanes, register_lane(l) PROVE ControlTyped' /\ ClosedAtZero'
  BY <1>3 DEF register_lane, Inv, ControlTyped, ClosedAtZero
<1>4. ASSUME NEW c \in Commands, admit(c) \/ \E l \in Lanes : enqueue(c, l)
      PROVE  ControlTyped' /\ ClosedAtZero'
  BY <1>4, OthersControl DEF admit, enqueue
<1>5. ASSUME NEW c \in Commands, Proceed(c) PROVE ControlTyped' /\ ClosedAtZero'
  <2>1. UNCHANGED <<registered, is_shutting_down, sched, drain>>
    BY <1>5 DEF Proceed, submit, save_command, push_pending, execute, retry_command, wake,
                remove_command, push, send, mark_completed, drop_wrapper, panic
  <2> QED
    BY <2>1, OthersControl
<1>6. CASE Release
  BY <1>6, OthersControl DEF Release, release
<1>7. CASE UNCHANGED vars
  BY <1>7, OthersControl DEF vars
<1> QED
  BY <1>1, <1>2, <1>3, <1>4, <1>5, <1>6, <1>7, SchedulerControl, DrainControl DEF Next, Caller

-----------------------------------------------------------------------------
(***************************************************************************)
(* Theorems.                                                               *)
(***************************************************************************)
\* The invariant holds at the start.
LEMMA InitInv == Init => Inv
<1> SUFFICES ASSUME Init PROVE Inv
  OBVIOUS
<1>1. WorkTyped
  BY PhaseNames DEF Init, WorkTyped, LaneState, CommandWrapper
<1>2. LanesAssigned /\ AttemptsPast
  BY DEF Init, LanesAssigned, AttemptsPast
<1>3. PermitsCounted
  <2>1. Permits = {}
    BY DEF Init, Permits
  <2> QED
    BY <2>1, FS_EmptySet DEF Init, PermitsCounted
<1>4. PendingQueued
  <2>1. \A l \in Lanes : Queues[l] = <<>>
    BY DEF Init, Queues
  <2> QED
    BY <2>1 DEF Init, PendingQueued, Queued
<1>5. RetriesCounted
  <2>1. \A l \in Lanes : Delayed(l) = {} /\ lanes[l].delayed_retries = 0
    BY DEF Init, Delayed
  <2> QED
    BY <2>1, FS_EmptySet DEF RetriesCounted
<1>6. TasksCounted
  <2>1. \A l \in Lanes : Tasks(l) = {} /\ lanes[l].active = 0
    BY DEF Init, Tasks, Settling
  <2>2. \A l \in Lanes : Config[l].max_concurrency \in Nat
    BY LanesAssumption DEF LaneConfig
  <2> QED
    BY <2>1, <2>2, FS_EmptySet DEF TasksCounted
<1>7. StoredExactly
  BY DEF Init, StoredExactly, InStorage
<1>8. BuriedFirst
  <2>1. DlqSize # None => DlqSize \in Nat
    BY OptionsAssumption
  <2> QED
    BY <2>1, OptionsAssumption DEF Init, BuriedFirst
<1>9. ControlTyped /\ ClosedAtZero
  BY DEF Init, ControlTyped, ClosedAtZero, SchedState, DrainState, Unranked
<1> QED
  BY <1>1, <1>2, <1>3, <1>4, <1>5, <1>6, <1>7, <1>8, <1>9 DEF Inv, WorkInv

\* The invariant is inductive: the counters stand for what they count, and no observer
\* forgets what it saw.
THEOREM Invariance == Spec => []Inv
<1>1. Inv /\ [Next]_vars => Inv'
  BY WorkStep, ControlStep DEF Inv
<1> QED
  BY <1>1, InitInv, PTL DEF Spec

\* The shape of the state, for every configuration: in particular the count of permits and
\* the counts of a lane never run below zero, where the code would wrap around or saturate.
THEOREM TypeCorrect == Spec => []TypeOK
<1>1. Inv => TypeOK
  BY DEF Inv, WorkInv, WorkTyped, ControlTyped, TypeOK, SchedState, DrainState
<1> QED
  BY <1>1, Invariance, PTL

\* A lane that is_idle calls idle owns no command on its way, panics included: every task
\* is below the active count, every command between two attempts is counted as delayed.
THEOREM IdleMeansEmpty == Spec => []IdleLaneIsEmpty
<1>1. Inv => IdleLaneIsEmpty
  <2> SUFFICES ASSUME Inv, NEW l \in Lanes, LaneIsIdle(l), NEW c \in Commands, cmd[c].lane = l
               PROVE  cmd[c].phase \in {"found", "saved", "dropping", "finished"}
    BY DEF IdleLaneIsEmpty
  <2>1. cmd[c].phase \in Phase /\ cmd[c].phase \notin {"new", "admitted"}
    BY OptionsAssumption DEF Inv, WorkInv, WorkTyped, CommandWrapper, LanesAssigned
  <2>2. cmd[c].phase # "pending"
    <3>1. Queues[l] = <<>>
      BY DEF LaneIsIdle, Queues
    <3> QED
      BY <3>1 DEF Inv, WorkInv, PendingQueued, Queued
  <2>3. cmd[c].phase # "delayed"
    <3>1. IsFiniteSet(Delayed(l)) /\ Cardinality(Delayed(l)) = 0
      BY CommandsAssumption, FS_Subset DEF LaneIsIdle, Inv, WorkInv, RetriesCounted, Delayed
    <3> QED
      BY <3>1, FS_EmptySet DEF Delayed
  <2>4. ~OnTask(c)
    <3>1. IsFiniteSet(Tasks(l)) /\ Cardinality(Tasks(l)) <= 0
      BY DEF LaneIsIdle, Inv, WorkInv, TasksCounted
    <3>2. Cardinality(Tasks(l)) = 0
      BY <3>1, FS_CardinalityType
    <3>3. Tasks(l) = {}
      BY <3>1, <3>2, FS_EmptySet
    <3> QED
      BY <3>3 DEF Tasks, OnTask
  <2> QED
    BY <2>1, <2>2, <2>3, <2>4 DEF Phase, OnTask, Settling
<1> QED
  BY <1>1, Invariance, PTL

\* Without panics the active count of a lane is the number of its tasks, within its limit.
\* A panic breaks it: the run panic_slot shows how.
THEOREM SlotsCounted == ~MayPanic => (Spec => []ActiveCountsTasks)
<1> SUFFICES ASSUME ~MayPanic PROVE Spec => []ActiveCountsTasks
  OBVIOUS
<1>1. Inv => ActiveCountsTasks
  BY DEF Inv, WorkInv, TasksCounted, ActiveCountsTasks
<1> QED
  BY <1>1, Invariance, PTL

\* With or without panics a lane never runs more tasks than its max_concurrency.
THEOREM ConcurrencyBounded ==
    Spec => [](\A l \in Lanes : Cardinality(Tasks(l)) <= Config[l].max_concurrency)
<1>1. Inv => \A l \in Lanes : Cardinality(Tasks(l)) <= Config[l].max_concurrency
  <2> SUFFICES ASSUME Inv, NEW l \in Lanes
               PROVE  Cardinality(Tasks(l)) <= Config[l].max_concurrency
    OBVIOUS
  <2>1. Cardinality(Tasks(l)) \in Nat /\ lanes[l].active \in Nat /\ Config[l].max_concurrency \in Nat
    BY LanesAssumption, FS_CardinalityType
    DEF Inv, WorkInv, WorkTyped, TasksCounted, LaneState, LaneConfig
  <2> QED
    BY <2>1 DEF Inv, WorkInv, TasksCounted
<1> QED
  BY <1>1, Invariance, PTL

\* When no permit is outstanding every accepted command is finished.
LEMMA ZeroMeansFinished ==
    ASSUME Inv, outstanding = 0, NEW c \in Commands, Accepted(c)
    PROVE  cmd[c].phase = "finished"
<1>1. Permits = {}
  BY NoPermits DEF Inv
<1> QED
  BY <1>1 DEF Permits, Accepted

\* queue.shutdown.complete is the last word: no accepted command is on its way when it is
\* out, and none is accepted later.
THEOREM ShutdownIsFinal == Spec => []ShutdownCompleteIsFinal
<1>1. Inv => ShutdownCompleteIsFinal
  <2> SUFFICES ASSUME Inv, sched.pc = "exited", NEW c \in Commands, Accepted(c)
               PROVE  cmd[c].phase = "finished"
    BY DEF ShutdownCompleteIsFinal
  <2>1. outstanding = 0
    BY DEF Inv, ClosedAtZero
  <2> QED
    BY <2>1, ZeroMeansFinished
<1> QED
  BY <1>1, Invariance, PTL

\* A drain called after shutdown that returns Ok has waited for every accepted command.
THEOREM DrainIsFinal == Spec => []DrainWaitsForAll
<1>1. Inv => DrainWaitsForAll
  <2> SUFFICES ASSUME Inv, drain.pc = "ok", drain.late, NEW c \in Commands, Accepted(c)
               PROVE  cmd[c].phase = "finished"
    BY DEF DrainWaitsForAll
  <2>1. outstanding = 0
    BY DEF Inv, ClosedAtZero
  <2> QED
    BY <2>1, ZeroMeansFinished
<1> QED
  BY <1>1, Invariance, PTL

\* The storage holds exactly the unfinished commands of the lanes that have one.
THEOREM StorageExact == Spec => []StorageMatchesWork
<1>1. Inv => StorageMatchesWork
  BY DEF Inv, WorkInv, StoredExactly, InStorage, StorageMatchesWork
<1> QED
  BY <1>1, Invariance, PTL

\* The dead letter queue keeps its bound and loses a letter only when it is full.
THEOREM DeadLettersExact == Spec => []DeadLettersKept
<1>1. Inv => DeadLettersKept
  <2> SUFFICES ASSUME Inv, DlqSize # None, DlqSize > 0
               PROVE  /\ Len(dlq) <= DlqSize
                      /\ \A c \in Commands : cmd[c].answer = "err" =>
                            Len(dlq) = DlqSize \/ \E i \in DOMAIN dlq : dlq[i] = c
    BY DEF DeadLettersKept
  <2>1. DOMAIN dlq = 1 .. Len(dlq)
    BY DEF Inv, WorkInv, WorkTyped
  <2> QED
    BY <2>1 DEF Inv, WorkInv, BuriedFirst, Buried
<1> QED
  BY <1>1, Invariance, PTL

=============================================================================
