---------------------------- MODULE CommandQueue ----------------------------
(***************************************************************************)
(* The lane scheduler (src/queue.rs) and its manager (src/manager.rs).     *)
(*                                                                         *)
(* Three kinds of actors share the lanes: callers that submit commands,    *)
(* shut the queue down and drain it; one scheduler task, which ranks the   *)
(* lanes and starts at most one command per pass; and one spawned task per *)
(* attempt of a command, which executes it and settles its outcome.  Every *)
(* lock of a lane, every await and every atomic access is a step of its    *)
(* own, except where the second of two reads sees what no actor can change *)
(* in between.                                                             *)
(***************************************************************************)
EXTENDS Integers, Sequences, FiniteSets

CONSTANTS
    Commands,       \* the commands callers hand in
    Direct,         \* those handed to a lane with Lane::enqueue, without a permit
    Lanes,          \* lanes, each registered under an id of its own
    Config,         \* Config[l]: the LaneConfig of l and its base priority
    DlqSize,        \* max_size of the dead letter queue, None without one
    MayPanic,       \* whether the execution of a command may panic
    StorageMayFail, \* whether the calls of the storage may fail
    None

LaneConfig ==
    [priority : Nat,
     max_concurrency : Nat,
     max_retries : Nat,
     pressure_threshold : Nat \cup {None},
     rate_limited : BOOLEAN,   \* a rate limiter is configured
     boosted : BOOLEAN,        \* a priority booster is configured
     stored : BOOLEAN]         \* the lane was made with storage

ASSUME CommandsAssumption == IsFiniteSet(Commands) /\ Direct \subseteq Commands
ASSUME LanesAssumption == IsFiniteSet(Lanes) /\ Config \in [Lanes -> LaneConfig]
ASSUME OptionsAssumption ==
    /\ DlqSize \in Nat \cup {None}
    /\ {MayPanic, StorageMayFail} \subseteq BOOLEAN
    /\ None \notin Nat /\ None \notin Lanes /\ None \notin {"ok", "err", "closed"}

VARIABLES
    lanes,            \* LaneState of every lane
    registered,       \* the lanes in CommandQueue.lanes
    cmd,              \* where each command stands
    releasing,        \* retried attempts whose task has still to call mark_completed
    outstanding,      \* QueueLifecycle.outstanding
    is_shutting_down, \* QueueLifecycle.is_shutting_down
    stored,           \* commands in the storage
    dlq,              \* the dead letters, oldest first
    sched,            \* the scheduler task
    drain             \* a call of QueueManager::drain

vars == <<lanes, registered, cmd, releasing, outstanding, is_shutting_down, stored, dlq,
          sched, drain>>

LaneState ==
    [pending : Seq(Commands), active : Nat, delayed_retries : Nat, is_pressured : BOOLEAN]

\* The way of a command.  Between "running" and "finished" its task settles the outcome.
Settling == {"unstoring", "burying", "reporting", "completing"}
Phase ==
    {"new", "admitted", "found", "saved", "pending", "running", "delayed", "dropping",
     "finished"} \cup Settling

\* A command with its lane, the number of its attempt, and the answer its receiver gets.
CommandWrapper ==
    [phase : Phase, lane : Lanes \cup {None}, attempt : Nat,
     outcome : {None, "ok", "err"}, answer : {None, "ok", "err", "closed"}]

Unranked == [l \in Lanes |-> None]

Init ==
    /\ lanes = [l \in Lanes |-> [pending |-> <<>>, active |-> 0, delayed_retries |-> 0,
                                 is_pressured |-> FALSE]]
    /\ registered = {}
    /\ cmd = [c \in Commands |-> [phase |-> "new", lane |-> None, attempt |-> 0,
                                  outcome |-> None, answer |-> None]]
    /\ releasing = {}
    /\ outstanding = 0
    /\ is_shutting_down = FALSE
    /\ stored = {}
    /\ dlq = <<>>
    /\ sched = [pc |-> "off", pass |-> {}, todo |-> {}, rank |-> Unranked]
    /\ drain = [pc |-> "none", todo |-> {}, late |-> FALSE]

has_capacity(l) == lanes[l].active < Config[l].max_concurrency
has_pending(l) == lanes[l].pending # <<>>

\* Lane::is_idle.
LaneIsIdle(l) ==
    lanes[l].pending = <<>> /\ lanes[l].active = 0 /\ lanes[l].delayed_retries = 0

\* usize::saturating_sub(1).
Decremented(n) == IF n = 0 THEN 0 ELSE n - 1

\* Fault: the permit of a direct command is returned as well.
permit_released_always(c) == outstanding - 1

\* A command handed in with submit carries a WorkPermit, returned when it is dropped.
permit_released(c) == IF c \in Direct THEN outstanding ELSE outstanding - 1

-----------------------------------------------------------------------------
(***************************************************************************)
(* Callers.                                                                *)
(***************************************************************************)
register_lane(l) ==
    /\ l \notin registered
    /\ registered' = registered \cup {l}
    /\ UNCHANGED <<lanes, cmd, releasing, outstanding, is_shutting_down, stored, dlq,
                   sched, drain>>

\* Fault: the permit is drawn without looking at the gate.
admit_unguarded(c) ==
    /\ c \notin Direct /\ cmd[c].phase = "new"
    /\ outstanding' = outstanding + 1
    /\ cmd' = [cmd EXCEPT ![c].phase = "admitted"]
    /\ UNCHANGED <<lanes, registered, releasing, is_shutting_down, stored, dlq, sched, drain>>

\* Behind the admission gate: refused once shutdown has begun.
admit(c) ==
    /\ c \notin Direct /\ cmd[c].phase = "new"
    /\ ~is_shutting_down
    /\ outstanding' = outstanding + 1
    /\ cmd' = [cmd EXCEPT ![c].phase = "admitted"]
    /\ UNCHANGED <<lanes, registered, releasing, is_shutting_down, stored, dlq, sched, drain>>

\* Fault: the permit of a command for an unknown lane is kept.
submit_keeping_permit(c, l) ==
    /\ cmd[c].phase = "admitted"
    /\ \/ l \in registered /\ cmd' = [cmd EXCEPT ![c].phase = "found", ![c].lane = l]
       \/ l \notin registered /\ cmd' = [cmd EXCEPT ![c].phase = "finished", ![c].answer = "closed"]
    /\ UNCHANGED <<lanes, registered, releasing, outstanding, is_shutting_down, stored, dlq,
                   sched, drain>>

\* An unknown lane id gives the permit back, and the caller an error.
submit(c, l) ==
    /\ cmd[c].phase = "admitted"
    /\ \/ /\ l \in registered
          /\ cmd' = [cmd EXCEPT ![c].phase = "found", ![c].lane = l]
          /\ UNCHANGED outstanding
       \/ /\ l \notin registered
          /\ cmd' = [cmd EXCEPT ![c].phase = "finished", ![c].answer = "closed"]
          /\ outstanding' = permit_released(c)
    /\ UNCHANGED <<lanes, registered, releasing, is_shutting_down, stored, dlq, sched, drain>>

\* Lane::enqueue, for a caller that kept the lane itself.
enqueue(c, l) ==
    /\ c \in Direct /\ cmd[c].phase = "new"
    /\ cmd' = [cmd EXCEPT ![c].phase = "found", ![c].lane = l]
    /\ UNCHANGED <<lanes, registered, releasing, outstanding, is_shutting_down, stored, dlq,
                   sched, drain>>

\* Errors of the storage are ignored.
save_command(c) ==
    /\ cmd[c].phase = "found"
    /\ \/ Config[cmd[c].lane].stored /\ stored' = stored \cup {c}
       \/ ~Config[cmd[c].lane].stored /\ UNCHANGED stored
       \/ StorageMayFail /\ UNCHANGED stored
    /\ cmd' = [cmd EXCEPT ![c].phase = "saved"]
    /\ UNCHANGED <<lanes, registered, releasing, outstanding, is_shutting_down, dlq,
                   sched, drain>>

\* The end of enqueue_with_permit.
push_pending(c) ==
    /\ cmd[c].phase = "saved"
    /\ lanes' = [lanes EXCEPT ![cmd[c].lane].pending = Append(@, c)]
    /\ cmd' = [cmd EXCEPT ![c].phase = "pending"]
    /\ UNCHANGED <<registered, releasing, outstanding, is_shutting_down, stored, dlq,
                   sched, drain>>

begin_shutdown ==
    /\ ~is_shutting_down
    /\ is_shutting_down' = TRUE
    /\ UNCHANGED <<lanes, registered, cmd, releasing, outstanding, stored, dlq, sched, drain>>

-----------------------------------------------------------------------------
(***************************************************************************)
(* The task of one attempt.                                                *)
(***************************************************************************)
should_retry(c) == cmd[c].attempt < Config[cmd[c].lane].max_retries

\* The command returned, or ran into its timeout, and will not be tried again.
execute(c, outcome) ==
    /\ cmd[c].phase = "running"
    /\ outcome = "err" => ~should_retry(c)
    /\ cmd' = [cmd EXCEPT ![c].phase = "unstoring", ![c].outcome = outcome]
    /\ UNCHANGED <<lanes, registered, releasing, outstanding, is_shutting_down, stored, dlq,
                   sched, drain>>

\* Fault: the delayed retry is counted only when its attempt has been released.
retry_command_uncounted(c) ==
    /\ cmd[c].phase = "running" /\ should_retry(c)
    /\ cmd' = [cmd EXCEPT ![c].phase = "delayed", ![c].attempt = @ + 1]
    /\ releasing' = releasing \cup {<<c, cmd[c].attempt>>}
    /\ UNCHANGED <<lanes, registered, outstanding, is_shutting_down, stored, dlq, sched, drain>>

\* Fault: the storage forgets a command that will be tried again.
retry_command_unstored(c) ==
    /\ cmd[c].phase = "running" /\ should_retry(c)
    /\ lanes' = [lanes EXCEPT ![cmd[c].lane].delayed_retries = @ + 1]
    /\ cmd' = [cmd EXCEPT ![c].phase = "delayed", ![c].attempt = @ + 1]
    /\ releasing' = releasing \cup {<<c, cmd[c].attempt>>}
    /\ stored' = stored \ {c}
    /\ UNCHANGED <<registered, outstanding, is_shutting_down, dlq, sched, drain>>

\* The retry is counted before the attempt is released, which release does later.
retry_command(c) ==
    /\ cmd[c].phase = "running" /\ should_retry(c)
    /\ lanes' = [lanes EXCEPT ![cmd[c].lane].delayed_retries = @ + 1]
    /\ cmd' = [cmd EXCEPT ![c].phase = "delayed", ![c].attempt = @ + 1]
    /\ releasing' = releasing \cup {<<c, cmd[c].attempt>>}
    /\ UNCHANGED <<registered, outstanding, is_shutting_down, stored, dlq, sched, drain>>

\* Fault: the task of a retried attempt keeps its slot.
release_keeping_slot(t) ==
    /\ releasing' = releasing \ {t}
    /\ UNCHANGED <<lanes, registered, cmd, outstanding, is_shutting_down, stored, dlq, sched,
                   drain>>

\* The task of a retried attempt calls mark_completed.
release(t) ==
    /\ releasing' = releasing \ {t}
    /\ lanes' = [lanes EXCEPT ![cmd[t[1]].lane].active = Decremented(@)]
    /\ UNCHANGED <<registered, cmd, outstanding, is_shutting_down, stored, dlq, sched, drain>>

\* The backoff is over and the command joins the end of its lane.
wake(c) ==
    /\ cmd[c].phase = "delayed"
    /\ lanes' = [lanes EXCEPT ![cmd[c].lane].delayed_retries = Decremented(@),
                              ![cmd[c].lane].pending = Append(@, c)]
    /\ cmd' = [cmd EXCEPT ![c].phase = "pending"]
    /\ UNCHANGED <<registered, releasing, outstanding, is_shutting_down, stored, dlq,
                   sched, drain>>

\* Errors of the storage are ignored here as well.
remove_command(c) ==
    /\ cmd[c].phase = "unstoring"
    /\ \/ Config[cmd[c].lane].stored /\ stored' = stored \ {c}
       \/ ~Config[cmd[c].lane].stored /\ UNCHANGED stored
       \/ StorageMayFail /\ UNCHANGED stored
    /\ cmd' = [cmd EXCEPT ![c].phase =
                  IF cmd[c].outcome = "err" /\ DlqSize # None THEN "burying" ELSE "reporting"]
    /\ UNCHANGED <<lanes, registered, releasing, outstanding, is_shutting_down, dlq,
                   sched, drain>>

\* Fault: the bound is noticed one letter too late.
push_over_limit(c) ==
    /\ cmd[c].phase = "burying"
    /\ dlq' = Append(IF Len(dlq) > DlqSize THEN Tail(dlq) ELSE dlq, c)
    /\ cmd' = [cmd EXCEPT ![c].phase = "reporting"]
    /\ UNCHANGED <<lanes, registered, releasing, outstanding, is_shutting_down, stored,
                   sched, drain>>

\* DeadLetterQueue::push: the oldest letter makes room.
push(c) ==
    /\ cmd[c].phase = "burying"
    /\ dlq' = Append(IF Len(dlq) >= DlqSize /\ dlq # <<>> THEN Tail(dlq) ELSE dlq, c)
    /\ cmd' = [cmd EXCEPT ![c].phase = "reporting"]
    /\ UNCHANGED <<lanes, registered, releasing, outstanding, is_shutting_down, stored,
                   sched, drain>>

\* The answer goes to the receiver.
send(c) ==
    /\ cmd[c].phase = "reporting"
    /\ cmd' = [cmd EXCEPT ![c].phase = "completing", ![c].answer = cmd[c].outcome]
    /\ UNCHANGED <<lanes, registered, releasing, outstanding, is_shutting_down, stored, dlq,
                   sched, drain>>

mark_completed(c) ==
    /\ cmd[c].phase = "completing"
    /\ lanes' = [lanes EXCEPT ![cmd[c].lane].active = Decremented(@)]
    /\ cmd' = [cmd EXCEPT ![c].phase = "dropping"]
    /\ UNCHANGED <<registered, releasing, outstanding, is_shutting_down, stored, dlq,
                   sched, drain>>

\* The task ends and its wrapper is dropped, the permit with it.
drop_wrapper(c) ==
    /\ cmd[c].phase = "dropping"
    /\ outstanding' = permit_released(c)
    /\ cmd' = [cmd EXCEPT ![c].phase = "finished"]
    /\ UNCHANGED <<lanes, registered, releasing, is_shutting_down, stored, dlq, sched, drain>>

\* Unwinding drops the wrapper, its sender and its permit; nothing calls mark_completed.
panic(c) ==
    /\ MayPanic /\ cmd[c].phase = "running"
    /\ outstanding' = permit_released(c)
    /\ cmd' = [cmd EXCEPT ![c].phase = "finished", ![c].answer = "closed"]
    /\ UNCHANGED <<lanes, registered, releasing, is_shutting_down, stored, dlq, sched, drain>>

-----------------------------------------------------------------------------
(***************************************************************************)
(* The scheduler task: a pass looks at the pressure of every lane, ranks   *)
(* the lanes, and tries them in that order until one gives up a command.   *)
(* Then, if the queue is shutting down, it looks whether it may end.       *)
(***************************************************************************)
SchedulerOnly == UNCHANGED <<registered, releasing, outstanding, is_shutting_down, stored,
                             dlq, drain>>

\* QueueManager::start: a running scheduler is left alone.  A drain that waits for the
\* scheduler to end holds the lock on its handle.
start ==
    /\ sched.pc \in {"off", "exited"} /\ drain.pc # "joining"
    /\ sched' = [sched EXCEPT !.pc = "wait"]
    /\ SchedulerOnly /\ UNCHANGED <<lanes, cmd>>

\* Once the scheduler has looked at every lane it goes on to the next part of the pass.
Advance(s) ==
    IF s.todo # {} THEN s
    ELSE CASE s.pass # {} /\ s.pc = "pressure" -> [s EXCEPT !.pc = "rank", !.todo = s.pass]
           [] s.pass # {} /\ s.pc = "rank" -> [s EXCEPT !.pc = "dequeue", !.todo = s.pass]
           [] OTHER -> [pc |-> "check", pass |-> {}, todo |-> {}, rank |-> Unranked]

\* schedule_next takes its copy of the lane map.
schedule_next ==
    /\ sched.pc = "wait"
    /\ sched' = Advance([pc |-> "pressure", pass |-> registered, todo |-> registered,
                         rank |-> Unranked])
    /\ SchedulerOnly /\ UNCHANGED <<lanes, cmd>>

check_pressure(l) ==
    LET threshold == Config[l].pressure_threshold
        pending == Len(lanes[l].pending)
        was_pressured == lanes[l].is_pressured
    IN  /\ sched.pc = "pressure" /\ l \in sched.todo
        /\ lanes' = [lanes EXCEPT ![l].is_pressured =
                        CASE threshold = None -> was_pressured
                          [] threshold # None /\ was_pressured -> pending # 0
                          [] threshold # None /\ ~was_pressured -> pending >= threshold]
        /\ sched' = Advance([sched EXCEPT !.todo = @ \ {l}])
        /\ SchedulerOnly /\ UNCHANGED cmd

\* The booster may raise a lane whose front command comes close to its deadline.
effective_priority(l) ==
    IF Config[l].boosted /\ has_pending(l) THEN 0 .. Config[l].priority
    ELSE {Config[l].priority}

rank_lane(l) ==
    /\ sched.pc = "rank" /\ l \in sched.todo
    /\ \E p \in effective_priority(l) :
          sched' = Advance([sched EXCEPT !.rank[l] = p, !.todo = @ \ {l}])
    /\ SchedulerOnly /\ UNCHANGED <<lanes, cmd>>

\* The lanes to try next: the most urgent of those not tried in this pass.
MostUrgent == {l \in sched.todo : \A k \in sched.todo : sched.rank[l] <= sched.rank[k]}

\* Fault: a lane that is full gives up one command more.
dispatch_over_capacity(l) ==
    LET c == Head(lanes[l].pending)
    IN  /\ lanes[l].active <= Config[l].max_concurrency /\ has_pending(l)
        /\ lanes' = [lanes EXCEPT ![l].active = @ + 1, ![l].pending = Tail(@)]
        /\ cmd' = [cmd EXCEPT ![c].phase = "running"]

\* The command at the front starts.
dispatch(l) ==
    LET c == Head(lanes[l].pending)
    IN  /\ has_capacity(l) /\ has_pending(l)
        /\ lanes' = [lanes EXCEPT ![l].active = @ + 1, ![l].pending = Tail(@)]
        /\ cmd' = [cmd EXCEPT ![c].phase = "running"]

\* The rate limiter is asked first and may refuse whatever the lane holds.
try_dequeue(l) ==
    /\ sched.pc = "dequeue" /\ l \in MostUrgent
    /\ \/ /\ dispatch(l)
          /\ sched' = Advance([sched EXCEPT !.todo = {}])
       \/ /\ Config[l].rate_limited \/ ~has_capacity(l) \/ ~has_pending(l)
          /\ sched' = Advance([sched EXCEPT !.todo = @ \ {l}])
          /\ UNCHANGED <<lanes, cmd>>
    /\ SchedulerOnly

\* CommandQueue::is_idle begins with the count of permits.  The shutdown flag is read with
\* it: once set it stays set.
check_end ==
    /\ sched.pc = "check"
    /\ sched' = [sched EXCEPT !.pc = IF is_shutting_down /\ outstanding = 0 THEN "copy" ELSE "wait"]
    /\ SchedulerOnly /\ UNCHANGED <<lanes, cmd>>

\* It goes on with a copy of the lane map.
scheduler_copies_lanes ==
    /\ sched.pc = "copy"
    /\ sched' = [sched EXCEPT !.pc = "idle", !.todo = registered]
    /\ SchedulerOnly /\ UNCHANGED <<lanes, cmd>>

scheduler_checks_lane(l) ==
    /\ sched.pc = "idle" /\ l \in sched.todo
    /\ sched' = IF LaneIsIdle(l) THEN [sched EXCEPT !.todo = @ \ {l}]
                ELSE [sched EXCEPT !.pc = "wait", !.todo = {}]
    /\ SchedulerOnly /\ UNCHANGED <<lanes, cmd>>

\* queue.shutdown.complete is emitted and the task returns.
exit_scheduler ==
    /\ sched.pc = "idle" /\ sched.todo = {}
    /\ sched' = [sched EXCEPT !.pc = "exited"]
    /\ SchedulerOnly /\ UNCHANGED <<lanes, cmd>>

-----------------------------------------------------------------------------
(***************************************************************************)
(* QueueManager::drain: wait_for_idle, then the end of the scheduler.      *)
(***************************************************************************)
DrainOnly == UNCHANGED <<lanes, registered, cmd, releasing, outstanding, is_shutting_down,
                         stored, dlq>>

\* late records whether shutdown had begun when drain was called.
drain_begins ==
    /\ drain.pc \in {"none", "ok", "timeout"}
    /\ drain' = [pc |-> "waiting", todo |-> {}, late |-> is_shutting_down]
    /\ DrainOnly /\ UNCHANGED sched

\* Fault: the permits are not looked at.
wait_for_lanes_only ==
    /\ drain.pc = "waiting"
    /\ drain' = [drain EXCEPT !.pc = "copy"]
    /\ DrainOnly /\ UNCHANGED sched

\* The loop of wait_for_idle gets past the count of permits.
wait_for_idle ==
    /\ drain.pc = "waiting" /\ outstanding = 0
    /\ drain' = [drain EXCEPT !.pc = "copy"]
    /\ DrainOnly /\ UNCHANGED sched

drain_copies_lanes ==
    /\ drain.pc = "copy"
    /\ drain' = [drain EXCEPT !.pc = "idle", !.todo = registered]
    /\ DrainOnly /\ UNCHANGED sched

drain_checks_lane(l) ==
    /\ drain.pc = "idle" /\ l \in drain.todo
    /\ drain' = IF LaneIsIdle(l) THEN [drain EXCEPT !.todo = @ \ {l}]
                ELSE [drain EXCEPT !.pc = "waiting", !.todo = {}]
    /\ DrainOnly /\ UNCHANGED sched

\* Without shutdown, or without a scheduler, there is nobody to wait for.
drain_idle ==
    /\ drain.pc = "idle" /\ drain.todo = {}
    /\ drain' = [drain EXCEPT !.pc =
                    IF is_shutting_down /\ sched.pc # "off" THEN "joining" ELSE "ok"]
    /\ DrainOnly /\ UNCHANGED sched

drain_joins ==
    /\ drain.pc = "joining" /\ sched.pc = "exited"
    /\ drain' = [drain EXCEPT !.pc = "ok"]
    /\ sched' = [sched EXCEPT !.pc = "off"]
    /\ DrainOnly

drain_times_out ==
    /\ drain.pc \in {"waiting", "copy", "idle", "joining"}
    /\ drain' = [drain EXCEPT !.pc = "timeout", !.todo = {}]
    /\ DrainOnly /\ UNCHANGED sched

-----------------------------------------------------------------------------
(***************************************************************************)
(* The specification.                                                      *)
(***************************************************************************)
\* What the task of a command, or the caller that handed it in, does next by itself.
Proceed(c) ==
    \/ \E l \in Lanes : submit(c, l)
    \/ save_command(c)
    \/ push_pending(c)
    \/ \E outcome \in {"ok", "err"} : execute(c, outcome)
    \/ retry_command(c)
    \/ wake(c)
    \/ remove_command(c)
    \/ push(c)
    \/ send(c)
    \/ mark_completed(c)
    \/ drop_wrapper(c)
    \/ panic(c)

Release == \E t \in releasing : release(t)

Scheduler ==
    \/ schedule_next
    \/ check_end
    \/ scheduler_copies_lanes
    \/ exit_scheduler
    \/ \E l \in Lanes :
        check_pressure(l) \/ rank_lane(l) \/ try_dequeue(l) \/ scheduler_checks_lane(l)

Drain ==
    \/ drain_begins
    \/ wait_for_idle
    \/ drain_copies_lanes
    \/ drain_idle
    \/ drain_joins
    \/ drain_times_out
    \/ \E l \in Lanes : drain_checks_lane(l)

Caller ==
    \/ start
    \/ begin_shutdown
    \/ \E l \in Lanes : register_lane(l)
    \/ \E c \in Commands : admit(c) \/ \E l \in Lanes : enqueue(c, l)

Next ==
    \/ Caller
    \/ \E c \in Commands : Proceed(c)
    \/ Release
    \/ Scheduler
    \/ Drain

Spec == Init /\ [][Next]_vars

-----------------------------------------------------------------------------
(***************************************************************************)
(* Properties.                                                             *)
(***************************************************************************)
\* The shape of the state.
TypeOK ==
    /\ lanes \in [Lanes -> LaneState]
    /\ registered \subseteq Lanes
    /\ cmd \in [Commands -> CommandWrapper]
    /\ releasing \subseteq Commands \X Nat
    /\ outstanding \in Nat
    /\ is_shutting_down \in BOOLEAN
    /\ stored \subseteq Commands
    /\ dlq \in Seq(Commands)
    /\ sched.pc \in {"off", "wait", "pressure", "rank", "dequeue", "check", "copy", "idle",
                   "exited"}
    /\ sched.pass \subseteq Lanes /\ sched.todo \subseteq sched.pass \cup registered
    /\ sched.rank \in [Lanes -> Nat \cup {None}]
    /\ drain.pc \in {"none", "waiting", "copy", "idle", "joining", "ok", "timeout"}
    /\ drain.todo \subseteq Lanes /\ drain.late \in BOOLEAN

\* The spawned tasks of lane l that have not called mark_completed yet.
Tasks(l) ==
    {<<c, cmd[c].attempt>> : c \in {d \in Commands : /\ cmd[d].lane = l
                                                     /\ cmd[d].phase \in Settling \cup {"running"}}}
    \cup {t \in releasing : cmd[t[1]].lane = l}

\* The active count of a lane is the number of its tasks, although a retried command may
\* run again before its last attempt has been released; so a lane never runs more commands
\* than max_concurrency and never loses a slot.
ActiveCountsTasks ==
    \A l \in Lanes : /\ lanes[l].active = Cardinality(Tasks(l))
                     /\ Cardinality(Tasks(l)) <= Config[l].max_concurrency

\* A lane that looks idle, as drain and the end of the scheduler look at it, owns no command
\* on its way, not even one between a failed attempt and its retry.
IdleLaneIsEmpty ==
    \A l \in Lanes : LaneIsIdle(l) =>
        \A c \in Commands : cmd[c].lane = l =>
            cmd[c].phase \in {"found", "saved", "dropping", "finished"}

\* A command accepted by submit.
Accepted(c) == c \notin Direct /\ cmd[c].phase # "new"

\* Once queue.shutdown.complete is out, every command submit accepted has been dealt with.
ShutdownCompleteIsFinal ==
    sched.pc = "exited" => \A c \in Commands : Accepted(c) => cmd[c].phase = "finished"

\* A drain called after shutdown that returns Ok has waited for every accepted command, one
\* caught between admission and its lane included.
DrainWaitsForAll ==
    drain.pc = "ok" /\ drain.late =>
        \A c \in Commands : Accepted(c) => cmd[c].phase = "finished"

\* While a command waits, runs or waits to be retried it is in the storage, and once it is
\* settled it is not, so that a restart finds exactly the unfinished commands.
StorageMatchesWork ==
    ~StorageMayFail /\ ~MayPanic =>
        \A c \in Commands :
            LET kept == cmd[c].lane # None /\ Config[cmd[c].lane].stored IN
            /\ kept /\ cmd[c].phase \in {"saved", "pending", "running", "delayed", "unstoring"}
                  => c \in stored
            /\ cmd[c].phase \in {"completing", "dropping", "finished"} => c \notin stored

\* A dead letter queue stays within its size, and a caller that learns that its command has
\* failed for good finds it there, unless so many failed that the queue is full.
DeadLettersKept ==
    DlqSize # None /\ DlqSize > 0 =>
        /\ Len(dlq) <= DlqSize
        /\ \A c \in Commands : cmd[c].answer = "err" =>
              Len(dlq) = DlqSize \/ \E i \in DOMAIN dlq : dlq[i] = c

-----------------------------------------------------------------------------
(***************************************************************************)
(* Liveness.  Tasks and timers are run by the tokio runtime and a command  *)
(* returns or times out; the scheduler polls every 10 ms.                  *)
(***************************************************************************)
Fairness ==
    /\ \A c \in Commands : WF_vars(Proceed(c))
    /\ WF_vars(Release)
    /\ WF_vars(Scheduler)

FairSpec == Spec /\ Fairness

\* Every accepted command gets its answer while a scheduler runs, whatever the priorities,
\* retries and limits, shutdown or not.
AcceptedIsAnswered ==
    \A c \in Commands :
        Accepted(c) /\ sched.pc # "off" ~> cmd[c].answer # None \/ sched.pc = "off"

\* A shutdown with a scheduler completes.
ShutdownCompletes ==
    is_shutting_down /\ sched.pc # "off" ~> sched.pc \in {"exited", "off"}

=============================================================================
