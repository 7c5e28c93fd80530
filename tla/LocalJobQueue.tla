--------------------------- MODULE LocalJobQueue ---------------------------
(***************************************************************************)
(* LocalJobQueue of src/job/local.rs: every mutation is applied to the     *)
(* in-memory queue and followed by persist(), which copies the whole queue *)
(* and replaces the snapshot file through one temporary file.  Nothing     *)
(* holds a lock over the two, nor over the steps of persist().             *)
(*                                                                         *)
(* The contents of the queue are abstracted to a version: the number of    *)
(* mutations that they contain.  A file is an inode: a rename moves it,    *)
(* and who has it open goes on writing to it.                              *)
(***************************************************************************)
EXTENDS Integers, FiniteSets

CONSTANTS
    Clients,       \* concurrent callers
    MaxMutations,  \* bound on the mutations
    Nil

VARIABLES
    memory,    \* the version of the in-memory queue; Nil while no process runs
    files,     \* inodes of the two paths, and what each inode holds
    call,      \* call[c]: the operation that c has under way
    acked      \* the latest version whose mutation was acknowledged with Ok

local_vars == <<memory, files, call, acked>>

Inodes == 1 .. Cardinality(Clients) + 2
Empty == -1   \* truncated
Torn == -2    \* bytes of two snapshots
NoCall == [pc |-> "idle", version |-> Nil, result |-> Nil, snapshot |-> Nil, inode |-> Nil]

LocalInit ==
    /\ memory = 0
    /\ files = [path |-> Nil, tmp |-> Nil, holds |-> [i \in Inodes |-> Empty]]
    /\ call = [c \in Clients |-> NoCall]
    /\ acked = 0

Newer(v) == IF v > acked THEN v ELSE acked

-----------------------------------------------------------------------------
(***************************************************************************)
(* The operations: what the in-memory queue may answer, and what follows.  *)
(***************************************************************************)
\* The in-memory operation is over: an error is returned at once (`?`), even one that comes
\* after a part of the change was made; anything else is persisted before it is answered.
Apply(c, outcomes) == \E outcome \in outcomes :
    /\ memory # Nil /\ call[c] = NoCall
    /\ outcome \in {"changed", "broken off"} => memory < MaxMutations
    /\ memory' = IF outcome \in {"changed", "broken off"} THEN memory + 1 ELSE memory
    /\ call' = IF outcome \in {"refused", "broken off"} THEN call
               ELSE [call EXCEPT ![c] = [NoCall EXCEPT !.pc = "applied", !.version = memory',
                                                       !.result = "ok"]]
    /\ UNCHANGED <<files, acked>>

\* add, add_many, add_flow, add_flow_children; a duplicate changes nothing, and a flow may be
\* broken off after duplicates of earlier children were parked.
submit(c) == Apply(c, {"changed", "unchanged", "refused", "broken off"})

\* Persisted even when there is nothing to claim.
claim_next(c) == Apply(c, {"changed", "unchanged"})

\* complete_job, fail_job, renew_lease, delay_active_job, release_active_job.
settle_job(c) == Apply(c, {"changed", "refused"})

\* promote_job, retry_job, update_priority, remove_job, clean_jobs and the like.
manage(c) == Apply(c, {"changed", "unchanged", "refused"})

\* Repeat series, deduplication keys, dependencies, logs and stack traces.
edit(c) == Apply(c, {"changed", "unchanged", "refused"})

\* update_data, update_progress, add_log, trim_events.
annotate(c) == Apply(c, {"changed", "refused"})

\* promote_due_jobs and recover_stalled_jobs persist only when they moved a job.
sweep(c) == Apply(c, {"changed", "refused"})

\* The queue is paused even when active jobs refuse the obliteration, and it is persisted
\* before the error is returned.
obliterate(c) == \E result \in {"ok", "error"} :
    /\ memory # Nil /\ call[c] = NoCall /\ memory < MaxMutations
    /\ memory' = memory + 1
    /\ call' = [call EXCEPT ![c] = [NoCall EXCEPT !.pc = "applied", !.version = memory',
                                                  !.result = result]]
    /\ UNCHANGED <<files, acked>>

-----------------------------------------------------------------------------
(***************************************************************************)
(* persist(): copy, write the temporary file, rename it.                   *)
(***************************************************************************)
snapshot(c) ==
    /\ call[c].pc = "applied"
    /\ call' = [call EXCEPT ![c].pc = "copied", ![c].snapshot = memory]
    /\ UNCHANGED <<memory, files, acked>>

Unused == Inodes \ ({files.path, files.tmp} \cup {call[c].inode : c \in Clients})

\* fs::write opens the temporary file and truncates it, or creates it ...
open_tmp(c) ==
    LET inode == IF files.tmp # Nil THEN files.tmp ELSE CHOOSE i \in Unused : TRUE IN
    /\ call[c].pc = "copied"
    /\ files' = [files EXCEPT !.tmp = inode, !.holds[inode] = Empty]
    /\ call' = [call EXCEPT ![c].pc = "opened", ![c].inode = inode]
    /\ UNCHANGED <<memory, acked>>

\* ... and writes from its beginning, over what another writer may have put there.
write_tmp(c) ==
    LET old == files.holds[call[c].inode] IN
    /\ call[c].pc = "opened"
    /\ \E new \in {call[c].snapshot} \cup (IF old = Empty THEN {} ELSE {Torn}) :
          files' = [files EXCEPT !.holds[call[c].inode] = new]
    /\ call' = [call EXCEPT ![c].pc = "written", ![c].inode = Nil]
    /\ UNCHANGED <<memory, acked>>

\* Fault: the file is renamed before it has been written.
rename_before_write(c) ==
    /\ call[c].pc = "opened"
    /\ files' = [files EXCEPT !.path = files.tmp, !.tmp = Nil]
    /\ call' = [call EXCEPT ![c].pc = "renamed"]
    /\ UNCHANGED <<memory, acked>>

\* The rename replaces the snapshot; the temporary file may have been renamed already.
rename(c) ==
    /\ call[c].pc = "written"
    /\ IF files.tmp # Nil
       THEN /\ files' = [files EXCEPT !.path = files.tmp, !.tmp = Nil]
            /\ call' = [call EXCEPT ![c].pc = "renamed"]
       ELSE /\ call' = [call EXCEPT ![c] = NoCall]
            /\ UNCHANGED files
    /\ UNCHANGED <<memory, acked>>

\* A write or a rename fails: the caller gets the error of an operation that was applied.
persist_fails(c) ==
    /\ call[c].pc \in {"copied", "opened", "written"}
    /\ call' = [call EXCEPT ![c] = NoCall]
    /\ UNCHANGED <<memory, files, acked>>

\* Fault: the operation is answered as soon as it has been applied.
answer_early(c) ==
    /\ call[c].pc = "applied"
    /\ call' = [call EXCEPT ![c] = NoCall]
    /\ acked' = Newer(call[c].version)
    /\ UNCHANGED <<memory, files>>

answer(c) ==
    /\ call[c].pc = "renamed"
    /\ call' = [call EXCEPT ![c] = NoCall]
    /\ acked' = IF call[c].result = "ok" THEN Newer(call[c].version) ELSE acked
    /\ UNCHANGED <<memory, files>>

-----------------------------------------------------------------------------
(***************************************************************************)
(* The process dies; what its calls have done to the files stays.          *)
(***************************************************************************)
Crash ==
    /\ memory # Nil
    /\ memory' = Nil
    /\ call' = [c \in Clients |-> NoCall]
    /\ UNCHANGED <<files, acked>>

\* What load_job_snapshot reads: Nil when it cannot be decoded.
load_job_snapshot ==
    IF files.path = Nil THEN 0
    ELSE IF files.holds[files.path] \in {Empty, Torn} THEN Nil
    ELSE files.holds[files.path]

\* open; a snapshot that cannot be decoded is an error.
open ==
    /\ memory = Nil /\ load_job_snapshot # Nil
    /\ memory' = load_job_snapshot
    /\ UNCHANGED <<files, call, acked>>

LocalNext ==
    \/ \E c \in Clients :
        \/ submit(c) \/ claim_next(c) \/ settle_job(c) \/ manage(c) \/ edit(c) \/ annotate(c)
        \/ sweep(c) \/ obliterate(c)
        \/ snapshot(c) \/ open_tmp(c) \/ write_tmp(c) \/ rename(c) \/ persist_fails(c) \/ answer(c)
    \/ Crash \/ open

LocalSpec == LocalInit /\ [][LocalNext]_local_vars

-----------------------------------------------------------------------------
\* What was acknowledged survives: a process that opens the queue at this moment finds every
\* mutation that a caller was told of, whatever crashes and failed writes came before.
AckedSurvives == load_job_snapshot # Nil => acked <= load_job_snapshot

\* A crash never leaves a snapshot that open refuses, or one that is ahead of the queue.
SnapshotOpens ==
    /\ load_job_snapshot # Nil
    /\ memory # Nil => load_job_snapshot <= memory

=============================================================================
