------------------------ MODULE LocalJobQueueProofs ------------------------
(***************************************************************************)
(* Durability of LocalJobQueue for a single caller, for every number of    *)
(* mutations, failed writes, crashes and restarts.  With two callers it    *)
(* does not hold: their calls of persist() share the temporary file, and   *)
(* the run local_overwrite shows what comes of it.                         *)
(***************************************************************************)
EXTENDS LocalJobQueue, FiniteSetTheorems, TLAPS

Version == Nat \cup {Nil}
Inode == Inodes \cup {Nil}

Call ==
    [pc : {"idle", "applied", "copied", "opened", "written", "renamed"},
     version : Version, result : {Nil, "ok", "error"}, snapshot : Version, inode : Inode]

Files == [path : Inode, tmp : Inode, holds : [Inodes -> Int]]

TypeInv ==
    /\ memory \in Version
    /\ files \in Files
    /\ call \in [Clients -> Call]
    /\ acked \in Nat

\* The snapshot can be read, has what was acknowledged and is not ahead of the queue, and the
\* temporary file is another file.
SnapshotGood ==
    /\ files.path = Nil => acked = 0
    /\ files.path # Nil => /\ files.holds[files.path] \in Nat
                           /\ acked <= files.holds[files.path]
                           /\ memory # Nil => files.holds[files.path] <= memory
                           /\ files.path # files.tmp

\* Where a call is in persist(), and what it has put into the files.
CallGood(c) ==
    /\ call[c].pc = "idle" => call[c] = NoCall
    /\ call[c].pc # "idle" => memory # Nil /\ call[c].version = memory
    /\ call[c].pc \in {"copied", "opened", "written"} => call[c].snapshot = memory
    /\ call[c].pc = "opened" => /\ files.tmp # Nil /\ call[c].inode = files.tmp
                                /\ files.holds[files.tmp] = Empty
    /\ call[c].pc = "written" => files.tmp # Nil /\ files.holds[files.tmp] = memory
    /\ call[c].pc # "opened" => call[c].inode = Nil
    /\ call[c].pc = "renamed" => files.path # Nil /\ files.holds[files.path] = memory

Inv == TypeInv /\ SnapshotGood /\ \A c \in Clients : CallGood(c)

-----------------------------------------------------------------------------
\* The in-memory operation, whatever it answers.
LEMMA ApplyInv ==
    ASSUME Nil \notin Int, NEW c, Clients = {c}, Inv,
           memory # Nil, call[c] = NoCall, UNCHANGED <<files, acked>>,
           memory' \in {memory, memory + 1},
           \/ call' = call
           \/ \E result \in {"ok", "error"} :
                 call' = [call EXCEPT ![c] = [NoCall EXCEPT !.pc = "applied", !.version = memory',
                                                            !.result = result]]
    PROVE  Inv'
<1>1. memory \in Nat /\ memory' \in Nat /\ memory <= memory' /\ memory' # Nil
  BY DEF Inv, TypeInv, Version
<1>2. call'[c] = NoCall \/ \E result \in {"ok", "error"} :
         call'[c] = [pc |-> "applied", version |-> memory', result |-> result, snapshot |-> Nil,
                     inode |-> Nil]
  BY DEF Inv, TypeInv, NoCall
<1>3. call' \in [Clients -> Call]
  <2>1. \A result \in {"ok", "error"} :
          [NoCall EXCEPT !.pc = "applied", !.version = memory', !.result = result] \in Call
    BY <1>1 DEF NoCall, Call, Version, Inode
  <2> QED
    BY <2>1 DEF Inv, TypeInv
<1>4. TypeInv'
  BY <1>1, <1>3 DEF Inv, TypeInv, Version
<1>5. SnapshotGood'
  BY <1>1 DEF Inv, TypeInv, Files, SnapshotGood
<1>6. CallGood(c)'
  BY <1>1, <1>2 DEF CallGood, NoCall
<1> QED
  BY <1>4, <1>5, <1>6 DEF Inv

\* persist() copies the queue as it stands, its own mutation last.
LEMMA SnapshotInv ==
    ASSUME Nil \notin Int, NEW c, Clients = {c}, Inv, snapshot(c)
    PROVE  Inv'
<1>1. /\ call[c] \in Call /\ call[c].pc = "applied" /\ memory # Nil /\ memory \in Nat
      /\ call[c].version = memory /\ call[c].inode = Nil
  BY DEF Inv, TypeInv, CallGood, snapshot, Version
<1>2. /\ call' \in [Clients -> Call]
      /\ call'[c].pc = "copied" /\ call'[c].snapshot = memory
      /\ call'[c].version = call[c].version /\ call'[c].inode = call[c].inode
  BY <1>1 DEF Inv, TypeInv, Call, snapshot, Version
<1>3. TypeInv' /\ SnapshotGood'
  BY <1>2 DEF Inv, TypeInv, SnapshotGood, snapshot
<1>4. CallGood(c)'
  BY <1>1, <1>2 DEF CallGood, snapshot
<1> QED
  BY <1>3, <1>4 DEF Inv

\* The temporary file is truncated, or created; it is never the snapshot itself.
LEMMA OpenTmpInv ==
    ASSUME Nil \notin Int, NEW c, Clients = {c}, Inv, open_tmp(c)
    PROVE  Inv'
<1> DEFINE inode == IF files.tmp # Nil THEN files.tmp ELSE CHOOSE i \in Unused : TRUE
<1>1. /\ call[c] \in Call /\ call[c].pc = "copied" /\ memory # Nil /\ memory \in Nat
      /\ call[c].version = memory /\ call[c].snapshot = memory /\ call[c].inode = Nil
      /\ files \in Files
  BY DEF Inv, TypeInv, CallGood, open_tmp, Version
<1>2. inode \in Inodes /\ inode # files.path
  <2>1. Cardinality(Clients) = 1
    BY FS_Singleton
  <2>2. 1 \in Inodes /\ 2 \in Inodes
    BY <2>1 DEF Inodes
  <2>3. \E i \in Inodes : i # files.path
    BY <2>2
  <2>4. CASE files.tmp # Nil
    BY <1>1, <2>4 DEF Files, Inode, Inv, SnapshotGood
  <2>5. CASE files.tmp = Nil
    <3>1. {call[d].inode : d \in Clients} = {Nil}
      BY <1>1
    <3>2. Nil \notin Inodes
      BY DEF Inodes
    <3>3. Unused = Inodes \ {files.path}
      BY <2>5, <3>1, <3>2 DEF Unused
    <3>4. inode = CHOOSE i \in Unused : TRUE
      BY <2>5
    <3> QED
      BY <2>3, <3>3, <3>4
  <2> QED
    BY <2>4, <2>5
<1>3. files' = [files EXCEPT !.tmp = inode, !.holds[inode] = Empty]
      /\ call' = [call EXCEPT ![c].pc = "opened", ![c].inode = inode]
      /\ memory' = memory /\ acked' = acked
  BY DEF open_tmp
<1> HIDE DEF inode
<1>4. /\ files' \in Files /\ files'.tmp = inode /\ files'.path = files.path
      /\ files'.holds[inode] = Empty
      /\ \A i \in Inodes : i # inode => files'.holds[i] = files.holds[i]
  <2>1. Empty \in Int
    BY DEF Empty
  <2>2. [files.holds EXCEPT ![inode] = Empty] \in [Inodes -> Int]
    BY <1>1, <2>1 DEF Files
  <2>3. files' = [path |-> files.path, tmp |-> inode,
                  holds |-> [files.holds EXCEPT ![inode] = Empty]]
    BY <1>1, <1>3 DEF Files
  <2> QED
    BY <1>1, <1>2, <2>2, <2>3 DEF Files, Inode
<1>5. /\ call' \in [Clients -> Call]
      /\ call'[c].pc = "opened" /\ call'[c].inode = inode
      /\ call'[c].version = memory /\ call'[c].snapshot = memory
  BY <1>1, <1>2, <1>3 DEF Inv, TypeInv, Call, Inode
<1>6. TypeInv'
  BY <1>3, <1>4, <1>5 DEF Inv, TypeInv
<1>7. SnapshotGood'
  BY <1>1, <1>2, <1>3, <1>4 DEF Inv, SnapshotGood, Files, Inode
<1>8. CallGood(c)'
  <2>1. inode # Nil
    BY <1>2 DEF Inodes
  <2> QED
    BY <1>1, <1>3, <1>4, <1>5, <2>1 DEF CallGood
<1> QED
  BY <1>6, <1>7, <1>8 DEF Inv

\* The truncated file gets the copy.
LEMMA WriteTmpInv ==
    ASSUME Nil \notin Int, NEW c, Clients = {c}, Inv, write_tmp(c)
    PROVE  Inv'
<1>1. /\ call[c] \in Call /\ call[c].pc = "opened" /\ memory # Nil /\ memory \in Nat
      /\ call[c].version = memory /\ call[c].snapshot = memory
      /\ call[c].inode = files.tmp /\ files.tmp # Nil /\ files.holds[files.tmp] = Empty
      /\ files \in Files
  BY DEF Inv, TypeInv, CallGood, write_tmp, Version
<1>2. files' = [files EXCEPT !.holds[files.tmp] = memory]
      /\ call' = [call EXCEPT ![c].pc = "written", ![c].inode = Nil]
      /\ memory' = memory /\ acked' = acked
  BY <1>1 DEF write_tmp
<1>3. /\ files' \in Files /\ files'.tmp = files.tmp /\ files'.path = files.path
      /\ files'.holds[files.tmp] = memory
      /\ \A i \in Inodes : i # files.tmp => files'.holds[i] = files.holds[i]
  BY <1>1, <1>2 DEF Files, Inode
<1>4. /\ call' \in [Clients -> Call]
      /\ call'[c].pc = "written" /\ call'[c].inode = Nil
      /\ call'[c].version = memory /\ call'[c].snapshot = memory
  BY <1>1, <1>2 DEF Inv, TypeInv, Call, Inode
<1>5. TypeInv'
  BY <1>2, <1>3, <1>4 DEF Inv, TypeInv
<1>6. SnapshotGood'
  BY <1>1, <1>2, <1>3 DEF Inv, SnapshotGood, Files, Inode
<1>7. CallGood(c)'
  BY <1>1, <1>2, <1>3, <1>4 DEF CallGood
<1> QED
  BY <1>5, <1>6, <1>7 DEF Inv

\* The rename puts the copy in the place of the snapshot.
LEMMA RenameInv ==
    ASSUME Nil \notin Int, NEW c, Clients = {c}, Inv, rename(c)
    PROVE  Inv'
<1>1. /\ call[c] \in Call /\ call[c].pc = "written" /\ memory # Nil /\ memory \in Nat
      /\ call[c].version = memory /\ call[c].inode = Nil
      /\ files.tmp # Nil /\ files.holds[files.tmp] = memory
      /\ files \in Files
  BY DEF Inv, TypeInv, CallGood, rename, Version
<1>2. files' = [files EXCEPT !.path = files.tmp, !.tmp = Nil]
      /\ call' = [call EXCEPT ![c].pc = "renamed"]
      /\ memory' = memory /\ acked' = acked
  BY <1>1 DEF rename
<1>3. /\ files' \in Files /\ files'.tmp = Nil /\ files'.path = files.tmp
      /\ files'.holds = files.holds
  BY <1>1, <1>2 DEF Files, Inode
<1>4. /\ call' \in [Clients -> Call]
      /\ call'[c].pc = "renamed" /\ call'[c].inode = Nil /\ call'[c].version = memory
  BY <1>1, <1>2 DEF Inv, TypeInv, Call, Inode
<1>5. TypeInv'
  BY <1>2, <1>3, <1>4 DEF Inv, TypeInv
<1>6. acked \in Nat /\ acked <= memory
  <2>1. CASE files.path = Nil
    BY <1>1, <2>1 DEF Inv, TypeInv, SnapshotGood
  <2>2. CASE files.path # Nil
    BY <1>1, <2>2 DEF Inv, TypeInv, SnapshotGood
  <2> QED
    BY <2>1, <2>2
<1>7. SnapshotGood'
  BY <1>1, <1>2, <1>3, <1>6 DEF SnapshotGood
<1>8. CallGood(c)'
  BY <1>1, <1>2, <1>3, <1>4 DEF CallGood
<1> QED
  BY <1>5, <1>7, <1>8 DEF Inv

\* What is acknowledged is in the snapshot.
LEMMA AnswerInv ==
    ASSUME Nil \notin Int, NEW c, Clients = {c}, Inv, answer(c)
    PROVE  Inv'
<1>1. /\ call[c].pc = "renamed" /\ memory # Nil /\ memory \in Nat
      /\ call[c].version = memory /\ files.path # Nil /\ files.holds[files.path] = memory
  BY DEF Inv, TypeInv, CallGood, answer, Version
<1>2. call' = [call EXCEPT ![c] = NoCall] /\ memory' = memory /\ files' = files
  BY DEF answer
<1>3. acked' \in Nat /\ acked' <= memory
  BY <1>1 DEF answer, Newer, Inv, TypeInv, SnapshotGood
<1>4. call' \in [Clients -> Call] /\ call'[c] = NoCall
  BY <1>2 DEF Inv, TypeInv, Call, NoCall, Version, Inode
<1>5. TypeInv' /\ SnapshotGood'
  BY <1>1, <1>2, <1>3, <1>4 DEF Inv, TypeInv, SnapshotGood
<1>6. CallGood(c)'
  BY <1>4 DEF CallGood, NoCall
<1> QED
  BY <1>5, <1>6 DEF Inv

\* The call ends with an error, or the process dies, or another one opens the queue.
LEMMA AbortInv ==
    ASSUME Nil \notin Int, NEW c, Clients = {c}, Inv, UNCHANGED <<files, acked>>,
           call' \in [Clients -> Call], call'[c] = NoCall,
           memory' = memory \/ memory' = Nil \/ memory' = load_job_snapshot
    PROVE  Inv'
<1>1. memory' \in Version /\ (files.path # Nil /\ memory' # Nil => files.holds[files.path] <= memory')
  <2>1. CASE memory' = memory \/ memory' = Nil
    BY <2>1 DEF Inv, TypeInv, SnapshotGood, Version
  <2>2. CASE memory' = load_job_snapshot
    BY <2>2 DEF Inv, TypeInv, SnapshotGood, Version, load_job_snapshot, Empty, Torn
  <2> QED
    BY <2>1, <2>2
<1>2. TypeInv' /\ SnapshotGood'
  BY <1>1 DEF Inv, TypeInv, SnapshotGood
<1>3. CallGood(c)'
  BY DEF CallGood, NoCall
<1> QED
  BY <1>2, <1>3 DEF Inv

\* Every step keeps the invariant.
LEMMA NextInv ==
    ASSUME Nil \notin Int, NEW c, Clients = {c}, Inv, [LocalNext]_local_vars
    PROVE  Inv'
<1>1. ASSUME NEW outcomes, Apply(c, outcomes) PROVE Inv'
  BY <1>1, ApplyInv DEF Apply
<1>2. CASE obliterate(c)
  BY <1>2, ApplyInv DEF obliterate
<1>3. CASE \/ submit(c) \/ claim_next(c) \/ settle_job(c) \/ manage(c) \/ edit(c) \/ annotate(c)
           \/ sweep(c)
  BY <1>1, <1>3 DEF submit, claim_next, settle_job, manage, edit, annotate, sweep
<1>4. NoCall \in Call
  BY DEF NoCall, Call, Version, Inode
<1>5. CASE persist_fails(c)
  <2>1. call' \in [Clients -> Call] /\ call'[c] = NoCall
    BY <1>4, <1>5 DEF persist_fails, Inv, TypeInv
  <2>2. UNCHANGED <<files, acked>> /\ (memory' = memory \/ memory' = Nil)
    BY <1>5 DEF persist_fails
  <2> QED
    BY <2>1, <2>2, AbortInv
<1>6. CASE Crash
  <2>1. call' \in [Clients -> Call] /\ call'[c] = NoCall
    BY <1>4, <1>6 DEF Crash
  <2>2. UNCHANGED <<files, acked>> /\ (memory' = memory \/ memory' = Nil)
    BY <1>6 DEF Crash
  <2> QED
    BY <2>1, <2>2, AbortInv
<1>7. CASE open
  <2>1. call[c] = NoCall
    BY <1>7 DEF open, Inv, TypeInv, CallGood, Call
  <2> QED
    BY <1>7, <2>1, AbortInv DEF open, Inv, TypeInv
<1>8. CASE UNCHANGED local_vars
  BY <1>8 DEF local_vars, Inv, TypeInv, SnapshotGood, CallGood
<1> QED
  BY <1>2, <1>3, <1>5, <1>6, <1>7, <1>8, SnapshotInv, OpenTmpInv, WriteTmpInv, RenameInv,
     AnswerInv DEF LocalNext

-----------------------------------------------------------------------------
\* The invariant holds in every state of a queue with one caller.
LEMMA Invariance ==
    ASSUME Nil \notin Int, NEW c, Clients = {c}
    PROVE  LocalSpec => []Inv
<1>1. LocalInit => Inv
  BY DEF LocalInit, Inv, TypeInv, SnapshotGood, CallGood, Files, Inode, Call, Version, NoCall, Empty
<1>2. Inv /\ [LocalNext]_local_vars => Inv'
  BY NextInv
<1> QED
  BY <1>1, <1>2, PTL DEF LocalSpec

\* With one caller, whatever was acknowledged is in the snapshot file, through failed writes,
\* crashes at every step of persist() and restarts.
THEOREM Durable ==
    ASSUME Nil \notin Int, NEW c, Clients = {c}
    PROVE  LocalSpec => []AckedSurvives
<1>1. Inv => AckedSurvives
  BY DEF Inv, TypeInv, SnapshotGood, AckedSurvives, load_job_snapshot
<1> QED
  BY <1>1, Invariance, PTL

\* With one caller, open never refuses the snapshot that is there, and it is never ahead of
\* the queue.
THEOREM Reopens ==
    ASSUME Nil \notin Int, NEW c, Clients = {c}
    PROVE  LocalSpec => []SnapshotOpens
<1>1. Inv => SnapshotOpens
  BY DEF Inv, TypeInv, Version, SnapshotGood, SnapshotOpens, load_job_snapshot, Empty, Torn
<1> QED
  BY <1>1, Invariance, PTL

=============================================================================
