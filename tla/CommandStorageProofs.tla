------------------------ MODULE CommandStorageProofs ------------------------
(***************************************************************************)
(* LocalStorage for any number of concurrent callers and any commands.     *)
(*                                                                         *)
(* The file is written under a read lock and the cache is changed under    *)
(* the write lock, so whoever writes the file writes what the cache holds; *)
(* that is why two writers cannot leave the older of two states behind.    *)
(***************************************************************************)
EXTENDS CommandStorage, TLAPS

\* The marks for no process, no file and a partial file are no sets of commands.
Distinct == Unset \notin SUBSET Stored /\ "partial" \notin Stored /\ Unset # Partial

Contents == SUBSET Stored

Op == [pc : {"idle", "changed", "serialized", "writing", "cleared"}, json : Contents]

TypeInv ==
    /\ cache \in Contents \cup {Unset}
    /\ file \in Contents \cup {Unset, Partial}
    /\ op \in [Writers -> Op]
    /\ \A w \in Writers : op[w].pc = "idle" => op[w] = NoOp
    /\ behind \in BOOLEAN

\* Without a process no call is under way.
NoProcess == cache = Unset => Calling = {}

\* Who holds the read lock is about to write what the cache holds.
WritesCache ==
    /\ reader = {w \in Writers : op[w].pc \in {"serialized", "writing"}}
    /\ \A w \in reader : op[w].json = cache

\* A file that is being written holds part of the cache, all of it, or was deleted.
BeingWritten == \A w \in Writers : op[w].pc = "writing" => file \in {Partial, Unset, cache}

\* A clear_all that is about to delete the file finds the cache empty, or was overtaken.
ClearedIsEmpty == Clearing # {} /\ ~behind => cache = {}

Inv == TypeInv /\ NoProcess /\ WritesCache /\ BeingWritten /\ ClearedIsEmpty /\ FileMatchesCache

-----------------------------------------------------------------------------
\* A change under the write lock.
LEMMA ChangeInv ==
    ASSUME Distinct, Inv, NEW w \in Writers, NEW content \in Contents, change(w, content)
    PROVE  Inv'
<1>1. /\ reader = {} /\ reader' = reader /\ file' = file /\ cache' = content /\ op[w] = NoOp
      /\ behind' = (behind \/ Clearing # {})
      /\ op'[w].pc = "changed" /\ op' \in [Writers -> Op]
      /\ \A v \in Writers : v # w => op'[v] = op[v]
  BY DEF change, Inv, TypeInv, Op, NoOp
<1>2. content # Unset
  BY DEF Distinct, Contents
<1>3. TypeInv' /\ NoProcess'
  BY <1>1, <1>2 DEF Inv, TypeInv, NoProcess
<1>4. WritesCache' /\ BeingWritten'
  BY <1>1 DEF Inv, WritesCache, BeingWritten, NoOp
<1>5. Clearing' = Clearing
  BY <1>1 DEF Clearing, NoOp
<1>6. ClearedIsEmpty'
  BY <1>1, <1>5 DEF ClearedIsEmpty
<1>7. FileMatchesCache'
  <2>1. w \in Calling'
    BY <1>1 DEF Calling, NoOp
  <2> QED
    BY <2>1 DEF FileMatchesCache
<1> QED
  BY <1>3, <1>4, <1>6, <1>7 DEF Inv

\* The read lock is taken and the cache copied.
LEMMA PersistInv ==
    ASSUME Distinct, Inv, NEW w \in Writers, persist_commands(w)
    PROVE  Inv'
<1>1. /\ op[w].pc = "changed" /\ cache' = cache /\ file' = file /\ behind' = behind
      /\ reader' = reader \cup {w}
      /\ cache \in Contents
  BY DEF persist_commands, Inv, TypeInv, NoProcess, Calling, NoOp
<1>2. /\ op'[w].pc = "serialized" /\ op'[w].json = cache /\ op' \in [Writers -> Op]
      /\ \A v \in Writers : v # w => op'[v] = op[v]
  BY <1>1 DEF persist_commands, Inv, TypeInv, Op
<1>3. TypeInv' /\ NoProcess'
  BY <1>1, <1>2 DEF Inv, TypeInv, NoProcess, Distinct, Contents
<1>4. WritesCache' /\ BeingWritten'
  BY <1>1, <1>2 DEF Inv, WritesCache, BeingWritten
<1>5. Clearing' = Clearing
  BY <1>1, <1>2 DEF Clearing
<1>6. ClearedIsEmpty'
  BY <1>1, <1>5 DEF Inv, ClearedIsEmpty
<1>7. FileMatchesCache'
  <2>1. w \in Calling'
    BY <1>2 DEF Calling, NoOp
  <2> QED
    BY <2>1 DEF FileMatchesCache
<1> QED
  BY <1>3, <1>4, <1>6, <1>7 DEF Inv

\* The file is truncated.
LEMMA TruncateInv ==
    ASSUME Distinct, Inv, NEW w \in Writers, truncate(w)
    PROVE  Inv'
<1>1. /\ op[w].pc = "serialized" /\ cache' = cache /\ file' = Partial /\ behind' = behind
      /\ reader' = reader /\ cache \in Contents
  BY DEF truncate, Inv, TypeInv, NoProcess, Calling, NoOp
<1>2. /\ op'[w].pc = "writing" /\ op'[w].json = op[w].json /\ op' \in [Writers -> Op]
      /\ \A v \in Writers : v # w => op'[v] = op[v]
  BY <1>1 DEF truncate, Inv, TypeInv, Op
<1>3. TypeInv' /\ NoProcess'
  BY <1>1, <1>2 DEF Inv, TypeInv, NoProcess, Distinct, Contents
<1>4. WritesCache' /\ BeingWritten'
  BY <1>1, <1>2 DEF Inv, WritesCache, BeingWritten
<1>5. Clearing' = Clearing
  BY <1>1, <1>2 DEF Clearing
<1>6. ClearedIsEmpty'
  BY <1>1, <1>5 DEF Inv, ClearedIsEmpty
<1>7. FileMatchesCache'
  <2>1. w \in Calling'
    BY <1>2 DEF Calling, NoOp
  <2> QED
    BY <2>1 DEF FileMatchesCache
<1> QED
  BY <1>3, <1>4, <1>6, <1>7 DEF Inv

\* The call is over: the file holds the cache, or is known to be behind.
LEMMA WriteInv ==
    ASSUME Distinct, Inv, NEW w \in Writers, write(w) \/ write_fails(w)
    PROVE  Inv'
<1>1. /\ op[w].pc = "writing" /\ cache' = cache /\ reader' = reader \ {w}
      /\ op' = [op EXCEPT ![w] = NoOp] /\ cache \in Contents /\ op[w].json = cache
      /\ file \in {Partial, Unset, cache}
  BY DEF write, write_fails, Inv, TypeInv, NoProcess, Calling, NoOp, WritesCache, BeingWritten
<1>2. /\ op'[w] = NoOp /\ op' \in [Writers -> Op]
      /\ \A v \in Writers : v # w => op'[v] = op[v]
  BY <1>1 DEF Inv, TypeInv, Op, NoOp, Contents
<1>3. \/ behind' = TRUE /\ file' \in {Partial, Unset, cache}
      \/ behind' = FALSE /\ file' = cache /\ Clearing = {}
  <2>1. CASE write(w)
    <3>1. CASE file = Unset
      BY <1>1, <2>1, <3>1 DEF write
    <3>2. CASE file # Unset
      BY <1>1, <2>1, <3>2 DEF write
    <3> QED
      BY <3>1, <3>2
  <2>2. CASE write_fails(w)
    BY <1>1, <2>2 DEF write_fails
  <2> QED
    BY <2>1, <2>2
<1>4. TypeInv' /\ NoProcess'
  BY <1>1, <1>2, <1>3 DEF Inv, TypeInv, NoProcess, Distinct, Contents, NoOp
<1>5. WritesCache' /\ BeingWritten'
  BY <1>1, <1>2, <1>3 DEF Inv, WritesCache, BeingWritten, NoOp
<1>6. Clearing' = Clearing
  BY <1>1, <1>2 DEF Clearing, NoOp
<1>7. ClearedIsEmpty'
  BY <1>3, <1>6 DEF ClearedIsEmpty
<1>8. FileMatchesCache'
  <2>1. file' = cache => load_from_disk' = cache'
    <3>1. cache # Unset /\ cache # Partial
      BY <1>1 DEF Distinct, Contents, Partial
    <3> QED
      BY <1>1, <3>1 DEF load_from_disk
  <2> QED
    BY <1>3, <2>1 DEF FileMatchesCache
<1> QED
  BY <1>4, <1>5, <1>7, <1>8 DEF Inv

\* clear_all empties the cache under the write lock.
LEMMA ClearInv ==
    ASSUME Distinct, Inv, NEW w \in Writers, clear_all(w)
    PROVE  Inv'
<1>1. /\ reader = {} /\ reader' = reader /\ file' = file /\ cache' = {} /\ op[w] = NoOp
      /\ behind' = behind
      /\ op'[w].pc = "cleared" /\ op' \in [Writers -> Op]
      /\ \A v \in Writers : v # w => op'[v] = op[v]
  BY DEF clear_all, Inv, TypeInv, Op, NoOp
<1>2. TypeInv' /\ NoProcess'
  BY <1>1 DEF Inv, TypeInv, NoProcess, Distinct, Contents
<1>3. WritesCache' /\ BeingWritten'
  BY <1>1 DEF Inv, WritesCache, BeingWritten, NoOp
<1>4. ClearedIsEmpty'
  BY <1>1 DEF ClearedIsEmpty
<1>5. FileMatchesCache'
  <2>1. w \in Calling'
    BY <1>1 DEF Calling, NoOp
  <2> QED
    BY <2>1 DEF FileMatchesCache
<1> QED
  BY <1>2, <1>3, <1>4, <1>5 DEF Inv

\* The file is deleted.
LEMMA RemoveFileInv ==
    ASSUME Distinct, Inv, NEW w \in Writers, remove_file(w)
    PROVE  Inv'
<1>1. /\ op[w].pc = "cleared" /\ cache' = cache /\ file' = Unset /\ reader' = reader
      /\ behind' = behind /\ op' = [op EXCEPT ![w] = NoOp]
  BY DEF remove_file
<1>2. /\ op'[w] = NoOp /\ op' \in [Writers -> Op]
      /\ \A v \in Writers : v # w => op'[v] = op[v]
  BY <1>1 DEF Inv, TypeInv, Op, NoOp, Contents
<1>3. ~behind => cache = {}
  BY <1>1 DEF Inv, ClearedIsEmpty, Clearing
<1>4. TypeInv'
  BY <1>1, <1>2 DEF Inv, TypeInv, NoOp
<1>5. NoProcess'
  BY <1>1, <1>2 DEF Inv, NoProcess, Calling, NoOp
<1>6. WritesCache' /\ BeingWritten'
  BY <1>1, <1>2 DEF Inv, WritesCache, BeingWritten, NoOp
<1>7. ClearedIsEmpty'
  BY <1>1, <1>3 DEF ClearedIsEmpty
<1>8. FileMatchesCache'
  BY <1>1, <1>3 DEF FileMatchesCache, load_from_disk
<1> QED
  BY <1>4, <1>5, <1>6, <1>7, <1>8 DEF Inv

\* The process dies, and another one reads the file.
LEMMA RestartInv ==
    ASSUME Distinct, Inv, StorageCrash \/ new
    PROVE  Inv'
<1>1. CASE StorageCrash
  <2>1. /\ cache' = Unset /\ file' = file /\ reader' = {} /\ behind' = FALSE
        /\ op' \in [Writers -> Op] /\ \A w \in Writers : op'[w] = NoOp
    BY <1>1 DEF StorageCrash, Op, NoOp, Contents
  <2>2. TypeInv' /\ NoProcess'
    BY <2>1 DEF Inv, TypeInv, NoProcess, Calling
  <2>3. WritesCache' /\ BeingWritten' /\ ClearedIsEmpty' /\ FileMatchesCache'
    BY <2>1 DEF WritesCache, BeingWritten, ClearedIsEmpty, Clearing, FileMatchesCache, NoOp
  <2> QED
    BY <2>2, <2>3 DEF Inv
<1>2. CASE new
  <2>1. /\ cache' = load_from_disk /\ file' = file /\ op' = op /\ reader' = reader
        /\ behind' = behind /\ \A w \in Writers : op[w] = NoOp
    BY <1>2 DEF new, Inv, NoProcess, Calling
  <2>2. load_from_disk \in Contents
    BY DEF load_from_disk, Inv, TypeInv, Contents
  <2>3. TypeInv' /\ NoProcess'
    BY <2>1, <2>2 DEF Inv, TypeInv, NoProcess, Calling
  <2>4. WritesCache' /\ BeingWritten' /\ ClearedIsEmpty'
    BY <2>1 DEF Inv, WritesCache, BeingWritten, ClearedIsEmpty, Clearing, NoOp
  <2>5. FileMatchesCache'
    BY <2>1 DEF FileMatchesCache, load_from_disk
  <2> QED
    BY <2>3, <2>4, <2>5 DEF Inv
<1> QED
  BY <1>1, <1>2

-----------------------------------------------------------------------------
\* When no call is under way the file holds exactly what the cache holds, unless it is known
\* to be behind, for every number of callers and every order of their steps.
THEOREM FileIsCache == Distinct => (StorageSpec => []FileMatchesCache)
<1> SUFFICES ASSUME Distinct PROVE StorageSpec => []FileMatchesCache
  OBVIOUS
<1>1. StorageInit => Inv
  <2> SUFFICES ASSUME StorageInit PROVE Inv
    OBVIOUS
  <2>1. /\ cache = {} /\ file = Unset /\ reader = {} /\ behind = FALSE
        /\ op \in [Writers -> Op] /\ \A w \in Writers : op[w] = NoOp
    BY DEF StorageInit, Op, NoOp, Contents
  <2>2. TypeInv
    BY <2>1 DEF TypeInv, Contents
  <2>3. Calling = {} /\ Clearing = {} /\ NoProcess /\ ClearedIsEmpty
    <3>1. Calling = {}
      BY <2>1 DEF Calling
    <3>2. Clearing = {}
      BY <2>1 DEF Clearing, NoOp
    <3> QED
      BY <3>1, <3>2 DEF NoProcess, ClearedIsEmpty
  <2>4. WritesCache /\ BeingWritten
    BY <2>1 DEF WritesCache, BeingWritten, NoOp
  <2>5. FileMatchesCache
    BY <2>1 DEF FileMatchesCache, load_from_disk
  <2> QED
    BY <2>2, <2>3, <2>4, <2>5 DEF Inv
<1>2. Inv /\ [StorageNext]_storage_vars => Inv'
  <2> SUFFICES ASSUME Inv, [StorageNext]_storage_vars PROVE Inv'
    OBVIOUS
  <2>1. ASSUME NEW w \in Writers, save_command(w) \/ remove_command(w) PROVE Inv'
    <3>1. cache # Unset
      BY <2>1 DEF save_command, remove_command, change
    <3>2. \A c \in Stored : cache \cup {c} \in Contents /\ cache \ {c} \in Contents
      BY <3>1 DEF Inv, TypeInv, Contents
    <3> QED
      BY <2>1, <3>2, ChangeInv DEF save_command, remove_command
  <2>2. CASE UNCHANGED storage_vars
    BY <2>2 DEF storage_vars, Inv, TypeInv, NoProcess, WritesCache, BeingWritten,
                ClearedIsEmpty, FileMatchesCache, load_from_disk, Calling, Clearing
  <2> QED
    BY <2>1, <2>2, PersistInv, TruncateInv, WriteInv, ClearInv, RemoveFileInv, RestartInv
    DEF StorageNext
<1>3. Inv => FileMatchesCache
  BY DEF Inv
<1> QED
  BY <1>1, <1>2, <1>3, PTL DEF StorageSpec

=============================================================================
