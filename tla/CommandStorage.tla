--------------------------- MODULE CommandStorage ---------------------------
(***************************************************************************)
(* LocalStorage of src/storage.rs: a cache of commands behind a read-write *)
(* lock, and a file that is rewritten in place after every change.  The    *)
(* change is made under the write lock; the file is written under a read   *)
(* lock, so that several writers may be at it at once.  The dead letters   *)
(* are kept in the same way in a second cache and file.                    *)
(***************************************************************************)
EXTENDS Integers, FiniteSets

CONSTANTS
    Writers,   \* concurrent callers
    Stored,    \* commands
    Unset

VARIABLES
    cache,    \* the commands in memory; Unset while no process runs
    file,     \* the set of commands in the file; Unset: no file; Partial: being written
    op,       \* op[w]: the call that w has under way
    reader,   \* the writers that hold the read lock
    behind    \* the file is known to be behind: a caller was given the error of its write, or
              \* a clear_all that is about to delete it was overtaken by a later change

storage_vars == <<cache, file, op, reader, behind>>

Partial == {"partial"}
NoOp == [pc |-> "idle", json |-> {}]

StorageInit ==
    /\ cache = {} /\ file = Unset
    /\ op = [w \in Writers |-> NoOp]
    /\ reader = {} /\ behind = FALSE

Calling == {w \in Writers : op[w] # NoOp}
Clearing == {w \in Writers : op[w].pc = "cleared"}

-----------------------------------------------------------------------------
\* The write lock: nobody else reads or writes the cache.
change(w, new) ==
    /\ cache # Unset /\ op[w] = NoOp /\ reader = {}
    /\ cache' = new
    /\ op' = [op EXCEPT ![w].pc = "changed"]
    /\ behind' = (behind \/ Clearing # {})
    /\ UNCHANGED <<file, reader>>

save_command(w) == \E c \in Stored : change(w, cache \cup {c})
remove_command(w) == \E c \in Stored : change(w, cache \ {c})

\* Fault: the read lock is given back before the file is written.
persist_unlocked(w) ==
    /\ op[w].pc = "changed"
    /\ op' = [op EXCEPT ![w] = [pc |-> "serialized", json |-> cache]]
    /\ UNCHANGED <<cache, file, reader, behind>>

\* persist_commands takes the read lock and keeps it until the file is written.
persist_commands(w) ==
    /\ op[w].pc = "changed"
    /\ reader' = reader \cup {w}
    /\ op' = [op EXCEPT ![w] = [pc |-> "serialized", json |-> cache]]
    /\ UNCHANGED <<cache, file, behind>>

truncate(w) ==
    /\ op[w].pc = "serialized"
    /\ file' = Partial
    /\ op' = [op EXCEPT ![w].pc = "writing"]
    /\ UNCHANGED <<cache, reader, behind>>

\* A write over one of another length leaves bytes of both behind, and one to a deleted file
\* is lost.
write(w) ==
    LET json == op[w].json IN
    /\ op[w].pc = "writing"
    /\ file' \in IF file = Unset THEN {Unset}
                 ELSE {json} \cup (IF file \in {Partial, json} THEN {} ELSE {Partial})
    /\ op' = [op EXCEPT ![w] = NoOp]
    /\ reader' = reader \ {w}
    /\ behind' = (Clearing # {} \/ file = Unset)
    /\ UNCHANGED cache

\* The caller gets an error; the command stays in the cache.
write_fails(w) ==
    /\ op[w].pc = "writing"
    /\ op' = [op EXCEPT ![w] = NoOp]
    /\ reader' = reader \ {w}
    /\ behind' = TRUE
    /\ UNCHANGED <<cache, file>>

\* clear_all empties the cache under the write lock, and deletes the file under none.
clear_all(w) ==
    /\ cache # Unset /\ op[w] = NoOp /\ reader = {}
    /\ cache' = {}
    /\ op' = [op EXCEPT ![w].pc = "cleared"]
    /\ UNCHANGED <<file, reader, behind>>

remove_file(w) ==
    /\ op[w].pc = "cleared"
    /\ file' = Unset
    /\ op' = [op EXCEPT ![w] = NoOp]
    /\ UNCHANGED <<cache, reader, behind>>

-----------------------------------------------------------------------------
\* What load_from_disk makes of the file: one that cannot be decoded is ignored.
load_from_disk == IF file \in {Unset, Partial} THEN {} ELSE file

StorageCrash ==
    /\ cache # Unset
    /\ cache' = Unset
    /\ op' = [w \in Writers |-> NoOp]
    /\ reader' = {} /\ behind' = FALSE
    /\ UNCHANGED file

new ==
    /\ cache = Unset
    /\ cache' = load_from_disk
    /\ UNCHANGED <<file, op, reader, behind>>

StorageNext ==
    \/ \E w \in Writers :
        \/ save_command(w) \/ remove_command(w) \/ clear_all(w) \/ remove_file(w)
        \/ persist_commands(w) \/ truncate(w) \/ write(w) \/ write_fails(w)
    \/ StorageCrash \/ new

StorageSpec == StorageInit /\ [][StorageNext]_storage_vars

-----------------------------------------------------------------------------
\* When no call is under way the file holds exactly the commands in memory, in whatever order
\* concurrent calls made their changes and wrote the file, unless the file is known to be
\* behind; a restart then finds what every caller was told.
FileMatchesCache ==
    cache # Unset /\ Calling = {} /\ ~behind => load_from_disk = cache

=============================================================================
