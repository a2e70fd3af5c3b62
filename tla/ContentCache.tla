---------------------------- MODULE ContentCache ----------------------------
(***************************************************************************)
(* The locking contract of the content-addressed caches (spec §4.5), used  *)
(* by the file cache (filecache.Cache) and the artifact cache             *)
(* (artifact.Cache), whose code lies outside src/. A store maps each ID to *)
(* an entry: committed or not, the number of read-locks held, and whether  *)
(* a writer (Create or Write) is active. Operators return the new store;   *)
(* the callers decide what an error does.                                  *)
(***************************************************************************)
EXTENDS Naturals

Entry == [committed : BOOLEAN, readers : Nat, writer : BOOLEAN]

Absent == [committed |-> FALSE, readers |-> 0, writer |-> FALSE]
Present == [committed |-> TRUE, readers |-> 0, writer |-> FALSE]

\* Get(id) grants a read-lock on a committed entry with no active writer.
CanGet(s, id) == s[id].committed /\ ~s[id].writer
GetLock(s, id) == [s EXCEPT ![id].readers = @ + 1]

\* The error Get returns otherwise: ErrNotFound for an entry never
\* committed; with a writer active the contract only says that reads and
\* writes exclude each other, so the error may be either.
GetErrors(s, id) ==
    IF s[id].writer THEN {"ErrNotFound", "ErrWriteLocked"} ELSE {"ErrNotFound"}

Unlock(s, id) == [s EXCEPT ![id].readers = @ - 1]

\* Create(id) / Write(id): ErrExists if committed, ErrWriteLocked if
\* another writer is active, otherwise the write-lock.
CreateError(s, id) ==
    IF s[id].committed THEN "ErrExists"
    ELSE IF s[id].writer THEN "ErrWriteLocked"
    ELSE "none"
CreateLock(s, id) == [s EXCEPT ![id].writer = TRUE]

Commit(s, id) == [s EXCEPT ![id].writer = FALSE, ![id].committed = TRUE]
Abort(s, id) == [s EXCEPT ![id].writer = FALSE]

\* Remove(id): ErrReadLocked while any reader is active.
CanRemove(s, id) == s[id].readers = 0
RemoveEntry(s, id) == [s EXCEPT ![id].committed = FALSE]

=============================================================================
