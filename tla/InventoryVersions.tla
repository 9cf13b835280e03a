-------------------------- MODULE InventoryVersions --------------------------
(***************************************************************************)
(* Concurrent edits of the AI systems of the inventory and the metadata    *)
(* versions they leave behind.                                             *)
(*                                                                         *)
(* A system is two rows, one of ai_systems and one of system_metadata.  An *)
(* edit reads both without a lock, writes the columns it changed, adds one *)
(* to the version number it read, and files a snapshot under the sum.      *)
(* Nothing guards the version but uq_system_metadata_versions_version: the *)
(* second of two edits that read the same version fails on its snapshot    *)
(* and is rolled back.                                                     *)
(*                                                                         *)
(* Committed state only: what a transaction wrote shows when it commits,   *)
(* and until then it holds the rows it wrote.                              *)
(***************************************************************************)
EXTENDS Naturals

CONSTANTS
    System,     \* the keys of ai_systems
    Request,    \* PATCH, DELETE and restore requests that can be under way
    Value,      \* what a table's columns can hold
    None,       \* no request, no system, no content
    MaxVersion  \* bound on the versions of a system

ASSUME NoneIsNothing ==
    /\ None \notin Request \cup System
    /\ MaxVersion \in Nat

VARIABLES
    version,   \* ai_systems.metadata_version, 0 before the system exists
    content,   \* the other columns of both rows
    history,   \* the rows of system_metadata_versions
    sysLock,   \* who has written the ai_systems row and not committed yet
    metaLock,  \* the same for the system_metadata row
    req        \* the requests

lockVars == <<sysLock, metaLock>>
vars == <<version, content, history, sysLock, metaLock, req>>

-----------------------------------------------------------------------------
(* Types *)

\* sys: the columns of ai_systems; meta: those of system_metadata.
Content == [sys : Value, meta : Value, deleted : BOOLEAN]

Entry == [version : Nat, before : Content \cup {None}, content : Content]

ASSUME NoneIsNoContent == None \notin Content

WritingPc == {"write_sys", "write_meta", "bump", "insert", "commit"}

\* loaded and loadedVersion: what the session read; session: what it holds now.
Req == [pc : {"idle"} \cup WritingPc, system : System \cup {None},
        loadedVersion : Nat, loaded : Content \cup {None},
        session : Content \cup {None}]

NoReq == [pc |-> "idle", system |-> None, loadedVersion |-> 0, loaded |-> None,
          session |-> None]

\* Shapes only, except that a request under way has read an existing system.
TypeOK ==
    /\ version \in [System -> Nat]
    /\ content \in [System -> Content \cup {None}]
    /\ history \in [System -> SUBSET Entry]
    /\ sysLock \in [System -> Request \cup {None}]
    /\ metaLock \in [System -> Request \cup {None}]
    /\ req \in [Request -> Req]
    /\ \A r \in Request : req[r].pc # "idle" =>
          /\ req[r].system \in System /\ content[req[r].system] \in Content
          /\ req[r].loaded \in Content /\ req[r].session \in Content

Init ==
    /\ version = [s \in System |-> 0]
    /\ content = [s \in System |-> None]
    /\ history = [s \in System |-> {}]
    /\ sysLock = [s \in System |-> None]
    /\ metaLock = [s \in System |-> None]
    /\ req = [r \in Request |-> NoReq]

-----------------------------------------------------------------------------
(* Sessions and rows *)

\* A flush writes the columns that differ from what was read.
Column(loaded, value, current) == IF value = loaded THEN current ELSE value

\* Variant: the columns a PATCH leaves out are set to NULL.
WrittenUnset(loaded, session, current) ==
    [sys |-> IF session.sys = loaded.sys THEN None ELSE session.sys,
     meta |-> IF session.meta = loaded.meta THEN None ELSE session.meta,
     deleted |-> session.deleted]

Written(loaded, session, current) ==
    [sys |-> Column(loaded.sys, session.sys, current.sys),
     meta |-> Column(loaded.meta, session.meta, current.meta),
     deleted |-> Column(loaded.deleted, session.deleted, current.deleted)]

FreeFor(lock, r, s) == lock[s] \in {None, r}

\* The rows r holds are let go of.
Release(r) ==
    /\ sysLock' = [s \in System |-> IF sysLock[s] = r THEN None ELSE sysLock[s]]
    /\ metaLock' = [s \in System |-> IF metaLock[s] = r THEN None ELSE metaLock[s]]

\* The session of r reads system s and is then asked for c.
Begin(r, s, c, pc) ==
    /\ req[r].pc = "idle"
    /\ content[s] # None
    /\ version[s] < MaxVersion
    /\ req' = [req EXCEPT ![r] = [pc |-> pc, system |-> s, loadedVersion |-> version[s],
                                  loaded |-> content[s], session |-> c]]
    /\ UNCHANGED <<version, content, history, lockVars>>

-----------------------------------------------------------------------------
(* The service's operations *)

\* create: new rows under a new key, and their first snapshot, in one commit.
Create(s, c) ==
    /\ content[s] = None
    /\ ~c.deleted
    /\ version' = [version EXCEPT ![s] = 1]
    /\ content' = [content EXCEPT ![s] = c]
    /\ history' = [history EXCEPT ![s] =
                     {[version |-> 1, before |-> None, content |-> c]}]
    /\ UNCHANGED <<lockVars, req>>

\* update: the ai_systems row is flushed before the system_metadata row, each if
\* the payload changed it.  An update that changes nothing writes neither.
Update(r, s) ==
    \E c \in Content :
        /\ content[s] # None /\ ~content[s].deleted /\ ~c.deleted
        /\ c # content[s]
        /\ Begin(r, s, c, IF c.sys # content[s].sys THEN "write_sys" ELSE "write_meta")

\* soft_delete: get() finds live systems only.
SoftDelete(r, s) ==
    /\ content[s] # None /\ ~content[s].deleted
    /\ Begin(r, s, [content[s] EXCEPT !.deleted = TRUE], "bump")

\* restore: a system that is not deleted is returned as it is.
Restore(r, s) ==
    /\ content[s] # None /\ content[s].deleted
    /\ Begin(r, s, [content[s] EXCEPT !.deleted = FALSE], "bump")

\* First flush of update.
WriteSystem(r) ==
    LET s == req[r].system
    IN  /\ req[r].pc = "write_sys"
        /\ FreeFor(sysLock, r, s)
        /\ sysLock' = [sysLock EXCEPT ![s] = r]
        /\ req' = [req EXCEPT ![r].pc =
                     IF req[r].session.meta # req[r].loaded.meta THEN "write_meta"
                     ELSE "bump"]
        /\ UNCHANGED <<version, content, history, metaLock>>

WriteMetadata(r) ==
    LET s == req[r].system
    IN  /\ req[r].pc = "write_meta"
        /\ FreeFor(metaLock, r, s)
        /\ metaLock' = [metaLock EXCEPT ![s] = r]
        /\ req' = [req EXCEPT ![r].pc = "bump"]
        /\ UNCHANGED <<version, content, history, sysLock>>

\* Variant: the new version is one more than the row's, as an UPDATE with
\* metadata_version + 1 would have it.
BumpInPlace(r) ==
    LET s == req[r].system
    IN  /\ req[r].pc = "bump"
        /\ FreeFor(sysLock, r, s)
        /\ sysLock' = [sysLock EXCEPT ![s] = r]
        /\ req' = [req EXCEPT ![r].pc = "insert", ![r].loadedVersion = version[s]]
        /\ UNCHANGED <<version, content, history, metaLock>>

\* metadata_version += 1 and flush.
Bump(r) ==
    LET s == req[r].system
    IN  /\ req[r].pc = "bump"
        /\ FreeFor(sysLock, r, s)
        /\ sysLock' = [sysLock EXCEPT ![s] = r]
        /\ req' = [req EXCEPT ![r].pc = "insert"]
        /\ UNCHANGED <<version, content, history, metaLock>>

Taken(s, v) == \E e \in history[s] : e.version = v

\* Variant: no unique constraint on (ai_system_id, version).
SnapshotUnchecked(r) ==
    /\ req[r].pc = "insert"
    /\ req' = [req EXCEPT ![r].pc = "commit"]
    /\ UNCHANGED <<version, content, history, lockVars>>

\* _snapshot: the insert passes the unique constraint ...
Snapshot(r) ==
    /\ req[r].pc = "insert"
    /\ ~Taken(req[r].system, req[r].loadedVersion + 1)
    /\ req' = [req EXCEPT ![r].pc = "commit"]
    /\ UNCHANGED <<version, content, history, lockVars>>

\* Variant: the insert is tried again under the same version.
SnapshotRetried(r) ==
    /\ req[r].pc = "insert"
    /\ Taken(req[r].system, req[r].loadedVersion + 1)
    /\ UNCHANGED vars

\* ... or fails on it and the request with it.
SnapshotConflict(r) ==
    /\ req[r].pc = "insert"
    /\ Taken(req[r].system, req[r].loadedVersion + 1)
    /\ Release(r)
    /\ req' = [req EXCEPT ![r] = NoReq]
    /\ UNCHANGED <<version, content, history>>

\* Variant: the snapshot is taken before the payload is applied.
CommitOldSnapshot(r) ==
    LET s == req[r].system
        v == req[r].loadedVersion + 1
        old == req[r].loaded
        new == req[r].session
    IN  /\ req[r].pc = "commit"
        /\ version' = [version EXCEPT ![s] = v]
        /\ content' = [content EXCEPT ![s] = Written(old, new, content[s])]
        /\ history' = [history EXCEPT ![s] =
                         @ \cup {[version |-> v, before |-> old, content |-> old]}]
        /\ Release(r)
        /\ req' = [req EXCEPT ![r] = NoReq]

\* The snapshot shows the session's objects, the rows get the written columns.
Commit(r) ==
    LET s == req[r].system
        v == req[r].loadedVersion + 1
        old == req[r].loaded
        new == req[r].session
    IN  /\ req[r].pc = "commit"
        /\ version' = [version EXCEPT ![s] = v]
        /\ content' = [content EXCEPT ![s] = Written(old, new, content[s])]
        /\ history' = [history EXCEPT ![s] =
                         @ \cup {[version |-> v, before |-> old, content |-> new]}]
        /\ Release(r)
        /\ req' = [req EXCEPT ![r] = NoReq]

\* The request fails and is rolled back: its new name is taken (409), or it
\* loses its connection.
Abort(r) ==
    /\ req[r].pc # "idle"
    /\ Release(r)
    /\ req' = [req EXCEPT ![r] = NoReq]
    /\ UNCHANGED <<version, content, history>>

\* r waits for a row that q holds.
Waits(r, q) ==
    /\ r # q
    /\ \/ req[r].pc \in {"write_sys", "bump"} /\ sysLock[req[r].system] = q
       \/ req[r].pc = "write_meta" /\ metaLock[req[r].system] = q

\* PostgreSQL aborts one of two transactions that wait for each other.
DeadlockVictim(r) ==
    /\ \E q \in Request : Waits(r, q) /\ Waits(q, r)
    /\ Release(r)
    /\ req' = [req EXCEPT ![r] = NoReq]
    /\ UNCHANGED <<version, content, history>>

-----------------------------------------------------------------------------

RequestStep(r) ==
    \/ WriteSystem(r)
    \/ WriteMetadata(r)
    \/ Bump(r)
    \/ Snapshot(r)
    \/ SnapshotConflict(r)
    \/ Commit(r)
    \/ DeadlockVictim(r)

Next ==
    \/ \E s \in System, c \in Content : Create(s, c)
    \/ \E r \in Request, s \in System : Update(r, s) \/ SoftDelete(r, s) \/ Restore(r, s)
    \/ \E r \in Request : RequestStep(r) \/ Abort(r)

Spec == Init /\ [][Next]_vars

\* PostgreSQL grants a row to those who wait for it and breaks deadlocks; a
\* request that can go on does.  Nobody is obliged to start one.
Fairness == \A r \in Request : SF_vars(RequestStep(r))

FairSpec == Spec /\ Fairness

-----------------------------------------------------------------------------
(* Properties *)

\* The version history of a system has exactly one entry for every version from
\* its creation to the one the row shows, however edits interleave.
HistoryIsComplete ==
    \A s \in System :
        /\ {e.version : e \in history[s]} = 1 .. version[s]
        /\ \A e, f \in history[s] : e.version = f.version => e = f

\* The newest snapshot is the system as it is: no write bypasses the history and
\* no stale session's columns are mixed into the row.
HeadIsCurrent ==
    \A s \in System : \A e \in history[s] :
        e.version = version[s] => e.content = content[s]

\* Every entry tells its change against the entry before it: an edit never takes
\* back what another edit did after it read the system (no lost update).
DiffsChain ==
    \A s \in System : \A e, f \in history[s] :
        f.version = e.version + 1 => f.before = e.content

\* Every request is answered in the end, those that wait for each other included.
EveryRequestEnds == \A r \in Request : req[r].pc # "idle" ~> req[r].pc = "idle"

\* Edits that read, wait and overwrite look like single steps on the system.
Record == INSTANCE VersionedRecord WITH Nothing <- None

RecordSpec == Record!Spec
=============================================================================
