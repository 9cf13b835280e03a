--------------------------- MODULE InventoryProofs ---------------------------
(***************************************************************************)
(* The version history of InventoryVersions, for any number of systems,    *)
(* requests and versions.                                                  *)
(*                                                                         *)
(* The argument: what a request has loaded is the content of an entry that *)
(* is already filed (LoadedInv), and entries are never changed.  A request *)
(* whose snapshot passed the unique constraint therefore loaded the newest *)
(* version, and keeps it the newest by holding the ai_systems row          *)
(* (CommitInv), so its commit extends the history by one.                  *)
(***************************************************************************)
EXTENDS InventoryVersions, TLAPS

Active(r) == req[r].pc # "idle"

-----------------------------------------------------------------------------
(* Types *)

\* The initial state has the shape TypeOK describes.
LEMMA InitialTypes == Init => TypeOK
BY DEF Init, TypeOK, Req, NoReq

\* Whoever releases its rows leaves well-formed locks behind.
LEMMA ReleaseTypes ==
    ASSUME TypeOK, NEW r, Release(r)
    PROVE  /\ sysLock' \in [System -> Request \cup {None}]
           /\ metaLock' \in [System -> Request \cup {None}]
BY DEF TypeOK, Release

\* A partial UPDATE of well-formed columns leaves well-formed columns.
LEMMA WrittenType ==
    ASSUME NEW old \in Content, NEW new \in Content, NEW current \in Content
    PROVE  Written(old, new, current) \in Content
BY DEF Written, Column, Content

\* Whoever ends leaves a well-formed idle request behind.
LEMMA EndTypes ==
    ASSUME TypeOK, NEW r \in Request, req' = [req EXCEPT ![r] = NoReq]
    PROVE  /\ req' \in [Request -> Req]
           /\ \A q \in Request : req'[q].pc # "idle" => q # r /\ req'[q] = req[q]
BY DEF TypeOK, Req, NoReq

\* Reading a system into a session keeps the types.
LEMMA BeginTypes ==
    ASSUME TypeOK, NEW r \in Request, NEW s \in System, NEW c \in Content,
           NEW pc \in {"write_sys", "write_meta", "bump"}, Begin(r, s, c, pc)
    PROVE  TypeOK'
<1>1. content[s] \in Content /\ version[s] \in Nat
    BY DEF Begin, TypeOK
<1>2. [pc |-> pc, system |-> s, loadedVersion |-> version[s], loaded |-> content[s],
       session |-> c] \in Req
    BY <1>1 DEF Req, WritingPc
<1> QED BY <1>1, <1>2 DEF Begin, TypeOK, lockVars

\* Every action keeps the types.
LEMMA StepTypes == TypeOK /\ [Next]_vars => TypeOK'
<1> SUFFICES ASSUME TypeOK, [Next]_vars PROVE TypeOK'
    OBVIOUS
<1>0. CASE UNCHANGED vars
    BY <1>0 DEF vars, TypeOK
<1>1. ASSUME NEW s \in System, NEW c \in Content, Create(s, c) PROVE TypeOK'
    <2>1. [version |-> 1, before |-> None, content |-> c] \in Entry
        BY DEF Entry
    <2> QED BY <1>1, <2>1 DEF Create, TypeOK, lockVars
<1>2. ASSUME NEW r \in Request, NEW s \in System,
             Update(r, s) \/ SoftDelete(r, s) \/ Restore(r, s)
      PROVE  TypeOK'
    <2>1. CASE Update(r, s)
        BY <2>1, BeginTypes DEF Update
    <2>2. CASE SoftDelete(r, s)
        <3>1. [content[s] EXCEPT !.deleted = TRUE] \in Content
            BY <2>2 DEF SoftDelete, TypeOK, Content
        <3> QED BY <2>2, <3>1, BeginTypes DEF SoftDelete
    <2>3. CASE Restore(r, s)
        <3>1. [content[s] EXCEPT !.deleted = FALSE] \in Content
            BY <2>3 DEF Restore, TypeOK, Content
        <3> QED BY <2>3, <3>1, BeginTypes DEF Restore
    <2> QED BY <1>2, <2>1, <2>2, <2>3
<1>3. ASSUME NEW r \in Request, RequestStep(r) \/ Abort(r) PROVE TypeOK'
    <2> DEFINE s == req[r].system
    <2>1. CASE WriteSystem(r)
        BY <2>1 DEF WriteSystem, TypeOK, Req, WritingPc
    <2>2. CASE WriteMetadata(r)
        BY <2>2 DEF WriteMetadata, TypeOK, Req, WritingPc
    <2>3. CASE Bump(r)
        BY <2>3 DEF Bump, TypeOK, Req, WritingPc
    <2>4. CASE Snapshot(r)
        BY <2>4 DEF Snapshot, TypeOK, Req, WritingPc, lockVars
    <2>5. CASE SnapshotConflict(r) \/ Abort(r) \/ DeadlockVictim(r)
        BY <2>5, EndTypes, ReleaseTypes DEF SnapshotConflict, Abort, DeadlockVictim, TypeOK
    <2>6. CASE Commit(r)
        <3>1. /\ s \in System /\ req[r].loaded \in Content /\ req[r].session \in Content
              /\ req[r].loadedVersion + 1 \in Nat /\ content[s] \in Content
            BY <2>6 DEF Commit, TypeOK, Req
        <3>2. version' \in [System -> Nat]
            BY <2>6, <3>1 DEF Commit, TypeOK
        <3>3. Written(req[r].loaded, req[r].session, content[s]) \in Content
            BY <3>1, WrittenType
        <3>4. content' \in [System -> Content \cup {None}]
            BY <2>6, <3>1, <3>3 DEF Commit, TypeOK
        <3>5. [version |-> req[r].loadedVersion + 1, before |-> req[r].loaded,
               content |-> req[r].session] \in Entry
            BY <3>1 DEF Entry
        <3>6. history' \in [System -> SUBSET Entry]
            BY <2>6, <3>1, <3>5 DEF Commit, TypeOK
        <3>7. /\ req' \in [Request -> Req]
              /\ \A q \in Request : req'[q].pc # "idle" => q # r /\ req'[q] = req[q]
            BY <2>6, EndTypes DEF Commit
        <3>8. \A z \in System : content[z] \in Content => content'[z] \in Content
            BY <2>6, <3>1, <3>3 DEF Commit, TypeOK
        <3>9. \A q \in Request : req'[q].pc # "idle" =>
                 /\ req'[q].system \in System /\ content'[req'[q].system] \in Content
                 /\ req'[q].loaded \in Content /\ req'[q].session \in Content
            BY <3>7, <3>8 DEF TypeOK
        <3>10. Release(r)
            BY <2>6 DEF Commit
        <3> QED BY <3>2, <3>4, <3>6, <3>7, <3>9, <3>10, ReleaseTypes DEF TypeOK
    <2> QED BY <1>3, <2>1, <2>2, <2>3, <2>4, <2>5, <2>6 DEF RequestStep
<1> QED BY <1>0, <1>1, <1>2, <1>3 DEF Next

\* The variables keep their shape, and whoever is under way has read a system
\* that exists.
THEOREM TypeCorrect == Spec => []TypeOK
BY InitialTypes, StepTypes, PTL DEF Spec
-----------------------------------------------------------------------------
(* The inductive invariant *)

\* A system without content has no version and no history.
EmptyInv ==
    \A s \in System :
        /\ content[s] = None => version[s] = 0
        /\ version[s] = 0 => content[s] = None /\ history[s] = {}

\* What a request has loaded is filed, and it wants something else.
LoadedInv ==
    \A r \in Request : Active(r) =>
        /\ req[r].session # req[r].loaded
        /\ \E e \in history[req[r].system] :
              e.version = req[r].loadedVersion /\ e.content = req[r].loaded

\* A request that has added to the version holds the row.
HoldInv ==
    \A r \in Request :
        req[r].pc \in {"insert", "commit"} => sysLock[req[r].system] = r

\* Whoever is about to commit has read the newest version.
CommitInv ==
    \A r \in Request :
        req[r].pc = "commit" => req[r].loadedVersion = version[req[r].system]

RecordInv == EmptyInv /\ HistoryIsComplete /\ HeadIsCurrent /\ DiffsChain

RequestInv == LoadedInv /\ HoldInv /\ CommitInv

IInv == TypeOK /\ RecordInv /\ RequestInv

RecordUnchanged == UNCHANGED <<version, content, history>>

\* The invariant holds before the first system is created.
LEMMA InitialInv == Init => IInv
<1> SUFFICES ASSUME Init PROVE IInv
    OBVIOUS
<1>1. TypeOK
    BY InitialTypes
<1>2. EmptyInv /\ HeadIsCurrent /\ DiffsChain
    BY DEF Init, EmptyInv, HeadIsCurrent, DiffsChain
<1>3. HistoryIsComplete
    <2>1. 1 .. 0 = {}
        OBVIOUS
    <2>2. \A s \in System : history[s] = {} /\ version[s] = 0
        BY DEF Init
    <2>3. {e.version : e \in {}} = {}
        OBVIOUS
    <2> QED BY <2>1, <2>2, <2>3 DEF HistoryIsComplete
<1>4. RequestInv
    BY DEF Init, NoReq, Active, RequestInv, LoadedInv, HoldInv, CommitInv
<1> QED BY <1>1, <1>2, <1>3, <1>4 DEF IInv, RecordInv

-----------------------------------------------------------------------------
(* The record: every step changes one system as VersionedRecord has it, or   *)
(* leaves all of them alone                                                  *)

\* A creation is the first change of its system.
LEMMA CreateChanges ==
    ASSUME IInv, NEW s \in System, NEW c \in Content, Create(s, c)
    PROVE  Record!Change(s, c)
<1>1. content[s] = None /\ version[s] = 0 /\ history[s] = {}
    BY DEF Create, IInv, RecordInv, EmptyInv
<1>2. c # content[s]
    BY <1>1, NoneIsNoContent
<1> QED BY <1>1, <1>2 DEF Create, Record!Change, Record!Entry

\* The content a request has loaded is current when it commits.
LEMMA LoadedIsCurrent ==
    ASSUME IInv, NEW r \in Request, req[r].pc = "commit"
    PROVE  /\ req[r].system \in System /\ req[r].session \in Content
           /\ req[r].loaded \in Content
           /\ req[r].loadedVersion = version[req[r].system]
           /\ req[r].loaded = content[req[r].system]
           /\ req[r].session # req[r].loaded
<1>1. /\ req[r].system \in System /\ req[r].session \in Content
      /\ req[r].loaded \in Content
    BY DEF IInv, TypeOK
<1>2. req[r].loadedVersion = version[req[r].system]
    BY DEF IInv, RequestInv, CommitInv
<1>3. /\ req[r].session # req[r].loaded
      /\ \E e \in history[req[r].system] :
            e.version = req[r].loadedVersion /\ e.content = req[r].loaded
    BY DEF IInv, RequestInv, LoadedInv, Active
<1>4. req[r].loaded = content[req[r].system]
    BY <1>1, <1>2, <1>3 DEF IInv, RecordInv, HeadIsCurrent
<1> QED BY <1>1, <1>2, <1>3, <1>4

\* Nothing was written to the row since it was loaded, so it becomes the session.
LEMMA WrittenToLoaded ==
    ASSUME NEW old \in Content, NEW new \in Content
    PROVE  Written(old, new, old) = new
<1>1. \A f, g : Column(f, g, f) = g
    BY DEF Column
<1>2. Written(old, new, old) =
        [sys |-> new.sys, meta |-> new.meta, deleted |-> new.deleted]
    BY <1>1 DEF Written
<1> QED BY <1>2 DEF Content

\* A commit is one change from what the system is to what its session holds.
LEMMA CommitChanges ==
    ASSUME IInv, NEW r \in Request, Commit(r)
    PROVE  /\ req[r].system \in System /\ req[r].session \in Content
           /\ Record!Change(req[r].system, req[r].session)
<1> DEFINE s == req[r].system
<1>1. /\ s \in System /\ req[r].session \in Content /\ req[r].loaded \in Content
      /\ req[r].loadedVersion = version[s] /\ req[r].loaded = content[s]
      /\ req[r].session # req[r].loaded
    BY LoadedIsCurrent DEF Commit
<1>2. Written(req[r].loaded, req[r].session, content[s]) = req[r].session
    BY <1>1, WrittenToLoaded
<1>3. version' = [version EXCEPT ![s] = @ + 1]
    BY <1>1 DEF Commit
<1>4. content' = [content EXCEPT ![s] = req[r].session]
    BY <1>2 DEF Commit
<1>5. history' = [history EXCEPT ![s] = @ \cup
                   {[version |-> version[s] + 1, before |-> content[s],
                     content |-> req[r].session]}]
    BY <1>1 DEF Commit
<1> QED BY <1>1, <1>3, <1>4, <1>5 DEF Record!Change, Record!Entry

\* So every step is one change of one system, or none of any.
LEMMA StepKinds ==
    ASSUME IInv, [Next]_vars
    PROVE  \/ \E s \in System, c \in Content : Record!Change(s, c)
           \/ RecordUnchanged
<1>0. CASE UNCHANGED vars
    BY <1>0 DEF vars, RecordUnchanged
<1>1. ASSUME NEW s \in System, NEW c \in Content, Create(s, c)
      PROVE  \E z \in System, d \in Content : Record!Change(z, d)
    BY <1>1, CreateChanges
<1>2. ASSUME NEW r \in Request, NEW s \in System,
             Update(r, s) \/ SoftDelete(r, s) \/ Restore(r, s)
      PROVE  RecordUnchanged
    BY <1>2 DEF Update, SoftDelete, Restore, Begin, RecordUnchanged
<1>3. ASSUME NEW r \in Request, RequestStep(r) \/ Abort(r), ~Commit(r)
      PROVE  RecordUnchanged
    BY <1>3 DEF RequestStep, WriteSystem, WriteMetadata, Bump, Snapshot, SnapshotConflict,
                DeadlockVictim, Abort, RecordUnchanged
<1>4. ASSUME NEW r \in Request, Commit(r)
      PROVE  \E z \in System, d \in Content : Record!Change(z, d)
    BY <1>4, CommitChanges
<1> QED BY <1>0, <1>1, <1>2, <1>3, <1>4 DEF Next

-----------------------------------------------------------------------------
(* A change keeps the record's invariant *)

\* A change files one entry on top of the others, which all stay.
LEMMA ChangedRecord ==
    ASSUME TypeOK, RecordInv, NEW s \in System, NEW c \in Content, Record!Change(s, c)
    PROVE  /\ RecordInv'
           /\ \A z \in System : history[z] \subseteq history'[z]
<1> DEFINE new == [version |-> version[s] + 1, before |-> content[s], content |-> c]
<1>0. /\ version[s] \in Nat /\ version'[s] = version[s] + 1
      /\ content'[s] = c /\ history'[s] = history[s] \cup {new}
      /\ new.version = version[s] + 1 /\ new.before = content[s] /\ new.content = c
    BY DEF TypeOK, Record!Change, Record!Entry
<1>1. \A z \in System : z # s =>
         version'[z] = version[z] /\ content'[z] = content[z] /\ history'[z] = history[z]
    BY DEF TypeOK, Record!Change
<1>2. \A e \in history[s] : e.version \in 1 .. version[s]
    BY DEF RecordInv, HistoryIsComplete
<1> HIDE DEF new
<1>3. EmptyInv'
    <2>1. ASSUME NEW z \in System
          PROVE  /\ content'[z] = None => version'[z] = 0
                 /\ version'[z] = 0 => content'[z] = None /\ history'[z] = {}
        BY <1>0, <1>1, NoneIsNoContent DEF RecordInv, EmptyInv
    <2> QED BY <2>1 DEF EmptyInv
<1>4. HistoryIsComplete'
    <2>1. {e.version : e \in history'[s]} = {e.version : e \in history[s]} \cup {version[s] + 1}
        BY <1>0
    <2>2. {e.version : e \in history[s]} = 1 .. version[s]
        BY DEF RecordInv, HistoryIsComplete
    <2>3. {e.version : e \in history'[s]} = 1 .. version'[s]
        BY <1>0, <2>1, <2>2
    <2>4. ASSUME NEW e \in history'[s], NEW f \in history'[s], e.version = f.version
          PROVE  e = f
        BY <1>0, <1>2, <2>4 DEF RecordInv, HistoryIsComplete
    <2>5. ASSUME NEW z \in System, z # s
          PROVE  /\ {e.version : e \in history'[z]} = 1 .. version'[z]
                 /\ \A e, f \in history'[z] : e.version = f.version => e = f
        BY <1>1, <2>5 DEF RecordInv, HistoryIsComplete
    <2> QED BY <2>3, <2>4, <2>5 DEF HistoryIsComplete
<1>5. HeadIsCurrent'
    <2>1. ASSUME NEW e \in history'[s], e.version = version'[s] PROVE e.content = content'[s]
        BY <1>0, <1>2, <2>1
    <2>2. ASSUME NEW z \in System, z # s, NEW e \in history'[z], e.version = version'[z]
          PROVE  e.content = content'[z]
        BY <1>1, <2>2 DEF RecordInv, HeadIsCurrent
    <2> QED BY <2>1, <2>2 DEF HeadIsCurrent
<1>6. DiffsChain'
    <2>1. ASSUME NEW e \in history'[s], NEW f \in history'[s], f.version = e.version + 1
          PROVE  f.before = e.content
        <3>1. CASE e \in history[s] /\ f \in history[s]
            BY <2>1, <3>1 DEF RecordInv, DiffsChain
        <3>2. CASE f = new /\ e \in history[s]
            <4>1. e.version = version[s]
                BY <1>0, <1>2, <2>1, <3>2
            <4> QED BY <1>0, <3>2, <4>1 DEF RecordInv, HeadIsCurrent
        <3>3. e # new
            <4>1. f.version \in 1 .. version[s] + 1
                BY <1>0, <1>2
            <4> QED BY <1>0, <2>1, <4>1
        <3> QED BY <1>0, <3>1, <3>2, <3>3
    <2>2. ASSUME NEW z \in System, z # s, NEW e \in history'[z], NEW f \in history'[z],
                 f.version = e.version + 1
          PROVE  f.before = e.content
        BY <1>1, <2>2 DEF RecordInv, DiffsChain
    <2> QED BY <2>1, <2>2 DEF DiffsChain
<1>7. \A z \in System : history[z] \subseteq history'[z]
    BY <1>0, <1>1
<1> QED BY <1>3, <1>4, <1>5, <1>6, <1>7 DEF RecordInv

\* Every step therefore keeps the invariant of the record.
LEMMA StepRecord ==
    ASSUME IInv, [Next]_vars
    PROVE  RecordInv' /\ \A s \in System : history[s] \subseteq history'[s]
<1>1. CASE RecordUnchanged
    BY <1>1 DEF RecordUnchanged, IInv, RecordInv, EmptyInv, HistoryIsComplete,
                HeadIsCurrent, DiffsChain
<1>2. ASSUME NEW s \in System, NEW c \in Content, Record!Change(s, c)
      PROVE  RecordInv' /\ \A z \in System : history[z] \subseteq history'[z]
    BY <1>2, ChangedRecord DEF IInv
<1> QED BY <1>1, <1>2, StepKinds

-----------------------------------------------------------------------------
(* The requests *)

\* A request under way after a step was under way before it, or has just read
\* the system it is to change.
LEMMA StepRequests ==
    ASSUME TypeOK, [Next]_vars, NEW r \in Request, Active(r)'
    PROVE  \/ /\ Active(r)
              /\ req'[r].system = req[r].system
              /\ req'[r].loadedVersion = req[r].loadedVersion
              /\ req'[r].loaded = req[r].loaded
              /\ req'[r].session = req[r].session
           \/ /\ req'[r].system \in System
              /\ content[req'[r].system] # None
              /\ req'[r].loadedVersion = version[req'[r].system]
              /\ req'[r].loaded = content[req'[r].system]
              /\ req'[r].session # req'[r].loaded
              /\ req'[r].pc \in {"write_sys", "write_meta", "bump"}
              /\ RecordUnchanged
<1>0. CASE UNCHANGED req
    BY <1>0 DEF Active
<1>1. ASSUME NEW s \in System, NEW c \in Content, Create(s, c) PROVE UNCHANGED req
    BY <1>1 DEF Create
<1>2. ASSUME NEW q \in Request, NEW s \in System, NEW c \in Content,
             NEW pc \in {"write_sys", "write_meta", "bump"}, Begin(q, s, c, pc),
             c # content[s]
      PROVE  \/ UNCHANGED req[r]
             \/ /\ req'[r].system \in System
                /\ content[req'[r].system] # None
                /\ req'[r].loadedVersion = version[req'[r].system]
                /\ req'[r].loaded = content[req'[r].system]
                /\ req'[r].session # req'[r].loaded
                /\ req'[r].pc \in {"write_sys", "write_meta", "bump"}
                /\ RecordUnchanged
    BY <1>2 DEF Begin, TypeOK, RecordUnchanged
<1>3. ASSUME NEW q \in Request, NEW s \in System, Update(q, s)
      PROVE  \E c \in Content, pc \in {"write_sys", "write_meta", "bump"} :
                Begin(q, s, c, pc) /\ c # content[s]
    BY <1>3 DEF Update
<1>4. ASSUME NEW q \in Request, NEW s \in System, SoftDelete(q, s)
      PROVE  \E c \in Content, pc \in {"write_sys", "write_meta", "bump"} :
                Begin(q, s, c, pc) /\ c # content[s]
    <2>1. content[s] \in Content /\ ~content[s].deleted
        BY <1>4 DEF SoftDelete, TypeOK
    <2>2. /\ [content[s] EXCEPT !.deleted = TRUE] \in Content
          /\ [content[s] EXCEPT !.deleted = TRUE].deleted
        BY <2>1 DEF Content
    <2> QED BY <1>4, <2>1, <2>2 DEF SoftDelete
<1>5. ASSUME NEW q \in Request, NEW s \in System, Restore(q, s)
      PROVE  \E c \in Content, pc \in {"write_sys", "write_meta", "bump"} :
                Begin(q, s, c, pc) /\ c # content[s]
    <2>1. content[s] \in Content /\ content[s].deleted
        BY <1>5 DEF Restore, TypeOK
    <2>2. /\ [content[s] EXCEPT !.deleted = FALSE] \in Content
          /\ ~[content[s] EXCEPT !.deleted = FALSE].deleted
        BY <2>1 DEF Content
    <2> QED BY <1>5, <2>1, <2>2 DEF Restore
<1>6. ASSUME NEW q \in Request, RequestStep(q) \/ Abort(q)
      PROVE  /\ Active(r)
             /\ req'[r].system = req[r].system
             /\ req'[r].loadedVersion = req[r].loadedVersion
             /\ req'[r].loaded = req[r].loaded
             /\ req'[r].session = req[r].session
    <2>1. CASE WriteSystem(q) \/ WriteMetadata(q) \/ Bump(q) \/ Snapshot(q)
        <3>1. req[q].pc # "idle" /\ \E pc \in WritingPc : req' = [req EXCEPT ![q].pc = pc]
            BY <2>1 DEF WriteSystem, WriteMetadata, Bump, Snapshot, WritingPc
        <3> QED BY <3>1 DEF TypeOK, Req, Active
    <2>2. CASE req' = [req EXCEPT ![q] = NoReq]
        BY <2>2 DEF TypeOK, NoReq, Active
    <2>3. CASE SnapshotConflict(q) \/ Commit(q) \/ DeadlockVictim(q) \/ Abort(q)
        BY <2>2, <2>3 DEF SnapshotConflict, Commit, DeadlockVictim, Abort
    <2> QED BY <1>6, <2>1, <2>3 DEF RequestStep
<1> QED BY <1>0, <1>1, <1>2, <1>3, <1>4, <1>5, <1>6 DEF Next, vars, Active

\* What a request has loaded stays on file while others commit.
LEMMA StepLoaded == IInv /\ [Next]_vars => LoadedInv'
<1> SUFFICES ASSUME IInv, [Next]_vars, NEW r \in Request, Active(r)'
             PROVE  /\ req'[r].session # req'[r].loaded
                    /\ \E e \in history'[req'[r].system] :
                          e.version = req'[r].loadedVersion /\ e.content = req'[r].loaded
    BY DEF LoadedInv
<1> TypeOK
    BY DEF IInv
<1>1. CASE /\ Active(r)
           /\ req'[r].system = req[r].system
           /\ req'[r].loadedVersion = req[r].loadedVersion
           /\ req'[r].loaded = req[r].loaded
           /\ req'[r].session = req[r].session
    <2>1. req[r].system \in System
        BY <1>1 DEF TypeOK, Active
    <2>2. history[req[r].system] \subseteq history'[req[r].system]
        BY <2>1, StepRecord
    <2> QED BY <1>1, <2>2 DEF IInv, RequestInv, LoadedInv
<1>2. CASE /\ req'[r].system \in System
           /\ content[req'[r].system] # None
           /\ req'[r].loadedVersion = version[req'[r].system]
           /\ req'[r].loaded = content[req'[r].system]
           /\ req'[r].session # req'[r].loaded
           /\ RecordUnchanged
    <2>1. PICK s \in System : s = req'[r].system
        BY <1>2
    <2>2. version[s] \in Nat /\ version[s] # 0
        BY <1>2, <2>1 DEF TypeOK, IInv, RecordInv, EmptyInv
    <2>3. version[s] \in {e.version : e \in history[s]}
        BY <2>2 DEF IInv, RecordInv, HistoryIsComplete
    <2>4. PICK e \in history[s] : e.version = version[s]
        BY <2>3
    <2>5. e.content = content[s]
        BY <2>4 DEF IInv, RecordInv, HeadIsCurrent
    <2> QED BY <1>2, <2>1, <2>4, <2>5 DEF RecordUnchanged
<1> QED BY <1>1, <1>2, StepRequests

\* The ai_systems row is taken by nobody while somebody else holds it, and let go
\* of by its holder's end only.
LEMMA StepHold == IInv /\ [Next]_vars => HoldInv'
<1> SUFFICES ASSUME IInv, [Next]_vars, NEW r \in Request,
                    req'[r].pc \in {"insert", "commit"}
             PROVE  sysLock'[req'[r].system] = r
    BY DEF HoldInv
<1> TypeOK /\ HoldInv
    BY DEF IInv, RequestInv
<1>0. r # None
    BY NoneIsNothing
<1>1. CASE UNCHANGED req /\ UNCHANGED sysLock
    BY <1>1 DEF HoldInv
<1>2. ASSUME NEW q \in Request, NEW s \in System, Update(q, s) \/ SoftDelete(q, s) \/ Restore(q, s)
      PROVE  req'[r].pc = req[r].pc /\ req'[r].system = req[r].system /\ UNCHANGED sysLock
    BY <1>2 DEF Update, SoftDelete, Restore, Begin, TypeOK, lockVars
<1>3. ASSUME NEW q \in Request, RequestStep(q) \/ Abort(q)
      PROVE  sysLock'[req'[r].system] = r
    <2>1. CASE WriteSystem(q)
        <3>1. /\ req'[r].system = req[r].system /\ req[r].system \in System
              /\ req'[r].pc = req[r].pc /\ r # q
            BY <2>1 DEF WriteSystem, TypeOK
        <3> QED BY <1>0, <2>1, <3>1 DEF WriteSystem, TypeOK, HoldInv, FreeFor
    <2>2. CASE WriteMetadata(q)
        BY <2>2 DEF WriteMetadata, TypeOK, HoldInv
    <2>3. CASE Bump(q)
        <3>1. req'[r].system = req[r].system /\ req[r].system \in System
            BY <2>3 DEF Bump, TypeOK
        <3>2. CASE r = q
            BY <2>3, <3>1, <3>2 DEF Bump, TypeOK
        <3>3. CASE r # q
            <4>1. req'[r].pc = req[r].pc
                BY <2>3, <3>3 DEF Bump, TypeOK
            <4>2. sysLock[req[r].system] = r
                BY <4>1 DEF HoldInv
            <4>3. req[r].system # req[q].system
                BY <1>0, <2>3, <3>3, <4>2 DEF Bump, FreeFor
            <4> QED BY <2>3, <3>1, <4>2, <4>3 DEF Bump, TypeOK
        <3> QED BY <3>2, <3>3
    <2>4. CASE Snapshot(q)
        BY <2>4 DEF Snapshot, TypeOK, HoldInv, lockVars
    <2>5. CASE SnapshotConflict(q) \/ Commit(q) \/ DeadlockVictim(q) \/ Abort(q)
        <3>1. req' = [req EXCEPT ![q] = NoReq] /\ Release(q)
            BY <2>5 DEF SnapshotConflict, Commit, DeadlockVictim, Abort
        <3>2. r # q /\ req'[r] = req[r]
            BY <3>1 DEF TypeOK, NoReq
        <3>3. req[r].system \in System /\ sysLock[req[r].system] = r
            BY <3>2 DEF HoldInv, TypeOK
        <3> QED BY <3>1, <3>2, <3>3 DEF Release
    <2> QED BY <1>3, <2>1, <2>2, <2>3, <2>4, <2>5 DEF RequestStep
<1>4. CASE Next
    <2>1. ASSUME NEW s \in System, NEW c \in Content, Create(s, c)
          PROVE  UNCHANGED req /\ UNCHANGED sysLock
        BY <2>1 DEF Create, lockVars
    <2> QED BY <1>1, <1>2, <1>3, <1>4, <2>1 DEF Next, HoldInv
<1> QED BY <1>1, <1>4 DEF vars

\* The unique constraint lets a snapshot in only if its request has read the
\* newest version.
LEMMA SnapshotIsNewest ==
    ASSUME IInv, NEW r \in Request, Snapshot(r)
    PROVE  req[r].loadedVersion = version[req[r].system]
<1>1. Active(r) /\ req[r].system \in System
    BY DEF Snapshot, Active, IInv, TypeOK
<1>2. PICK s \in System : s = req[r].system
    BY <1>1
<1>3. PICK e \in history[s] : e.version = req[r].loadedVersion
    BY <1>1, <1>2 DEF IInv, RequestInv, LoadedInv
<1>4. version[s] \in Nat /\ {f.version : f \in history[s]} = 1 .. version[s]
    BY DEF IInv, TypeOK, RecordInv, HistoryIsComplete
<1>5. req[r].loadedVersion \in 1 .. version[s]
    BY <1>3, <1>4
<1>6. req[r].loadedVersion + 1 \notin {f.version : f \in history[s]}
    BY <1>2 DEF Snapshot, Taken
<1>7. req[r].loadedVersion + 1 \notin 1 .. version[s]
    BY <1>4, <1>6
<1> QED BY <1>2, <1>4, <1>5, <1>7

\* The version of a system a request is about to commit stands still: other
\* commits of the system would have to hold its row.
LEMMA StepCommit == IInv /\ [Next]_vars => CommitInv'
<1> SUFFICES ASSUME IInv, [Next]_vars, NEW r \in Request, req'[r].pc = "commit"
             PROVE  req'[r].loadedVersion = version'[req'[r].system]
    BY DEF CommitInv
<1> TypeOK /\ CommitInv /\ HoldInv
    BY DEF IInv, RequestInv
<1>1. /\ Active(r)
      /\ req'[r].system = req[r].system
      /\ req'[r].loadedVersion = req[r].loadedVersion
    BY StepRequests DEF Active
<1>2. req[r].system \in System /\ content[req[r].system] \in Content
    BY <1>1 DEF Active, TypeOK
<1>3. CASE UNCHANGED vars
    BY <1>3 DEF vars, CommitInv
<1>4. ASSUME NEW s \in System, NEW c \in Content, Create(s, c)
      PROVE  req'[r].loadedVersion = version'[req'[r].system]
    <2>1. s # req[r].system
        BY <1>2, <1>4, NoneIsNoContent DEF Create
    <2> QED BY <1>2, <1>4, <2>1 DEF Create, CommitInv, TypeOK
<1>5. ASSUME NEW q \in Request, NEW s \in System, Update(q, s) \/ SoftDelete(q, s) \/ Restore(q, s)
      PROVE  req'[r].loadedVersion = version'[req'[r].system]
    <2>1. /\ req[q].pc = "idle" /\ UNCHANGED version
          /\ \A p \in Request : p # q => req'[p] = req[p]
        BY <1>5 DEF Update, SoftDelete, Restore, Begin, TypeOK
    <2>2. r # q
        BY <1>1, <2>1 DEF Active
    <2> QED BY <1>1, <2>1, <2>2 DEF CommitInv
<1>6. ASSUME NEW q \in Request, RequestStep(q) \/ Abort(q)
      PROVE  req'[r].loadedVersion = version'[req'[r].system]
    <2>1. CASE WriteSystem(q) \/ WriteMetadata(q) \/ Bump(q)
        <3>1. r # q
            BY <2>1 DEF WriteSystem, WriteMetadata, Bump, TypeOK, Req
        <3>2. UNCHANGED version /\ req'[r] = req[r]
            BY <2>1, <3>1 DEF WriteSystem, WriteMetadata, Bump, TypeOK
        <3> QED BY <1>1, <3>2 DEF CommitInv
    <2>2. CASE Snapshot(q)
        <3>1. CASE r = q
            BY <1>1, <2>2, <3>1, SnapshotIsNewest DEF Snapshot
        <3>2. CASE r # q
            BY <1>1, <2>2, <3>2 DEF Snapshot, TypeOK, CommitInv
        <3> QED BY <3>1, <3>2
    <2>3. CASE SnapshotConflict(q) \/ DeadlockVictim(q) \/ Abort(q)
        <3>1. UNCHANGED version /\ req' = [req EXCEPT ![q] = NoReq]
            BY <2>3 DEF SnapshotConflict, DeadlockVictim, Abort
        <3>2. req'[r] = req[r]
            BY <3>1 DEF TypeOK, NoReq
        <3> QED BY <3>1, <3>2 DEF CommitInv
    <2>4. CASE Commit(q)
        <3>1. req' = [req EXCEPT ![q] = NoReq] /\ req[q].pc = "commit"
            BY <2>4 DEF Commit
        <3>2. r # q /\ req'[r] = req[r]
            BY <3>1 DEF TypeOK, NoReq
        <3>3. sysLock[req[r].system] = r /\ sysLock[req[q].system] = q
            BY <3>1, <3>2 DEF HoldInv
        <3>4. version'[req[r].system] = version[req[r].system]
            BY <1>2, <2>4, <3>2, <3>3 DEF Commit, TypeOK
        <3> QED BY <3>2, <3>4 DEF CommitInv
    <2> QED BY <1>6, <2>1, <2>2, <2>3, <2>4 DEF RequestStep
<1> QED BY <1>3, <1>4, <1>5, <1>6 DEF Next

-----------------------------------------------------------------------------
(* Results *)

\* The invariant is inductive.
LEMMA StepInv == IInv /\ [Next]_vars => IInv'
<1> SUFFICES ASSUME IInv, [Next]_vars PROVE IInv'
    OBVIOUS
<1>1. TypeOK'
    BY StepTypes DEF IInv
<1>2. RecordInv'
    BY StepRecord
<1>3. RequestInv'
    BY StepLoaded, StepHold, StepCommit DEF RequestInv
<1> QED BY <1>1, <1>2, <1>3 DEF IInv

\* It holds in every reachable state.
LEMMA Invariance == Spec => []IInv
BY InitialInv, StepInv, PTL DEF Spec

\* Whatever edits run at once, a system's history has one entry per version.
THEOREM CompleteHistory == Spec => []HistoryIsComplete
<1>1. IInv => HistoryIsComplete
    BY DEF IInv, RecordInv
<1> QED BY <1>1, Invariance, PTL

\* The newest entry is the system as it is.
THEOREM CurrentHead == Spec => []HeadIsCurrent
<1>1. IInv => HeadIsCurrent
    BY DEF IInv, RecordInv
<1> QED BY <1>1, Invariance, PTL

\* No edit is lost: every entry starts from the one before it.
THEOREM ChainedDiffs == Spec => []DiffsChain
<1>1. IInv => DiffsChain
    BY DEF IInv, RecordInv
<1> QED BY <1>1, Invariance, PTL

\* Unlocked reads, waits and overwrites implement single-step changes.
THEOREM Refinement == Spec => RecordSpec
<1>1. Init => Record!Init
    BY DEF Init, Record!Init
<1>2. IInv /\ [Next]_vars => [Record!Next]_(Record!recordVars)
    <2> SUFFICES ASSUME IInv, [Next]_vars PROVE Record!Next \/ UNCHANGED Record!recordVars
        OBVIOUS
    <2>1. CASE RecordUnchanged
        BY <2>1 DEF RecordUnchanged, Record!recordVars
    <2>2. CASE \E s \in System, c \in Content : Record!Change(s, c)
        BY <2>2 DEF Record!Next
    <2> QED BY <2>1, <2>2, StepKinds
<1> QED BY <1>1, <1>2, Invariance, PTL DEF Spec, RecordSpec, Record!Spec

-----------------------------------------------------------------------------
(* Deadlocks *)

\* Requests that wait for each other, one after the other and round, have among them two that
\* wait for each other, which is what DeadlockVictim looks for.
CirclesArePairs ==
    \A A \in SUBSET Request :
        A # {} /\ (\A r \in A : \E q \in A : Waits(r, q))
            => \E r, q \in A : Waits(r, q) /\ Waits(q, r)

\* Whoever holds a row holds it for the system it edits, and has made its first write.
OwnInv ==
    \A r \in Request, s \in System :
        sysLock[s] = r \/ metaLock[s] = r =>
            req[r].system = s /\ req[r].pc \in {"write_meta", "bump", "insert", "commit"}

LEMMA StepOwn == TypeOK /\ OwnInv /\ [Next]_vars => OwnInv'
<1> SUFFICES ASSUME TypeOK, OwnInv, [Next]_vars PROVE OwnInv'
    OBVIOUS
<1>0. \A r \in Request : r # None
    BY NoneIsNothing
<1>1. CASE UNCHANGED <<req, lockVars>>
    BY <1>1 DEF OwnInv, lockVars
<1>2. ASSUME NEW q \in Request, NEW s \in System, Update(q, s) \/ SoftDelete(q, s) \/ Restore(q, s)
      PROVE  OwnInv'
    <2>1. /\ UNCHANGED lockVars /\ req[q].pc = "idle"
          /\ \A r \in Request \ {q} : req'[r] = req[r]
        BY <1>2 DEF Update, SoftDelete, Restore, Begin, TypeOK
    <2>2. \A z \in System : sysLock[z] # q /\ metaLock[z] # q
        BY <2>1 DEF OwnInv
    <2> QED BY <2>1, <2>2 DEF OwnInv, lockVars
<1>3. ASSUME NEW q \in Request, WriteSystem(q) \/ WriteMetadata(q) \/ Bump(q) \/ Snapshot(q)
      PROVE  OwnInv'
    <2>1. req[q].system \in System /\ req[q].pc \in WritingPc
        BY <1>3 DEF WriteSystem, WriteMetadata, Bump, Snapshot, TypeOK, WritingPc
    <2>2. /\ req'[q].system = req[q].system
          /\ req'[q].pc \in {"write_meta", "bump", "insert", "commit"}
          /\ \A r \in Request \ {q} : req'[r] = req[r]
        <3>1. PICK pc \in {"write_meta", "bump", "insert", "commit"} :
                    req' = [req EXCEPT ![q].pc = pc]
            BY <1>3 DEF WriteSystem, WriteMetadata, Bump, Snapshot
        <3>2. req \in [Request -> Req]
            BY DEF TypeOK
        <3>3. req[q] \in Req
            BY <3>2
        <3> QED BY <3>1, <3>2, <3>3 DEF Req
    <2>3. \A s \in System : /\ sysLock'[s] = sysLock[s] \/ (sysLock'[s] = q /\ s = req[q].system)
                            /\ metaLock'[s] = metaLock[s] \/ (metaLock'[s] = q /\ s = req[q].system)
        BY <1>3, <2>1 DEF WriteSystem, WriteMetadata, Bump, Snapshot, TypeOK, lockVars
    <2> QED BY <2>2, <2>3 DEF OwnInv
<1>4. ASSUME NEW q \in Request, SnapshotConflict(q) \/ Commit(q) \/ DeadlockVictim(q) \/ Abort(q)
      PROVE  OwnInv'
    <2>1. req' = [req EXCEPT ![q] = NoReq] /\ Release(q)
        BY <1>4 DEF SnapshotConflict, Commit, DeadlockVictim, Abort
    <2>2. \A r \in Request \ {q} : req'[r] = req[r]
        BY <2>1 DEF TypeOK
    <2>3. \A s \in System : /\ sysLock'[s] # q /\ metaLock'[s] # q
                            /\ sysLock'[s] \in {sysLock[s], None}
                            /\ metaLock'[s] \in {metaLock[s], None}
        BY <1>0, <2>1 DEF Release
    <2> QED BY <1>0, <2>2, <2>3 DEF OwnInv
<1>5. CASE Next
    <2>1. ASSUME NEW s \in System, NEW c \in Content, Create(s, c)
          PROVE  UNCHANGED <<req, lockVars>>
        BY <2>1 DEF Create
    <2> QED BY <1>1, <1>2, <1>3, <1>4, <1>5, <2>1 DEF Next, RequestStep
<1> QED BY <1>1, <1>5 DEF vars, lockVars

\* A request that holds one row of its system can only wait for the other.
LEMMA WaitsForTheOther == TypeOK /\ OwnInv => CirclesArePairs
<1> SUFFICES ASSUME TypeOK, OwnInv, NEW A \in SUBSET Request, A # {},
                    \A r \in A : \E q \in A : Waits(r, q)
             PROVE  \E r, q \in A : Waits(r, q) /\ Waits(q, r)
    BY DEF CirclesArePairs
<1>0. \A r \in Request : req[r].pc # "idle" => req[r].system \in System
    BY DEF TypeOK
<1>1. ASSUME NEW r \in A, NEW q \in A, Waits(r, q)
      PROVE  \E s \in System : /\ req[r].system = s /\ req[q].system = s
                               /\ sysLock[s] = q \/ metaLock[s] = q
    BY <1>0, <1>1 DEF Waits, OwnInv
<1>2. PICK r \in A, q \in A : Waits(r, q)
    OBVIOUS
<1>3. PICK p \in A : Waits(q, p)
    OBVIOUS
<1>4. PICK o \in A : Waits(p, o)
    OBVIOUS
<1>5. PICK s \in System : /\ req[r].system = s /\ req[q].system = s
                          /\ sysLock[s] = q \/ metaLock[s] = q
    BY <1>1, <1>2
<1>6. req[p].system = s
    BY <1>1, <1>3, <1>5
<1>7. Waits(p, q)
    <2>1. CASE sysLock[s] = q
        <3>1. req[q].pc = "write_meta" /\ metaLock[s] = p /\ p # q
            BY <1>3, <1>5, <2>1 DEF Waits, OwnInv
        <3>2. req[p].pc \in {"bump", "write_meta"}
            BY <1>4, <3>1 DEF Waits, OwnInv
        <3>3. req[p].pc # "write_meta"
            BY <1>4, <1>6, <3>1 DEF Waits
        <3> QED BY <1>6, <2>1, <3>1, <3>2, <3>3 DEF Waits
    <2>2. CASE metaLock[s] = q
        <3>1. req[q].pc = "bump" /\ sysLock[s] = p /\ p # q
            BY <1>3, <1>5, <2>2 DEF Waits, OwnInv
        <3>2. req[p].pc \in {"bump", "write_meta"}
            BY <1>4, <3>1 DEF Waits, OwnInv
        <3>3. req[p].pc # "bump"
            BY <1>4, <1>6, <3>1 DEF Waits
        <3> QED BY <1>6, <2>2, <3>1, <3>2, <3>3 DEF Waits
    <2> QED BY <1>5, <2>1, <2>2
<1> QED BY <1>3, <1>7

\* Every deadlock of edits, of however many on however many systems, is one that DeadlockVictim
\* ends: in any circle of waits two wait for each other.
THEOREM DeadlocksArePairs == Spec => []CirclesArePairs
<1>1. Init => OwnInv
    BY NoneIsNothing DEF Init, OwnInv
<1>2. Spec => []OwnInv
    BY <1>1, StepOwn, TypeCorrect, PTL DEF Spec
<1> QED BY <1>2, TypeCorrect, WaitsForTheOther, PTL

=============================================================================
