--------------------------- MODULE EvidenceProofs ---------------------------
(***************************************************************************)
(* Theorems about EvidenceLifecycle, for any number of packages, requests, *)
(* workers, expiry runs, tasks, retries and crashes: its types, why no     *)
(* upload lands over a later certified document, why no package is         *)
(* forgotten, why nobody waits in a circle, and why the lifecycle          *)
(* implements CertifiedStore.                                              *)
(*                                                                         *)
(* The argument: a worker between "pdf" and "commit" is exactly the holder *)
(* of its package's row (HoldInv, LockInv), so its document is the latest  *)
(* one begun (DocInv), and nothing is certified that is younger than what  *)
(* is stored (CertInv).  Every step either leaves all of this alone        *)
(* (Quiet), gives a build up (Drops), or is one of the four steps of a     *)
(* build.                                                                  *)
(***************************************************************************)
EXTENDS EvidenceLifecycle, OrderProofs

-----------------------------------------------------------------------------
(* Types *)

\* Whoever is not idle is busy with a package; a worker also has a task.
Engaged ==
    /\ \A c \in Caller : call[c].pc # "idle" => call[c].package \in Package
    /\ \A w \in Worker : job[w].pc # "idle" =>
            job[w].package \in Package /\ job[w].task \in Task

TypeInv == TypeOK /\ Engaged

\* A rollback frees rows and takes none.
LEMMA RollbackType ==
    ASSUME TypeOK, NEW a, Rollback(a)
    PROVE  lock' \in [Package -> Worker \cup Sweeper \cup {None}]
BY DEF TypeOK, Rollback

\* A well-formed row written to a package leaves well-formed rows and ages.
LEMMA WriteRowType ==
    ASSUME TypeOK, NEW p \in Package, NEW r \in Row, WriteRow(p, r)
    PROVE  /\ row' \in [Package -> Row]
           /\ age' \in [Package -> 0 .. StaleAfter + 1]
BY LimitsOrdered DEF TypeOK, WriteRow

\* The initial state has the shape TypeInv describes.
LEMMA InitialTypes == Init => TypeInv
BY LimitsOrdered DEF Init, TypeInv, TypeOK, Engaged, NoRow, NoCall, NoJob, NoSweep,
   Row, Call, Job, Sweep, Status

\* The API requests keep the types.
LEMMA ApiTypes ==
    ASSUME TypeInv, ApiStep
    PROVE  TypeInv'
<1> PICK c \in Caller :
        \/ \E p \in Package : RequestPackage(c, p) \/ Retry(c, p)
        \/ RetryCommit(c) \/ Dispatch(c) \/ DispatchUnsure(c) \/ DispatchFails(c)
        \/ SetTask(c) \/ MarkFailed(c) \/ CallerCrash(c)
    BY DEF ApiStep
<1> USE DEF TypeInv
<1> NoRow \in Row /\ NoCall \in Call
    BY DEF NoRow, NoCall, Row, Call, Status
<1>1. ASSUME NEW p \in Package, RequestPackage(c, p) PROVE TypeInv'
    <2>1. [NoRow EXCEPT !.status = "pending"] \in Row
        BY DEF Row, Status, NoRow
    <2>2. [NoCall EXCEPT !.pc = "dispatch", !.package = p] \in Call
        BY DEF Call, NoCall
    <2>3. row' \in [Package -> Row] /\ age' \in [Package -> 0 .. StaleAfter + 1]
        BY <1>1, <2>1, WriteRowType DEF RequestPackage
    <2> QED BY <1>1, <2>2, <2>3 DEF RequestPackage, TypeOK, Engaged, bucketVars, NoCall
<1>2. ASSUME NEW p \in Package, Retry(c, p) PROVE TypeInv'
    BY <1>2 DEF Retry, TypeOK, Engaged, bucketVars, Call
<1>3. CASE RetryCommit(c)
    <2> DEFINE p == call[c].package
               seen == call[c].loaded
               r == [row[p] EXCEPT
                          !.status = Column(seen.status, "pending", @),
                          !.task_id = Column(seen.task_id, None, @),
                          !.error_message = Column(seen.error_message, FALSE, @)]
    <2>1. p \in Package
        BY <1>3 DEF RetryCommit, Engaged
    <2>2. r \in Row
        BY <2>1 DEF TypeOK, Row, Column, Status
    <2>3. row' \in [Package -> Row] /\ age' \in [Package -> 0 .. StaleAfter + 1]
        BY <1>3, <2>1, <2>2, WriteRowType DEF RetryCommit
    <2>4. [NoCall EXCEPT !.pc = "dispatch", !.package = p] \in Call
        BY <2>1 DEF Call, NoCall
    <2> QED BY <1>3, <2>1, <2>3, <2>4 DEF RetryCommit, TypeOK, Engaged, bucketVars, NoCall
<1>4. CASE Dispatch(c)
    <2> PICK t \in Task : /\ Publish(c, t)
                          /\ call' = [call EXCEPT ![c].pc = "set_task", ![c].task = t]
        BY <1>4 DEF Dispatch
    <2>1. call[c].package \in Package
        BY DEF Publish, Engaged
    <2>2. queue' \subseteq Message
        BY <2>1, LimitsOrdered DEF Publish, TypeOK, Message
    <2> QED BY <2>1, <2>2 DEF Publish, TypeOK, Engaged, bucketVars, Call
<1>5. CASE DispatchUnsure(c)
    <2> PICK t \in Task : /\ Publish(c, t)
                          /\ call' = [call EXCEPT ![c].pc = "mark_failed"]
        BY <1>5 DEF DispatchUnsure
    <2>1. call[c].package \in Package
        BY DEF Publish, Engaged
    <2>2. queue' \subseteq Message
        BY <2>1, LimitsOrdered DEF Publish, TypeOK, Message
    <2> QED BY <2>1, <2>2 DEF Publish, TypeOK, Engaged, bucketVars, Call
<1>6. CASE DispatchFails(c)
    BY <1>6 DEF DispatchFails, TypeOK, Engaged, bucketVars, Call
<1>7. CASE SetTask(c)
    <2>1. call[c].package \in Package
        BY <1>7 DEF SetTask, Engaged
    <2>2. [row[call[c].package] EXCEPT !.task_id = call[c].task] \in Row
        BY <2>1 DEF TypeOK, Row, Call
    <2>3. row' \in [Package -> Row] /\ age' \in [Package -> 0 .. StaleAfter + 1]
        BY <1>7, <2>1, <2>2, WriteRowType DEF SetTask
    <2> QED BY <1>7, <2>3 DEF SetTask, TypeOK, Engaged, bucketVars, NoCall
<1>8. CASE MarkFailed(c)
    <2>1. call[c].package \in Package
        BY <1>8 DEF MarkFailed, Engaged
    <2>2. [row[call[c].package] EXCEPT !.status = "failed", !.error_message = TRUE] \in Row
        BY <2>1 DEF TypeOK, Row, Status
    <2>3. row' \in [Package -> Row] /\ age' \in [Package -> 0 .. StaleAfter + 1]
        BY <1>8, <2>1, <2>2, WriteRowType DEF MarkFailed
    <2> QED BY <1>8, <2>3 DEF MarkFailed, TypeOK, Engaged, bucketVars, NoCall
<1>9. CASE CallerCrash(c)
    <2>1. call[c].package \in Package
        BY <1>9 DEF CallerCrash, Engaged
    <2> QED BY <1>9, <2>1, LimitsOrdered DEF CallerCrash, TypeOK, Engaged, bucketVars, NoCall
<1> QED BY <1>1, <1>2, <1>3, <1>4, <1>5, <1>6, <1>7, <1>8, <1>9

\* Replacing one entry of job by a proper one keeps the types.
LEMMA JobUpdate ==
    ASSUME TypeInv, NEW w \in Worker, NEW j \in Job, job' = [job EXCEPT ![w] = j],
           j.pc # "idle" => j.package \in Package /\ j.task \in Task
    PROVE  /\ job' \in [Worker -> Job]
           /\ \A v \in Worker : job'[v].pc # "idle" =>
                  job'[v].package \in Package /\ job'[v].task \in Task
BY DEF TypeInv, TypeOK, Engaged

\* What the steps of a worker put in its entry of job.
LEMMA JobValues ==
    ASSUME TypeInv, NEW w \in Worker
    PROVE  /\ NoJob \in Job
           /\ job[w].pc # "idle" =>
                 /\ job[w].package \in Package /\ job[w].task \in Task
                 /\ JobMessage(w) \in Message
                 /\ Done(w) \in Job
                 /\ Done(w).package \in Package /\ Done(w).task \in Task
           /\ \A pc \in {"load", "claim_write", "json", "commit"} :
                 [job[w] EXCEPT !.pc = pc] \in Job
<1> USE DEF TypeInv
<1>1. job[w] \in Job
    BY DEF TypeOK
<1>2. NoJob \in Job
    BY LimitsOrdered DEF NoJob, Job
<1>3. ASSUME job[w].pc # "idle"
      PROVE  /\ job[w].package \in Package /\ job[w].task \in Task
             /\ JobMessage(w) \in Message
             /\ Done(w) \in Job
             /\ Done(w).package \in Package /\ Done(w).task \in Task
    <2>1. job[w].package \in Package /\ job[w].task \in Task
        BY <1>3 DEF Engaged
    <2>2. JobMessage(w) \in Message
        BY <1>1, <2>1 DEF JobMessage, Message, Job
    <2>3. Done(w) \in Job
        BY <1>1, LimitsOrdered DEF Done, Job
    <2>4. Done(w).package = job[w].package /\ Done(w).task = job[w].task
        BY DEF Done
    <2> QED BY <2>1, <2>2, <2>3, <2>4
<1>4. \A pc \in {"load", "claim_write", "json", "commit"} :
          [job[w] EXCEPT !.pc = pc] \in Job
    BY <1>1 DEF Job, JobPc, BuildPc
<1> QED BY <1>2, <1>3, <1>4

\* The worker's steps keep the types.
LEMMA WorkerTypes ==
    ASSUME TypeInv, WorkerStep
    PROVE  TypeInv'
<1> PICK w \in Worker :
        \/ Take(w) \/ Claim(w) \/ ClaimWrite(w) \/ Load(w) \/ StartBuild(w)
        \/ PutPdf(w) \/ PutJson(w) \/ Commit(w) \/ Fail(w) \/ Ack(w)
        \/ TimeLimit(w) \/ ChildLost(w) \/ WorkerCrash(w)
    BY DEF WorkerStep
<1> DEFINE p == job[w].package
           JobTypes == /\ job' \in [Worker -> Job]
                       /\ \A v \in Worker : job'[v].pc # "idle" =>
                             job'[v].package \in Package /\ job'[v].task \in Task
<1>a. /\ job[w] \in Job
      /\ job[w].pc # "idle" => p \in Package /\ job[w].task \in Task
    BY DEF TypeInv, TypeOK, Engaged
<1>v. /\ NoJob \in Job
      /\ job[w].pc # "idle" => /\ JobMessage(w) \in Message /\ Done(w) \in Job
                               /\ Done(w).package \in Package /\ Done(w).task \in Task
      /\ \A pc \in {"load", "claim_write", "json", "commit"} :
            [job[w] EXCEPT !.pc = pc] \in Job
    BY JobValues
<1>1. CASE Take(w)
    <2> PICK m \in queue :
            /\ queue' = queue \ {m}
            /\ job' = [job EXCEPT ![w] = [NoJob EXCEPT !.pc = "claim",
                            !.package = m.package, !.task = m.task, !.retries = m.retries]]
        BY <1>1 DEF Take
    <2> DEFINE j == [NoJob EXCEPT !.pc = "claim", !.package = m.package,
                                  !.task = m.task, !.retries = m.retries]
    <2>1. m \in Message
        BY DEF TypeInv, TypeOK
    <2>2. j \in Job /\ j.package \in Package /\ j.task \in Task
        BY <2>1, <1>v DEF Message, Job, JobPc, NoJob
    <2>3. JobTypes
        BY <2>2, JobUpdate
    <2> QED BY <1>1, <2>3 DEF Take, TypeInv, TypeOK, Engaged, bucketVars
<1>2. CASE Claim(w)
    <2>1. job[w].pc # "idle"
        BY <1>2 DEF Claim
    <2>2. JobTypes
        <3>1. CASE row[p].status = "completed"
            BY <1>2, <1>v, <2>1, <3>1, JobUpdate DEF Claim
        <3>2. CASE row[p].status # "completed"
            BY <1>2, <1>a, <3>2 DEF Claim, TypeInv, TypeOK, Engaged, Job, JobPc
        <3> QED BY <3>1, <3>2
    <2> QED BY <1>2, <2>2 DEF Claim, TypeInv, TypeOK, Engaged, bucketVars
<1>3. CASE ClaimWrite(w)
    <2>1. [row[p] EXCEPT !.task_id = job[w].task] \in Row /\ p \in Package
        BY <1>3, <1>a DEF ClaimWrite, TypeInv, TypeOK, Row
    <2>2. row' \in [Package -> Row] /\ age' \in [Package -> 0 .. StaleAfter + 1]
        BY <1>3, <2>1, WriteRowType DEF ClaimWrite, TypeInv
    <2>3. JobTypes
        BY <1>3, <1>a DEF ClaimWrite, TypeInv, TypeOK, Engaged, Job, JobPc, BuildPc
    <2> QED BY <1>3, <2>2, <2>3 DEF ClaimWrite, TypeInv, TypeOK, Engaged, bucketVars
<1>4. CASE Load(w)
    <2>1. row[p] \in Row /\ row[p].error_message \in BOOLEAN
        BY <1>4, <1>a DEF Load, TypeInv, TypeOK, Row
    <2>2. JobTypes
        BY <1>4, <1>a, <2>1 DEF Load, TypeInv, TypeOK, Engaged, Job, JobPc
    <2> QED BY <1>4, <2>2 DEF Load, TypeInv, TypeOK, Engaged, bucketVars
<1>5. CASE StartBuild(w)
    <2>1. p \in Package /\ builds[p] + 1 \in Nat
        BY <1>5, <1>a DEF StartBuild, TypeInv, TypeOK
    <2>2. JobTypes
        BY <1>5, <1>a, <2>1 DEF StartBuild, TypeInv, TypeOK, Engaged, Job, JobPc, BuildPc
    <2>3. builds' \in [Package -> Nat]
          /\ lock' \in [Package -> Worker \cup Sweeper \cup {None}]
        BY <1>5, <2>1 DEF StartBuild, TypeInv, TypeOK
    <2> QED BY <1>5, <2>2, <2>3 DEF StartBuild, TypeInv, TypeOK, Engaged
<1>6. CASE PutPdf(w)
    <2>1. pdf' \in [Package -> Nat]
        BY <1>6, <1>a DEF PutPdf, TypeInv, TypeOK, Job
    <2>2. JobTypes
        BY <1>6, <1>a DEF PutPdf, TypeInv, TypeOK, Engaged, Job, JobPc, BuildPc
    <2> QED BY <1>6, <2>1, <2>2 DEF PutPdf, TypeInv, TypeOK, Engaged
<1>7. CASE PutJson(w)
    <2>1. json' \in [Package -> Nat]
        BY <1>7, <1>a DEF PutJson, TypeInv, TypeOK, Job
    <2>2. JobTypes
        BY <1>7, <1>a DEF PutJson, TypeInv, TypeOK, Engaged, Job, JobPc, BuildPc
    <2> QED BY <1>7, <2>1, <2>2 DEF PutJson, TypeInv, TypeOK, Engaged
<1>8. CASE Commit(w)
    <2>1. p \in Package /\ job[w].pc # "idle"
        BY <1>8, <1>a DEF Commit
    <2>2. row' \in [Package -> Row]
        <3>1. row[p] \in Row /\ job[w].doc \in Nat
            BY <1>a, <2>1 DEF TypeInv, TypeOK, Job
        <3>2. [row[p] EXCEPT !.status = "completed", !.checksum = job[w].doc,
                             !.error_message = Column(job[w].loaded_error, FALSE, @)] \in Row
            BY <3>1 DEF Row, Status, Column
        <3>3. row' = [row EXCEPT ![p] =
                        [row[p] EXCEPT !.status = "completed", !.checksum = job[w].doc,
                             !.error_message = Column(job[w].loaded_error, FALSE, @)]]
            BY <1>8, <2>1 DEF Commit, TypeInv, TypeOK
        <3> QED BY <2>1, <3>2, <3>3 DEF TypeInv, TypeOK
    <2>3. age' \in [Package -> 0 .. StaleAfter + 1]
        BY <1>8, <2>1, LimitsOrdered DEF Commit, TypeInv, TypeOK
    <2>5. lock' \in [Package -> Worker \cup Sweeper \cup {None}]
        BY <1>8, <2>1 DEF Commit, TypeInv, TypeOK
    <2>4. JobTypes
        BY <1>8, <1>v, <2>1, JobUpdate DEF Commit
    <2> QED BY <1>8, <2>2, <2>3, <2>4, <2>5 DEF Commit, TypeInv, TypeOK, Engaged, bucketVars
<1>9. CASE Fail(w)
    <2>1. p \in Package /\ job[w].pc # "idle"
        BY <1>9, <1>a DEF Fail, JobPc, BuildPc
    <2>2. lock' \in [Package -> Worker \cup Sweeper \cup {None}]
        BY <1>9, RollbackType DEF Fail, TypeInv
    <2>3. JobTypes
        BY <1>9, <1>v, <2>1, JobUpdate DEF Fail
    <2>4. ASSUME job[w].retries < MaxRetries
          PROVE  [JobMessage(w) EXCEPT !.retries = @ + 1] \in Message
        BY <2>1, <2>4, <1>a, LimitsOrdered DEF JobMessage, Message, Job
    <2> QED BY <1>9, <2>1, <2>2, <2>3, <2>4 DEF Fail, TypeInv, TypeOK, Engaged, bucketVars
<1>10. CASE Ack(w)
    <2>1. JobTypes
        BY <1>10, <1>v, JobUpdate DEF Ack, NoJob
    <2> QED BY <1>10, <2>1 DEF Ack, TypeInv, TypeOK, Engaged, bucketVars
<1>11. CASE TimeLimit(w) \/ ChildLost(w)
    <2>1. p \in Package
        BY <1>11, <1>a DEF TimeLimit, ChildLost, JobPc, BuildPc
    <2>2. JobTypes
        BY <1>11, <1>v, JobUpdate DEF TimeLimit, ChildLost, NoJob
    <2>3. lock' \in [Package -> Worker \cup Sweeper \cup {None}]
        BY <1>11, RollbackType DEF TimeLimit, ChildLost, TypeInv
    <2>4. crashes' \in 0 .. MaxCrashes
        BY <1>11, LimitsOrdered DEF TimeLimit, ChildLost, TypeInv, TypeOK
    <2> QED BY <1>11, <2>1, <2>2, <2>3, <2>4
            DEF TimeLimit, ChildLost, TypeInv, TypeOK, Engaged, bucketVars
<1>12. CASE WorkerCrash(w)
    <2>1. JobTypes
        BY <1>12, <1>v, JobUpdate DEF WorkerCrash, NoJob
    <2>2. lock' \in [Package -> Worker \cup Sweeper \cup {None}]
        BY <1>12, RollbackType DEF WorkerCrash, TypeInv
    <2>3. crashes' \in 0 .. MaxCrashes /\ queue' \subseteq Message
        BY <1>12, <1>v, LimitsOrdered DEF WorkerCrash, TypeInv, TypeOK
    <2> QED BY <1>12, <2>1, <2>2, <2>3 DEF WorkerCrash, TypeInv, TypeOK, Engaged, bucketVars
<1> QED BY <1>1, <1>2, <1>3, <1>4, <1>5, <1>6, <1>7, <1>8, <1>9, <1>10, <1>11, <1>12

\* The expiry's steps keep the types.
LEMMA SweepTypes ==
    ASSUME TypeInv, SweepStep
    PROVE  TypeInv'
<1> PICK s \in Sweeper : SweepRead(s) \/ SweepLock(s) \/ SweepCommit(s) \/ SweepAbort(s)
    BY DEF SweepStep
<1>0. NoSweep \in Sweep
    BY DEF NoSweep, Sweep
<1>1. CASE SweepRead(s)
    <2> DEFINE stale == {p \in Package : Stale(p)}
    <2>1. stale \subseteq Package
        OBVIOUS
    <2> HIDE DEF stale
    <2>2. [pc |-> "flush", stale |-> stale, locked |-> {}] \in Sweep
        BY <2>1 DEF Sweep
    <2>3. sweep' = [sweep EXCEPT ![s] = [pc |-> "flush", stale |-> stale, locked |-> {}]]
        BY <1>1 DEF SweepRead, stale
    <2> QED BY <1>1, <2>2, <2>3 DEF SweepRead, TypeInv, TypeOK, Engaged, bucketVars
<1>2. CASE SweepLock(s)
    <2> PICK p \in sweep[s].stale \ sweep[s].locked :
            /\ lock' = [lock EXCEPT ![p] = s]
            /\ sweep' = [sweep EXCEPT ![s].locked = @ \cup {p}]
        BY <1>2 DEF SweepLock
    <2>1. sweep[s] \in Sweep /\ p \in Package
        BY DEF TypeInv, TypeOK, Sweep
    <2>2. sweep' \in [Sweeper -> Sweep]
        BY <2>1 DEF TypeInv, TypeOK, Sweep
    <2> QED BY <1>2, <2>1, <2>2 DEF SweepLock, TypeInv, TypeOK, Engaged, bucketVars
<1>3. CASE SweepCommit(s)
    <2>1. \A p \in Package :
            [row[p] EXCEPT !.status = "failed", !.error_message = TRUE] \in Row
        BY DEF TypeInv, TypeOK, Row, Status
    <2>2. row' \in [Package -> Row]
        BY <1>3, <2>1 DEF SweepCommit, TypeInv, TypeOK
    <2>3. age' \in [Package -> 0 .. StaleAfter + 1]
        <3>1. 0 \in 0 .. StaleAfter + 1
            BY LimitsOrdered
        <3> QED BY <1>3, <3>1 DEF SweepCommit, TypeInv, TypeOK
    <2>4. lock' \in [Package -> Worker \cup Sweeper \cup {None}]
        BY <1>3, RollbackType DEF SweepCommit, TypeInv
    <2> QED BY <1>0, <1>3, <2>2, <2>3, <2>4
            DEF SweepCommit, TypeInv, TypeOK, Engaged, bucketVars
<1>4. CASE SweepAbort(s)
    <2>1. lock' \in [Package -> Worker \cup Sweeper \cup {None}]
        BY <1>4, RollbackType DEF SweepAbort, TypeInv
    <2> QED BY <1>0, <1>4, <2>1, LimitsOrdered
            DEF SweepAbort, TypeInv, TypeOK, Engaged, bucketVars
<1> QED BY <1>1, <1>2, <1>3, <1>4

\* So does a tick: an attempt at its limit is killed before time passes.
LEMMA TickTypes ==
    ASSUME TypeInv, Tick
    PROVE  TypeInv'
<1>1. age' \in [Package -> 0 .. StaleAfter + 1]
    BY LimitsOrdered DEF Tick, TypeInv, TypeOK
<1>2. ASSUME NEW w \in Worker
      PROVE  /\ job'[w] \in Job
             /\ job'[w].pc # "idle" => job'[w].package \in Package /\ job'[w].task \in Task
    <2>1. job[w] \in Job /\ (Busy(w) => job[w].ran < TaskLimit)
        BY DEF Tick, TypeInv, TypeOK
    <2>2. Busy(w) => [job[w] EXCEPT !.ran = @ + 1] \in Job
        BY <2>1, LimitsOrdered DEF Job
    <2> QED BY <2>1, <2>2 DEF Tick, TypeInv, TypeOK, Engaged, Job
<1>3. job' \in [Worker -> Job]
    BY <1>2 DEF Tick
<1> QED BY <1>1, <1>2, <1>3 DEF Tick, TypeInv, TypeOK, Engaged, bucketVars

\* Every action keeps it.
LEMMA StepTypes == TypeInv /\ [Next]_vars => TypeInv'
<1> SUFFICES ASSUME TypeInv, [Next]_vars PROVE TypeInv'
    OBVIOUS
<1>1. CASE UNCHANGED vars
    BY <1>1 DEF vars, bucketVars, TypeInv, TypeOK, Engaged
<1> QED BY <1>1, ApiTypes, WorkerTypes, SweepTypes, TickTypes DEF Next

\* Every behaviour keeps the types, whatever the constants: a message never
\* counts more retries than the task allows, no attempt outlives the hard limit.
THEOREM TypeCorrect == Spec => []TypeOK
<1>1. TypeInv => TypeOK
    BY DEF TypeInv
<1> QED BY <1>1, InitialTypes, StepTypes, PTL DEF Spec

-----------------------------------------------------------------------------
(* Builds *)

Building(w) == job[w].pc \in BuildPc

\* A worker that builds holds the row.
HoldInv == \A w \in Worker : Building(w) => lock[job[w].package] = w

\* A row held by a worker is held for its build.
LockInv ==
    \A p \in Package, w \in Worker :
        lock[p] = w => Building(w) /\ job[w].package = p

\* What is being uploaded is the latest document, in the order PDF, JSON.
DocInv ==
    \A w \in Worker :
        LET p == job[w].package
        IN  /\ Building(w) => job[w].doc = builds[p]
            /\ job[w].pc \in {"json", "commit"} => pdf[p] = builds[p]
            /\ job[w].pc = "commit" => json[p] = builds[p]

\* The certificate is never younger than the stored documents, they are never
\* younger than the latest build, and an open build is not certified yet.
CertInv ==
    \A p \in Package :
        /\ row[p].checksum <= pdf[p] /\ pdf[p] <= builds[p]
        /\ row[p].checksum <= json[p] /\ json[p] <= builds[p]
        /\ lock[p] \in Worker => row[p].checksum < builds[p]
        /\ row[p].status = "absent" => row[p].checksum = 0

BuildInv == HoldInv /\ LockInv /\ DocInv /\ CertInv

-----------------------------------------------------------------------------
(* The kinds of step *)

\* A step that certifies nothing, stores nothing and moves no build.
Quiet ==
    /\ \A p \in Package :
        /\ row'[p].checksum = row[p].checksum
        /\ row'[p].status = "absent" => row[p].status = "absent"
        /\ lock'[p] = lock[p] \/ (lock[p] \notin Worker /\ lock'[p] \notin Worker)
    /\ UNCHANGED bucketVars
    /\ \A w \in Worker :
        Building(w) \/ Building(w)' => /\ job'[w].pc = job[w].pc
                                      /\ job'[w].package = job[w].package
                                      /\ job'[w].doc = job[w].doc

\* The build of w ends and nothing of it is committed.
Drops(w) ==
    /\ Building(w) /\ ~Building(w)'
    /\ \A v \in Worker \ {w} : job'[v] = job[v]
    /\ Rollback(w)
    /\ UNCHANGED <<row, bucketVars>>

BuildStep(w) == StartBuild(w) \/ PutPdf(w) \/ PutJson(w) \/ Commit(w)

\* API requests change neither documents nor certificates nor who holds a row.
LEMMA ApiQuiet ==
    ASSUME TypeInv, BuildInv, ApiStep
    PROVE  Quiet
<1> PICK c \in Caller :
        \/ \E p \in Package : RequestPackage(c, p) \/ Retry(c, p)
        \/ RetryCommit(c) \/ Dispatch(c) \/ DispatchUnsure(c) \/ DispatchFails(c)
        \/ SetTask(c) \/ MarkFailed(c) \/ CallerCrash(c)
    BY DEF ApiStep
<1>1. UNCHANGED <<lock, bucketVars, job>>
    BY DEF RequestPackage, Retry, RetryCommit, Dispatch, DispatchUnsure, Publish,
           DispatchFails, SetTask, MarkFailed, CallerCrash
<1>2. ASSUME NEW q \in Package
      PROVE  /\ row'[q].checksum = row[q].checksum
             /\ row'[q].status = "absent" => row[q].status = "absent"
    <2>0. row \in [Package -> Row] /\ row[q] \in Row
        BY DEF TypeInv, TypeOK
    <2>1. ASSUME NEW p \in Package, RequestPackage(c, p) PROVE <1>2!2
        <3>1. row[p].checksum = 0 /\ NoRow.checksum = 0
            BY <2>1 DEF RequestPackage, BuildInv, CertInv, NoRow
        <3>2. row' = [row EXCEPT ![p] = [NoRow EXCEPT !.status = "pending"]]
            BY <2>1 DEF RequestPackage, WriteRow
        <3>3. [NoRow EXCEPT !.status = "pending"].status = "pending"
              /\ [NoRow EXCEPT !.status = "pending"].checksum = 0
            BY DEF NoRow
        <3> QED BY <2>0, <3>1, <3>2, <3>3
    <2>2. CASE UNCHANGED row
        BY <2>2
    <2>3. CASE RetryCommit(c)
        BY <2>0, <2>3 DEF RetryCommit, WriteRow, Column, Row
    <2>4. CASE SetTask(c)
        BY <2>0, <2>4 DEF SetTask, WriteRow, Row
    <2>5. CASE MarkFailed(c)
        BY <2>0, <2>5 DEF MarkFailed, WriteRow, Row
    <2> QED BY <2>1, <2>2, <2>3, <2>4, <2>5
            DEF Retry, Dispatch, DispatchUnsure, Publish, DispatchFails, CallerCrash
<1> QED BY <1>1, <1>2 DEF Quiet, Building

\* What ends an attempt is quiet if the attempt had not begun to build.
LEMMA EndOfAttempt ==
    ASSUME TypeInv, BuildInv, NEW w \in Worker, Rollback(w),
           UNCHANGED <<row, bucketVars>>, ~Building(w)',
           \A v \in Worker \ {w} : job'[v] = job[v]
    PROVE  Quiet \/ Drops(w)
<1>1. CASE Building(w)
    BY <1>1 DEF Drops
<1>2. CASE ~Building(w)
    <2>1. \A p \in Package : lock'[p] = lock[p]
        BY <1>2 DEF Rollback, BuildInv, LockInv
    <2> QED BY <1>2, <2>1 DEF Quiet, Building
<1> QED BY <1>1, <1>2

\* A worker step is quiet, drops its hold, or is one of the four build steps.
LEMMA WorkerKinds ==
    ASSUME TypeInv, BuildInv, WorkerStep
    PROVE  Quiet \/ \E w \in Worker : BuildStep(w) \/ Drops(w)
<1> PICK w \in Worker :
        \/ Take(w) \/ Claim(w) \/ ClaimWrite(w) \/ Load(w) \/ StartBuild(w)
        \/ PutPdf(w) \/ PutJson(w) \/ Commit(w) \/ Fail(w) \/ Ack(w)
        \/ TimeLimit(w) \/ ChildLost(w) \/ WorkerCrash(w)
    BY DEF WorkerStep
<1> SUFFICES Quiet \/ BuildStep(w) \/ Drops(w)
    OBVIOUS
<1>0. job \in [Worker -> Job] /\ row \in [Package -> Row]
    BY DEF TypeInv, TypeOK
<1>1. CASE Take(w) \/ Claim(w) \/ ClaimWrite(w) \/ Load(w) \/ Ack(w)
    <2>1. ~Building(w)
        BY <1>1 DEF Take, Claim, ClaimWrite, Load, Ack, Building, BuildPc
    <2>2. ~Building(w)'
        <3>1. CASE Take(w)
            BY <1>0, <3>1 DEF Take, Building, BuildPc, NoJob
        <3>2. CASE Claim(w)
            BY <1>0, <3>2 DEF Claim, Building, BuildPc, Done, Job
        <3>3. CASE ClaimWrite(w) \/ Load(w) \/ Ack(w)
            BY <1>0, <3>3 DEF ClaimWrite, Load, Ack, Building, BuildPc, NoJob, Job
        <3> QED BY <1>1, <3>1, <3>2, <3>3
    <2>3. \A v \in Worker \ {w} : job'[v] = job[v]
        BY <1>0, <1>1 DEF Take, Claim, ClaimWrite, Load, Ack
    <2>4. UNCHANGED <<lock, bucketVars>>
        BY <1>1 DEF Take, Claim, ClaimWrite, Load, Ack
    <2>5. \A p \in Package : row'[p].checksum = row[p].checksum
                              /\ row'[p].status = row[p].status
        <3>1. CASE ClaimWrite(w)
            BY <1>0, <3>1 DEF ClaimWrite, WriteRow, Row
        <3> QED BY <1>1, <3>1 DEF Take, Claim, Load, Ack
    <2> QED BY <2>1, <2>2, <2>3, <2>4, <2>5 DEF Quiet, Building
<1>2. CASE Fail(w) \/ TimeLimit(w) \/ ChildLost(w) \/ WorkerCrash(w)
    <2>1. Rollback(w) /\ UNCHANGED <<row, bucketVars>>
        BY <1>2 DEF Fail, TimeLimit, ChildLost, WorkerCrash
    <2>2. \A v \in Worker \ {w} : job'[v] = job[v]
        BY <1>0, <1>2 DEF Fail, TimeLimit, ChildLost, WorkerCrash
    <2>3. ~Building(w)'
        <3>1. job'[w] = Done(w) \/ job'[w] = NoJob
            BY <1>0, <1>2 DEF Fail, TimeLimit, ChildLost, WorkerCrash
        <3> QED BY <3>1 DEF Building, BuildPc, Done, NoJob
    <2> QED BY <2>1, <2>2, <2>3, EndOfAttempt
<1>3. CASE StartBuild(w) \/ PutPdf(w) \/ PutJson(w) \/ Commit(w)
    BY <1>3 DEF BuildStep
<1> QED BY <1>1, <1>2, <1>3

\* The expiry writes statuses only, and frees nothing but what it holds itself.
LEMMA SweepQuiet ==
    ASSUME TypeInv, SweepStep
    PROVE  Quiet
<1> PICK s \in Sweeper : SweepRead(s) \/ SweepLock(s) \/ SweepCommit(s) \/ SweepAbort(s)
    BY DEF SweepStep
<1>0. s \notin Worker /\ None \notin Worker /\ row \in [Package -> Row]
    BY DistinctActors DEF TypeInv, TypeOK
<1>1. UNCHANGED <<bucketVars, job>>
    BY DEF SweepRead, SweepLock, SweepCommit, SweepAbort
<1>2. \A p \in Package : row'[p].checksum = row[p].checksum
                          /\ (row'[p].status = "absent" => row[p].status = "absent")
    <2>1. CASE SweepCommit(s)
        BY <1>0, <2>1 DEF SweepCommit, Row
    <2> QED BY <2>1 DEF SweepRead, SweepLock, SweepAbort
<1>3. \A p \in Package :
        lock'[p] = lock[p] \/ (lock[p] \notin Worker /\ lock'[p] \notin Worker)
    <2>1. CASE SweepRead(s)
        BY <2>1 DEF SweepRead
    <2>2. CASE SweepLock(s)
        BY <1>0, <2>2 DEF SweepLock, Unlocked, TypeInv, TypeOK
    <2>3. CASE Rollback(s)
        BY <1>0, <2>3 DEF Rollback
    <2> QED BY <2>1, <2>2, <2>3 DEF SweepCommit, SweepAbort
<1> QED BY <1>1, <1>2, <1>3 DEF Quiet, Building

\* Time changes nothing but ages and running times.
LEMMA TickQuiet ==
    ASSUME TypeInv, Tick
    PROVE  Quiet
<1>1. \A w \in Worker : /\ job'[w].pc = job[w].pc
                        /\ job'[w].package = job[w].package
                        /\ job'[w].doc = job[w].doc
    BY DEF Tick, TypeInv, TypeOK, Job
<1> QED BY <1>1 DEF Tick, Quiet, Building

\* Every step is of one of the kinds.
LEMMA StepKinds ==
    ASSUME TypeInv, BuildInv, [Next]_vars
    PROVE  Quiet \/ \E w \in Worker : BuildStep(w) \/ Drops(w)
<1>1. CASE UNCHANGED vars
    BY <1>1 DEF vars, bucketVars, Quiet, Building
<1> QED BY <1>1, ApiQuiet, WorkerKinds, SweepQuiet, TickQuiet DEF Next

-----------------------------------------------------------------------------
(* The invariant *)

\* The invariant holds when nothing has been built.
LEMMA InitialBuild == Init => BuildInv
<1> SUFFICES ASSUME Init PROVE BuildInv
    OBVIOUS
<1>1. \A w \in Worker : job[w].pc = "idle"
    BY DEF Init, NoJob
<1>2. \A p \in Package : lock[p] = None /\ None \notin Worker
    BY DistinctActors DEF Init
<1>3. CertInv
    BY <1>2 DEF Init, CertInv, NoRow
<1> QED BY <1>1, <1>2, <1>3 DEF BuildInv, HoldInv, LockInv, DocInv, Building, BuildPc

\* Steps that touch no document keep the invariant.
LEMMA QuietInv ==
    ASSUME TypeInv, TypeInv', BuildInv, Quiet
    PROVE  BuildInv'
<1>1. HoldInv'
    BY DEF Quiet, BuildInv, HoldInv, Building, BuildPc, TypeInv, Engaged
<1>2. LockInv'
    BY DEF Quiet, BuildInv, LockInv, Building
<1>3. DocInv'
    BY DEF Quiet, BuildInv, DocInv, Building, BuildPc, bucketVars
<1>4. CertInv'
    BY DEF Quiet, BuildInv, CertInv, bucketVars
<1> QED BY <1>1, <1>2, <1>3, <1>4 DEF BuildInv

\* So does a worker that lets go of its row without committing.
LEMMA DropsInv ==
    ASSUME TypeInv, BuildInv, NEW w \in Worker, Drops(w)
    PROVE  BuildInv'
<1>1. \A p \in Package : lock'[p] = IF lock[p] = w THEN None ELSE lock[p]
    BY DEF Drops, Rollback
<1>2. None \notin Worker
    BY DistinctActors
<1>3. HoldInv'
    BY <1>1 DEF Drops, BuildInv, HoldInv, Building, BuildPc, TypeInv, Engaged
<1>4. LockInv'
    BY <1>1, <1>2 DEF Drops, BuildInv, LockInv, Building
<1>5. DocInv'
    BY DEF Drops, BuildInv, DocInv, Building, BuildPc, bucketVars
<1>6. CertInv'
    BY <1>1, <1>2 DEF Drops, BuildInv, CertInv, bucketVars
<1> QED BY <1>3, <1>4, <1>5, <1>6 DEF BuildInv

\* The four steps of a build touch the row, the documents and the job of one
\* package, which no other builder shares.
LEMMA BuildStepInv ==
    ASSUME TypeInv, BuildInv, NEW w \in Worker, BuildStep(w)
    PROVE  BuildInv'
<1> DEFINE p == job[w].package
<1>0. /\ p \in Package /\ job[w].pc # "idle"
      /\ job \in [Worker -> Job] /\ row \in [Package -> Row]
      /\ lock \in [Package -> Worker \cup Sweeper \cup {None}]
      /\ pdf \in [Package -> Nat] /\ json \in [Package -> Nat] /\ builds \in [Package -> Nat]
      /\ None \notin Worker
    BY DistinctActors
       DEF BuildStep, StartBuild, PutPdf, PutJson, Commit, TypeInv, TypeOK, Engaged
<1>a. \A v \in Worker : Building(v) => job[v].package \in Package
    BY DEF TypeInv, Engaged, Building, BuildPc
<1>b. \A q \in Package : row[q].checksum \in Nat
    BY <1>0 DEF Row
<1>1. CASE StartBuild(w)
    <2>1. /\ lock[p] = None /\ lock' = [lock EXCEPT ![p] = w]
          /\ builds' = [builds EXCEPT ![p] = builds[p] + 1]
          /\ UNCHANGED <<row, pdf, json>>
        BY <1>1 DEF StartBuild, Unlocked
    <2>2. /\ job'[w].pc = "pdf" /\ job'[w].package = p /\ job'[w].doc = builds[p] + 1
          /\ \A v \in Worker \ {w} : job'[v] = job[v]
        BY <1>0, <1>1 DEF StartBuild, Job
    <2>3. \A v \in Worker \ {w} : Building(v) => job[v].package # p
        BY <1>0, <2>1 DEF BuildInv, HoldInv
    <2>4. HoldInv'
        BY <1>0, <1>a, <2>1, <2>2, <2>3 DEF BuildInv, HoldInv, Building
    <2>5. LockInv'
        BY <1>0, <2>1, <2>2 DEF BuildInv, LockInv, Building, BuildPc
    <2>6. DocInv'
        BY <1>0, <1>a, <2>1, <2>2, <2>3 DEF BuildInv, DocInv, Building, BuildPc
    <2>7. CertInv'
        BY <1>0, <1>b, <2>1 DEF BuildInv, CertInv
    <2> QED BY <2>4, <2>5, <2>6, <2>7 DEF BuildInv
<1>2. CASE PutPdf(w) \/ PutJson(w)
    <2>1. /\ UNCHANGED <<row, lock, builds>>
          /\ Building(w) /\ Building(w)' /\ job'[w].package = p /\ job'[w].doc = job[w].doc
          /\ \A v \in Worker \ {w} : job'[v] = job[v]
        BY <1>0, <1>2 DEF PutPdf, PutJson, Building, BuildPc, Job
    <2>2. /\ lock[p] = w /\ job[w].doc = builds[p]
          /\ \A v \in Worker \ {w} : Building(v) => job[v].package # p
        BY <1>0, <2>1 DEF BuildInv, HoldInv, DocInv
    <2>3. \/ /\ pdf' = [pdf EXCEPT ![p] = builds[p]] /\ json' = json
             /\ job'[w].pc = "json"
          \/ /\ json' = [json EXCEPT ![p] = builds[p]] /\ pdf' = pdf
             /\ job[w].pc = "json" /\ job'[w].pc = "commit"
        BY <1>0, <1>2, <2>2 DEF PutPdf, PutJson, Job
    <2>4. HoldInv' /\ LockInv'
        BY <2>1 DEF BuildInv, HoldInv, LockInv, Building
    <2>5. DocInv'
        BY <1>0, <1>a, <2>1, <2>2, <2>3 DEF BuildInv, DocInv, Building, BuildPc
    <2>6. CertInv'
        BY <1>0, <1>b, <2>1, <2>3 DEF BuildInv, CertInv
    <2> QED BY <2>4, <2>5, <2>6 DEF BuildInv
<1>3. CASE Commit(w)
    <2>1. /\ lock' = [lock EXCEPT ![p] = None] /\ UNCHANGED bucketVars
          /\ ~Building(w)' /\ \A v \in Worker \ {w} : job'[v] = job[v]
        BY <1>0, <1>3 DEF Commit, Done, Building, BuildPc
    <2>2. /\ lock[p] = w /\ pdf[p] = builds[p] /\ json[p] = builds[p]
          /\ job[w].doc = builds[p]
          /\ \A v \in Worker \ {w} : Building(v) => job[v].package # p
        BY <1>0, <1>3 DEF Commit, BuildInv, HoldInv, DocInv, Building, BuildPc
    <2>3. /\ row'[p].checksum = builds[p] /\ row'[p].status = "completed"
          /\ \A q \in Package \ {p} : row'[q] = row[q]
        BY <1>0, <1>3, <2>2 DEF Commit, Row
    <2>4. HoldInv' /\ LockInv'
        BY <1>0, <1>a, <2>1, <2>2 DEF BuildInv, HoldInv, LockInv, Building
    <2>5. DocInv'
        BY <1>0, <2>1 DEF BuildInv, DocInv, Building, BuildPc, bucketVars
    <2>6. CertInv'
        BY <1>0, <1>b, <2>1, <2>2, <2>3 DEF BuildInv, CertInv, bucketVars
    <2> QED BY <2>4, <2>5, <2>6 DEF BuildInv
<1> QED BY <1>1, <1>2, <1>3 DEF BuildStep

\* The invariant is inductive.
LEMMA StepBuild == TypeInv /\ BuildInv /\ [Next]_vars => BuildInv'
<1> SUFFICES ASSUME TypeInv, BuildInv, [Next]_vars PROVE BuildInv'
    OBVIOUS
<1>1. TypeInv'
    BY StepTypes
<1> QED BY <1>1, StepKinds, QuietInv, DropsInv, BuildStepInv

\* It holds in every reachable state.
LEMMA Invariance == Spec => [](TypeInv /\ BuildInv)
BY InitialTypes, InitialBuild, StepTypes, StepBuild, PTL DEF Spec

\* No stored document is ever older than the certificate of its package.
THEOREM NeverOlder == Spec => []NoOlderDocument
<1>1. TypeInv /\ BuildInv => NoOlderDocument
    <2> SUFFICES ASSUME TypeInv, BuildInv, NEW p \in Package
                 PROVE  pdf[p] >= row[p].checksum /\ json[p] >= row[p].checksum
        BY DEF NoOlderDocument
    <2>1. row[p].checksum \in Nat /\ pdf[p] \in Nat /\ json[p] \in Nat
        BY DEF TypeInv, TypeOK, Row
    <2>2. row[p].checksum <= pdf[p] /\ row[p].checksum <= json[p]
        BY DEF BuildInv, CertInv
    <2> QED BY <2>1, <2>2
<1> QED BY <1>1, Invariance, PTL

\* Until another build begins, the documents are the certified ones.
THEOREM CertifiedStays == Spec => []CertifiedUntilRebuilt
<1>1. TypeInv /\ BuildInv => CertifiedUntilRebuilt
    <2> SUFFICES ASSUME TypeInv, BuildInv, NEW p \in Package, row[p].checksum = builds[p]
                 PROVE  pdf[p] = builds[p] /\ json[p] = builds[p]
        BY DEF CertifiedUntilRebuilt
    <2>1. builds[p] \in Nat /\ pdf[p] \in Nat /\ json[p] \in Nat
        BY DEF TypeInv, TypeOK
    <2>2. /\ builds[p] <= pdf[p] /\ pdf[p] <= builds[p]
          /\ builds[p] <= json[p] /\ json[p] <= builds[p]
        BY DEF BuildInv, CertInv
    <2> QED BY <2>1, <2>2
<1> QED BY <1>1, Invariance, PTL

-----------------------------------------------------------------------------
(* Nothing waits for nothing *)

\* Who backs a package: a message, an attempt, a request.
CallBacks(c, p) == call[c].package = p /\ call[c].pc \in {"dispatch", "mark_failed"}

\* Something of what backed p may go, if p is settled or known to be abandoned then.
LEMMA BackingLasts ==
    ASSUME PendingIsBacked,
           \A p \in Package :
              /\ InFlight(p)' => InFlight(p) \/ Backed(p)'
              /\ p \in abandoned => p \in abandoned' \/ Backed(p)'
              /\ Backed(p) => Backed(p)' \/ p \in abandoned' \/ ~InFlight(p)'
    PROVE  PendingIsBacked'
BY DEF PendingIsBacked

LEMMA ApiBacks ==
    ASSUME TypeInv, PendingIsBacked, ApiStep
    PROVE  PendingIsBacked'
<1> PICK c \in Caller :
        \/ \E p \in Package : RequestPackage(c, p) \/ Retry(c, p)
        \/ RetryCommit(c) \/ Dispatch(c) \/ DispatchUnsure(c) \/ DispatchFails(c)
        \/ SetTask(c) \/ MarkFailed(c) \/ CallerCrash(c)
    BY DEF ApiStep
<1>0. /\ row \in [Package -> Row] /\ call \in [Caller -> Call]
      /\ call[c].pc # "idle" => call[c].package \in Package
    BY DEF TypeInv, TypeOK, Engaged
<1>1. /\ UNCHANGED job /\ queue \subseteq queue'
      /\ \A d \in Caller \ {c} : call'[d] = call[d]
    BY <1>0 DEF RequestPackage, Retry, RetryCommit, Dispatch, DispatchUnsure, Publish,
                DispatchFails, SetTask, MarkFailed, CallerCrash
<1>2. ASSUME NEW p \in Package, Backed(p)
      PROVE  Backed(p)' \/ CallBacks(c, p)
    BY <1>1, <1>2 DEF Backed, CallBacks, Busy
<1>3. \A p \in Package : CallBacks(c, p)' => Backed(p)'
    BY DEF Backed, CallBacks
<1>4. \A p \in Package : (\E m \in queue' : m.package = p) => Backed(p)'
    BY DEF Backed
<1>5. ASSUME NEW p \in Package, RequestPackage(c, p) PROVE PendingIsBacked'
    <2>1. CallBacks(c, p)' /\ ~CallBacks(c, p)
        BY <1>0, <1>5 DEF RequestPackage, CallBacks, NoCall
    <2>2. \A q \in Package \ {p} : row'[q] = row[q] /\ ~CallBacks(c, q)
        BY <1>0, <1>5 DEF RequestPackage, WriteRow, CallBacks
    <2>3. abandoned' = abandoned
        BY <1>5 DEF RequestPackage
    <2> QED BY <1>2, <1>3, <2>1, <2>2, <2>3, BackingLasts DEF InFlight
<1>6. ASSUME NEW p \in Package, Retry(c, p) PROVE PendingIsBacked'
    <2>1. UNCHANGED <<row, abandoned>> /\ \A q \in Package : ~CallBacks(c, q)
        BY <1>6 DEF Retry, CallBacks
    <2> QED BY <1>2, <2>1, BackingLasts DEF InFlight
<1>7. CASE RetryCommit(c)
    <2> PICK p : p = call[c].package
        OBVIOUS
    <2>1. p \in Package /\ \A q \in Package : ~CallBacks(c, q)
        BY <1>0, <1>7 DEF RetryCommit, CallBacks
    <2>2. call' = [call EXCEPT ![c] = [NoCall EXCEPT !.pc = "dispatch", !.package = p]]
        BY <1>7 DEF RetryCommit
    <2>3. call'[c].pc = "dispatch" /\ call'[c].package = p
        BY <1>0, <2>2 DEF NoCall
    <2>4. Backed(p)'
        BY <2>1, <2>3 DEF Backed
    <2>5. /\ \A q \in Package \ {p} : row'[q] = row[q]
          /\ abandoned' = abandoned \ {p}
        BY <1>0, <1>7 DEF RetryCommit, WriteRow
    <2> QED BY <1>2, <2>1, <2>4, <2>5, BackingLasts DEF InFlight
<1>8. CASE Dispatch(c) \/ DispatchUnsure(c)
    <2>1. PICK t \in Task : Publish(c, t)
        BY <1>8 DEF Dispatch, DispatchUnsure
    <2> DEFINE n == [package |-> call[c].package, task |-> t, retries |-> 0]
    <2>2. UNCHANGED <<row, abandoned>> /\ queue' = queue \cup {n}
        BY <2>1 DEF Publish
    <2>3. n.package = call[c].package
        OBVIOUS
    <2>4. ASSUME NEW q \in Package, CallBacks(c, q) PROVE Backed(q)'
        <3> HIDE DEF n
        <3>1. n \in queue' /\ n.package = q
            BY <2>2, <2>3, <2>4 DEF CallBacks
        <3> QED BY <1>4, <3>1
    <2> QED BY <1>2, <2>2, <2>4, BackingLasts DEF InFlight
<1>9. CASE DispatchFails(c)
    <2>1. UNCHANGED <<row, abandoned>> /\ \A q \in Package : CallBacks(c, q) => CallBacks(c, q)'
        BY <1>0, <1>9 DEF DispatchFails, CallBacks
    <2> QED BY <1>2, <1>3, <2>1, BackingLasts DEF InFlight
<1>10. CASE SetTask(c)
    <2>1. /\ \A q \in Package : row'[q].status = row[q].status /\ ~CallBacks(c, q)
          /\ abandoned' = abandoned
        BY <1>0, <1>10 DEF SetTask, WriteRow, CallBacks, Row
    <2> QED BY <1>2, <2>1, BackingLasts DEF InFlight
<1>11. CASE MarkFailed(c)
    <2> PICK p : p = call[c].package
        OBVIOUS
    <2>1. /\ p \in Package /\ \A q \in Package \ {p} : row'[q] = row[q] /\ ~CallBacks(c, q)
          /\ abandoned' = abandoned
        BY <1>0, <1>11 DEF MarkFailed, WriteRow, CallBacks
    <2>2. row'[p].status = "failed"
        BY <1>0, <1>11 DEF MarkFailed, WriteRow, Row
    <2> QED BY <1>2, <2>1, <2>2, BackingLasts DEF InFlight
<1>12. CASE CallerCrash(c)
    <2>1. /\ UNCHANGED row /\ abandoned \subseteq abandoned'
          /\ \A q \in Package : CallBacks(c, q) => q \in abandoned'
        BY <1>12 DEF CallerCrash, CallBacks
    <2> QED BY <1>2, <2>1, BackingLasts DEF InFlight
<1> QED BY <1>5, <1>6, <1>7, <1>8, <1>9, <1>10, <1>11, <1>12

LEMMA WorkerBacks ==
    ASSUME TypeInv, PendingIsBacked, WorkerStep
    PROVE  PendingIsBacked'
<1> PICK w \in Worker :
        \/ Take(w) \/ Claim(w) \/ ClaimWrite(w) \/ Load(w) \/ StartBuild(w)
        \/ PutPdf(w) \/ PutJson(w) \/ Commit(w) \/ Fail(w) \/ Ack(w)
        \/ TimeLimit(w) \/ ChildLost(w) \/ WorkerCrash(w)
    BY DEF WorkerStep
<1> PICK p : p = job[w].package
    OBVIOUS
<1>0. /\ row \in [Package -> Row] /\ job \in [Worker -> Job]
      /\ job[w].pc # "idle" => p \in Package
    BY DEF TypeInv, TypeOK, Engaged
<1>1. UNCHANGED call /\ \A v \in Worker \ {w} : job'[v] = job[v]
    BY <1>0 DEF Take, Claim, ClaimWrite, Load, StartBuild, PutPdf, PutJson, Commit, Fail, Ack,
                TimeLimit, ChildLost, WorkerCrash
<1>2. ASSUME NEW q \in Package, Backed(q), queue \subseteq queue'
      PROVE  Backed(q)' \/ (Busy(w) /\ q = p)
    BY <1>1, <1>2 DEF Backed, Busy
<1>3. \A q \in Package : (\E m \in queue' : m.package = q) => Backed(q)'
    BY DEF Backed
<1>4. \A q \in Package : Busy(w)' /\ job'[w].package = q => Backed(q)'
    BY DEF Backed
<1>5. ASSUME queue \subseteq queue', abandoned' = abandoned,
             \A q \in Package : row'[q].status = row[q].status,
             job'[w].package = p, Busy(w)'
      PROVE  PendingIsBacked'
    BY <1>2, <1>4, <1>5, BackingLasts DEF InFlight
<1>6. ASSUME queue \subseteq queue', abandoned \subseteq abandoned',
             \A q \in Package : row'[q].status = row[q].status \/ ~InFlight(q)',
             Busy(w) => Backed(p)' \/ p \in abandoned' \/ ~InFlight(p)'
      PROVE  PendingIsBacked'
    BY <1>2, <1>6, BackingLasts DEF InFlight
<1>7. CASE Take(w)
    <2>1. PICK m \in queue :
              /\ queue' = queue \ {m}
              /\ job' = [job EXCEPT ![w] = [NoJob EXCEPT !.pc = "claim", !.package = m.package,
                                              !.task = m.task, !.retries = m.retries]]
        BY <1>7 DEF Take
    <2>2. job'[w].pc = "claim" /\ job'[w].package = m.package
        BY <1>0, <2>1 DEF NoJob
    <2>3. Busy(w)' /\ job[w].pc = "idle" /\ UNCHANGED <<row, abandoned>>
        BY <1>7, <2>2 DEF Busy, JobPc, Take
    <2>4. ~Busy(w)
        BY <2>3 DEF Busy, JobPc, BuildPc
    <2>5. ASSUME NEW q \in Package, Backed(q) PROVE Backed(q)'
        <3>1. CASE q = m.package
            BY <1>4, <2>2, <2>3, <3>1
        <3>2. CASE q # m.package
            BY <1>1, <2>1, <2>4, <2>5, <3>2 DEF Backed, Busy
        <3> QED BY <3>1, <3>2
    <2> QED BY <2>3, <2>5, BackingLasts DEF InFlight
<1>8. CASE Claim(w)
    <2>1. UNCHANGED <<row, queue, abandoned>>
        BY <1>8 DEF Claim
    <2>2. CASE row[p].status = "completed"
        BY <1>6, <2>1, <2>2 DEF InFlight
    <2>3. CASE row[p].status # "completed"
        <3>1. job'[w].pc \in {"load", "claim_write"} /\ job'[w].package = p
            BY <1>0, <1>8, <2>3 DEF Claim, Job
        <3> QED BY <1>5, <2>1, <3>1 DEF Busy, JobPc
    <2> QED BY <2>2, <2>3
<1>9. CASE ClaimWrite(w) \/ Load(w) \/ StartBuild(w) \/ PutPdf(w) \/ PutJson(w)
    <2>1. /\ \A q \in Package : row'[q].status = row[q].status
          /\ UNCHANGED <<queue, abandoned>>
        BY <1>0, <1>9 DEF ClaimWrite, WriteRow, Load, StartBuild, PutPdf, PutJson, Row
    <2>2. job'[w].pc \in {"load", "start", "pdf", "json", "commit"} /\ job'[w].package = p
        BY <1>0, <1>9 DEF ClaimWrite, Load, StartBuild, PutPdf, PutJson, Job
    <2> QED BY <1>5, <2>1, <2>2 DEF Busy, JobPc, BuildPc
<1>10. CASE Commit(w)
    <2>1. /\ UNCHANGED <<queue, abandoned>> /\ p \in Package
          /\ \A q \in Package \ {p} : row'[q] = row[q]
          /\ row'[p].status = "completed"
        BY <1>0, <1>10 DEF Commit, Row
    <2> QED BY <1>6, <2>1 DEF InFlight
<1>11. CASE Fail(w)
    <2>1. UNCHANGED row /\ JobMessage(w).package = p
        BY <1>11 DEF Fail, JobMessage
    <2>2. CASE job[w].retries < MaxRetries
        <3> DEFINE m == [JobMessage(w) EXCEPT !.retries = @ + 1]
        <3>1. queue' = queue \cup {m} /\ UNCHANGED abandoned
            BY <1>11, <2>2 DEF Fail
        <3>2. m.package = p
            BY DEF JobMessage
        <3> HIDE DEF m
        <3>3. Busy(w) => Backed(p)'
            BY <1>0, <1>3, <3>1, <3>2 DEF Busy, JobPc, BuildPc
        <3> QED BY <1>6, <2>1, <3>1, <3>3
    <2>3. CASE ~(job[w].retries < MaxRetries)
        BY <1>6, <1>11, <2>1, <2>3 DEF Fail
    <2> QED BY <2>2, <2>3
<1>12. CASE Ack(w)
    <2>1. UNCHANGED <<row, queue, abandoned>> /\ ~Busy(w)
        BY <1>12 DEF Ack, Busy, JobPc, BuildPc
    <2> QED BY <1>6, <2>1
<1>13. CASE TimeLimit(w) \/ ChildLost(w)
    <2>1. UNCHANGED <<row, queue>> /\ abandoned' = abandoned \cup {p}
        BY <1>13 DEF TimeLimit, ChildLost
    <2> QED BY <1>6, <2>1
<1>14. CASE WorkerCrash(w)
    <2>1. UNCHANGED <<row, abandoned>> /\ queue' = queue \cup {JobMessage(w)}
        BY <1>14 DEF WorkerCrash
    <2>2. JobMessage(w).package = p
        BY DEF JobMessage
    <2>3. Busy(w) => Backed(p)'
        BY <1>0, <1>3, <2>1, <2>2 DEF Busy, JobPc, BuildPc
    <2> QED BY <1>6, <2>1, <2>3
<1> QED BY <1>7, <1>8, <1>9, <1>10, <1>11, <1>12, <1>13, <1>14

\* The expiry and time leave messages, attempts and requests alone.
LEMMA OthersBack ==
    ASSUME TypeInv, PendingIsBacked, SweepStep \/ Tick \/ UNCHANGED vars
    PROVE  PendingIsBacked'
<1>1. UNCHANGED <<queue, call, abandoned>>
    BY DEF SweepStep, SweepRead, SweepLock, SweepCommit, SweepAbort, Tick, vars
<1>2. \A w \in Worker : job'[w].pc = job[w].pc /\ job'[w].package = job[w].package
    BY DEF SweepStep, SweepRead, SweepLock, SweepCommit, SweepAbort, Tick, vars, TypeInv, TypeOK,
           Job
<1>3. \A p \in Package : InFlight(p)' => InFlight(p)
    <2>1. CASE UNCHANGED row
        BY <2>1 DEF InFlight
    <2>2. ASSUME NEW s \in Sweeper, SweepCommit(s) PROVE <1>3
        <3>1. row \in [Package -> Row]
            BY DEF TypeInv, TypeOK
        <3> QED BY <2>2, <3>1 DEF SweepCommit, InFlight, Row
    <2> QED BY <2>1, <2>2 DEF SweepStep, SweepRead, SweepLock, SweepAbort, Tick, vars
<1>4. \A p \in Package : Backed(p) => Backed(p)'
    BY <1>1, <1>2 DEF Backed, Busy
<1> QED BY <1>1, <1>3, <1>4, BackingLasts

\* A pending package always has a message, an attempt or a request that will still act on it,
\* unless a process died, the retries ran out or the hard limit struck.
THEOREM NothingIsForgotten == Spec => []PendingIsBacked
<1>1. Init => PendingIsBacked
    BY DEF Init, PendingIsBacked, InFlight, NoRow
<1>2. TypeInv /\ PendingIsBacked /\ [Next]_vars => PendingIsBacked'
    BY ApiBacks, WorkerBacks, OthersBack DEF Next
<1> QED BY <1>1, <1>2, Invariance, PTL DEF Spec

-----------------------------------------------------------------------------
(* Who waits for whom *)

\* A row held by a run of the expiry is one of its own, and the rows it holds come before
\* those it still wants.
SweepInv ==
    \A s \in Sweeper :
        /\ \A p \in Package : lock[p] = s => sweep[s].pc = "flush" /\ p \in sweep[s].locked
        /\ \A p \in sweep[s].locked : \A q \in sweep[s].stale \ sweep[s].locked : p < q

LEMMA SweepInvKept ==
    ASSUME TypeInv, SweepInv, sweep' = sweep,
           \A p \in Package : lock'[p] = lock[p] \/ lock'[p] \in Worker \cup {None}
    PROVE  SweepInv'
<1>1. \A s \in Sweeper : s \notin Worker \cup {None}
    BY DistinctActors
<1> QED BY <1>1 DEF SweepInv

LEMMA StepSweepInv == TypeInv /\ SweepInv /\ [Next]_vars => SweepInv'
<1> SUFFICES ASSUME TypeInv, SweepInv, [Next]_vars PROVE SweepInv'
    OBVIOUS
<1>t. /\ lock \in [Package -> Worker \cup Sweeper \cup {None}]
      /\ sweep \in [Sweeper -> Sweep]
    BY DEF TypeInv, TypeOK
<1>1. CASE ApiStep \/ Tick \/ UNCHANGED vars
    <2>1. lock' = lock /\ sweep' = sweep
        BY <1>1 DEF ApiStep, RequestPackage, Retry, RetryCommit, Dispatch, DispatchUnsure, Publish,
                    DispatchFails, SetTask, MarkFailed, CallerCrash, Tick, vars
    <2> QED BY <2>1, SweepInvKept
<1>2. CASE WorkerStep
    <2>1. PICK w \in Worker :
            \/ Take(w) \/ Claim(w) \/ ClaimWrite(w) \/ Load(w) \/ StartBuild(w) \/ PutPdf(w)
            \/ PutJson(w) \/ Commit(w) \/ Fail(w) \/ Ack(w) \/ TimeLimit(w) \/ ChildLost(w)
            \/ WorkerCrash(w)
        BY <1>2 DEF WorkerStep
    <2>2. sweep' = sweep
        BY <2>1 DEF Take, Claim, ClaimWrite, Load, StartBuild, PutPdf, PutJson, Commit, Fail, Ack,
                    TimeLimit, ChildLost, WorkerCrash
    <2>3. \/ lock' = lock
          \/ lock' = [lock EXCEPT ![job[w].package] = w]
          \/ lock' = [lock EXCEPT ![job[w].package] = None]
          \/ Rollback(w)
        BY <2>1 DEF Take, Claim, ClaimWrite, Load, StartBuild, PutPdf, PutJson, Commit, Fail, Ack,
                    TimeLimit, ChildLost, WorkerCrash
    <2>4. \A p \in Package : lock'[p] = lock[p] \/ lock'[p] \in Worker \cup {None}
        BY <1>t, <2>3 DEF Rollback
    <2> QED BY <2>2, <2>4, SweepInvKept
<1>3. ASSUME NEW s \in Sweeper, SweepRead(s) PROVE SweepInv'
    <2>1. \A p \in Package : lock[p] # s
        BY <1>3 DEF SweepInv, SweepRead
    <2>2. /\ lock' = lock /\ sweep'[s].locked = {}
          /\ \A r \in Sweeper \ {s} : sweep'[r] = sweep[r]
        BY <1>t, <1>3 DEF SweepRead
    <2> QED BY <2>1, <2>2 DEF SweepInv
<1>4. ASSUME NEW s \in Sweeper, SweepLock(s) PROVE SweepInv'
    <2> DEFINE waiting == sweep[s].stale \ sweep[s].locked
    <2>1. PICK p \in waiting :
            /\ \A q \in waiting : p <= q
            /\ Unlocked(p)
            /\ lock' = [lock EXCEPT ![p] = s]
            /\ sweep' = [sweep EXCEPT ![s].locked = @ \cup {p}]
        BY <1>4 DEF SweepLock
    <2>2. sweep[s] \in Sweep /\ sweep[s].pc = "flush"
        BY <1>t, <1>4 DEF SweepLock
    <2>3. /\ sweep'[s].pc = "flush" /\ sweep'[s].stale = sweep[s].stale
          /\ sweep'[s].locked = sweep[s].locked \cup {p}
          /\ \A r \in Sweeper \ {s} : sweep'[r] = sweep[r]
        BY <1>t, <2>1, <2>2 DEF Sweep
    <2>4. sweep[s].stale \subseteq Nat
        BY <2>2, DistinctActors DEF Sweep
    <2>5. \A q \in waiting \ {p} : p < q
        BY <2>1, <2>4
    <2>6. \A q \in Package : lock'[q] = IF q = p THEN s ELSE lock[q]
        BY <1>t, <2>1
    <2>7. ASSUME NEW r \in Sweeper
          PROVE  /\ \A q \in Package : lock'[q] = r => sweep'[r].pc = "flush" /\ q \in sweep'[r].locked
                 /\ \A q \in sweep'[r].locked : \A u \in sweep'[r].stale \ sweep'[r].locked : q < u
        <3>1. CASE r = s
            BY <2>2, <2>3, <2>5, <2>6, <3>1 DEF SweepInv
        <3>2. CASE r # s
            BY <2>3, <2>6, <3>2 DEF SweepInv
        <3> QED BY <3>1, <3>2
    <2> QED BY <2>7 DEF SweepInv
<1>5. ASSUME NEW s \in Sweeper, SweepCommit(s) \/ SweepAbort(s) PROVE SweepInv'
    <2>1. Rollback(s) /\ sweep' = [sweep EXCEPT ![s] = NoSweep]
        BY <1>5 DEF SweepCommit, SweepAbort
    <2>2. \A p \in Package : lock'[p] # s /\ (lock'[p] = lock[p] \/ lock'[p] = None)
        BY <2>1, DistinctActors DEF Rollback
    <2>3. sweep'[s] = NoSweep /\ \A r \in Sweeper \ {s} : sweep'[r] = sweep[r]
        BY <1>t, <2>1
    <2> QED BY <2>2, <2>3, DistinctActors DEF SweepInv, NoSweep
<1> QED BY <1>1, <1>2, <1>3, <1>4, <1>5 DEF Next, SweepStep

\* The row a run of the expiry needs next.
Needs(s, p) ==
    /\ sweep[s].pc = "flush"
    /\ p \in sweep[s].stale \ sweep[s].locked
    /\ \A q \in sweep[s].stale \ sweep[s].locked : p <= q

\* Builds wait before they hold a row and not after; and from one run of the expiry to the one it
\* waits for, the row that is needed next only grows.
LEMMA NoCircle == TypeInv /\ BuildInv /\ SweepInv => NobodyWaitsInACircle
<1> SUFFICES ASSUME TypeInv, BuildInv, SweepInv,
                    NEW A \in SUBSET (Worker \cup Sweeper), IsFiniteSet(A), A # {},
                    \A a \in A : \E b \in A : Waits(a, b)
             PROVE  FALSE
    BY DEF NobodyWaitsInACircle
<1>t. /\ \A w \in Worker : job[w].pc # "idle" => job[w].package \in Package
      /\ \A s \in Sweeper : sweep[s].stale \subseteq Package /\ Package \subseteq Nat
      /\ Worker \cap Sweeper = {}
    BY DistinctActors DEF TypeInv, TypeOK, Engaged, Sweep
<1>1. ASSUME NEW a \in A, NEW b \in A, Waits(a, b) PROVE b \in Sweeper
    <2>1. PICK p \in Package : lock[p] = b
        BY <1>1, <1>t DEF Waits
    <2>2. ASSUME b \in Worker PROVE FALSE
        <3>1. job[b].pc \in BuildPc
            BY <2>1, <2>2 DEF BuildInv, LockInv, Building
        <3>2. PICK c \in A : Waits(b, c)
            OBVIOUS
        <3>3. job[b].pc \in {"claim_write", "start"}
            BY <1>t, <2>2, <3>2 DEF Waits
        <3> QED BY <3>1, <3>3 DEF BuildPc
    <2> QED BY <2>2
<1>2. ASSUME NEW b \in A \cap Sweeper
      PROVE  \E p \in Package : Needs(b, p) /\ lock[p] \in A \cap Sweeper
    <2>1. PICK c \in A : Waits(b, c)
        OBVIOUS
    <2>2. c \in Sweeper
        BY <1>1, <2>1
    <2> QED BY <1>t, <2>1, <2>2 DEF Waits, Needs
<1> DEFINE B == {s \in A \cap Sweeper : \E p \in Package : Needs(s, p) /\ lock[p] \in A \cap Sweeper}
           N == {p \in Package : lock[p] \in A \cap Sweeper /\ \E s \in B : Needs(s, p)}
           f == [s \in B |-> CHOOSE p : Needs(s, p)]
<1>3. \A s \in Sweeper : \A p, q : Needs(s, p) /\ Needs(s, q) => p = q
    BY <1>t DEF Needs
<1>4. \A s \in B : \E p \in N : f[s] = p
    <2> TAKE s \in B
    <2>1. PICK p \in Package : Needs(s, p) /\ lock[p] \in A \cap Sweeper
        OBVIOUS
    <2>2. f[s] = p
        BY <1>3, <2>1
    <2> QED BY <2>1, <2>2
<1>5. \A p \in N : \E s \in B : f[s] = p
    <2> TAKE p \in N
    <2>1. PICK s \in B : Needs(s, p)
        OBVIOUS
    <2>2. f[s] = p
        BY <1>3, <2>1
    <2> QED BY <2>2
<1>6. IsFiniteSet(N)
    <2>1. f \in [B -> N]
        BY <1>4
    <2>2. B \subseteq A
        OBVIOUS
    <2> HIDE DEF f, B, N
    <2>3. f \in Surjection(B, N)
        BY <1>5, <2>1, Fun_IsSurj
    <2> QED BY <2>2, <2>3, FS_Subset, FS_Surjection
<1>7. N # {}
    <2>1. PICK a \in A, b \in A : Waits(a, b)
        OBVIOUS
    <2>2. b \in A \cap Sweeper
        BY <1>1, <2>1
    <2>3. PICK p \in Package : Needs(b, p) /\ lock[p] \in A \cap Sweeper
        BY <1>2, <2>2
    <2>4. b \in B
        BY <2>2, <2>3
    <2> QED BY <2>3, <2>4
<1>8. ASSUME NEW p \in N PROVE \E q \in N : p < q
    <2> DEFINE b == lock[p]
    <2>1. b \in A \cap Sweeper /\ p \in Package
        OBVIOUS
    <2>2. PICK q \in Package : Needs(b, q) /\ lock[q] \in A \cap Sweeper
        BY <1>2, <2>1
    <2>3. p \in sweep[b].locked
        BY <2>1 DEF SweepInv
    <2>4. p < q
        BY <2>1, <2>2, <2>3 DEF SweepInv, Needs
    <2>5. b \in B
        BY <2>1, <2>2
    <2>6. q \in N
        BY <2>2, <2>5
    <2> QED BY <2>4, <2>6
<1>9. N \in SUBSET Nat
    BY <1>t, <1>7
<1> HIDE DEF N
<1>10. PICK m \in N : \A n \in N : n <= m
    BY <1>6, <1>7, <1>9, GreatestExists
<1> QED BY <1>8, <1>9, <1>10

\* No wait for a row is part of a circle: builds and runs of the expiry, however many, never
\* depend on PostgreSQL to break a deadlock.
THEOREM NoCircularWait == Spec => []NobodyWaitsInACircle
<1>1. Init => SweepInv
    BY DistinctActors DEF Init, SweepInv, NoSweep
<1>2. Spec => []SweepInv
    <2>1. Spec => []TypeInv
        BY Invariance, PTL
    <2> QED BY <1>1, <2>1, StepSweepInv, PTL DEF Spec
<1> QED BY <1>2, Invariance, NoCircle, PTL

-----------------------------------------------------------------------------
(* The refinement *)

openBar == [p \in Package |-> lock[p] \in Worker]
certifiedBar == [p \in Package |-> row[p].checksum]

\* Nothing built, nothing stored, nothing certified: the empty store.
LEMMA StoreInit == Init => Store!Init
<1> SUFFICES ASSUME Init PROVE Store!Init
    OBVIOUS
<1>1. \A p \in Package : (lock[p] \in Worker) = FALSE
    BY DistinctActors DEF Init
<1>2. \A p \in Package : row[p].checksum = 0
    BY DEF Init, NoRow
<1>3. openBar = [p \in Package |-> FALSE]
    BY <1>1, Zenon DEF openBar
<1>4. certifiedBar = [p \in Package |-> 0]
    BY <1>2 DEF certifiedBar
<1> QED BY <1>3, <1>4 DEF Init, Store!Init, openBar, certifiedBar

\* Closing one entry of openBar, and opening one.
LEMMA OpenBarUpdate ==
    ASSUME NEW p \in Package, NEW b \in BOOLEAN,
           (lock'[p] \in Worker) = b,
           \A q \in Package \ {p} : (lock'[q] \in Worker) = (lock[q] \in Worker)
    PROVE  openBar' = [openBar EXCEPT ![p] = b]
<1>1. openBar' = [q \in Package |-> lock'[q] \in Worker]
    BY DEF openBar
<1>2. ASSUME NEW q \in Package
      PROVE  (lock'[q] \in Worker) = [openBar EXCEPT ![p] = b][q]
    <2>1. CASE q = p
        BY <2>1 DEF openBar
    <2>2. CASE q # p
        BY <2>2, Zenon DEF openBar
    <2> QED BY <2>1, <2>2
<1>3. [openBar EXCEPT ![p] = b] = [q \in Package |-> [openBar EXCEPT ![p] = b][q]]
    BY DEF openBar
<1> QED BY <1>1, <1>2, <1>3, Zenon

\* A quiet step is a stutter of the store, a dropped build gives up, and the
\* steps of a build are its namesakes.
LEMMA StoreStep ==
    ASSUME TypeInv, TypeInv', BuildInv, BuildInv', [Next]_vars
    PROVE  [Store!Next]_(Store!storeVars)
<1>0. /\ lock \in [Package -> Worker \cup Sweeper \cup {None}]
      /\ job \in [Worker -> Job] /\ row \in [Package -> Row]
      /\ None \notin Worker
    BY DistinctActors DEF TypeInv, TypeOK
<1>1. CASE Quiet
    <2>1. openBar' = openBar /\ certifiedBar' = certifiedBar
        BY <1>1 DEF Quiet, openBar, certifiedBar
    <2> QED BY <1>1, <2>1 DEF Quiet, bucketVars, Store!storeVars, openBar, certifiedBar
<1>2. ASSUME NEW w \in Worker, Drops(w), NEW p \in Package, p = job[w].package
      PROVE  Store!GiveUp(p)
    <2>1. lock[p] = w
        BY <1>2 DEF Drops, BuildInv, HoldInv
    <2>2. \A q \in Package : lock[q] = w => q = p
        BY <1>2 DEF BuildInv, LockInv
    <2>3. openBar' = [openBar EXCEPT ![p] = FALSE] /\ openBar[p]
        <3>1. openBar[p]
            BY <2>1 DEF openBar
        <3>2. \A q \in Package : lock'[q] = IF q = p THEN None ELSE lock[q]
            BY <1>2, <2>1, <2>2 DEF Drops, Rollback
        <3>3. (lock'[p] \in Worker) = FALSE
            BY <1>0, <3>2
        <3>4. \A q \in Package \ {p} : (lock'[q] \in Worker) = (lock[q] \in Worker)
            BY <3>2
        <3> QED BY <3>1, <3>3, <3>4, OpenBarUpdate
    <2>4. certifiedBar' = certifiedBar
        BY <1>2 DEF Drops, certifiedBar
    <2> QED BY <1>2, <2>1, <2>3, <2>4
            DEF Drops, bucketVars, Store!GiveUp, openBar, certifiedBar
<1>3. ASSUME NEW w \in Worker, BuildStep(w), NEW p \in Package, p = job[w].package
      PROVE  \/ Store!Begin(p) \/ Store!UploadPdf(p)
             \/ Store!UploadJson(p) \/ Store!Certify(p)
    <2> USE <1>3
    <2>1. CASE StartBuild(w)
        <3>1. openBar' = [openBar EXCEPT ![p] = TRUE] /\ ~openBar[p]
            BY <1>0, <2>1 DEF StartBuild, Unlocked, openBar
        <3>2. certifiedBar' = certifiedBar
            BY <2>1 DEF StartBuild, certifiedBar
        <3>3. Store!Begin(p)
            BY <2>1, <3>1, <3>2 DEF StartBuild, Store!Begin, openBar, certifiedBar
        <3> QED BY <3>3
    <2>2. ASSUME job[w].pc \in BuildPc
          PROVE  openBar[p] /\ job[w].doc = builds[p]
        BY <2>2 DEF BuildInv, HoldInv, DocInv, Building, openBar
    <2>3. CASE PutPdf(w)
        <3>1. openBar' = openBar /\ certifiedBar' = certifiedBar
            BY <2>3 DEF PutPdf, openBar, certifiedBar
        <3>2. Store!UploadPdf(p)
            BY <2>2, <2>3, <3>1 DEF PutPdf, BuildPc, Store!UploadPdf, openBar, certifiedBar
        <3> QED BY <3>2
    <2>4. CASE PutJson(w)
        <3>1. openBar' = openBar /\ certifiedBar' = certifiedBar
            BY <2>4 DEF PutJson, openBar, certifiedBar
        <3>2. pdf[p] = builds[p]
            BY <2>4 DEF PutJson, BuildInv, DocInv
        <3>3. Store!UploadJson(p)
            BY <2>2, <2>4, <3>1, <3>2
               DEF PutJson, BuildPc, Store!UploadJson, openBar, certifiedBar
        <3> QED BY <3>3
    <2>5. CASE Commit(w)
        <3>1. pdf[p] = builds[p] /\ json[p] = builds[p] /\ openBar[p]
              /\ job[w].doc = builds[p]
            BY <2>2, <2>5 DEF Commit, BuildPc, BuildInv, DocInv
        <3>2. openBar' = [openBar EXCEPT ![p] = FALSE]
            <4>1. \A q \in Package : lock'[q] = IF q = p THEN None ELSE lock[q]
                BY <1>0, <2>5 DEF Commit
            <4>2. (lock'[p] \in Worker) = FALSE
                BY <1>0, <4>1
            <4>3. \A q \in Package \ {p} : (lock'[q] \in Worker) = (lock[q] \in Worker)
                BY <4>1
            <4> QED BY <4>2, <4>3, OpenBarUpdate
        <3>3. certifiedBar' = [certifiedBar EXCEPT ![p] = builds[p]]
            <4>1. row'[p].checksum = builds[p]
                BY <1>0, <2>5, <3>1 DEF Commit, Row
            <4>2. \A q \in Package \ {p} : row'[q].checksum = row[q].checksum
                BY <1>0, <2>5 DEF Commit
            <4> HIDE <1>3
            <4> QED BY <4>1, <4>2 DEF certifiedBar
        <3>4. Store!Certify(p)
            BY <2>5, <3>1, <3>2, <3>3
               DEF Commit, bucketVars, Store!Certify, openBar, certifiedBar
        <3> QED BY <3>4
    <2> QED BY <1>3, <2>1, <2>3, <2>4, <2>5 DEF BuildStep
<1>4. ASSUME NEW w \in Worker, BuildStep(w) \/ Drops(w)
      PROVE  job[w].package \in Package
    BY <1>4 DEF BuildStep, StartBuild, PutPdf, PutJson, Commit, Drops, Building, BuildPc,
               TypeInv, Engaged
<1> QED BY <1>1, <1>2, <1>3, <1>4, StepKinds DEF Store!Next

\* The evidence lifecycle implements the certified store: whatever the requests,
\* the broker and the expiry do, builds of a package never overlap and only a
\* complete pair of documents is certified.
THEOREM Refinement == Spec => StoreSpec
<1>1. TypeInv /\ BuildInv /\ [Next]_vars /\ TypeInv' /\ BuildInv'
          => [Store!Next]_(Store!storeVars)
    BY StoreStep
<1> QED BY <1>1, StoreInit, Invariance, PTL DEF Spec, StoreSpec, Store!Spec

=============================================================================
