------------------------- MODULE EvidenceLifecycle -------------------------
(***************************************************************************)
(* The life of an evidence package: the API requests that create, retry    *)
(* and dispatch it, the Celery workers that build it, the beat task that   *)
(* expires it, the row lock PostgreSQL makes them share, and the bucket    *)
(* the documents go to.                                                    *)
(*                                                                         *)
(* Rows are the committed ones.  A session reads without a lock (READ      *)
(* COMMITTED), remembers what it read and, at flush, writes the columns    *)
(* that differ from what it read, after waiting for whoever holds the row. *)
(* A build holds its row from the flush of RUNNING to its commit or        *)
(* rollback, so RUNNING is never a committed status: in this module it is  *)
(* lock[p] \in Worker.                                                     *)
(*                                                                         *)
(* Time passes in ticks.  Only two durations matter: TaskLimit, Celery's   *)
(* hard limit on one attempt, and StaleAfter, the age at which a package   *)
(* in flight counts as stranded.                                           *)
(***************************************************************************)
EXTENDS Naturals, FiniteSets

CONSTANTS
    Package,     \* the keys of evidence_packages, as numbers
    Caller,      \* API requests that can be under way at once
    Worker,      \* Celery worker processes
    Sweeper,     \* runs of expire_stale_evidence_packages
    Task,        \* the task ids Celery hands out, one per publish
    None,        \* no task, no package, nobody
    MaxRetries,  \* max_retries of the task
    TaskLimit,   \* task_time_limit, in ticks
    StaleAfter,  \* EVIDENCE_STALE_AFTER_SECONDS, in ticks
    MaxBuilds,   \* bounds: documents assembled for one package,
    MaxCrashes   \* and processes that die in a behaviour

ASSUME DistinctActors ==
    /\ Worker \cap Sweeper = {}
    /\ None \notin Worker \cup Sweeper \cup Package \cup Task
    /\ Package \subseteq Nat

\* config.py: the staleness limit "must stay above" the task time limit.
ASSUME LimitsOrdered ==
    /\ MaxRetries \in Nat /\ MaxCrashes \in Nat /\ MaxBuilds \in Nat
    /\ TaskLimit \in Nat /\ StaleAfter \in Nat
    /\ TaskLimit < StaleAfter

VARIABLES
    row,        \* the committed row of every package
    age,        \* ticks since updated_at, saturating at StaleAfter + 1
    lock,       \* the transaction that has flushed a write to the row, or None
    pdf, json,  \* the build whose document is stored under the package's keys
    builds,     \* number of documents assembled for the package so far
    queue,      \* messages in the broker that no worker has taken
    issued,     \* task ids already used
    call,       \* the API requests
    job,        \* what each worker is doing
    sweep,      \* what each run of the expiry task is doing
    crashes,    \* processes that have died
    abandoned   \* packages whose last job ended, or never began, unnoticed

bucketVars == <<pdf, json, builds>>
vars == <<row, age, lock, pdf, json, builds, queue, issued, call, job, sweep,
          crashes, abandoned>>

-----------------------------------------------------------------------------
(* Types *)

Status == {"absent", "pending", "completed", "failed"}

Row == [status : Status, task_id : Task \cup {None},
        error_message : BOOLEAN, checksum : Nat]

Message == [package : Package, task : Task, retries : 0 .. MaxRetries]

Call == [pc : {"idle", "retry", "dispatch", "set_task", "mark_failed"},
         package : Package \cup {None}, task : Task \cup {None}, loaded : Row]

BuildPc == {"pdf", "json", "commit"}
JobPc == {"claim", "claim_write", "load", "start"} \cup BuildPc

Job == [pc : {"idle", "ack"} \cup JobPc, package : Package \cup {None},
        task : Task \cup {None}, retries : 0 .. MaxRetries, loaded_error : BOOLEAN,
        doc : Nat, ran : 0 .. TaskLimit]

Sweep == [pc : {"idle", "flush"}, stale : SUBSET Package, locked : SUBSET Package]

NoRow == [status |-> "absent", task_id |-> None, error_message |-> FALSE,
          checksum |-> 0]
NoCall == [pc |-> "idle", package |-> None, task |-> None, loaded |-> NoRow]
NoJob == [pc |-> "idle", package |-> None, task |-> None, retries |-> 0,
          loaded_error |-> FALSE, doc |-> 0, ran |-> 0]
NoSweep == [pc |-> "idle", stale |-> {}, locked |-> {}]

\* Every variable keeps the shape the actions below rely on; in particular a
\* message never counts more retries than the task allows and an attempt never
\* outlives the hard time limit.
TypeOK ==
    /\ row \in [Package -> Row]
    /\ age \in [Package -> 0 .. StaleAfter + 1]
    /\ lock \in [Package -> Worker \cup Sweeper \cup {None}]
    /\ pdf \in [Package -> Nat]
    /\ json \in [Package -> Nat]
    /\ builds \in [Package -> Nat]
    /\ queue \subseteq Message
    /\ issued \subseteq Task
    /\ call \in [Caller -> Call]
    /\ job \in [Worker -> Job]
    /\ sweep \in [Sweeper -> Sweep]
    /\ crashes \in 0 .. MaxCrashes
    /\ abandoned \subseteq Package

Init ==
    /\ row = [p \in Package |-> NoRow]
    /\ age = [p \in Package |-> 0]
    /\ lock = [p \in Package |-> None]
    /\ pdf = [p \in Package |-> 0]
    /\ json = [p \in Package |-> 0]
    /\ builds = [p \in Package |-> 0]
    /\ queue = {}
    /\ issued = {}
    /\ call = [c \in Caller |-> NoCall]
    /\ job = [w \in Worker |-> NoJob]
    /\ sweep = [s \in Sweeper |-> NoSweep]
    /\ crashes = 0
    /\ abandoned = {}

-----------------------------------------------------------------------------
(* Rows, locks and staleness *)

InFlight(p) == row[p].status = "pending"

\* Variant: a package counts as stale only once its job was queued.
StaleQueued(p) == InFlight(p) /\ age[p] > StaleAfter /\ row[p].task_id # None

\* is_stale: judged by updated_at alone.
Stale(p) == InFlight(p) /\ age[p] > StaleAfter

\* What a flush leaves in a column: the session's value if it differs from the
\* value the session loaded, otherwise whatever the row holds by now.
Column(loaded, value, current) == IF value = loaded THEN current ELSE value

Unlocked(p) == lock[p] = None

\* An UPDATE of the row of p that commits at once; updated_at moves with it.
WriteRow(p, r) ==
    /\ Unlocked(p)
    /\ row' = [row EXCEPT ![p] = r]
    /\ age' = [age EXCEPT ![p] = 0]

-----------------------------------------------------------------------------
(* API requests *)

\* POST /systems/{id}/evidence: the PENDING row is committed before dispatch.
RequestPackage(c, p) ==
    /\ call[c].pc = "idle"
    /\ row[p].status = "absent"
    /\ WriteRow(p, [NoRow EXCEPT !.status = "pending"])
    /\ call' = [call EXCEPT ![c] = [NoCall EXCEPT !.pc = "dispatch", !.package = p]]
    /\ UNCHANGED <<lock, bucketVars, queue, issued, job, sweep, crashes, abandoned>>

\* POST .../retry, first half: read the row and answer 409 unless it failed or
\* is stale.
Retry(c, p) ==
    /\ call[c].pc = "idle"
    /\ row[p].status = "failed" \/ Stale(p)
    /\ call' = [call EXCEPT ![c] = [pc |-> "retry", package |-> p, task |-> None,
                                    loaded |-> row[p]]]
    /\ UNCHANGED <<row, age, lock, bucketVars, queue, issued, job, sweep, crashes,
                   abandoned>>

\* POST .../retry, second half: flush and commit.
RetryCommit(c) ==
    LET p == call[c].package
        seen == call[c].loaded
    IN  /\ call[c].pc = "retry"
        /\ WriteRow(p, [row[p] EXCEPT
                          !.status = Column(seen.status, "pending", @),
                          !.task_id = Column(seen.task_id, None, @),
                          !.error_message = Column(seen.error_message, FALSE, @)])
        /\ call' = [call EXCEPT ![c] = [NoCall EXCEPT !.pc = "dispatch", !.package = p]]
        /\ abandoned' = abandoned \ {p}
        /\ UNCHANGED <<lock, bucketVars, queue, issued, job, sweep, crashes>>

\* generate_evidence_package.delay(...) reaches the broker.
Publish(c, t) ==
    /\ call[c].pc = "dispatch"
    /\ t \notin issued
    /\ issued' = issued \cup {t}
    /\ queue' = queue \cup {[package |-> call[c].package, task |-> t, retries |-> 0]}
    /\ UNCHANGED <<row, age, lock, bucketVars, job, sweep, crashes, abandoned>>

Dispatch(c) ==
    \E t \in Task :
        /\ Publish(c, t)
        /\ call' = [call EXCEPT ![c].pc = "set_task", ![c].task = t]

\* .delay raises although the broker kept the message (its answer was lost).
DispatchUnsure(c) ==
    \E t \in Task :
        /\ Publish(c, t)
        /\ call' = [call EXCEPT ![c].pc = "mark_failed"]

\* .delay raises and nothing was queued.
DispatchFails(c) ==
    /\ call[c].pc = "dispatch"
    /\ call' = [call EXCEPT ![c].pc = "mark_failed"]
    /\ UNCHANGED <<row, age, lock, bucketVars, queue, issued, job, sweep, crashes,
                   abandoned>>

\* The task id is written when the request ends; a build that has already
\* locked the row makes the request wait for it.
SetTask(c) ==
    LET p == call[c].package
    IN  /\ call[c].pc = "set_task"
        /\ WriteRow(p, [row[p] EXCEPT !.task_id = call[c].task])
        /\ call' = [call EXCEPT ![c] = NoCall]
        /\ UNCHANGED <<lock, bucketVars, queue, issued, job, sweep, crashes, abandoned>>

MarkFailed(c) ==
    LET p == call[c].package
    IN  /\ call[c].pc = "mark_failed"
        /\ WriteRow(p, [row[p] EXCEPT !.status = "failed", !.error_message = TRUE])
        /\ call' = [call EXCEPT ![c] = NoCall]
        /\ UNCHANGED <<lock, bucketVars, queue, issued, job, sweep, crashes, abandoned>>

\* The API process dies during a request.
CallerCrash(c) ==
    /\ call[c].pc # "idle"
    /\ crashes < MaxCrashes
    /\ crashes' = crashes + 1
    /\ call' = [call EXCEPT ![c] = NoCall]
    /\ abandoned' = IF call[c].pc \in {"dispatch", "mark_failed"}
                    THEN abandoned \cup {call[c].package} ELSE abandoned
    /\ UNCHANGED <<row, age, lock, bucketVars, queue, issued, job, sweep>>

-----------------------------------------------------------------------------
(* The worker: generate_evidence_package *)

\* The message w is working on, and w once only its acknowledgement is left.
JobMessage(w) == [package |-> job[w].package, task |-> job[w].task,
                  retries |-> job[w].retries]

Done(w) == [pc |-> "ack", package |-> job[w].package, task |-> job[w].task,
            retries |-> job[w].retries, loaded_error |-> FALSE, doc |-> 0, ran |-> 0]

\* acks_late: the message is settled only when the attempt is over.
Take(w) ==
    /\ job[w].pc = "idle"
    /\ \E m \in queue :
        /\ queue' = queue \ {m}
        /\ job' = [job EXCEPT ![w] = [NoJob EXCEPT !.pc = "claim",
                                        !.package = m.package, !.task = m.task,
                                        !.retries = m.retries]]
    /\ UNCHANGED <<row, age, lock, bucketVars, issued, call, sweep, crashes, abandoned>>

\* Variant: the task also stops when the row names another task.
ClaimOwn(w) ==
    LET p == job[w].package
    IN  /\ job[w].pc = "claim"
        /\ job' = [job EXCEPT ![w] =
                     IF row[p].status = "completed" \/ row[p].task_id # job[w].task
                     THEN Done(w) ELSE [@ EXCEPT !.pc = "load"]]
        /\ UNCHANGED <<row, age, lock, bucketVars, queue, issued, call, sweep,
                       crashes, abandoned>>

\* First session: stop if the package is completed, otherwise set task_id.
Claim(w) ==
    LET p == job[w].package
    IN  /\ job[w].pc = "claim"
        /\ job' = [job EXCEPT ![w] =
                     IF row[p].status = "completed" THEN Done(w)
                     ELSE [@ EXCEPT !.pc = IF row[p].task_id = job[w].task
                                           THEN "load" ELSE "claim_write"]]
        /\ UNCHANGED <<row, age, lock, bucketVars, queue, issued, call, sweep,
                       crashes, abandoned>>

ClaimWrite(w) ==
    LET p == job[w].package
    IN  /\ job[w].pc = "claim_write"
        /\ WriteRow(p, [row[p] EXCEPT !.task_id = job[w].task])
        /\ job' = [job EXCEPT ![w].pc = "load"]
        /\ UNCHANGED <<lock, bucketVars, queue, issued, call, sweep, crashes, abandoned>>

\* Second session, build(): read the row again ...
Load(w) ==
    /\ job[w].pc = "load"
    /\ job' = [job EXCEPT ![w].pc = "start",
                          ![w].loaded_error = row[job[w].package].error_message]
    /\ UNCHANGED <<row, age, lock, bucketVars, queue, issued, call, sweep, crashes,
                   abandoned>>

\* Variant: RUNNING is not flushed, so the row is not held during the build.
StartBuildUnflushed(w) ==
    LET p == job[w].package
    IN  /\ job[w].pc = "start" /\ builds[p] < MaxBuilds
        /\ builds' = [builds EXCEPT ![p] = @ + 1]
        /\ job' = [job EXCEPT ![w].pc = "pdf", ![w].doc = builds[p] + 1]
        /\ UNCHANGED <<row, age, lock, pdf, json, queue, issued, call, sweep, crashes,
                       abandoned>>

\* ... flush RUNNING, which waits for the row and then holds it, and assemble a
\* new document.
StartBuild(w) ==
    LET p == job[w].package
    IN  /\ job[w].pc = "start" /\ builds[p] < MaxBuilds
        /\ Unlocked(p)
        /\ lock' = [lock EXCEPT ![p] = w]
        /\ builds' = [builds EXCEPT ![p] = @ + 1]
        /\ job' = [job EXCEPT ![w].pc = "pdf", ![w].doc = builds[p] + 1]
        /\ UNCHANGED <<row, age, pdf, json, queue, issued, call, sweep, crashes,
                       abandoned>>

\* Variant: the row is completed before the JSON is uploaded.
PutPdfOnly(w) ==
    /\ job[w].pc = "pdf"
    /\ pdf' = [pdf EXCEPT ![job[w].package] = job[w].doc]
    /\ job' = [job EXCEPT ![w].pc = "commit"]
    /\ UNCHANGED <<row, age, lock, json, builds, queue, issued, call, sweep, crashes,
                   abandoned>>

PutPdf(w) ==
    /\ job[w].pc = "pdf"
    /\ pdf' = [pdf EXCEPT ![job[w].package] = job[w].doc]
    /\ job' = [job EXCEPT ![w].pc = "json"]
    /\ UNCHANGED <<row, age, lock, json, builds, queue, issued, call, sweep, crashes,
                   abandoned>>

PutJson(w) ==
    /\ job[w].pc = "json"
    /\ json' = [json EXCEPT ![job[w].package] = job[w].doc]
    /\ job' = [job EXCEPT ![w].pc = "commit"]
    /\ UNCHANGED <<row, age, lock, pdf, builds, queue, issued, call, sweep, crashes,
                   abandoned>>

\* Keys, URLs, checksum and COMPLETED are flushed and committed together.
Commit(w) ==
    LET p == job[w].package
    IN  /\ job[w].pc = "commit"
        /\ row' = [row EXCEPT ![p].status = "completed",
                              ![p].checksum = job[w].doc,
                              ![p].error_message =
                                  Column(job[w].loaded_error, FALSE, @)]
        /\ age' = [age EXCEPT ![p] = 0]
        /\ lock' = [lock EXCEPT ![p] = None]
        /\ job' = [job EXCEPT ![w] = Done(w)]
        /\ UNCHANGED <<bucketVars, queue, issued, call, sweep, crashes, abandoned>>

\* The row of p is let go of by w, if w held it; nothing was committed.
Rollback(w) ==
    lock' = [p \in Package |-> IF lock[p] = w THEN None ELSE lock[p]]

\* Variant: one attempt too many.
FailOnceMore(w) ==
    /\ job[w].pc \in JobPc
    /\ Rollback(w)
    /\ job' = [job EXCEPT ![w] = Done(w)]
    /\ queue' = queue \cup {[JobMessage(w) EXCEPT !.retries = @ + 1]}
    /\ UNCHANGED <<row, age, bucketVars, issued, call, sweep, crashes, abandoned>>

\* An exception in the attempt.  build() writes FAILED and error_message and
\* re-raises, session_scope rolls both back, and autoretry_for publishes the
\* next attempt under the same task id unless the retries are used up.
Fail(w) ==
    /\ job[w].pc \in JobPc
    /\ Rollback(w)
    /\ job' = [job EXCEPT ![w] = Done(w)]
    /\ IF job[w].retries < MaxRetries
       THEN /\ queue' = queue \cup {[JobMessage(w) EXCEPT !.retries = @ + 1]}
            /\ UNCHANGED abandoned
       ELSE /\ abandoned' = abandoned \cup {job[w].package}
            /\ UNCHANGED queue
    /\ UNCHANGED <<row, age, bucketVars, issued, call, sweep, crashes>>

Ack(w) ==
    /\ job[w].pc = "ack"
    /\ job' = [job EXCEPT ![w] = NoJob]
    /\ UNCHANGED <<row, age, lock, bucketVars, queue, issued, call, sweep, crashes,
                   abandoned>>

\* The hard time limit kills the attempt; Celery acknowledges it as failed.
TimeLimit(w) ==
    /\ job[w].pc \in JobPc
    /\ job[w].ran = TaskLimit
    /\ Rollback(w)
    /\ job' = [job EXCEPT ![w] = NoJob]
    /\ abandoned' = abandoned \cup {job[w].package}
    /\ UNCHANGED <<row, age, bucketVars, queue, issued, call, sweep, crashes>>

\* A process of the worker's pool dies (out of memory, say): Celery settles the
\* message as failed, task_reject_on_worker_lost being off.
ChildLost(w) ==
    /\ job[w].pc \in JobPc
    /\ crashes < MaxCrashes
    /\ crashes' = crashes + 1
    /\ Rollback(w)
    /\ job' = [job EXCEPT ![w] = NoJob]
    /\ abandoned' = abandoned \cup {job[w].package}
    /\ UNCHANGED <<row, age, bucketVars, queue, issued, call, sweep>>

\* Variant: the message was acknowledged when it was taken.
WorkerCrashEarlyAck(w) ==
    /\ job[w].pc # "idle"
    /\ crashes < MaxCrashes
    /\ crashes' = crashes + 1
    /\ Rollback(w)
    /\ job' = [job EXCEPT ![w] = NoJob]
    /\ UNCHANGED <<row, age, bucketVars, queue, issued, call, sweep, abandoned>>

\* The worker node dies: the unacknowledged message is delivered again.
WorkerCrash(w) ==
    /\ job[w].pc # "idle"
    /\ crashes < MaxCrashes
    /\ crashes' = crashes + 1
    /\ Rollback(w)
    /\ queue' = queue \cup {JobMessage(w)}
    /\ job' = [job EXCEPT ![w] = NoJob]
    /\ UNCHANGED <<row, age, bucketVars, issued, call, sweep, abandoned>>

-----------------------------------------------------------------------------
(* The beat task: expire_stale *)

\* Read every in-flight row and keep the stale ones.
SweepRead(s) ==
    LET stale == {p \in Package : Stale(p)}
    IN  /\ sweep[s].pc = "idle"
        /\ stale # {}
        /\ sweep' = [sweep EXCEPT ![s] = [pc |-> "flush", stale |-> stale,
                                          locked |-> {}]]
        /\ UNCHANGED <<row, age, lock, bucketVars, queue, issued, call, job, crashes,
                       abandoned>>

\* Variant: the rows are locked in no particular order.
SweepLockUnordered(s) ==
    /\ sweep[s].pc = "flush"
    /\ \E p \in sweep[s].stale \ sweep[s].locked :
        /\ Unlocked(p)
        /\ lock' = [lock EXCEPT ![p] = s]
        /\ sweep' = [sweep EXCEPT ![s].locked = @ \cup {p}]
    /\ UNCHANGED <<row, age, bucketVars, queue, issued, call, job, crashes, abandoned>>

\* The flush updates the rows in the order of their keys, as SQLAlchemy sorts
\* them, waiting for each.
SweepLock(s) ==
    LET waiting == sweep[s].stale \ sweep[s].locked
    IN  /\ sweep[s].pc = "flush"
        /\ \E p \in waiting :
            /\ \A q \in waiting : p <= q
            /\ Unlocked(p)
            /\ lock' = [lock EXCEPT ![p] = s]
            /\ sweep' = [sweep EXCEPT ![s].locked = @ \cup {p}]
        /\ UNCHANGED <<row, age, bucketVars, queue, issued, call, job, crashes,
                       abandoned>>

\* status and error_message were changed in every loaded row, so both are written.
SweepCommit(s) ==
    LET stale == sweep[s].stale
    IN  /\ sweep[s].pc = "flush"
        /\ sweep[s].locked = stale
        /\ row' = [p \in Package |->
                     IF p \in stale
                     THEN [row[p] EXCEPT !.status = "failed", !.error_message = TRUE]
                     ELSE row[p]]
        /\ age' = [p \in Package |-> IF p \in stale THEN 0 ELSE age[p]]
        /\ Rollback(s)
        /\ sweep' = [sweep EXCEPT ![s] = NoSweep]
        /\ UNCHANGED <<bucketVars, queue, issued, call, job, crashes, abandoned>>

\* The run is killed or loses its database connection.
SweepAbort(s) ==
    /\ sweep[s].pc = "flush"
    /\ crashes < MaxCrashes
    /\ crashes' = crashes + 1
    /\ Rollback(s)
    /\ sweep' = [sweep EXCEPT ![s] = NoSweep]
    /\ UNCHANGED <<row, age, bucketVars, queue, issued, call, job, abandoned>>

-----------------------------------------------------------------------------
(* Time *)

Busy(w) == job[w].pc \in JobPc

\* A tick passes only after every attempt at its limit has been killed.
Tick ==
    /\ \A w \in Worker : Busy(w) => job[w].ran < TaskLimit
    /\ age' = [p \in Package |-> IF age[p] > StaleAfter THEN age[p] ELSE age[p] + 1]
    /\ job' = [w \in Worker |-> IF Busy(w) THEN [job[w] EXCEPT !.ran = @ + 1]
                                ELSE job[w]]
    /\ UNCHANGED <<row, lock, bucketVars, queue, issued, call, sweep, crashes,
                   abandoned>>

-----------------------------------------------------------------------------

ApiStep ==
    \E c \in Caller :
        \/ \E p \in Package : RequestPackage(c, p) \/ Retry(c, p)
        \/ RetryCommit(c)
        \/ Dispatch(c)
        \/ DispatchUnsure(c)
        \/ DispatchFails(c)
        \/ SetTask(c)
        \/ MarkFailed(c)
        \/ CallerCrash(c)

WorkerStep ==
    \E w \in Worker :
        \/ Take(w)
        \/ Claim(w)
        \/ ClaimWrite(w)
        \/ Load(w)
        \/ StartBuild(w)
        \/ PutPdf(w)
        \/ PutJson(w)
        \/ Commit(w)
        \/ Fail(w)
        \/ Ack(w)
        \/ TimeLimit(w)
        \/ ChildLost(w)
        \/ WorkerCrash(w)

SweepStep ==
    \E s \in Sweeper :
        \/ SweepRead(s)
        \/ SweepLock(s)
        \/ SweepCommit(s)
        \/ SweepAbort(s)

Next == ApiStep \/ WorkerStep \/ SweepStep \/ Tick

Spec == Init /\ [][Next]_vars

\* Beat fires for ever, PostgreSQL grants a row to those who wait for it, time
\* passes and the hard limit is enforced.  Nothing is asked of the builds, the
\* callers or the broker.
Fairness ==
    /\ WF_vars(Tick)
    /\ \A w \in Worker : WF_vars(TimeLimit(w))
    /\ \A s \in Sweeper :
        /\ WF_vars(SweepRead(s))
        /\ SF_vars(SweepLock(s))
        /\ WF_vars(SweepCommit(s))

FairSpec == Spec /\ Fairness

-----------------------------------------------------------------------------
(* Properties *)

\* The row lock serialises the builds of a package, so no upload of an older
\* build ever lands over the documents a later build has certified: neither
\* stored object is older than the certificate (README, "content-addressed").
NoOlderDocument ==
    \A p \in Package :
        /\ pdf[p] >= row[p].checksum
        /\ json[p] >= row[p].checksum

\* As long as no build has begun since the one whose checksum the row holds,
\* both stored documents are exactly the certified ones: build() writes the
\* checksum only after both uploads and in the commit that ends its hold.
CertifiedUntilRebuilt ==
    \A p \in Package :
        row[p].checksum = builds[p] => pdf[p] = builds[p] /\ json[p] = builds[p]

\* Some message, worker or request will still act on p.
Backed(p) ==
    \/ \E m \in queue : m.package = p
    \/ \E w \in Worker : job[w].package = p /\ Busy(w)
    \/ \E c \in Caller : call[c].package = p /\ call[c].pc \in {"dispatch", "mark_failed"}

\* No package waits for nothing: a pending one has a message in the broker, an
\* attempt under way or a request about to dispatch it, unless a process died,
\* the retries ran out or the hard limit struck.  Redelivery, early returns of
\* the task, retries and expiry never lose a job between them.
PendingIsBacked ==
    \A p \in Package : InFlight(p) => p \in abandoned \/ Backed(p)

\* a waits for a row that b holds: a worker for its package's, a run of the expiry for the
\* next of its rows.
Waits(a, b) ==
    \/ /\ a \in Worker /\ job[a].pc \in {"claim_write", "start"}
       /\ lock[job[a].package] = b
    \/ /\ a \in Sweeper /\ sweep[a].pc = "flush"
       /\ \E p \in sweep[a].stale \ sweep[a].locked :
            /\ \A q \in sweep[a].stale \ sweep[a].locked : p <= q
            /\ lock[p] = b

\* Builds and runs of the expiry never wait for each other in a circle, however many there are:
\* none of them needs PostgreSQL to find a deadlock.
NobodyWaitsInACircle ==
    \A A \in SUBSET (Worker \cup Sweeper) :
        IsFiniteSet(A) /\ A # {} => \E a \in A : \A b \in A : ~Waits(a, b)

\* A stranded package is expired in the end whatever else fails (tasks.py: "Left
\* alone it shows Generating for ever"), so no package stays pending for good.
EventuallySettles ==
    \A p \in Package : InFlight(p) ~> row[p].status \in {"completed", "failed"}

\* The lifecycle keeps the promise CertifiedStore makes for every package: a
\* document is named by its build, and a build is open while its worker holds
\* the row.
Store == INSTANCE CertifiedStore WITH
            latest <- builds,
            open <- [p \in Package |-> lock[p] \in Worker],
            certified <- [p \in Package |-> row[p].checksum]

StoreSpec == Store!Spec

-----------------------------------------------------------------------------
(* What the repository says and the code does not do *)

\* README: "failures record error_message"; evidence.py: "persist the failure
\* for the API to surface".  A failed attempt should leave the row failed.
FailureIsSurfaced ==
    [][\A w \in Worker :
          Fail(w) /\ job[w].pc \in BuildPc
             => LET r == row'[job[w].package]
                IN  r.status = "failed" /\ r.error_message]_vars

\* expire_stale: "Mark packages that will never finish as failed"; config.py: the
\* limit is such "that a genuinely running job is never expired".  A package that
\* has finished should not be among those the expiry marks.
ExpiryFailsNoCompleted ==
    [][\A s \in Sweeper :
          SweepCommit(s) => \A p \in sweep[s].stale : row[p].status # "completed"]_vars

\* README: a downloaded package "can be proven to match what the platform
\* generated".  With no build under way, a completed package should hold the
\* documents its checksum was computed over.
CompletedMatchesChecksum ==
    \A p \in Package :
        row[p].status = "completed" /\ lock[p] = None
           => pdf[p] = row[p].checksum /\ json[p] = row[p].checksum

=============================================================================
