# A TLA+ development of ai-gov

ai-gov keeps an inventory of AI systems, finds out which regimes apply to each, classifies
its risk, checks it against policies, and produces evidence packages. This directory holds
TLA+ models of the server: what requests, Celery workers, a scheduler, containers that start,
PostgreSQL, Redis, OPA and an object store do to the same state, and the rules by which the
server decides. TLC checks the models on small instances; TLAPS proves the central invariants
and refinements for every instance.

`PROJECT.json` lists the runs, the lines every definition translates, the hazards and the
theorems. All of it was read from `app/`, with `tests/` and the README of the repository as
the source of what the code is meant to do.

    tlc -workers 2 -config MCEvidenceFaults.cfg MCEvidence          # about 2.5 minutes
    tlc -workers 2 -config InventoryVersions.cfg InventoryVersions
    tlc -workers 2 -config Dashboard.cfg Dashboard
    tlc -workers 2 -config Assessment.cfg MCAssessment              # about 3.5 minutes
    tlc -workers 2 -config PolicyEvaluation.cfg MCPolicyEvaluation  # about 2.5 minutes
    tlc -workers 2 -config Accounts.cfg MCAccounts                  # about 3 minutes
    tlapm EvidenceProofs.tla                                        # and the other *Proofs

## 1. Inventory of the system

### Processes and what they share

* **API requests** (FastAPI, thread pool). One SQLAlchemy session per request (`get_db`):
  commit at the end, rollback on an exception, autoflush off, no isolation level set, so
  PostgreSQL's READ COMMITTED. Reads take no lock. `flush` writes the *changed columns* of
  changed objects and thereby locks their rows until the transaction ends.
* **Celery workers**. A message is acknowledged after the task (`acks_late`), so the death of
  a worker node repeats it. Exceptions are retried up to three times under the same task id,
  with a hard limit of 600 s per attempt.
* **Beat** starts `expire_stale_evidence_packages` and `refresh_dashboard_cache` every 300 s;
  runs may overlap.
* **Containers** run migrations and the seed each time they start (`docker/entrypoint.sh`), and
  several may start at once.
* **Shared state**: PostgreSQL rows, the broker's messages, two Redis keys with the dashboard
  aggregates, objects in S3 under fixed keys, policies and libraries loaded into OPA.

### Components

| Component | State | Operations | Talks to | What is hard |
|---|---|---|---|---|
| Evidence lifecycle (`services/evidence.py`, `workers/tasks.py`, `routers/systems.py`) | `evidence_packages` rows, messages, objects | request, retry, dispatch, build, expire | broker, S3, policy service | two jobs of one package, crash between uploads, rollback of the failure, expiry against a running build |
| Inventory (`services/inventory.py`) | `ai_systems`, `system_metadata`, `system_metadata_versions` | create, update, soft delete, restore | audit, cache | read-modify-write of the version, two rows locked in either order |
| Regions (`services/regions.py`) | none | normalise, expand, collapse, intersect | engine | codes that look alike, groups in and out of groups |
| Jurisdiction engine (`services/jurisdiction_engine.py`) | rules built from `jurisdictions` rows | load, evaluate, order, prioritise | classification | old configurations, no active row, defaults that differ by code |
| Risk classification (`services/risk.py`) | append-only `risk_classifications` | baseline, overlay, classify | engine, dashboard | rows read twice, a system read long before its verdict commits, order of escalations |
| Policies (`services/policy.py`, `services/opa.py`) | `policies`, append-only `policy_checks`, OPA's copy | create, update, delete, sync, evaluate, fall back | OPA, risk | OPA pushed before the commit and never cleaned; answers that differ by engine |
| Dashboard and cache (`services/dashboard.py`, `services/cache.py`) | two Redis keys | aggregate, invalidate, refresh | everything above | invalidation before commit, SELECTs that see different states |
| Users, authentication, system principal (`services/user.py`, `core/principal.py`, `api/deps.py`) | `users`, tokens | login, refresh, resolve, create, update | audit | insert race, stale tokens, columns written from a stale row |
| Audit trail (`services/audit.py`) | append-only `audit_logs` | record | every service | says who acted, in two modes of authentication |
| Seed (`db/seed.py`) | jurisdictions, policies, demo users | seed, migrate legacy addresses | all three | runs in every container, over what users have changed |
| Web client (`client/`) | tokens, query cache | fetch, refresh, poll | API | nothing the server keeps state of |

What makes each correct:

* evidence: stored documents are those the row certifies; no pending package is forgotten;
  a failure shows; the expiry touches only what will not finish;
* inventory: one history entry per version, the newest is the row, no edit undoes another;
* regions and engine: verdicts depend on the places declared, not on how they are spelled or
  grouped; declaring more loses nothing; an old row switches nothing off; the strictest regime is
  evaluated first;
* classification: overlays only escalate; declaring more makes no system safer; each regime asked for has its row, and a verdict is
  right for the version it names;
* policies: no check is lost or silent; findings decide the outcome; a synchronisation
  repairs whatever OPA has missed, as far as the Rego compiles;
* dashboard: what it shows in scope it shows with its checks and is soon recent, its ratios are ratios;
* accounts: a demotion holds for the next request; the trail names who acted; seeds repair
  and never destroy.

## 2. Modules

| Module | Models |
|---|---|
| `EvidenceLifecycle` | requests, workers, expiry, row locks, broker and bucket for evidence packages |
| `CertifiedStore` | abstract: builds one at a time upload a pair of documents and then certify it |
| `InventoryVersions` | overlapping edits of systems with sessions, row locks, unique constraint, deadlocks |
| `VersionedRecord` | abstract: a system changes in single steps and files an entry for each |
| `Regions` | folding of region codes, the groups EU, EEA and Canada, and their algebra |
| `JurisdictionEngine` | profiles, triggers, rules from rows and from the built-in list, verdicts, order, priority; extends `Regions` |
| `RiskOverlay` | baseline score and tier, taxonomies; extends `JurisdictionEngine` |
| `Assessment` | a request that classifies, while rows and metadata change; extends `RiskOverlay` |
| `PolicyEvaluation` | policy rows, OPA, synchronisation, evaluation of a system |
| `Dashboard` | classifications, checks and the cached aggregate over the version history |
| `Accounts` | tokens, principals, users, the trail, the seed of the demo accounts |
| `MCEvidence`, `MCAssessment`, `MCPolicyEvaluation`, `MCAccounts` | data and symmetry for TLC |
| `OrderProofs` | lemmas about sorted sequences and subsets of finite sets, for the proofs below |
| `EngineProofs` | proofs about the definitions of `Regions`, `JurisdictionEngine`, `RiskOverlay`, without a state |
| `EvidenceProofs`, `InventoryProofs`, `AssessmentProofs`, `PolicyProofs`, `DashboardProofs`, `AccountProofs` | proofs about the specifications |

`Dashboard` takes an edit as one step on the version history. That is what
`InventoryVersions => VersionedRecord` establishes, so it is the composition of the two. It
also takes the engine's answer as data (`content.regimes`); what that answer is, and that it
depends only on what a request has read, is the subject of `Assessment`, which in turn has
one system and leaves its versions to `Dashboard`.

### EvidenceLifecycle

The state is the *committed* rows (`row`), the age since `updated_at`, who has flushed a write
to the row and not committed (`lock`), the broker's messages, the documents in the bucket and
the build each comes from, and what every request, worker and expiry run is doing.

| Action | Code |
|---|---|
| `RequestPackage` | `request_package` and the `db.commit()` before dispatch |
| `Retry`, `RetryCommit` | `retry`: the row is read, then written with the changed columns |
| `Dispatch`, `DispatchUnsure`, `DispatchFails` | `.delay` succeeds, raises although the message was kept, raises |
| `SetTask`, `MarkFailed` | the rest of `_dispatch_evidence` |
| `Take`, `Claim`, `ClaimWrite` | the task's first session |
| `Load`, `StartBuild`, `PutPdf`, `PutJson`, `Commit` | the second session, `build()` |
| `Fail`, `TimeLimit`, `ChildLost`, `WorkerCrash`, `Ack` | exception and autoretry, hard limit, lost pool process, lost node, acknowledgement |
| `SweepRead`, `SweepLock`, `SweepCommit`, `SweepAbort` | `expire_stale` in its session |
| `Tick` | time |

`RUNNING` is flushed and only committed as `COMPLETED` or rolled back, so no other session ever
reads it: in the model it is `lock[p] \in Worker`. That lock is also what makes the builds of a
package follow one another, and everything proved about the documents rests on it. A document
is the number of its build; a row's checksum is the number it was computed over.

`abandoned` is a history variable: packages whose last job ended (retries used up, hard limit,
lost process) or was never queued because the caller died. `PendingIsBacked` excuses them and
nothing else; `EventuallySettles` then says that the expiry gets them.

### InventoryVersions

A request has loaded a system (`loaded`, `loadedVersion`), holds the objects it changed
(`session`) and goes through the flushes one by one: `WriteSystem`, `WriteMetadata`, `Bump`,
`Snapshot` or `SnapshotConflict`, `Commit`. `ai_systems` is flushed before `system_metadata`,
but an edit of metadata alone locks `system_metadata` first and `ai_systems` for the version:
the deadlock is reachable, and `DeadlockVictim` is PostgreSQL breaking it. What is written at
commit are the columns that differ from what was loaded (`Written`), over whatever the row holds
by then. That this never mixes two edits is not obvious and is what `HeadIsCurrent` says; the
unique constraint on (system, version) is the only thing that makes it so.

### Regions, JurisdictionEngine, RiskOverlay

Pure definitions, without RECURSIVE, named as in the code. A code is the tuple of its words
between hyphens, a spelling is words and the separator that was typed; upper-casing and trimming
are done before. What the folding does is kept: the separator first, then `CA`, which is California
while Canada is `CA-COUNTRY`, the aliases, the provinces (`CA-QC` stays), other subdivisions
(`DE-BY` is Germany), blanks dropped. `Aliases` has an entry for each shape of key in the two tables,
not every name. `collapse_regions` and `regions_intersect` are translated; `PlacesOf`
and `Reaches` are the reference, sets of places. They start from codes that have been folded, so
`MCAssessment` adds a reference that does not: `Meaning` says where in the world each spelling of the
instance is, and `RegimesFollowTheMap` compares it with what the triggers find.

`Confidence` is the table of the eight triggers that find a nexus; three more amplify.
`rule_from_row` has the fallbacks of an old row; `load_engine` has the built-in rules that apply
when no row is active. `evaluate` gives verdicts, order and priority. Confidences are hundredths.

`RiskOverlay` has the weights, the thresholds, the use-case lists, and `apply_overlay` in the order of
the code: prohibited, high risk, the escalations in the order of their object, the floor, the
multiplier in hundredths, the cap. Rationales and notes are left out. `Taxonomy` is the JSON that the
code can work with: known tiers and a multiplier that is a non-negative number. `risk_taxonomy` is stored
without being validated, so that a score lies between 0 and 100 holds for such taxonomies only.

### Assessment

| Action | Code |
|---|---|
| `CreateJurisdiction`, `UpdateJurisdiction` | the routes of administrators, each a commit |
| `Seed` | `seed_jurisdictions`: what exists is overwritten, but stays inactive |
| `EditMetadata` | an edit of the system, as its commit |
| `LoadEngine`, `ReadSystem` | the two reads that a request makes, in either order, others committing between them |
| `Evaluate` | `classify` up to the loop: verdicts, and the lookup of the codes asked for that do not apply |
| `Classify` | one turn of the loop: the row is read again for its taxonomy |
| `Commit`, `NotRegistered` | the end of the transaction |

A row that the session still holds would be returned from its identity map; the model has it read
again, and also as it was when nobody has changed it, so both are covered.

### PolicyEvaluation

| Action | Code |
|---|---|
| `CreatePolicy`, `Get`, `UpdatePolicy`, `DeletePolicy` | `create`, `update`, `soft_delete`: flush, then `_safe_push` with the transaction open |
| `Commit`, `Abort` | end of the request; OPA keeps what it was given |
| `Seed` | `seed_policies`: new rows, or new Rego in old ones; nothing is pushed |
| `SyncStart`, `SyncLibrary`, `SyncList`, `SyncPush`, `SyncEnd` | `sync_libraries_to_opa` and `sync_all_to_opa` |
| `Select`, `Evaluate`, `Finish` | `evaluate_system`, `_evaluate_one` for each policy, `summarize` |
| `Restart` | OPA comes back with the mounted files only |

OPA is not part of the repository: that it stores a module per id, refuses Rego that does not
compile, answers for a package with all its modules, and forgets on a restart is assumed from how the code
calls it and from `docker-compose.yml`. `rego_code` is any text, so whether it compiles is part of `Rego`
(`compiles`), and a library that it imports may be missing. `Puts` has every answer to a push: loaded;
refused, for the text itself, for a library or because another module of the package contradicts it; no
answer, and OPA was not reached; no answer although OPA has loaded the module (a timeout). `_safe_push`
only logs the refusals and goes on: OPA keeps what it had under that id. Two modules of one package may
contradict each other, in which case it refuses the second or answers from both; the model
allows each. `sync.pushed` is what the response of a synchronisation counts; `sync.calm` (nobody changed a
policy or OPA meanwhile) and `sync.clean` (OPA always answered, and refused nothing but text that does
not compile) are history variables. A synchronisation lists at most 1000 policies in the code, and the model takes all
of them; one synchronisation runs at a time.

`Response` reduces a document to what `_interpret_opa` looks at: is it a bare boolean, what is
`allow`, which severities are among the violations.

### Dashboard

`past` holds the versions of each system; content is reduced to whether it is live and which
regimes its metadata triggers. A writer is an edit
or an assessment (classification or policy checks): `Read`, `Evaluate` (takes its `now`),
`Invalidate` (requests only), a commit. The aggregate is `by_jurisdiction`: two SELECTs
and a SETEX, each an action, the SELECTs in the order of `Tables`. One policy stands for those of a
jurisdiction: the code takes the latest check of each (system, jurisdiction, policy key) and counts
a system as failing when any of them fails, the model has one check of a system and jurisdiction at a time, that
fails or does not. So a policy that is dropped, whose last check stays the latest of its key, is
outside the model. A classification's
and its checks' timestamps, which the code takes a moment apart, are one instant; systems are
not retired. `summary` has a key and a life of the same kind and is not repeated.

### Accounts

| Action | Code |
|---|---|
| `Login`, `LoginFailed`, `Refresh` | `routers/auth.py` and `UserService.authenticate`, with the commit of the failed entry |
| `Authenticate`, `FindPrincipal`, `InsertPrincipal`, `RereadPrincipal` | `resolve_principal` in both modes; the loser of the insert rolls the whole session back and reads again |
| `Work`, `CreateUser`, `GetUser`, `UpdateUser` | `require_roles` and the operation, flushed with its audit entry |
| `Commit`, `Abort` | end of the request |
| `SelectLegacy`, `Migrate`, `FlushMigration`, `SeedUser`, `FlushUsers`, `CommitSeed` | `migrate_legacy_demo_emails` and `seed_users` in `run_seed` |
| `Restart`, `Reconfigure` | a container starts again; the API starts with the other value of `AUTH_DISABLED` |

What a session has flushed is in `changes`, and becomes the row, column by column, at the
commit. A session that needs a row or an email that another has flushed waits for it (`Free`).
A password that is set is always written, with a new salt, and a value of any other column only if it
differs from the one that was read.
`seed_users` refuses where demo accounts are not allowed (`demo_users_allowed`: neither a local nor a test
environment, and not forced); there every seed ends in a RuntimeError and nothing is seeded at all. The
module is about the environments where they are allowed, and `EventuallySeeded` holds only there.
`overtaken` is a history variable: the caller's row was changed after the request began.

## 3. Runs

| Run | Instance | Shows |
|---|---|---|
| `evidence_faults` | 1 package, 1 caller, 2 workers, 1 expiry, 2 tasks, 1 retry each, 2 documents, one death | `TypeOK`, `NoOlderDocument`, `CertifiedUntilRebuilt`, `PendingIsBacked`, implements `CertifiedStore` |
| `evidence_liveness` | 2 packages, 1 worker, 2 expiry runs | `NobodyWaitsInACircle`, `EventuallySettles`, `PendingIsBacked` |
| `evidence_checksum` | 2 jobs | violated: `CompletedMatchesChecksum` |
| `evidence_surfaced` | 1 job | violated: `FailureIsSurfaced` |
| `evidence_expiry` | 1 job, 1 expiry | violated: `ExpiryFailsNoCompleted` |
| `inventory_versions` | 1 system, 3 requests, 2 values per table, 3 versions | `TypeOK`, `HistoryIsComplete`, `HeadIsCurrent`, `DiffsChain`, implements `VersionedRecord`, `EveryRequestEnds` |
| `assessment` | 6 codes, 1 request, 2 edits by others, 8 metadata | `TypeOK`, `VerdictsAreRight`, `RegimesFollowTheMap`, `NoRegimeForgotten`, `StaleRowsStayOn`, `StrictestFirst`, `OverlaysEscalate`, `RecordedAsAsked`, `DeclaringMoreIsNoSafer` |
| `policy` | 2 policies, 2 administrators, 3 edits, 1 synchronisation, 1 restart of OPA, 1 run | `TypeOK`, `SyncHeals`, `HealedRunsAreCurrent`, `NeverSilent`, `FindingsDecide` |
| `dashboard` | 1 system, 2 writers, 1 reader, 2 writes | `TypeOK`, `StampIsTrue`, `ScopeComesWithChecks`, `EventuallyFresh` |
| `dashboard_rate` | 2 systems, 1 writer, 4 writes | violated: `RateIsAFraction` |
| `accounts` | 4 users, 2 requests, 2 containers, 1 login, 1 restart | `TypeOK`, `TruthfulTrail`, `AuthorityIsCurrent`, `SeedHeals`, `NoLostUpdate`, `EventuallySeeded` |
| `accounts_seed` | 2 containers, no request | violated: `DemoAccountsLive` |

### Bounds, and why they suffice

* *Packages, systems.* Nothing but the expiry and the aggregate touches two of them, and
  `evidence_liveness` and `dashboard_rate` have two. One package with two jobs is the smallest
  instance of every race between jobs.
* *Tasks, MaxBuilds.* `Task` bounds the publishes: two, an original job and one retry. Each may be
  attempted twice and delivered again. `MaxBuilds` bounds the documents assembled for a package
  (the guard of `StartBuild`): with two there is an older and a newer one. Where it is 4 it stops nothing.
* *TaskLimit < StaleAfter*, in ticks, is the relation `config.py` asks for (600 s < 900 s); 0 and 1
  let any attempt be cut short at once, 1 and 2 let a job be both waiting and old.
  `LimitsOrdered` is an assumption of the module, not of the runs.
* *MaxCrashes* bounds deaths; one is enough to fall between any two steps. Deaths are absent from
  `evidence_liveness`, whose fairness does not depend on them.
* *MaxVersion = 3* lets two edits follow the creation; three requests let a third meet a pair
  in conflict. No request starts at the bound, which is why that run ignores deadlock.
* *Assessment.* The codes are the five of the seed and one (`BR`) that nobody has seeded;
  `Administered` are the one with a built-in rule and the one without. Two member states, one
  state of the EEA only and two provinces are enough for every line of the algebra; administrators store no
  territories, or a group and a province, which owners write on their side as a member, a group or a province. `MaxEdits = 2`: one
  commit may change a row after the engine was loaded and another one after that. What depends on
  rows and metadata alone is evaluated for all that this reaches. The run ends when the request and the
  edits do, and ignores deadlock.
* *PolicyEvaluation.* Rego in versions and packages that may collide, with a library that needs another,
  and Rego that does not compile. The administrators are alike, so the run uses their symmetry (it states no liveness).
  `MaxEdits = 3`, `MaxSyncs = 1`, `MaxRestarts = 1`: a read, a push that is rolled back and a later
  write; OPA may fail at any call. The run ends when the bounds are reached.
* *MaxWrites* bounds edits and evaluations started, committed or not; two, with `Ttl = 1`, let a write
  commit across the computation of an aggregate. `dashboard_rate` has no reader, so it stops when
  the writes are used up, and ignores deadlock.
* *Accounts.* One legacy address and its replacement, one reserved address, four rows: two founders,
  one created, one principal. `MaxRequests = 2`, `MaxLogins = 1` (tokens can be renewed),
  `MaxRestarts = 1` of a container or of the API. When they are used up and the containers
  have seeded, nothing is left to do, hence no check for deadlock.

### Fairness

* `EvidenceLifecycle`: time passes; the hard limit is enforced; beat fires and its run is
  executed (weak fairness of the read and the commit), and PostgreSQL grants a row that becomes free again and
  again to those queued for it (strong fairness of `SweepLock`). No fairness for requests,
  dispatch or builds: a package settles although all of them stop. Crashes are not fair.
* `InventoryVersions`: strong fairness of a request's next step. The lock queue of PostgreSQL is
  first come, first served, and its deadlock detector runs after a second.
* `Dashboard`: Redis expires keys, and a computation that has begun ends. Nobody has to write,
  read or drop the cache.
* `Accounts`: weak fairness of the end of a request (a handler returns or raises, and `get_db` then
  commits or rolls back) and of a seed's next step (a container whose seed failed is started again,
  `restart: unless-stopped`).
* `Assessment` and `PolicyEvaluation` state no liveness.

### Where code and documentation differ

Shown by a run:

1. **A failure does not show** (`evidence_surfaced`). `build()` writes FAILED and
   `error_message`, flushes and re-raises; the session's context manager rolls it back. The package
   stays pending until another attempt completes it, or the expiry marks it with another message.
2. **The expiry can fail a completed package** (`evidence_expiry`). It reads an in-flight row
   whose build is running, waits for the build's lock and writes FAILED over COMPLETED. The row
   may be old although its job is young: a job waits in the queue, and a retry of the task finds
   its own id in the row, so `updated_at` does not move.
3. **A completed package may not match its checksum** (`evidence_checksum`). The keys do not name
   the build. A second job (retry of a stale package whose first job was only slow) that has passed its
   status test overwrites the documents and then fails.
4. **The compliance rate can exceed 1** (`dashboard_rate`). The numerator is every system with
   passing checks, in scope or not: checks of a jurisdiction may be asked for without a
   classification, or outlive its applicability. The response model rejects the value, which has been
   cached by then.
5. **A seed can retire the account it repairs** (`accounts_seed`). Two containers read the same legacy
   row. One renames it and commits; the other then looks for the new address, finds that very row,
   takes it for a duplicate and retires it. Every later seed finds the address taken, so no demo
   account is live again.

None of them contradicts the invariants above: 3, for instance, needs a build begun after the
certified one, which is what `CertifiedUntilRebuilt` excludes.

Met while modelling, and only noted here:

* An outdated classification can stay unlisted (`dashboard.py:230-235`): the newest
  `metadata_version` over all jurisdictions stands for each, so a classification narrowed to one
  hides the others.
* A bare `false` from OPA is falsy, `raw.get("result") or {}` (`policy.py:373`) makes it the empty
  document, and that is recorded as a pass; the docstring (`policy.py:369-371`) lists a bare
  boolean among the forms a package may answer with. `FindingsDecide` speaks of documents only.
* The seeded row of the EU names the EU and its member states, not the states that the EEA adds, although
  the built-in rule does and `README.md:302` says "European Union (EU + EEA)".
* A trigger list of which only some are known loses the others without a word
  (`jurisdiction_engine.py:749`); `StaleRowsStayOn` is about lists of which none is.
* Signals alone are worth "prohibited" from 100 points on, but an enumerated high-risk use case sets
  the tier to "high" whatever they are worth (`risk.py:140`): naming the use case of such a system
  lowers its tier. `DeclaringMoreIsNoSafer` excepts this case (`Relabelled`) and no other.
* The strictness in `overlay_config` is free JSON. What `int()` refuses makes every classification of
  every system fail (`jurisdiction_engine.py:779`); the model has the rows that it reads.
* Rego that does not compile is accepted and stored (`schemas/policy.py:21,37`). OPA refuses it, `_safe_push`
  only logs that (`policy.py:183-185`), and OPA goes on answering with whatever Rego it had under that id;
  with none, the rules decide. `sync_all_to_opa` returns how many policies it pushed, and not that one is
  missing. `SyncHeals` and `HealedRunsAreCurrent` say what holds all the same.
* A subdivision of Canada that is not a province (`CA-XX`, a misspelling) folds to `CA`
  (`regions.py:166-169`), which no territory holds, since Canada is `CA-COUNTRY`; folded once more it is
  California. The spellings of the run have no such place.
* An alias that contains an underscore can never match (`regions.py:121`), because separators
  are folded first.
* An entry for a failed login has no actor and is labelled `system` (`audit.py:54`).
* A user created with the reserved address of the system principal becomes the principal of a deployment
  without authentication; entries are then labelled `user`.
* An update that sets a column to the value its session had read writes nothing, although another has
  changed the column since and the entry of the trail says that it was set.

## 4. Theorems

All of the form `Spec => ...`, or lemmas about pure operators, for every value of the constants that
satisfies the named assumptions of the modules, which TLC evaluates in the runs.

| Module | Theorem | States |
|---|---|---|
| `EvidenceProofs` | `TypeCorrect` | `[]TypeOK` |
| `EvidenceProofs` | `NeverOlder`, `CertifiedStays` | `[]NoOlderDocument`, `[]CertifiedUntilRebuilt` |
| `EvidenceProofs` | `NothingIsForgotten`, `NoCircularWait` | `[]PendingIsBacked`, `[]NobodyWaitsInACircle` |
| `EvidenceProofs` | `Refinement` | implements `CertifiedStore` |
| `InventoryProofs` | `TypeCorrect`, `CompleteHistory`, `CurrentHead`, `ChainedDiffs` | the invariants of the run |
| `InventoryProofs` | `Refinement` | implements `VersionedRecord` |
| `InventoryProofs` | `DeadlocksArePairs` | `[]CirclesArePairs`: a circle of waiting requests, however long, contains a pair |
| `EngineProofs` | `MatchIsReach`, `MatchIsMonotone`, `CollapseKeepsPlaces` | `regions_intersect` and `collapse_regions` are right for all sets of codes |
| `EngineProofs` | `AppliesIfTouched`, `ReportsWhatMatched`, `TouchesMore` | the verdict of every rule on every profile |
| `EngineProofs` | `StrictestComeFirst` | order and priority for all rules with integer strictness |
| `EngineProofs` | `OverlayEscalates`, `LoopEndsThere` | `apply_overlay` for every taxonomy, baseline and metadata; its loop, turn by turn |
| `EngineProofs` | `BaselineGrows`, `OverlayGrows` | more metadata, no lower score and, but for `Relabelled`, no lower tier |
| `AssessmentProofs` | `TypeCorrect`, `RightVerdicts`, `StaleRowsDoStayOn`, `StrictestAreFirst`, `NoRegimeIsForgotten`, `MoreIsNoSafer`, `OverlaysDoEscalate`, `RecordsAsAsked` | the properties of the run |
| `PolicyProofs` | `TypeCorrect`, `NoRunIsSilent`, `FindingsDoDecide`, `SyncDoesHeal`, `HealedRunsDoUseTheRows` | the properties of the run |
| `DashboardProofs` | `TypeCorrect`, `TrueStamps`, `ScopeDoesComeWithChecks` | the invariants of the run |
| `AccountProofs` | `TypeCorrect`, `TrailIsTruthful`, `TokensGrantNothing`, `SeedsHeal`, `UpdatesUndoNothing` | the invariants of the run, and `NoLostUpdate` |

**Evidence.** `TypeOK` needs to know that whoever is not idle has a package (`Engaged`).
`NoOlderDocument` alone is not inductive: an upload is harmless only because its document is the
latest. `BuildInv` says why: a worker between its first upload and its commit holds the row
(`HoldInv`), a row held by a worker is held for its build (`LockInv`), so the build in progress
is the latest and has stored what its step says (`DocInv`), and certificate <= stored <= latest,
strictly while a build is open (`CertInv`). Each step is `Quiet`, gives a build up (`Drops`), or
is one of the four steps of a build; the lemmas preserve the invariant for each kind, and the
refinement maps the kinds to stuttering, `GiveUp` and the four steps of the store.
`PendingIsBacked` is inductive with the types: whatever a step takes from what backs a package (a
message taken, an attempt over, a request answered), it puts another in its place, settles the row, or
marks the package abandoned (`BackingLasts`; one lemma per actor).
`NobodyWaitsInACircle`: a worker that waits holds no row (`BuildInv`), so a circle would consist of
expiry runs. A run locks in ascending order (`SweepInv`: whatever it has locked is below
whatever it still wants), so the run that waits for the greatest package of the circle would have to be
waited for at a greater one (`NoCircle`).

**Inventory.** What a request has loaded is the content of an entry already filed (`LoadedInv`), and
entries never change. A request that passes the unique constraint therefore loaded the newest
version; it holds the `ai_systems` row since `Bump` (`HoldInv`), so that remains true until it commits
(`CommitInv`). Then what it writes over the row is exactly what it filed, and the step is
`Change`. Every other step leaves the record alone. `DeadlocksArePairs` needs only that a lock is held
for the system a request edits (`OwnInv`): whoever is waited for and waits holds one of the two rows of a
system and wants the other, so the holder of that one, which waits too, waits for it. `DeadlockVictim`, which looks for a
pair, therefore misses no deadlock.

**Regions and engine.** Codes that are neither groups nor members are single places; `Apart` keeps the
three groups and GLOBAL distinct from all places. Two expanded sets meet exactly if a place is in
both, and folding a complete group into its code leaves the set of places as it is. A rule applies
because a trigger finds a nexus, and that trigger reaches a place the profile declares
(`FiresWhereItReaches`); widening a profile widens every set a trigger reads. With `TypeOK`, which
says that stored metadata and rows have the shape the code validates, the three facts about single rules lift to
every reachable state, and, for `NoRegimeForgotten`, to every step.

**Order.** `OrderProofs` has what the proofs below need of sequences and finite sets. The provers cannot instantiate an operator with an induction hypothesis, so
`SubsetInduction` has a set where an induction principle has an operator: among the subsets that
lack the property wanted, a smallest one would have none smaller, since strict subsets of a finite set are
well-founded. So every finite set of regimes can be listed in an order that compares
(`ListExists`), which `evaluation_order` chooses from, and a set that comes before everything else
fills the beginning of any such list (`BeginningOfList`). By strictness, then applicability, then code is such an
order (`RulesCompare`, `VerdictsCompare`); the regimes of the greatest strictness come
before all others, hence `StrictestComeFirst`.

**Overlay.** `GravestExists` and `GravityIsAnOrder`: each of the escalations, the floor and the lists only
replaces the tier by one at least as grave. `apply_overlay` states the loop over `escalate_if` by its result, the
gravest of the tiers that apply; `LoopEndsThere` shows, by induction over the turns (`Turn`, `TurnKeepsForm`), that the
loop of the code ends with that tier and that score in whatever order the entries come. `SignalsAddUp`
compares the sums of two sets of signals, and the thresholds do the rest of `BaselineGrows`; the gravest of more
candidates is no less grave, which is `OverlayGrows`. `IInv` keeps for every
request and for every row that it has added or committed that tier, score and baseline come from one metadata
and that what is still to classify and what is already added make up what was asked.

**Policies.** `Shapes` types the state, patched and mixed rows included. `TypeOK` also says that key and version are
unique, which no row alone can keep: `Claims` says that of all sessions that hold a flushed row no two will have the same
module after their commit, nor will one have that of another's row (`Merged`), and `FreeFor` is exactly
what keeps this when a session flushes. `RunInv`: checks done and checks to do make up what was selected, and
every check is the outcome of its policy and its answer; the rest is about `evaluate_one`, whose worst
finding is well defined (`WorstIsWorst`). `SyncInv`: while nothing disturbs a synchronisation, the policies listed are still those of the rows,
and what was pushed is loaded, since two of them never share a module (`Unique`). If OPA always
answers, the libraries pushed so far are loaded, thanks to the order that
`LibrariesInOrder` assumes; so by the time of the policies no library is missing, a push is refused only
for text that does not compile, and every policy whose Rego compiles is pushed or still
to be pushed. `HealInv` carries that into a
run that begins afterwards: the policy read is the row, the module loaded is the Rego of the row if that compiles,
and an answer that no other module of the package contributes to is what that Rego says.

**Dashboard.** Versions are only appended (`PastGrows`), so what an assessment has read stays what
the history says of the version it read (`ReadInv`), and a row made of it is true. For the aggregate,
`AtInv`: rows carry times that have passed, and a writer that is about to commit has a time that no row and no
other writer has. Of the checks of a live system one is the latest (`LatestExists`). Rows are only added (`RowsGrow`), so a system for which a verdict without
a check was once recorded stays one (`StaysUnchecked`), and what is shown stays shown (`StaysShown`). `ShownInv`
follows a computation: the systems that the first SELECT finds in scope have a row that says so (`FirstFinds`), and the second,
whatever has been committed in between, finds the check that came with it (`SecondFinds`). With the SELECTs the
other way round, a commit in between would be seen with its verdict and without its check.

**Accounts.** `Claims` and `Fits` keep addresses unique, as in *Policies*; a seed claims several at
once, and `Repairs` and `Additions` say that what it plans does not collide with itself: this is where the
replacements must differ (`Addresses`). `Writes` says what a flushed or planned change may do to a
row by the time it is committed, although another container may have repaired the row since it was read: so every step
`Grows` the table, that is no row goes, is undeleted, changes its label, or changes an address that is not legacy. The
rest follows: a request's actor is a row, or its own insert (`Labelled`), until its entry is filed; its role is
the row's as long as nobody changes the row (`CurrentFor`); and between its two reads and its commit a seed has every live
legacy row in hand (`Heals`), while nobody makes new ones. `NoLostUpdate` rests on `Asked`: what a request has
flushed either inserts a row or writes what some patch says (`Patching`), and a commit writes those columns
only, whatever the row has become since it was read.

The inductive invariants were checked by TLC on the instances of the runs before they were proved.

**Only model-checked:** everything about liveness (`EventuallySettles`, `EveryRequestEnds`, `EventuallyFresh`,
`EventuallySeeded`), which depends on ENABLED and is outside the prover's reach. Every other property of a
passing run is a theorem but `RegimesFollowTheMap`, which is about the spellings of its instance. `DeadlocksArePairs` has no run of its own: with the two locks of a system no
change of the code short of a third lock could break it.

## 5. Not modelled

Listed with reasons in `PROJECT.json`: rendering of PDFs, formats, expiry and hashing of tokens,
migrations, sample systems of the seed, schemas, logging and middleware, the Rego policies (what a package
says of a system is data), the web client (its single refresh for parallel 401s, its polling). The audit trail is written in the transaction
it reports on, so it has the atomicity of what it reports; `Accounts` has who an entry names, and old
and new values are left out. Presigned URLs expire; nothing depends on it. `evaluate_batch` is a
loop over `evaluate_system` in one session.

## 6. Plan

1. The aggregate `summary`, with a second key, and pending reviews with their limit.
2. The web client's polling of evidence packages.
