--------------------------- MODULE PolicyEvaluation ---------------------------
(***************************************************************************)
(* Policies: administrators and the seed write their rows, Rego is pushed  *)
(* to the OPA server with a request or by a synchronisation, and a run     *)
(* evaluates a system against the policies that it selects.                *)
(*                                                                         *)
(* OPA is another process: it may be out of reach at any call, it is no    *)
(* part of a transaction, and a restart leaves it with the files that are  *)
(* mounted next to it.  It keeps a module for each id it is given, <<key,  *)
(* version>>, and refuses Rego that does not compile, on its own or with   *)
(* what is loaded: it then keeps the module that it had.                   *)
(***************************************************************************)
EXTENDS Naturals, Sequences, FiniteSets

CONSTANTS
    Id,                    \* primary keys of policies
    Key, Version,
    Code, Tier,            \* jurisdictions and risk tiers
    Package,
    Library,               \* shared Rego packages without a row
    POLICY_LIBRARY_FILES,  \* their order
    Imports,               \* which of them a library calls
    Rego,                  \* Rego sources
    Mounted,               \* the files with a package that OPA loads on its own,
    MountedLibraries,      \* and the libraries
    Field,                 \* metadata that rules may require
    None

Severity == {"info", "low", "medium", "high", "critical"}
SEVERITY_ORDER == [info |-> 0, low |-> 1, medium |-> 2, high |-> 3, critical |-> 4]
BLOCKING_SEVERITIES == {"critical", "high", "medium"}

\* What a package says of a system: a bare boolean, or a document with allow, if it sets
\* it, and the severities of its violations ("unlisted": none, or one we do not know).
Response == [boolean : BOOLEAN, allow : {"true", "false", "unset"},
             violations : SUBSET (Severity \cup {"unlisted"})]

Rules == [require_true : SUBSET Field, require_false : SUBSET Field,
          require_present : SUBSET Field]

\* A row of policies.  rules: None when the document is empty.
Policy == [key : Key, version : Version, jurisdiction : Code, opa_package : Package,
           rego_code : Rego \cup {None}, rules : Rules \cup {None}, severity : Severity,
           tiers : SUBSET Tier, is_active : BOOLEAN, is_deleted : BOOLEAN]

\* What PolicyUpdate may set.
Patchable == [version |-> Version, opa_package |-> Package, rego_code |-> Rego \cup {None},
              rules |-> Rules \cup {None}, severity |-> Severity, tiers |-> SUBSET Tier,
              is_active |-> BOOLEAN]

CONSTANTS
    Request, Drafts, Patches,  \* administrators' requests, what they create and change
    POLICIES,                  \* the rows of the seed
    Scopes,                    \* what runs are asked for, and what was classified before
    MaxEdits, MaxSyncs, MaxRestarts  \* bounds on what happens in a behaviour

ASSUME RegoIsRead ==
    /\ Rego \subseteq [package : Package, compiles : BOOLEAN, needs : SUBSET Library,
                      says : Response]
    /\ None \notin Rego /\ None \notin Rules /\ None \notin Policy /\ None \notin Response

ASSUME LibrariesInOrder ==
    /\ POLICY_LIBRARY_FILES \in Seq(Library)
    /\ Imports \in [Library -> SUBSET Library]
    /\ MountedLibraries \subseteq Library
    /\ Mounted \subseteq {rego \in Rego : rego.compiles}
    /\ \A library \in Library : \E k \in DOMAIN POLICY_LIBRARY_FILES :
          POLICY_LIBRARY_FILES[k] = library
    /\ \A k \in DOMAIN POLICY_LIBRARY_FILES :
          Imports[POLICY_LIBRARY_FILES[k]] \subseteq {POLICY_LIBRARY_FILES[j] : j \in 1..(k - 1)}

ASSUME Payloads ==
    /\ Drafts \subseteq {p \in Policy : ~p.is_deleted}
    /\ POLICIES \subseteq {p \in Policy : p.is_active /\ ~p.is_deleted}
    /\ \A p, o \in POLICIES : p.key = o.key /\ p.version = o.version => p = o
    /\ \A patch \in Patches :
          /\ DOMAIN patch \subseteq DOMAIN Patchable
          /\ \A c \in DOMAIN patch : patch[c] \in Patchable[c]
    /\ Scopes \subseteq [codes : SUBSET Code, tiers : [Code -> Tier \cup {None}],
                         keys : SUBSET Key, facts : SUBSET Field]
    /\ MaxEdits \in Nat /\ MaxSyncs \in Nat /\ MaxRestarts \in Nat

VARIABLES
    rows,       \* policies, by id; None: not created
    modules,    \* what OPA has loaded, by module id
    libraries,  \* the libraries it has loaded
    request,    \* administrators' requests
    sync,       \* a synchronisation
    run,        \* an evaluation
    count       \* edits, synchronisations and restarts so far

vars == <<rows, modules, libraries, request, sync, run, count>>

-----------------------------------------------------------------------------
(* Outcomes *)

Worst(severities) ==
    CHOOSE s \in severities : \A t \in severities : SEVERITY_ORDER[t] <= SEVERITY_ORDER[s]

normalise_violations(policy, violations) ==
    {IF v \in Severity THEN v ELSE policy.severity : v \in violations}

effective_severity(policy, violations) ==
    IF violations = {} THEN policy.severity ELSE Worst(violations)

Denial(severity) == IF severity \in BLOCKING_SEVERITIES THEN "fail" ELSE "warning"

\* Variant: what the package allows passes, whatever it found.
interpret_allowed(policy, raw) ==
    [result |-> IF raw.allow = "true" THEN "pass" ELSE Denial(policy.severity),
     severity |-> policy.severity, engine |-> "opa"]

\* _interpret_opa.  A bare false is falsy: it is replaced by the empty document, which
\* allows.
interpret_opa(policy, raw) ==
    LET violations == normalise_violations(policy, raw.violations)
        empty == raw.boolean /\ raw.allow = "false"
        allow == IF empty \/ raw.allow = "unset" THEN violations = {} ELSE raw.allow = "true"
        severity == effective_severity(policy, violations)
    IN  [result |-> IF allow /\ violations = {} THEN "pass" ELSE Denial(severity),
         severity |-> severity, engine |-> "opa"]

Unmet(rules, facts) ==
    (rules.require_true \ facts) \cup (rules.require_false \cap facts)
        \cup (rules.require_present \ facts)

evaluate_rules(policy, facts) ==
    [result |-> IF Unmet(policy.rules, facts) = {} THEN "pass" ELSE Denial(policy.severity),
     severity |-> policy.severity, engine |-> "rules"]

\* Variant: what nobody can decide passes.
evaluate_leniently(policy, raw, facts) ==
    IF raw # None THEN interpret_opa(policy, raw)
    ELSE IF policy.rules # None THEN evaluate_rules(policy, facts)
    ELSE [result |-> "pass", severity |-> policy.severity, engine |-> "none"]

\* _evaluate_one; raw is None when OPA raised PolicyEvaluationError.
evaluate_one(policy, raw, facts) ==
    IF raw # None THEN interpret_opa(policy, raw)
    ELSE IF policy.rules # None THEN evaluate_rules(policy, facts)
    ELSE [result |-> "error", severity |-> policy.severity, engine |-> "none"]

\* summarize
Compliant(checks) == \A x \in checks : x.result \notin {"fail", "error"}

-----------------------------------------------------------------------------
(* Requests, synchronisations and runs at rest *)

NoCount == [edits |-> 0, syncs |-> 0, restarts |-> 0]

\* row: the policy as the session has it; written: the columns it changes.
NoRequest == [pc |-> "idle", id |-> None, row |-> None, written |-> {}]

\* next: the next library; todo: policies still to push; pushed: those that it counts as
\* pushed.  For the properties: clean, OPA has answered so far, and no module clashed with
\* another; calm, nobody has changed a policy or OPA since it began.
NoSync == [pc |-> "idle", next |-> 1, todo |-> {}, pushed |-> {}, clean |-> FALSE,
           calm |-> FALSE]

\* todo: selected policies still to evaluate; healed: since before the run, OPA is as a
\* synchronisation left it, and so are the policies.
NoRun == [pc |-> "idle", selected |-> {}, todo |-> {}, facts |-> {}, checks |-> {},
          healed |-> FALSE]

Module(policy) == <<policy.key, policy.version>>
Live(policy) == policy # None /\ ~policy.is_deleted

Unregistered == [i \in Id |-> None]

Init ==
    /\ rows = Unregistered
    /\ modules = [m \in Key \X Version |-> None]
    /\ libraries = MountedLibraries
    /\ request = [r \in Request |-> NoRequest]
    /\ sync = NoSync
    /\ run = NoRun
    /\ count = NoCount

-----------------------------------------------------------------------------
(* OPA *)

\* What else is loaded for a package.
Others(module, package) ==
    {rego \in Mounted \cup {modules[m] : m \in DOMAIN modules \ {module}} :
        rego # None /\ rego.package = package}

\* PUT: OPA refuses Rego that does not compile or calls a library that it has not loaded, and
\* may refuse it when another module of the package declares the same.  A call that times out
\* may have reached it ("unanswered") or not.
Puts(module, rego) ==
    {"unreached"} \cup
    IF ~(rego.compiles /\ rego.needs \subseteq libraries) THEN {"uncompiled"}
    ELSE {"loaded", "unanswered"} \cup {a \in {"clash"} : Others(module, rego.package) # {}}

Load(module, rego, answer) ==
    modules' = IF answer \in {"loaded", "unanswered"} THEN [modules EXCEPT ![module] = rego]
               ELSE modules

\* Somebody changes a policy, or OPA, behind the back of a synchronisation or a run.
Disturb ==
    /\ sync' = [sync EXCEPT !.calm = FALSE]
    /\ run' = [run EXCEPT !.healed = FALSE]

Restart ==
    /\ count.restarts < MaxRestarts
    /\ count' = [count EXCEPT !.restarts = @ + 1]
    /\ modules' = [m \in Key \X Version |-> None]
    /\ libraries' = MountedLibraries
    /\ Disturb
    /\ UNCHANGED <<rows, request>>

-----------------------------------------------------------------------------
(* Administrators *)

BeginEdit ==
    /\ count.edits < MaxEdits
    /\ count' = [count EXCEPT !.edits = @ + 1]

\* The row as it is once r has committed.
Merged(r) ==
    LET q == request[r]
    IN  IF rows[q.id] = None THEN q.row
        ELSE [c \in DOMAIN q.row |-> IF c \in q.written THEN q.row[c] ELSE rows[q.id][c]]

\* Variant: no unique index.
FreeOfLocks(r, id, module) ==
    \A q \in Request \ {r} : request[q].pc = "flushed" => request[q].id # id

\* Row locks and the unique index on key and version: another request that holds the row, or
\* is about to use the module, is waited for; one that has used it wins.
FreeFor(r, id, module) ==
    /\ \A q \in Request \ {r} : request[q].pc = "flushed" =>
          request[q].id # id /\ Module(Merged(q)) # module
    /\ \A i \in Id \ {id} : rows[i] # None => Module(rows[i]) # module

\* Flush, then push what the session holds; the transaction stays open.
FlushAndPush(r, id, row, written) ==
    /\ request' = [request EXCEPT ![r] = [pc |-> "flushed", id |-> id, row |-> row,
                                          written |-> written]]
    /\ IF row.rego_code = None THEN UNCHANGED modules
       ELSE \E answer \in Puts(Module(row), row.rego_code) :
               Load(Module(row), row.rego_code, answer)
    /\ Disturb
    /\ UNCHANGED <<rows, libraries>>

CreatePolicy(r, id, draft) ==
    /\ request[r].pc = "idle" /\ rows[id] = None
    /\ FreeFor(r, id, Module(draft))
    /\ BeginEdit
    /\ FlushAndPush(r, id, draft, DOMAIN draft)

\* update and soft_delete read the policy first, without a lock.
Get(r, id) ==
    /\ request[r].pc = "idle" /\ Live(rows[id])
    /\ BeginEdit
    /\ request' = [request EXCEPT ![r] = [pc |-> "loaded", id |-> id, row |-> rows[id],
                                          written |-> {}]]
    /\ UNCHANGED <<rows, modules, libraries, sync, run>>

\* Only columns that differ from what was read are written; the Rego pushed is that read,
\* unless the patch has one.
UpdatePolicy(r, patch) ==
    LET q == request[r]
        row == [c \in DOMAIN q.row |-> IF c \in DOMAIN patch THEN patch[c] ELSE q.row[c]]
    IN  /\ q.pc = "loaded"
        /\ FreeFor(r, q.id, IF row.version # q.row.version THEN Module(row)
                             ELSE Module(rows[q.id]))
        /\ FlushAndPush(r, q.id, row, {c \in DOMAIN row : row[c] # q.row[c]})
        /\ UNCHANGED count

\* soft_delete; OPA is not told.
DeletePolicy(r) ==
    LET q == request[r]
        row == [q.row EXCEPT !.is_deleted = TRUE, !.is_active = FALSE]
    IN  /\ q.pc = "loaded"
        /\ FreeFor(r, q.id, Module(rows[q.id]))
        /\ request' = [request EXCEPT ![r] =
                          [pc |-> "flushed", id |-> q.id, row |-> row,
                           written |-> {c \in DOMAIN row : row[c] # q.row[c]}]]
        /\ Disturb
        /\ UNCHANGED <<rows, modules, libraries, count>>

Commit(r) ==
    /\ request[r].pc = "flushed"
    /\ rows' = [rows EXCEPT ![request[r].id] = Merged(r)]
    /\ request' = [request EXCEPT ![r] = NoRequest]
    /\ Disturb
    /\ UNCHANGED <<modules, libraries, count>>

\* A conflict, another error or a lost client: rolled back, and OPA keeps what it was given.
Abort(r) ==
    /\ request[r].pc # "idle"
    /\ request' = [request EXCEPT ![r] = NoRequest]
    /\ UNCHANGED <<rows, modules, libraries, sync, run, count>>

\* seed_policies: a policy that exists gets the Rego of the repository, whatever its state.
\* Nothing is pushed.
Seed ==
    /\ BeginEdit
    /\ \A r \in Request : request[r].pc # "flushed"
    /\ \E place \in [POLICIES -> Id] :
          /\ \A p \in POLICIES :
                IF \E i \in Id : rows[i] # None /\ Module(rows[i]) = Module(p)
                THEN rows[place[p]] # None /\ Module(rows[place[p]]) = Module(p)
                ELSE rows[place[p]] = None /\ \A o \in POLICIES \ {p} : place[o] # place[p]
          /\ rows' = [i \in Id |->
                LET mine == {p \in POLICIES : place[p] = i}
                IN  IF mine = {} THEN rows[i]
                    ELSE LET p == CHOOSE p \in mine : TRUE
                         IN  IF rows[i] = None THEN p
                             ELSE [rows[i] EXCEPT !.rego_code = p.rego_code]]
    /\ Disturb
    /\ UNCHANGED <<modules, libraries, request>>

-----------------------------------------------------------------------------
(* Synchronisation: POST /policies/sync-opa, scripts/sync_opa.py *)

SyncStart ==
    /\ sync.pc \in {"idle", "done"}
    /\ count.syncs < MaxSyncs
    /\ count' = [count EXCEPT !.syncs = @ + 1]
    /\ sync' = [NoSync EXCEPT !.pc = "libraries", !.clean = TRUE,
                              !.calm = \A r \in Request : request[r].pc # "flushed"]
    /\ UNCHANGED <<rows, modules, libraries, request, run>>

\* One library; a failure is logged.
PushLibrary(library) ==
    /\ sync.pc = "libraries"
    /\ \E reached, answered \in BOOLEAN :
          /\ sync' = [sync EXCEPT !.next = @ + 1, !.clean = @ /\ reached /\ answered]
          /\ libraries' = IF reached /\ Imports[library] \subseteq libraries
                          THEN libraries \cup {library} ELSE libraries
    /\ UNCHANGED <<rows, modules, request, run, count>>

\* Variant: the last library first.
SyncLibraryBackwards ==
    LET n == Len(POLICY_LIBRARY_FILES)
    IN  sync.next <= n /\ PushLibrary(POLICY_LIBRARY_FILES[n + 1 - sync.next])

SyncLibrary ==
    sync.next <= Len(POLICY_LIBRARY_FILES) /\ PushLibrary(POLICY_LIBRARY_FILES[sync.next])

\* Policies that a synchronisation pushes.
Listed(policy) == Live(policy) /\ policy.is_active /\ policy.rego_code # None

\* list_policies(is_active=True): one SELECT, after the libraries.
SyncList ==
    /\ sync.pc = "libraries" /\ sync.next > Len(POLICY_LIBRARY_FILES)
    /\ sync' = [sync EXCEPT !.pc = "policies",
                            !.todo = {rows[i] : i \in {j \in Id : Listed(rows[j])}}]
    /\ UNCHANGED <<rows, modules, libraries, request, run, count>>

\* What follows a push: it counts when OPA has confirmed it.
Answered(policy, answer) ==
    sync' = [sync EXCEPT !.todo = @ \ {policy},
                         !.pushed = @ \cup {p \in {policy} : answer = "loaded"},
                         !.clean = @ /\ answer \in {"loaded", "uncompiled"}]

\* Variant: what OPA has already is not pushed again.
SyncPushMissing(policy) ==
    /\ sync.pc = "policies" /\ policy \in sync.todo
    /\ \E answer \in Puts(Module(policy), policy.rego_code) :
          /\ IF modules[Module(policy)] # None THEN UNCHANGED modules
             ELSE Load(Module(policy), policy.rego_code, answer)
          /\ Answered(policy, answer)
    /\ UNCHANGED <<rows, libraries, request, run, count>>

\* _safe_push, in the order of the list, which does not matter.
SyncPush(policy) ==
    /\ sync.pc = "policies" /\ policy \in sync.todo
    /\ \E answer \in Puts(Module(policy), policy.rego_code) :
          /\ Load(Module(policy), policy.rego_code, answer)
          /\ Answered(policy, answer)
    /\ UNCHANGED <<rows, libraries, request, run, count>>

SyncEnd ==
    /\ sync.pc = "policies" /\ sync.todo = {}
    /\ sync' = [sync EXCEPT !.pc = "done"]
    /\ UNCHANGED <<rows, modules, libraries, request, run, count>>

-----------------------------------------------------------------------------
(* Evaluation of a system *)

\* applicable_policies
Applies(policy, scope) ==
    /\ Live(policy) /\ policy.is_active
    /\ policy.jurisdiction \in scope.codes
    /\ scope.keys # {} => policy.key \in scope.keys
    /\ policy.tiers # {} => scope.tiers[policy.jurisdiction] \in policy.tiers

\* evaluate_system: the policies are read once.
Select(scope) ==
    LET selected == {i \in Id : Applies(rows[i], scope)}
    IN  /\ run.pc = "idle"
        /\ run' = [pc |-> "evaluate", selected |-> selected,
                   todo |-> {[id |-> i, policy |-> rows[i]] : i \in selected},
                   facts |-> scope.facts, checks |-> {},
                   healed |-> sync.pc = "done" /\ sync.calm /\ sync.clean]
        /\ UNCHANGED <<rows, modules, libraries, request, sync, count>>

\* What a call of OPA may return: None, when it fails or finds nothing, and the document of
\* the package, with the violations of all its modules.
Answers(module, package) ==
    LET mine == {rego \in {modules[module]} : rego # None /\ rego.package = package}
        says == {rego.says : rego \in mine \cup Others(module, package)}
        documents == {d \in says : ~d.boolean}
    IN  {None} \cup (says \ documents) \cup
        {[d EXCEPT !.violations = UNION {e.violations : e \in documents}] : d \in documents}

\* A check.  For the properties, alone: no other module answered for the package.
Record(x, raw) ==
    LET outcome == evaluate_one(x.policy, raw, run.facts)
    IN  [id |-> x.id, policy |-> x.policy, result |-> outcome.result,
         severity |-> outcome.severity, engine |-> outcome.engine, raw |-> raw,
         alone |-> Others(Module(x.policy), x.policy.opa_package) = {}]

Evaluate(x) ==
    /\ run.pc = "evaluate" /\ x \in run.todo
    /\ \E raw \in Answers(Module(x.policy), x.policy.opa_package) :
          run' = [run EXCEPT !.todo = @ \ {x}, !.checks = @ \cup {Record(x, raw)}]
    /\ UNCHANGED <<rows, modules, libraries, request, sync, count>>

\* The checks are committed and summarised.
Finish ==
    /\ run.pc = "evaluate" /\ run.todo = {}
    /\ run' = [run EXCEPT !.pc = "done"]
    /\ UNCHANGED <<rows, modules, libraries, request, sync, count>>

-----------------------------------------------------------------------------

Next ==
    \/ Restart
    \/ Seed
    \/ \E r \in Request :
          \/ \E id \in Id : Get(r, id) \/ \E draft \in Drafts : CreatePolicy(r, id, draft)
          \/ \E patch \in Patches : UpdatePolicy(r, patch)
          \/ DeletePolicy(r)
          \/ Commit(r)
          \/ Abort(r)
    \/ SyncStart \/ SyncLibrary \/ SyncList \/ SyncEnd
    \/ \E policy \in sync.todo : SyncPush(policy)
    \/ \E scope \in Scopes : Select(scope)
    \/ \E x \in run.todo : Evaluate(x)
    \/ Finish

Spec == Init /\ [][Next]_vars

-----------------------------------------------------------------------------
(* Properties *)

\* Shapes; no two policies share a key and a version, whatever requests overlap.
TypeOK ==
    /\ rows \in [Id -> Policy \cup {None}]
    /\ \A i, j \in Id : rows[i] # None /\ rows[j] # None /\ Module(rows[i]) = Module(rows[j])
                           => i = j
    /\ modules \in [Key \X Version -> Rego \cup {None}]
    /\ libraries \subseteq Library
    /\ \A r \in Request : request[r].pc # "idle" => request[r].id \in Id /\ request[r].row \in Policy
    /\ sync.todo \subseteq Policy
    /\ \A x \in run.todo : x.id \in Id /\ x.policy \in Policy

\* What a synchronisation reports can be trusted, whatever failed before or fails meanwhile
\* (pushes that were lost, rolled back or overwritten by an older Rego, a restart of OPA), as
\* long as nobody changes a policy or OPA behind its back: OPA has the Rego of the row for
\* every policy that it counts as pushed; and if OPA always answers and no module clashes
\* with another of its package, it counts every active policy whose Rego compiles.  Of one
\* whose Rego does not, OPA keeps what it had: that is only logged.
SyncHeals ==
    sync.pc = "done" /\ sync.calm =>
        /\ \A p \in sync.pushed : modules[Module(p)] = p.rego_code
        /\ sync.clean =>
              sync.pushed = {rows[i] : i \in {j \in Id : /\ Listed(rows[j])
                                                         /\ rows[j].rego_code.compiles}}

\* "Policy checks never silently fail": a run has one check for each policy it selected, it
\* says who decided, a policy that nobody could decide is an error, and then the system is
\* not compliant.
NeverSilent ==
    run.pc = "done" =>
        /\ {x.id : x \in run.checks} = run.selected
        /\ \A x, y \in run.checks : x.id = y.id => x = y
        /\ \A x \in run.checks :
              /\ x.engine = "opa" <=> x.raw # None
              /\ x.engine = "rules" => x.policy.rules # None
              /\ x.result = "error" <=> x.raw = None /\ x.policy.rules = None
        /\ Compliant(run.checks) => \A x \in run.checks : x.raw # None \/ x.policy.rules # None

\* "Severity is taken from the finding, not the policy", and "blocking severities make a
\* denial a fail": a document of OPA that denies is never recorded as a pass, and fails
\* exactly if the worst it raises blocks; the rules deny exactly if one is not met.
FindingsDecide ==
    \A x \in run.checks :
        LET found == normalise_violations(x.policy, x.raw.violations)
            denied == x.raw.allow = "false" \/ found # {}
        IN  /\ x.engine = "opa" /\ ~x.raw.boolean =>
                  /\ x.result = "pass" <=> ~denied
                  /\ \A s \in found : SEVERITY_ORDER[s] <= SEVERITY_ORDER[x.severity]
                  /\ found # {} => x.severity \in found
                  /\ denied => (x.result = "fail" <=> x.severity \in BLOCKING_SEVERITIES)
            /\ x.engine = "rules" =>
                  /\ x.result = "pass" <=> Unmet(x.policy.rules, run.facts) = {}
                  /\ x.result # "pass" =>
                        (x.result = "fail" <=> x.policy.severity \in BLOCKING_SEVERITIES)

\* After a synchronisation like that OPA decides by the Rego of the row, not by one that was
\* pushed and rolled back or has been replaced, as long as that Rego compiles and no other
\* module answers for the package.  A policy whose Rego does not compile is decided by older
\* Rego of its id, or by its rules.
HealedRunsAreCurrent ==
    run.healed => \A x \in run.checks :
        x.alone /\ x.engine = "opa" /\ x.policy.rego_code # None /\ x.policy.rego_code.compiles =>
            x.raw = x.policy.rego_code.says

=============================================================================
