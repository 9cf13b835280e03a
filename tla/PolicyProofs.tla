----------------------------- MODULE PolicyProofs -----------------------------
(***************************************************************************)
(* For every set of policies, requests, libraries and Rego: the key and    *)
(* version of a policy stay unique whatever requests overlap, a run never  *)
(* fails silently, findings decide, and a synchronisation heals OPA.       *)
(***************************************************************************)
EXTENDS PolicyEvaluation, TLAPS

Column == {"key", "version", "jurisdiction", "opa_package", "rego_code", "rules", "severity",
           "tiers", "is_active", "is_deleted"}

-----------------------------------------------------------------------------
(* Shapes *)

RowTypes == rows \in [Id -> Policy \cup {None}]

OpaTypes ==
    /\ modules \in [Key \X Version -> Rego \cup {None}]
    /\ libraries \subseteq Library

RequestTypes ==
    /\ request \in [Request -> [pc : {"idle", "loaded", "flushed"}, id : Id \cup {None},
                                row : Policy \cup {None}, written : SUBSET Column]]
    /\ \A r \in Request : request[r].pc # "idle" =>
          /\ request[r].id \in Id
          /\ request[r].row \in Policy

SyncTypes ==
    sync \in [pc : {"idle", "libraries", "policies", "done"}, next : Nat \ {0},
              todo : SUBSET {p \in Policy : p.rego_code # None},
              pushed : SUBSET {p \in Policy : p.rego_code # None},
              clean : BOOLEAN, calm : BOOLEAN]

Check == [id : Id, policy : Policy, raw : Response \cup {None},
          result : {"pass", "fail", "warning", "error"}, severity : Severity,
          engine : {"opa", "rules", "none"}, alone : BOOLEAN]

RunTypes ==
    run \in [pc : {"idle", "evaluate", "done"}, selected : SUBSET Id,
             todo : SUBSET [id : Id, policy : Policy], facts : SUBSET Field,
             checks : SUBSET Check, healed : BOOLEAN]

Shapes == RowTypes /\ OpaTypes /\ RequestTypes /\ SyncTypes /\ RunTypes

\* Columns of two rows, mixed, are a row.
LEMMA MixIsPolicy ==
    ASSUME NEW row \in Policy, NEW old \in Policy, NEW written
    PROVE  [c \in DOMAIN row |-> IF c \in written THEN row[c] ELSE old[c]] \in Policy
BY DEF Policy

\* A row that is patched is a row.
LEMMA PatchIsPolicy ==
    ASSUME NEW row \in Policy, NEW patch \in Patches
    PROVE  [c \in DOMAIN row |-> IF c \in DOMAIN patch THEN patch[c] ELSE row[c]] \in Policy
<1>1. DOMAIN patch \subseteq DOMAIN Patchable /\ \A c \in DOMAIN patch : patch[c] \in Patchable[c]
    BY Payloads
<1> QED BY <1>1 DEF Policy, Patchable

LEMMA ColumnsOfPolicy ==
    ASSUME NEW row \in Policy
    PROVE  DOMAIN row = Column
BY DEF Policy, Column

LEMMA NoneIsNoPolicy == None \notin Policy /\ None \notin Rego /\ None \notin Response
BY RegoIsRead

LEMMA MergedIsPolicy ==
    ASSUME RowTypes, RequestTypes, NEW r \in Request, request[r].pc = "flushed"
    PROVE  Merged(r) \in Policy
<1>1. request[r].id \in Id /\ request[r].row \in Policy
    BY DEF RequestTypes
<1>2. CASE rows[request[r].id] = None
    BY <1>1, <1>2 DEF Merged
<1>3. CASE rows[request[r].id] # None
    <2>1. rows[request[r].id] \in Policy
        BY <1>1, <1>3 DEF RowTypes
    <2> QED BY <1>1, <1>3, <2>1, MixIsPolicy DEF Merged
<1> QED BY <1>2, <1>3

LEMMA ModuleInDomain ==
    ASSUME NEW p \in Policy
    PROVE  Module(p) \in Key \X Version /\ p.rego_code \in Rego \cup {None}
BY DEF Policy, Module

LEMMA LoadTypes ==
    ASSUME OpaTypes, NEW p \in Policy, p.rego_code # None, NEW answer,
           Load(Module(p), p.rego_code, answer)
    PROVE  modules' \in [Key \X Version -> Rego \cup {None}]
BY ModuleInDomain DEF Load, OpaTypes

LEMMA FlushTypes ==
    ASSUME Shapes, NEW r \in Request, NEW id \in Id, NEW row \in Policy, NEW written,
           written \subseteq Column, FlushAndPush(r, id, row, written)
    PROVE  RowTypes' /\ OpaTypes' /\ RequestTypes' /\ SyncTypes'
<1>1. RowTypes'
    BY DEF Shapes, RowTypes, FlushAndPush
<1>2. OpaTypes'
    <2>1. CASE row.rego_code = None
        BY <2>1 DEF Shapes, OpaTypes, FlushAndPush
    <2>2. CASE row.rego_code # None
        <3>1. PICK answer : Load(Module(row), row.rego_code, answer)
            BY <2>2 DEF FlushAndPush
        <3> QED BY <2>2, <3>1, LoadTypes DEF Shapes, OpaTypes, FlushAndPush
    <2> QED BY <2>1, <2>2
<1>3. RequestTypes'
    BY DEF Shapes, RequestTypes, FlushAndPush
<1>4. SyncTypes'
    BY DEF Shapes, SyncTypes, FlushAndPush, Disturb
<1> QED BY <1>1, <1>2, <1>3, <1>4

LEMMA DisturbTypes ==
    ASSUME Shapes, Disturb
    PROVE  SyncTypes' /\ RunTypes'
BY DEF Shapes, SyncTypes, RunTypes, Disturb

-----------------------------------------------------------------------------
(* Outcomes *)

LEMMA OrderIsNatural ==
    /\ SEVERITY_ORDER["info"] = 0 /\ SEVERITY_ORDER["low"] = 1 /\ SEVERITY_ORDER["medium"] = 2
    /\ SEVERITY_ORDER["high"] = 3 /\ SEVERITY_ORDER["critical"] = 4
BY DEF SEVERITY_ORDER

\* Of several severities one is the worst.
LEMMA WorstIsWorst ==
    ASSUME NEW found \in SUBSET Severity, found # {}
    PROVE  /\ Worst(found) \in found
           /\ \A t \in found : SEVERITY_ORDER[t] <= SEVERITY_ORDER[Worst(found)]
<1>1. \E s \in found : \A t \in found : SEVERITY_ORDER[t] <= SEVERITY_ORDER[s]
    <2>1. CASE "critical" \in found
        BY <2>1, OrderIsNatural DEF Severity
    <2>2. CASE "critical" \notin found /\ "high" \in found
        BY <2>2, OrderIsNatural DEF Severity
    <2>3. CASE found \subseteq {"info", "low", "medium"} /\ "medium" \in found
        BY <2>3, OrderIsNatural DEF Severity
    <2>4. CASE found \subseteq {"info", "low"} /\ "low" \in found
        BY <2>4, OrderIsNatural DEF Severity
    <2>5. CASE found \subseteq {"info"} /\ "info" \in found
        BY <2>5, OrderIsNatural DEF Severity
    <2>6. found \subseteq {"info", "low", "medium", "high", "critical"}
        BY DEF Severity
    <2> QED BY <2>1, <2>2, <2>3, <2>4, <2>5, <2>6
<1>2. PICK s \in found : \A t \in found : SEVERITY_ORDER[t] <= SEVERITY_ORDER[s]
    BY <1>1
<1> DEFINE IsWorst(v) == v \in found /\ \A t \in found : SEVERITY_ORDER[t] <= SEVERITY_ORDER[v]
<1>3. IsWorst(CHOOSE w : IsWorst(w))
    BY <1>2
<1>4. Worst(found) = CHOOSE w : IsWorst(w)
    BY Zenon DEF Worst
<1> QED BY <1>3, <1>4

LEMMA FoundIsKnown ==
    ASSUME NEW policy \in Policy, NEW raw \in Response
    PROVE  normalise_violations(policy, raw.violations) \subseteq Severity
BY DEF normalise_violations, Policy, Response

LEMMA EffectiveIsKnown ==
    ASSUME NEW policy \in Policy, NEW found \in SUBSET Severity
    PROVE  effective_severity(policy, found) \in Severity
BY WorstIsWorst DEF effective_severity, Policy

LEMMA DenialFails ==
    ASSUME NEW severity
    PROVE  /\ Denial(severity) \in {"fail", "warning"}
           /\ Denial(severity) = "fail" <=> severity \in BLOCKING_SEVERITIES
BY DEF Denial

\* What OPA decides: the findings, or a bare boolean.
LEMMA OpaOutcome ==
    ASSUME NEW policy \in Policy, NEW raw \in Response
    PROVE  LET found == normalise_violations(policy, raw.violations)
               outcome == interpret_opa(policy, raw)
           IN  /\ outcome.engine = "opa"
               /\ outcome.severity = effective_severity(policy, found)
               /\ outcome.severity \in Severity
               /\ outcome.result \in {"pass", "fail", "warning"}
               /\ ~raw.boolean =>
                     /\ outcome.result = "pass" <=> ~(raw.allow = "false" \/ found # {})
                     /\ outcome.result # "pass" =>
                           (outcome.result = "fail" <=> outcome.severity \in BLOCKING_SEVERITIES)
<1> DEFINE found == normalise_violations(policy, raw.violations)
           severity == effective_severity(policy, found)
           empty == raw.boolean /\ raw.allow = "false"
           allow == IF empty \/ raw.allow = "unset" THEN found = {} ELSE raw.allow = "true"
<1>1. severity \in Severity
    BY FoundIsKnown, EffectiveIsKnown
<1>2. interpret_opa(policy, raw) =
          [result |-> IF allow /\ found = {} THEN "pass" ELSE Denial(severity),
           severity |-> severity, engine |-> "opa"]
    BY DEF interpret_opa
<1>3. raw.allow \in {"true", "false", "unset"}
    BY DEF Response
<1>4. Denial(severity) \in {"fail", "warning"}
      /\ (Denial(severity) = "fail" <=> severity \in BLOCKING_SEVERITIES)
    BY DenialFails
<1> HIDE DEF found, severity
<1> QED BY <1>1, <1>2, <1>3, <1>4 DEF found, severity

\* What the rules decide.
LEMMA RulesOutcome ==
    ASSUME NEW policy \in Policy, NEW facts
    PROVE  LET outcome == evaluate_rules(policy, facts)
           IN  /\ outcome.engine = "rules" /\ outcome.severity = policy.severity
               /\ outcome.severity \in Severity
               /\ outcome.result \in {"pass", "fail", "warning"}
               /\ outcome.result = "pass" <=> Unmet(policy.rules, facts) = {}
               /\ outcome.result # "pass" =>
                     (outcome.result = "fail" <=> policy.severity \in BLOCKING_SEVERITIES)
<1>1. policy.severity \in Severity
    BY DEF Policy
<1> QED BY <1>1, DenialFails DEF evaluate_rules

LEMMA OutcomeTypes ==
    ASSUME NEW policy \in Policy, NEW raw \in Response \cup {None}, NEW facts
    PROVE  LET outcome == evaluate_one(policy, raw, facts)
           IN  /\ outcome.result \in {"pass", "fail", "warning", "error"}
               /\ outcome.severity \in Severity
               /\ outcome.engine \in {"opa", "rules", "none"}
<1>1. CASE raw # None
    BY <1>1, OpaOutcome DEF evaluate_one
<1>2. CASE raw = None /\ policy.rules # None
    BY <1>2, RulesOutcome DEF evaluate_one
<1>3. CASE raw = None /\ policy.rules = None
    BY <1>3 DEF evaluate_one, Policy
<1> QED BY <1>1, <1>2, <1>3

LEMMA AnswerTypes ==
    ASSUME Shapes, NEW module \in Key \X Version, NEW package
    PROVE  Answers(module, package) \subseteq Response \cup {None}
<1> DEFINE mine == {rego \in {modules[module]} : rego # None /\ rego.package = package}
           says == {rego.says : rego \in mine \cup Others(module, package)}
           documents == {d \in says : ~d.boolean}
<1>1. mine \cup Others(module, package) \subseteq Rego
    BY RegoIsRead, LibrariesInOrder DEF Others, Shapes, OpaTypes
<1>2. says \subseteq Response
    BY <1>1, RegoIsRead
<1>3. ASSUME NEW d \in documents
      PROVE  [d EXCEPT !.violations = UNION {e.violations : e \in documents}] \in Response
    <2>1. UNION {e.violations : e \in documents} \subseteq Severity \cup {"unlisted"}
        BY <1>2 DEF Response
    <2>2. d \in Response
        BY <1>2
    <2> HIDE DEF documents
    <2> QED BY <2>1, <2>2 DEF Response
<1> HIDE DEF says
<1> QED BY <1>2, <1>3 DEF Answers, says

-----------------------------------------------------------------------------
(* Every step keeps the shapes *)

LEMMA ShapesInit == Init => Shapes
<1> SUFFICES ASSUME Init PROVE Shapes
    OBVIOUS
<1>1. RowTypes
    BY DEF Init, Unregistered, RowTypes
<1>2. OpaTypes
    BY LibrariesInOrder DEF Init, OpaTypes
<1>3. RequestTypes
    BY DEF Init, NoRequest, RequestTypes
<1>4. SyncTypes
    BY DEF Init, NoSync, SyncTypes
<1>5. RunTypes
    BY DEF Init, NoRun, RunTypes
<1> QED BY <1>1, <1>2, <1>3, <1>4, <1>5 DEF Shapes

LEMMA SeedTypes ==
    ASSUME Shapes, Seed
    PROVE  RowTypes'
<1>1. PICK place \in [POLICIES -> Id] :
          rows' = [i \in Id |->
              LET mine == {p \in POLICIES : place[p] = i}
              IN  IF mine = {} THEN rows[i]
                  ELSE LET p == CHOOSE p \in mine : TRUE
                       IN  IF rows[i] = None THEN p
                           ELSE [rows[i] EXCEPT !.rego_code = p.rego_code]]
    BY DEF Seed
<1>2. ASSUME NEW i \in Id, NEW p \in POLICIES
      PROVE  (IF rows[i] = None THEN p ELSE [rows[i] EXCEPT !.rego_code = p.rego_code])
                 \in Policy \cup {None}
    <2>1. p \in Policy
        BY Payloads
    <2>2. CASE rows[i] # None
        <3>1. rows[i] \in Policy
            BY <2>2 DEF Shapes, RowTypes
        <3> QED BY <2>1, <2>2, <3>1 DEF Policy
    <2> QED BY <2>1, <2>2
<1>3. ASSUME NEW i \in Id
      PROVE  rows'[i] \in Policy \cup {None}
    <2> DEFINE mine == {p \in POLICIES : place[p] = i}
               chosen == CHOOSE p \in mine : TRUE
    <2>1. rows'[i] = IF mine = {} THEN rows[i]
                     ELSE IF rows[i] = None THEN chosen
                          ELSE [rows[i] EXCEPT !.rego_code = chosen.rego_code]
        BY <1>1
    <2>2. mine # {} => chosen \in POLICIES
        OBVIOUS
    <2>3. rows[i] \in Policy \cup {None}
        BY DEF Shapes, RowTypes
    <2> HIDE DEF mine, chosen
    <2> QED BY <2>1, <2>2, <2>3, <1>2
<1>4. rows' = [i \in Id |-> rows'[i]]
    BY <1>1
<1> QED BY <1>3, <1>4 DEF RowTypes

LEMMA AdministratorTypes ==
    ASSUME Shapes, NEW r \in Request,
           \/ \E id \in Id : Get(r, id) \/ \E draft \in Drafts : CreatePolicy(r, id, draft)
           \/ \E patch \in Patches : UpdatePolicy(r, patch)
           \/ DeletePolicy(r)
           \/ Commit(r)
           \/ Abort(r)
    PROVE  RowTypes' /\ OpaTypes' /\ RequestTypes' /\ SyncTypes'
<1>1. ASSUME NEW id \in Id, Get(r, id)
      PROVE  RowTypes' /\ OpaTypes' /\ RequestTypes' /\ SyncTypes'
    <2>1. rows[id] \in Policy
        BY <1>1 DEF Get, Live, Shapes, RowTypes
    <2> QED BY <1>1, <2>1
        DEF Get, Shapes, RowTypes, OpaTypes, RequestTypes, SyncTypes
<1>2. ASSUME NEW id \in Id, NEW draft \in Drafts, CreatePolicy(r, id, draft)
      PROVE  RowTypes' /\ OpaTypes' /\ RequestTypes' /\ SyncTypes'
    <2>1. draft \in Policy
        BY Payloads
    <2>2. DOMAIN draft \subseteq Column
        BY <2>1, ColumnsOfPolicy
    <2>3. FlushAndPush(r, id, draft, DOMAIN draft)
        BY <1>2 DEF CreatePolicy
    <2> QED BY <2>1, <2>2, <2>3, FlushTypes
<1>3. ASSUME NEW patch \in Patches, UpdatePolicy(r, patch)
      PROVE  RowTypes' /\ OpaTypes' /\ RequestTypes' /\ SyncTypes'
    <2> DEFINE q == request[r]
               row == [c \in DOMAIN q.row |-> IF c \in DOMAIN patch THEN patch[c] ELSE q.row[c]]
               written == {c \in DOMAIN row : row[c] # q.row[c]}
    <2>1. q.id \in Id /\ q.row \in Policy
        BY <1>3 DEF UpdatePolicy, Shapes, RequestTypes
    <2>2. row \in Policy
        BY <2>1, PatchIsPolicy
    <2>3. written \subseteq Column
        BY <2>1, ColumnsOfPolicy
    <2>4. FlushAndPush(r, q.id, row, written)
        BY <1>3 DEF UpdatePolicy
    <2> HIDE DEF row, written, q
    <2> QED BY <2>1, <2>2, <2>3, <2>4, FlushTypes
<1>4. CASE DeletePolicy(r)
    <2> DEFINE row == [request[r].row EXCEPT !.is_deleted = TRUE, !.is_active = FALSE]
               written == {c \in DOMAIN row : row[c] # request[r].row[c]}
    <2>1. request[r].id \in Id /\ request[r].row \in Policy
        BY <1>4 DEF DeletePolicy, Shapes, RequestTypes
    <2>2. row \in Policy
        BY <2>1 DEF Policy
    <2>3. written \subseteq Column
        BY <2>1, ColumnsOfPolicy
    <2>4. request' = [request EXCEPT ![r] =
                         [pc |-> "flushed", id |-> request[r].id, row |-> row, written |-> written]]
        BY <1>4 DEF DeletePolicy
    <2> HIDE DEF row, written
    <2>5. RequestTypes'
        BY <2>1, <2>2, <2>3, <2>4 DEF Shapes, RequestTypes
    <2> QED BY <1>4, <2>5, DisturbTypes DEF DeletePolicy, Shapes, RowTypes, OpaTypes
<1>5. CASE Commit(r)
    <2>1. Merged(r) \in Policy
        BY <1>5, MergedIsPolicy DEF Commit, Shapes
    <2>2. RowTypes'
        BY <1>5, <2>1 DEF Commit, Shapes, RowTypes
    <2>3. RequestTypes'
        BY <1>5 DEF Commit, NoRequest, Shapes, RequestTypes
    <2> QED BY <1>5, <2>2, <2>3, DisturbTypes DEF Commit, Shapes, OpaTypes
<1>6. CASE Abort(r)
    BY <1>6 DEF Abort, NoRequest, Shapes, RowTypes, OpaTypes, RequestTypes, SyncTypes
<1> QED BY <1>1, <1>2, <1>3, <1>4, <1>5, <1>6

LEMMA SyncStepTypes ==
    ASSUME Shapes,
           \/ SyncStart \/ SyncLibrary \/ SyncList \/ SyncEnd
           \/ \E policy \in sync.todo : SyncPush(policy)
    PROVE  OpaTypes' /\ SyncTypes'
<1>1. CASE SyncStart
    <2> DEFINE calm == \A r \in Request : request[r].pc # "flushed"
    <2>1. calm \in BOOLEAN
        OBVIOUS
    <2>2. sync' = [pc |-> "libraries", next |-> 1, todo |-> {}, pushed |-> {}, clean |-> TRUE,
                  calm |-> calm]
        BY <1>1 DEF SyncStart, NoSync
    <2> HIDE DEF calm
    <2>3. SyncTypes'
        BY <2>1, <2>2 DEF SyncTypes
    <2> QED BY <1>1, <2>3 DEF SyncStart, Shapes, OpaTypes
<1>2. CASE SyncLibrary
    <2>1. sync.next \in 1..Len(POLICY_LIBRARY_FILES)
        BY <1>2, LibrariesInOrder DEF SyncLibrary, Shapes, SyncTypes
    <2> DEFINE library == POLICY_LIBRARY_FILES[sync.next]
    <2>2. PICK reached \in BOOLEAN, answered \in BOOLEAN :
              /\ sync' = [sync EXCEPT !.next = @ + 1, !.clean = @ /\ reached /\ answered]
              /\ libraries' = IF reached /\ Imports[library] \subseteq libraries
                              THEN libraries \cup {library} ELSE libraries
        BY <1>2 DEF SyncLibrary, PushLibrary
    <2>3. modules' = modules
        BY <1>2 DEF SyncLibrary, PushLibrary
    <2>4. SyncTypes'
        <3>1. sync.next + 1 \in Nat \ {0}
            BY <2>1
        <3>2. (sync.clean /\ reached /\ answered) \in BOOLEAN
            BY DEF Shapes, SyncTypes
        <3> DEFINE next == sync.next + 1
                   clean == sync.clean /\ reached /\ answered
        <3>3. sync' = [sync EXCEPT !.next = next, !.clean = clean]
            BY <2>2
        <3> HIDE DEF next, clean
        <3> QED BY <3>1, <3>2, <3>3 DEF Shapes, SyncTypes, next, clean
    <2>6. library \in Library
        BY <2>1, LibrariesInOrder
    <2> HIDE DEF library
    <2> QED BY <2>2, <2>3, <2>4, <2>6 DEF Shapes, OpaTypes
<1>3. CASE SyncList
    <2> DEFINE listed == {rows[i] : i \in {j \in Id : Listed(rows[j])}}
    <2>1. listed \subseteq {p \in Policy : p.rego_code # None}
        BY DEF Listed, Live, Shapes, RowTypes
    <2>2. sync' = [sync EXCEPT !.pc = "policies", !.todo = listed]
        BY <1>3 DEF SyncList
    <2> HIDE DEF listed
    <2> QED BY <1>3, <2>1, <2>2 DEF SyncList, Shapes, OpaTypes, SyncTypes
<1>4. CASE SyncEnd
    BY <1>4 DEF SyncEnd, Shapes, OpaTypes, SyncTypes
<1>5. ASSUME NEW policy \in sync.todo, SyncPush(policy)
      PROVE  OpaTypes' /\ SyncTypes'
    <2>1. PICK answer : Load(Module(policy), policy.rego_code, answer) /\ Answered(policy, answer)
        BY <1>5 DEF SyncPush
    <2>2. policy \in Policy /\ policy.rego_code # None
        BY DEF Shapes, SyncTypes
    <2>3. modules' \in [Key \X Version -> Rego \cup {None}]
        BY <2>1, <2>2, LoadTypes DEF Shapes
    <2>4. SyncTypes'
        <3> DEFINE todo == sync.todo \ {policy}
                   pushed == sync.pushed \cup {p \in {policy} : answer = "loaded"}
                   clean == sync.clean /\ answer \in {"loaded", "uncompiled"}
        <3>1. sync' = [sync EXCEPT !.todo = todo, !.pushed = pushed, !.clean = clean]
            BY <2>1 DEF Answered
        <3>2. /\ todo \subseteq {p \in Policy : p.rego_code # None}
              /\ pushed \subseteq {p \in Policy : p.rego_code # None}
              /\ clean \in BOOLEAN
            BY <2>2 DEF Shapes, SyncTypes
        <3> HIDE DEF todo, pushed, clean
        <3> QED BY <3>1, <3>2 DEF Shapes, SyncTypes
    <2> QED BY <1>5, <2>3, <2>4 DEF SyncPush, Shapes, OpaTypes
<1> QED BY <1>1, <1>2, <1>3, <1>4, <1>5

LEMMA RunStepTypes ==
    ASSUME Shapes,
           \/ \E scope \in Scopes : Select(scope)
           \/ \E x \in run.todo : Evaluate(x)
           \/ Finish
    PROVE  RunTypes'
<1>1. ASSUME NEW scope \in Scopes, Select(scope)
      PROVE  RunTypes'
    <2> DEFINE selected == {i \in Id : Applies(rows[i], scope)}
               todo == {[id |-> i, policy |-> rows[i]] : i \in selected}
               healed == sync.pc = "done" /\ sync.calm /\ sync.clean
    <2>1. run' = [pc |-> "evaluate", selected |-> selected, todo |-> todo,
                  facts |-> scope.facts, checks |-> {}, healed |-> healed]
        BY <1>1 DEF Select
    <2>2. scope.facts \subseteq Field
        BY Payloads
    <2>3. selected \subseteq Id /\ \A i \in selected : rows[i] \in Policy
        BY DEF Applies, Live, Shapes, RowTypes
    <2>4. todo \subseteq [id : Id, policy : Policy]
        BY <2>3
    <2>5. healed \in BOOLEAN
        BY DEF Shapes, SyncTypes
    <2> HIDE DEF selected, todo, healed
    <2> QED BY <2>1, <2>2, <2>3, <2>4, <2>5 DEF RunTypes
<1>2. ASSUME NEW x \in run.todo, Evaluate(x)
      PROVE  RunTypes'
    <2>1. x \in [id : Id, policy : Policy]
        BY DEF Shapes, RunTypes
    <2>2. PICK raw \in Answers(Module(x.policy), x.policy.opa_package) :
              run' = [run EXCEPT !.todo = @ \ {x}, !.checks = @ \cup {Record(x, raw)}]
        BY <1>2 DEF Evaluate
    <2>3. raw \in Response \cup {None}
        BY <2>1, <2>2, AnswerTypes, ModuleInDomain
    <2> DEFINE outcome == evaluate_one(x.policy, raw, run.facts)
               alone == Others(Module(x.policy), x.policy.opa_package) = {}
    <2>4. /\ outcome.result \in {"pass", "fail", "warning", "error"}
          /\ outcome.severity \in Severity
          /\ outcome.engine \in {"opa", "rules", "none"}
        BY <2>1, <2>3, OutcomeTypes
    <2>5. Record(x, raw) = [id |-> x.id, policy |-> x.policy, result |-> outcome.result,
                            severity |-> outcome.severity, engine |-> outcome.engine,
                            raw |-> raw, alone |-> alone]
        BY DEF Record
    <2> HIDE DEF outcome, alone
    <2>6. alone \in BOOLEAN
        BY DEF alone
    <2>7. Record(x, raw) \in Check
        BY <2>1, <2>3, <2>4, <2>5, <2>6 DEF Check
    <2> QED BY <2>2, <2>7 DEF Shapes, RunTypes
<1>3. CASE Finish
    BY <1>3 DEF Finish, Shapes, RunTypes
<1> QED BY <1>1, <1>2, <1>3

LEMMA ShapesNext == Shapes /\ [Next]_vars => Shapes'
<1> SUFFICES ASSUME Shapes, [Next]_vars PROVE Shapes'
    OBVIOUS
<1>1. CASE Restart
    <2>1. OpaTypes'
        BY <1>1, LibrariesInOrder DEF Restart, OpaTypes
    <2> QED BY <1>1, <2>1, DisturbTypes DEF Restart, Shapes, RowTypes, RequestTypes
<1>2. CASE Seed
    BY <1>2, SeedTypes, DisturbTypes DEF Seed, Shapes, OpaTypes, RequestTypes
<1>3. ASSUME NEW r \in Request,
             \/ \E id \in Id : Get(r, id) \/ \E draft \in Drafts : CreatePolicy(r, id, draft)
             \/ \E patch \in Patches : UpdatePolicy(r, patch)
             \/ DeletePolicy(r)
             \/ Commit(r)
             \/ Abort(r)
      PROVE  Shapes'
    <2>1. RowTypes' /\ OpaTypes' /\ RequestTypes' /\ SyncTypes'
        BY <1>3, AdministratorTypes
    <2>2. RunTypes'
        BY <1>3, DisturbTypes
        DEF Get, CreatePolicy, UpdatePolicy, DeletePolicy, Commit, Abort, FlushAndPush, Shapes, RunTypes
    <2> QED BY <2>1, <2>2 DEF Shapes
<1>4. CASE \/ SyncStart \/ SyncLibrary \/ SyncList \/ SyncEnd
           \/ \E policy \in sync.todo : SyncPush(policy)
    <2>1. UNCHANGED <<rows, request, run>>
        BY <1>4 DEF SyncStart, SyncLibrary, PushLibrary, SyncList, SyncEnd, SyncPush
    <2> QED BY <1>4, <2>1, SyncStepTypes DEF Shapes, RowTypes, RequestTypes, RunTypes
<1>5. CASE \/ \E scope \in Scopes : Select(scope)
           \/ \E x \in run.todo : Evaluate(x)
           \/ Finish
    <2>1. UNCHANGED <<rows, modules, libraries, request, sync>>
        BY <1>5 DEF Select, Evaluate, Finish
    <2> QED BY <1>5, <2>1, RunStepTypes
        DEF Shapes, RowTypes, OpaTypes, RequestTypes, SyncTypes
<1>6. CASE UNCHANGED vars
    BY <1>6 DEF vars, Shapes, RowTypes, OpaTypes, RequestTypes, SyncTypes, RunTypes
<1> QED BY <1>1, <1>2, <1>3, <1>4, <1>5, <1>6 DEF Next

-----------------------------------------------------------------------------
(* Key and version stay unique *)

Unique ==
    \A i, j \in Id : rows[i] # None /\ rows[j] # None /\ Module(rows[i]) = Module(rows[j]) => i = j

\* A loaded request has read a row, and a key never changes; what a request has flushed is
\* nobody else's.
Claims ==
    /\ \A r \in Request : request[r].pc = "loaded" => rows[request[r].id] # None
    /\ \A r \in Request : request[r].pc # "idle" /\ rows[request[r].id] # None =>
          request[r].row.key = rows[request[r].id].key
    /\ \A r \in Request : request[r].pc = "flushed" =>
          \A i \in Id \ {request[r].id} : rows[i] # None => Module(rows[i]) # Module(Merged(r))
    /\ \A r, q \in Request : request[r].pc = "flushed" /\ request[q].pc = "flushed" /\ r # q =>
          request[r].id # request[q].id /\ Module(Merged(r)) # Module(Merged(q))

LEMMA SameMerge ==
    ASSUME NEW r, request'[r] = request[r], rows'[request[r].id] = rows[request[r].id]
    PROVE  Merged(r)' = Merged(r)
BY DEF Merged

LEMMA FlushClaims ==
    ASSUME Shapes, Claims, NEW r \in Request, NEW id \in Id, NEW row \in Policy, NEW written,
           NEW module,
           request' = [request EXCEPT ![r] = [pc |-> "flushed", id |-> id, row |-> row,
                                              written |-> written]],
           rows' = rows,
           rows[id] # None => row.key = rows[id].key,
           module = IF rows[id] = None \/ "version" \in written THEN Module(row)
                    ELSE Module(rows[id]),
           FreeFor(r, id, module)
    PROVE  Claims'
<1>1. Module(Merged(r)') = module
    <2>1. request'[r].id = id /\ request'[r].row = row /\ request'[r].written = written
        BY DEF Shapes, RequestTypes
    <2>2. CASE rows[id] = None
        BY <2>1, <2>2 DEF Merged
    <2>3. CASE rows[id] # None
        <3>1. rows[id] \in Policy
            BY <2>3 DEF Shapes, RowTypes
        <3>2. Merged(r)' = [c \in DOMAIN row |-> IF c \in written THEN row[c] ELSE rows[id][c]]
            BY <2>1, <2>3 DEF Merged
        <3>3. Merged(r)'.key = rows[id].key
              /\ Merged(r)'.version = IF "version" \in written THEN row.version ELSE rows[id].version
            BY <2>3, <3>1, <3>2 DEF Policy
        <3> QED BY <2>3, <3>3 DEF Module
    <2> QED BY <2>2, <2>3
<1>2. ASSUME NEW q \in Request, q # r
      PROVE  request'[q] = request[q] /\ Merged(q)' = Merged(q)
    <2>1. request'[q] = request[q]
        BY <1>2 DEF Shapes, RequestTypes
    <2> QED BY <2>1, SameMerge
<1>3. request'[r] = [pc |-> "flushed", id |-> id, row |-> row, written |-> written]
    BY DEF Shapes, RequestTypes
<1>4. \A q \in Request : request'[q].pc = "loaded" => rows'[request'[q].id] # None
    BY <1>2, <1>3 DEF Claims
<1>5. \A q \in Request : request'[q].pc # "idle" /\ rows'[request'[q].id] # None =>
          request'[q].row.key = rows'[request'[q].id].key
    BY <1>2, <1>3 DEF Claims
<1>6. \A q \in Request : request'[q].pc = "flushed" =>
          \A i \in Id \ {request'[q].id} : rows'[i] # None => Module(rows'[i]) # Module(Merged(q)')
    BY <1>1, <1>2, <1>3 DEF Claims, FreeFor
<1>7. \A p, q \in Request : request'[p].pc = "flushed" /\ request'[q].pc = "flushed" /\ p # q =>
          request'[p].id # request'[q].id /\ Module(Merged(p)') # Module(Merged(q)')
    BY <1>1, <1>2, <1>3 DEF Claims, FreeFor
<1>8. \A q \in Request : Module(Merged(q))' = Module(Merged(q)')
    BY DEF Module
<1> QED BY <1>4, <1>5, <1>6, <1>7, <1>8 DEF Claims, Module

LEMMA SameClaims ==
    ASSUME Claims, rows' = rows, request' = request
    PROVE  Claims'
<1>1. \A r \in Request : Merged(r)' = Merged(r)
    BY SameMerge
<1> QED BY <1>1 DEF Claims, Module

LEMMA CommitKeeps ==
    ASSUME Shapes, Unique, Claims, NEW r \in Request, Commit(r)
    PROVE  Unique' /\ Claims'
<1> DEFINE id == request[r].id
           row == Merged(r)
<1>1. id \in Id /\ row \in Policy /\ request[r].pc = "flushed"
    BY MergedIsPolicy DEF Commit, Shapes, RequestTypes
<1>2. rows' = [rows EXCEPT ![id] = row] /\ request' = [request EXCEPT ![r] = NoRequest]
    BY DEF Commit
<1>3. rows'[id] = row /\ row # None /\ \A i \in Id \ {id} : rows'[i] = rows[i]
    BY <1>1, <1>2, NoneIsNoPolicy DEF Shapes, RowTypes
<1>4. rows[id] # None => row.key = rows[id].key
    <2>1. SUFFICES ASSUME rows[id] # None PROVE row.key = rows[id].key
        OBVIOUS
    <2>2. request[r].row \in Policy /\ rows[id] \in Policy /\ request[r].row.key = rows[id].key
        BY <1>1, <2>1 DEF Claims, Shapes, RequestTypes, RowTypes
    <2> QED BY <2>1, <2>2 DEF Merged, Policy
<1>5. \A i \in Id \ {id} : rows[i] # None => Module(rows[i]) # Module(row)
    BY <1>1 DEF Claims
<1> HIDE DEF row
<1>6. Unique'
    BY <1>1, <1>3, <1>5 DEF Unique, Module
<1>7. request'[r].pc = "idle"
    BY <1>2 DEF NoRequest, Shapes, RequestTypes
<1>8. ASSUME NEW q \in Request, q # r
      PROVE  request'[q] = request[q]
    BY <1>2, <1>8 DEF Shapes, RequestTypes
<1>9. ASSUME NEW q \in Request, q # r, request[q].pc = "flushed"
      PROVE  /\ request[q].id # id
             /\ Module(Merged(q)') = Module(Merged(q))
             /\ Module(row) # Module(Merged(q))
    <2>1. request[q].id # id /\ Module(row) # Module(Merged(q))
        BY <1>1, <1>9 DEF Claims, row
    <2>2. request[q].id \in Id
        BY <1>9 DEF Shapes, RequestTypes
    <2>3. Merged(q)' = Merged(q)
        BY <1>3, <1>8, <1>9, <2>1, <2>2, SameMerge
    <2> QED BY <2>1, <2>3
<1>10. \A q \in Request : request'[q].pc = "loaded" => rows'[request'[q].id] # None
    BY <1>3, <1>7, <1>8 DEF Claims, Shapes, RequestTypes
<1>11. \A q \in Request : request'[q].pc # "idle" /\ rows'[request'[q].id] # None =>
           request'[q].row.key = rows'[request'[q].id].key
    <2> SUFFICES ASSUME NEW q \in Request, request'[q].pc # "idle", rows'[request'[q].id] # None
                 PROVE  request'[q].row.key = rows'[request'[q].id].key
        OBVIOUS
    <2>1. q # r /\ request'[q] = request[q] /\ request[q].pc # "idle"
        BY <1>7, <1>8
    <2>2. request[q].id \in Id /\ request[q].pc \in {"loaded", "flushed"}
        BY <2>1 DEF Shapes, RequestTypes
    <2>3. CASE request[q].id = id
        <3>1. rows[id] # None
            BY <1>9, <2>1, <2>2, <2>3 DEF Claims
        <3>2. request[q].row.key = rows[id].key
            BY <2>1, <2>3, <3>1 DEF Claims
        <3> QED BY <1>3, <1>4, <2>1, <2>3, <3>1, <3>2
    <2>4. CASE request[q].id # id
        BY <1>3, <2>1, <2>2, <2>4 DEF Claims
    <2> QED BY <2>3, <2>4
<1>12. \A q \in Request : request'[q].pc = "flushed" =>
           \A i \in Id \ {request'[q].id} : rows'[i] # None => Module(rows'[i]) # Module(Merged(q)')
    <2> SUFFICES ASSUME NEW q \in Request, request'[q].pc = "flushed",
                        NEW i \in Id \ {request'[q].id}, rows'[i] # None
                 PROVE  Module(rows'[i]) # Module(Merged(q)')
        OBVIOUS
    <2>1. q # r /\ request'[q] = request[q] /\ request[q].pc = "flushed"
        BY <1>7, <1>8
    <2>2. CASE i = id
        BY <1>3, <1>9, <2>1, <2>2
    <2>3. CASE i # id
        BY <1>3, <1>9, <2>1, <2>3 DEF Claims
    <2> QED BY <2>2, <2>3
<1>13. \A p, q \in Request : request'[p].pc = "flushed" /\ request'[q].pc = "flushed" /\ p # q =>
           request'[p].id # request'[q].id /\ Module(Merged(p)') # Module(Merged(q)')
    BY <1>7, <1>8, <1>9 DEF Claims
<1> QED BY <1>6, <1>10, <1>11, <1>12, <1>13 DEF Claims, Module

LEMMA SeedKeeps ==
    ASSUME Shapes, Unique, Claims, Seed
    PROVE  Unique' /\ Claims'
<1>1. PICK place \in [POLICIES -> Id] :
          /\ \A p \in POLICIES :
                IF \E i \in Id : rows[i] # None /\ Module(rows[i]) = Module(p)
                THEN rows[place[p]] # None /\ Module(rows[place[p]]) = Module(p)
                ELSE rows[place[p]] = None /\ \A o \in POLICIES \ {p} : place[o] # place[p]
          /\ rows' = [i \in Id |->
                LET mine == {p \in POLICIES : place[p] = i}
                IN  IF mine = {} THEN rows[i]
                    ELSE LET p == CHOOSE p \in mine : TRUE
                         IN  IF rows[i] = None THEN p
                             ELSE [rows[i] EXCEPT !.rego_code = p.rego_code]]
    BY DEF Seed
<1>2. ASSUME NEW i \in Id
      PROVE  /\ rows[i] # None => rows'[i] # None /\ Module(rows'[i]) = Module(rows[i])
             /\ rows[i] = None /\ rows'[i] # None =>
                   \E p \in POLICIES : place[p] = i /\ rows'[i] = p
    <2> DEFINE mine == {p \in POLICIES : place[p] = i}
               chosen == CHOOSE p \in mine : TRUE
    <2>1. rows'[i] = IF mine = {} THEN rows[i]
                     ELSE IF rows[i] = None THEN chosen
                          ELSE [rows[i] EXCEPT !.rego_code = chosen.rego_code]
        BY <1>1
    <2>2. mine # {} => chosen \in POLICIES /\ place[chosen] = i
        OBVIOUS
    <2>3. CASE rows[i] = None
        BY <2>1, <2>2, <2>3
    <2>4. CASE rows[i] # None
        <3>1. rows[i] \in Policy
            BY <2>4 DEF Shapes, RowTypes
        <3>2. ASSUME NEW v \in Rego \cup {None}
              PROVE  /\ [rows[i] EXCEPT !.rego_code = v] # None
                     /\ Module([rows[i] EXCEPT !.rego_code = v]) = Module(rows[i])
            <4>1. [rows[i] EXCEPT !.rego_code = v] \in Policy
                BY <3>1 DEF Policy
            <4>2. [rows[i] EXCEPT !.rego_code = v].key = rows[i].key
                  /\ [rows[i] EXCEPT !.rego_code = v].version = rows[i].version
                BY <3>1 DEF Policy
            <4> QED BY <4>1, <4>2, NoneIsNoPolicy DEF Module
        <3>3. mine # {} => chosen.rego_code \in Rego \cup {None}
            <4>1. mine # {} => chosen \in Policy
                BY <2>2, Payloads
            <4> QED BY <4>1, ModuleInDomain
        <3> HIDE DEF mine, chosen
        <3> QED BY <2>1, <2>4, <3>2, <3>3
    <2> QED BY <2>3, <2>4
<1>3. \A p \in POLICIES : rows[place[p]] = None =>
          /\ \A i \in Id : rows[i] # None => Module(rows[i]) # Module(p)
          /\ \A o \in POLICIES \ {p} : place[o] # place[p]
    BY <1>1
<1>4. \A p, o \in POLICIES : Module(p) = Module(o) => p = o
    BY Payloads DEF Module
<1>5. ASSUME NEW i \in Id, NEW j \in Id, rows'[i] # None, rows'[j] # None,
             Module(rows'[i]) = Module(rows'[j])
      PROVE  i = j
    <2>1. CASE rows[i] # None /\ rows[j] # None
        BY <1>2, <1>5, <2>1 DEF Unique
    <2>2. CASE rows[i] = None /\ rows[j] # None
        BY <1>2, <1>3, <1>5, <2>2
    <2>3. CASE rows[i] # None /\ rows[j] = None
        BY <1>2, <1>3, <1>5, <2>3
    <2>4. CASE rows[i] = None /\ rows[j] = None
        BY <1>2, <1>4, <1>5, <2>4
    <2> QED BY <2>1, <2>2, <2>3, <2>4
<1>6. Unique'
    BY <1>5 DEF Unique, Module
<1>7. request' = request /\ \A r \in Request : request[r].pc # "flushed"
    BY DEF Seed
<1>8. \A r \in Request : request[r].pc # "idle" =>
          request[r].id \in Id /\ rows[request[r].id] # None
    BY <1>7 DEF Claims, Shapes, RequestTypes
<1>9. \A i \in Id : rows[i] # None => rows'[i] # None /\ rows'[i].key = rows[i].key
    BY <1>2 DEF Module
<1>10. Claims'
    BY <1>7, <1>8, <1>9 DEF Claims
<1> QED BY <1>6, <1>10

LEMMA AdministratorKeeps ==
    ASSUME Shapes, Unique, Claims, NEW r \in Request,
           \/ \E id \in Id : Get(r, id) \/ \E draft \in Drafts : CreatePolicy(r, id, draft)
           \/ \E patch \in Patches : UpdatePolicy(r, patch)
           \/ DeletePolicy(r)
           \/ Abort(r)
    PROVE  Unique' /\ Claims'
<1>1. rows' = rows
    BY DEF Get, CreatePolicy, UpdatePolicy, DeletePolicy, Abort, FlushAndPush
<1>2. Unique'
    BY <1>1 DEF Unique, Module
<1>3. ASSUME NEW q, request' = [request EXCEPT ![r] = q],
             q.pc = "idle" \/ (q.pc = "loaded" /\ rows[q.id] # None /\ q.row = rows[q.id])
      PROVE  Claims'
    <2>1. request'[r] = q /\ \A p \in Request \ {r} : request'[p] = request[p]
        BY <1>3 DEF Shapes, RequestTypes
    <2>2. \A p \in Request \ {r} : Merged(p)' = Merged(p)
        BY <1>1, <2>1, SameMerge
    <2> QED BY <1>1, <1>3, <2>1, <2>2 DEF Claims, Module
<1>4. ASSUME NEW id \in Id, Get(r, id)
      PROVE  Claims'
    <2> DEFINE q == [pc |-> "loaded", id |-> id, row |-> rows[id], written |-> {}]
    <2>1. request' = [request EXCEPT ![r] = q] /\ rows[id] # None
        BY <1>4 DEF Get, Live
    <2>2. q.pc = "loaded" /\ q.id = id /\ q.row = rows[id]
        OBVIOUS
    <2> HIDE DEF q
    <2>3. q.pc = "loaded" /\ rows[q.id] # None /\ q.row = rows[q.id]
        BY <2>1, <2>2
    <2> QED BY <2>1, <2>3, <1>3
<1>5. CASE Abort(r)
    <2> DEFINE q == NoRequest
    <2>1. request' = [request EXCEPT ![r] = q]
        BY <1>5 DEF Abort
    <2>2. q.pc = "idle"
        BY DEF NoRequest
    <2>3. q.pc = "idle" \/ (q.pc = "loaded" /\ rows[q.id] # None /\ q.row = rows[q.id])
        BY <2>2
    <2> HIDE DEF q
    <2>4. Claims'
        BY <2>1, <2>3, <1>3, Zenon
    <2> QED BY <1>2, <2>4
<1>6. ASSUME NEW id \in Id, NEW draft \in Drafts, CreatePolicy(r, id, draft)
      PROVE  Claims'
    <2>1. draft \in Policy
        BY Payloads
    <2>2. rows[id] = None /\ FreeFor(r, id, Module(draft))
        BY <1>6 DEF CreatePolicy
    <2>3. request' = [request EXCEPT ![r] = [pc |-> "flushed", id |-> id, row |-> draft,
                                             written |-> DOMAIN draft]]
        BY <1>6 DEF CreatePolicy, FlushAndPush
    <2> QED BY <1>1, <2>1, <2>2, <2>3, FlushClaims
<1>7. ASSUME NEW patch \in Patches, UpdatePolicy(r, patch)
      PROVE  Claims'
    <2> DEFINE q == request[r]
               row == [c \in DOMAIN q.row |-> IF c \in DOMAIN patch THEN patch[c] ELSE q.row[c]]
               written == {c \in DOMAIN row : row[c] # q.row[c]}
               module == IF row.version # q.row.version THEN Module(row) ELSE Module(rows[q.id])
    <2>1. q.id \in Id /\ q.row \in Policy /\ rows[q.id] # None /\ q.row.key = rows[q.id].key
        BY <1>7 DEF UpdatePolicy, Shapes, RequestTypes, Claims
    <2>2. row \in Policy
        BY <2>1, PatchIsPolicy
    <2>3. "key" \notin DOMAIN patch
        BY Payloads DEF Patchable
    <2>4. row.key = q.row.key
        BY <2>1, <2>3 DEF Policy
    <2>5. "version" \in written <=> row.version # q.row.version
        BY <2>2, ColumnsOfPolicy DEF Column
    <2>6. FreeFor(r, q.id, module)
        BY <1>7 DEF UpdatePolicy
    <2>7. request' = [request EXCEPT ![r] = [pc |-> "flushed", id |-> q.id, row |-> row,
                                             written |-> written]]
        BY <1>7 DEF UpdatePolicy, FlushAndPush
    <2>8. module = IF rows[q.id] = None \/ "version" \in written THEN Module(row)
                   ELSE Module(rows[q.id])
        BY <2>1, <2>5
    <2> HIDE DEF q, row, written, module
    <2> QED BY <1>1, <2>1, <2>2, <2>4, <2>6, <2>7, <2>8, FlushClaims
<1>8. CASE DeletePolicy(r)
    <2> DEFINE q == request[r]
               row == [q.row EXCEPT !.is_deleted = TRUE, !.is_active = FALSE]
               written == {c \in DOMAIN row : row[c] # q.row[c]}
    <2>1. q.id \in Id /\ q.row \in Policy /\ rows[q.id] # None /\ q.row.key = rows[q.id].key
        BY <1>8 DEF DeletePolicy, Shapes, RequestTypes, Claims
    <2>2. row \in Policy /\ row.key = q.row.key /\ row.version = q.row.version
        BY <2>1 DEF Policy
    <2>3. "version" \notin written
        BY <2>2
    <2>4. FreeFor(r, q.id, Module(rows[q.id]))
        BY <1>8 DEF DeletePolicy
    <2>5. request' = [request EXCEPT ![r] = [pc |-> "flushed", id |-> q.id, row |-> row,
                                             written |-> written]]
        BY <1>8 DEF DeletePolicy
    <2> HIDE DEF q, row, written
    <2> QED BY <1>1, <1>2, <2>1, <2>2, <2>3, <2>4, <2>5, FlushClaims
<1> QED BY <1>2, <1>4, <1>5, <1>6, <1>7, <1>8

LEMMA UniqueNext == Shapes /\ Unique /\ Claims /\ [Next]_vars => Unique' /\ Claims'
<1> SUFFICES ASSUME Shapes, Unique, Claims, [Next]_vars PROVE Unique' /\ Claims'
    OBVIOUS
<1>1. ASSUME rows' = rows, request' = request
      PROVE  Unique' /\ Claims'
    BY <1>1, SameClaims DEF Unique, Module
<1>2. CASE Restart
    BY <1>1, <1>2 DEF Restart
<1>3. CASE Seed
    BY <1>3, SeedKeeps
<1>4. ASSUME NEW r \in Request,
             \/ \E id \in Id : Get(r, id) \/ \E draft \in Drafts : CreatePolicy(r, id, draft)
             \/ \E patch \in Patches : UpdatePolicy(r, patch)
             \/ DeletePolicy(r)
             \/ Abort(r)
      PROVE  Unique' /\ Claims'
    BY <1>4, AdministratorKeeps
<1>5. ASSUME NEW r \in Request, Commit(r)
      PROVE  Unique' /\ Claims'
    BY <1>5, CommitKeeps
<1>6. CASE \/ SyncStart \/ SyncLibrary \/ SyncList \/ SyncEnd
           \/ \E policy \in sync.todo : SyncPush(policy)
    BY <1>1, <1>6 DEF SyncStart, SyncLibrary, PushLibrary, SyncList, SyncEnd, SyncPush
<1>7. CASE \/ \E scope \in Scopes : Select(scope)
           \/ \E x \in run.todo : Evaluate(x)
           \/ Finish
    BY <1>1, <1>7 DEF Select, Evaluate, Finish
<1>8. CASE UNCHANGED vars
    BY <1>1, <1>8 DEF vars
<1> QED BY <1>2, <1>3, <1>4, <1>5, <1>6, <1>7, <1>8 DEF Next

\* Shapes, and no two policies share a key and a version, whatever requests overlap: an
\* administrator's create, an update to another version, a deletion, the seed.
THEOREM TypeCorrect == Spec => []TypeOK
<1>1. Init => Unique /\ Claims
    BY DEF Init, Unregistered, NoRequest, Unique, Claims
<1>2. Shapes /\ Unique => TypeOK
    BY DEF Shapes, RowTypes, OpaTypes, RequestTypes, SyncTypes, RunTypes, Unique, TypeOK
<1> QED BY <1>1, <1>2, ShapesInit, ShapesNext, UniqueNext, PTL DEF Spec

-----------------------------------------------------------------------------
(* A run checks each policy that it selected, once *)

Decided(x, facts) ==
    LET outcome == evaluate_one(x.policy, x.raw, facts)
    IN  x.result = outcome.result /\ x.severity = outcome.severity /\ x.engine = outcome.engine

RunInv ==
    /\ run.pc # "idle" =>
          \A i : i \in run.selected <=> \/ \E x \in run.todo : x.id = i
                                        \/ \E x \in run.checks : x.id = i
    /\ \A x, y \in run.todo : x.id = y.id => x = y
    /\ \A x, y \in run.checks : x.id = y.id => x = y
    /\ \A x \in run.todo, y \in run.checks : x.id # y.id
    /\ \A x \in run.checks : Decided(x, run.facts)
    /\ run.pc = "done" => run.todo = {}

LEMMA RunInvInit == Init => RunInv
BY DEF Init, NoRun, RunInv

LEMMA RecordDecides ==
    ASSUME NEW x, NEW raw
    PROVE  /\ Record(x, raw).id = x.id /\ Record(x, raw).policy = x.policy
           /\ Record(x, raw).raw = raw /\ Decided(Record(x, raw), run.facts)
           /\ Record(x, raw).alone <=> Others(Module(x.policy), x.policy.opa_package) = {}
<1> DEFINE outcome == evaluate_one(x.policy, raw, run.facts)
           alone == Others(Module(x.policy), x.policy.opa_package) = {}
<1>1. Record(x, raw) = [id |-> x.id, policy |-> x.policy, result |-> outcome.result,
                        severity |-> outcome.severity, engine |-> outcome.engine, raw |-> raw,
                        alone |-> alone]
    BY DEF Record
<1> HIDE DEF alone
<1>2. Record(x, raw).id = x.id /\ Record(x, raw).policy = x.policy /\ Record(x, raw).raw = raw
      /\ Record(x, raw).result = outcome.result /\ Record(x, raw).severity = outcome.severity
      /\ Record(x, raw).engine = outcome.engine /\ Record(x, raw).alone = alone
    BY <1>1
<1> QED BY <1>2 DEF Decided, alone

\* Nothing but a step of the run touches it, except for the mark.
LEMMA RunStays ==
    ASSUME Shapes, [Next]_vars,
           ~ (\E scope \in Scopes : Select(scope)), ~ (\E x \in run.todo : Evaluate(x)), ~ Finish
    PROVE  /\ run' = run \/ run' = [run EXCEPT !.healed = FALSE]
           /\ run'.pc = run.pc /\ run'.selected = run.selected /\ run'.todo = run.todo
           /\ run'.facts = run.facts /\ run'.checks = run.checks
           /\ run'.healed => run.healed
<1>1. run' = run \/ run' = [run EXCEPT !.healed = FALSE]
    BY DEF Next, vars, Restart, Seed, Get, CreatePolicy, UpdatePolicy, DeletePolicy, Commit, Abort,
           FlushAndPush, SyncStart, SyncLibrary, PushLibrary, SyncList, SyncEnd, SyncPush, Disturb
<1> QED BY <1>1 DEF Shapes, RunTypes

LEMMA RunInvNext == Shapes /\ RunInv /\ [Next]_vars => RunInv'
<1> SUFFICES ASSUME Shapes, RunInv, [Next]_vars PROVE RunInv'
    OBVIOUS
<1>1. ASSUME NEW scope \in Scopes, Select(scope)
      PROVE  RunInv'
    <2> DEFINE selected == {i \in Id : Applies(rows[i], scope)}
               todo == {[id |-> i, policy |-> rows[i]] : i \in selected}
               healed == sync.pc = "done" /\ sync.calm /\ sync.clean
    <2>1. run' = [pc |-> "evaluate", selected |-> selected, todo |-> todo,
                  facts |-> scope.facts, checks |-> {}, healed |-> healed]
        BY <1>1 DEF Select
    <2>2. \A i : i \in selected <=> \E x \in todo : x.id = i
        <3>1. ASSUME NEW i \in selected
              PROVE  \E x \in todo : x.id = i
            <4>1. [id |-> i, policy |-> rows[i]] \in todo
                OBVIOUS
            <4> QED BY <4>1
        <3>2. \A x \in todo : x.id \in selected
            OBVIOUS
        <3> QED BY <3>1, <3>2
    <2>3. \A x, y \in todo : x.id = y.id => x = y
        OBVIOUS
    <2> HIDE DEF selected, todo, healed
    <2> QED BY <2>1, <2>2, <2>3 DEF RunInv
<1>2. ASSUME NEW x \in run.todo, Evaluate(x)
      PROVE  RunInv'
    <2>1. PICK raw : run' = [run EXCEPT !.todo = @ \ {x}, !.checks = @ \cup {Record(x, raw)}]
        BY <1>2 DEF Evaluate
    <2> DEFINE check == Record(x, raw)
    <2>2. check.id = x.id /\ Decided(check, run.facts)
        BY RecordDecides
    <2> HIDE DEF check
    <2>3. /\ run'.pc = run.pc /\ run'.selected = run.selected /\ run'.facts = run.facts
          /\ run'.todo = run.todo \ {x} /\ run'.checks = run.checks \cup {check}
          /\ run.pc = "evaluate"
        BY <1>2, <2>1 DEF Evaluate, check, Shapes, RunTypes
    <2> QED BY <2>2, <2>3 DEF RunInv
<1>3. CASE Finish
    <2>1. /\ run'.pc = "done" /\ run'.selected = run.selected /\ run'.facts = run.facts
          /\ run'.todo = run.todo /\ run'.checks = run.checks
          /\ run.pc = "evaluate" /\ run.todo = {}
        BY <1>3 DEF Finish, Shapes, RunTypes
    <2> QED BY <2>1 DEF RunInv
<1>4. CASE ~ (\E scope \in Scopes : Select(scope)) /\ ~ (\E x \in run.todo : Evaluate(x)) /\ ~ Finish
    <2>1. /\ run'.pc = run.pc /\ run'.selected = run.selected /\ run'.facts = run.facts
          /\ run'.todo = run.todo /\ run'.checks = run.checks
        BY <1>4, RunStays
    <2> QED BY <2>1 DEF RunInv
<1> QED BY <1>1, <1>2, <1>3, <1>4

\* Who decided a check, and when nobody did.
LEMMA EngineIsTold ==
    ASSUME NEW x \in Check, NEW facts, Decided(x, facts)
    PROVE  /\ x.engine = "opa" <=> x.raw # None
           /\ x.engine = "rules" => x.raw = None /\ x.policy.rules # None
           /\ x.result = "error" <=> x.raw = None /\ x.policy.rules = None
<1>1. x.policy \in Policy /\ x.raw \in Response \cup {None}
    BY DEF Check
<1>2. CASE x.raw # None
    <2>1. x.raw \in Response
        BY <1>1, <1>2
    <2>2. evaluate_one(x.policy, x.raw, facts) = interpret_opa(x.policy, x.raw)
        BY <1>2 DEF evaluate_one
    <2>3. x.engine = "opa" /\ x.result \in {"pass", "fail", "warning"}
        BY <1>1, <2>1, <2>2, OpaOutcome DEF Decided
    <2> QED BY <1>2, <2>3
<1>3. CASE x.raw = None /\ x.policy.rules # None
    <2>1. evaluate_one(x.policy, x.raw, facts) = evaluate_rules(x.policy, facts)
        BY <1>3 DEF evaluate_one
    <2>2. x.engine = "rules" /\ x.result \in {"pass", "fail", "warning"}
        BY <1>1, <2>1, RulesOutcome DEF Decided
    <2> QED BY <1>3, <2>2
<1>4. CASE x.raw = None /\ x.policy.rules = None
    BY <1>4 DEF evaluate_one, Decided
<1> QED BY <1>2, <1>3, <1>4

\* No run fails silently, for every set of policies and whatever OPA does: a check for each
\* selected policy, that names the engine; what nobody could decide is an error.
THEOREM NoRunIsSilent == Spec => []NeverSilent
<1>1. Shapes /\ RunInv => NeverSilent
    <2> SUFFICES ASSUME Shapes, RunInv, run.pc = "done" PROVE NeverSilent
        BY DEF NeverSilent
    <2>1. run.todo = {} /\ \A i : i \in run.selected <=> \E x \in run.checks : x.id = i
        BY DEF RunInv
    <2>2. {x.id : x \in run.checks} = run.selected
        BY <2>1
    <2>3. \A x, y \in run.checks : x.id = y.id => x = y
        BY DEF RunInv
    <2>4. \A x \in run.checks : /\ x.engine = "opa" <=> x.raw # None
                                /\ x.engine = "rules" => x.policy.rules # None
                                /\ x.result = "error" <=> x.raw = None /\ x.policy.rules = None
        BY EngineIsTold DEF RunInv, Shapes, RunTypes
    <2>5. Compliant(run.checks) => \A x \in run.checks : x.raw # None \/ x.policy.rules # None
        BY <2>4 DEF Compliant
    <2> QED BY <2>2, <2>3, <2>4, <2>5 DEF NeverSilent
<1> QED BY <1>1, ShapesInit, ShapesNext, RunInvInit, RunInvNext, PTL DEF Spec

\* The findings decide what is recorded, for every document that OPA can answer and every
\* set of rules.
THEOREM FindingsDoDecide == Spec => []FindingsDecide
<1>1. ASSUME Shapes, RunInv
      PROVE  FindingsDecide
    <2> SUFFICES ASSUME NEW x \in run.checks
                 PROVE  LET found == normalise_violations(x.policy, x.raw.violations)
                            denied == x.raw.allow = "false" \/ found # {}
                        IN  /\ x.engine = "opa" /\ ~x.raw.boolean =>
                                  /\ x.result = "pass" <=> ~denied
                                  /\ \A s \in found : SEVERITY_ORDER[s] <= SEVERITY_ORDER[x.severity]
                                  /\ found # {} => x.severity \in found
                                  /\ denied => (x.result = "fail" <=> x.severity \in BLOCKING_SEVERITIES)
                            /\ x.engine = "rules" =>
                                  /\ x.result = "pass" <=> Unmet(x.policy.rules, run.facts) = {}
                                  /\ x.result # "pass" =>
                                        (x.result = "fail" <=> x.policy.severity \in BLOCKING_SEVERITIES)
        BY DEF FindingsDecide
    <2>1. x \in Check /\ Decided(x, run.facts)
        BY <1>1 DEF Shapes, RunTypes, RunInv
    <2>2. x.policy \in Policy /\ x.raw \in Response \cup {None}
        BY <2>1 DEF Check
    <2>3. CASE x.engine = "opa"
        <3> DEFINE found == normalise_violations(x.policy, x.raw.violations)
        <3>1. x.raw # None /\ x.raw \in Response
            BY <2>1, <2>2, <2>3, EngineIsTold
        <3>2. evaluate_one(x.policy, x.raw, run.facts) = interpret_opa(x.policy, x.raw)
            BY <3>1 DEF evaluate_one
        <3>3. /\ x.severity = effective_severity(x.policy, found)
              /\ ~x.raw.boolean =>
                    /\ x.result = "pass" <=> ~(x.raw.allow = "false" \/ found # {})
                    /\ x.result # "pass" =>
                          (x.result = "fail" <=> x.severity \in BLOCKING_SEVERITIES)
            BY <2>1, <2>2, <3>1, <3>2, OpaOutcome DEF Decided
        <3>4. found \subseteq Severity
            BY <2>2, <3>1, FoundIsKnown
        <3> HIDE DEF found
        <3>5. found # {} => /\ x.severity \in found
                            /\ \A s \in found : SEVERITY_ORDER[s] <= SEVERITY_ORDER[x.severity]
            BY <3>3, <3>4, WorstIsWorst DEF effective_severity
        <3> QED BY <2>3, <3>3, <3>5 DEF found
    <2>4. CASE x.engine = "rules"
        <3>1. x.raw = None /\ x.policy.rules # None
            BY <2>1, <2>4, EngineIsTold
        <3>2. evaluate_one(x.policy, x.raw, run.facts) = evaluate_rules(x.policy, run.facts)
            BY <3>1 DEF evaluate_one
        <3> QED BY <2>1, <2>2, <2>4, <3>2, RulesOutcome DEF Decided
    <2> QED BY <2>3, <2>4
<1> QED BY <1>1, ShapesInit, ShapesNext, RunInvInit, RunInvNext, PTL DEF Spec

-----------------------------------------------------------------------------
(* A synchronisation that is not disturbed leaves OPA with the Rego of every policy *)

Due(i) == Listed(rows[i])

SyncInv ==
    /\ sync.pc \in {"idle", "libraries", "done"} => sync.todo = {}
    /\ sync.pc \in {"idle", "libraries"} => sync.pushed = {}
    /\ sync.calm =>
          /\ \A p \in sync.todo \cup sync.pushed : \E i \in Id : Due(i) /\ p = rows[i]
          /\ \A p \in sync.pushed : modules[Module(p)] = p.rego_code
    /\ sync.calm /\ sync.clean =>
          /\ sync.pc = "libraries" =>
                \A k \in DOMAIN POLICY_LIBRARY_FILES :
                    k < sync.next => POLICY_LIBRARY_FILES[k] \in libraries
          /\ sync.pc \in {"policies", "done"} =>
                /\ Library \subseteq libraries
                /\ \A i \in Id : Due(i) /\ rows[i].rego_code.compiles =>
                                 rows[i] \in sync.todo \cup sync.pushed
                /\ \A p \in sync.pushed : p.rego_code.compiles

LEMMA SyncInvInit == Init => SyncInv
BY DEF Init, NoSync, SyncInv

\* A disturbed synchronisation promises nothing.
LEMMA DisturbedSync ==
    ASSUME Shapes, SyncInv, Disturb
    PROVE  SyncInv'
<1>1. sync'.pc = sync.pc /\ sync'.todo = sync.todo /\ sync'.pushed = sync.pushed /\ ~sync'.calm
    BY DEF Disturb, Shapes, SyncTypes
<1> QED BY <1>1 DEF SyncInv

LEMMA SameSync ==
    ASSUME SyncInv, UNCHANGED <<rows, modules, libraries, sync>>
    PROVE  SyncInv'
<1>1. \A i \in Id : Due(i)' <=> Due(i)
    BY DEF Due, Listed, Live
<1>2. \A p : Module(p)' = Module(p)
    BY DEF Module
<1> QED BY <1>1, <1>2 DEF SyncInv

\* Libraries go in an order in which each finds those that it calls.
LEMMA LibraryArrives ==
    ASSUME Shapes, SyncInv, SyncLibrary
    PROVE  SyncInv'
<1> DEFINE n == sync.next
           library == POLICY_LIBRARY_FILES[n]
<1>1. n \in Nat \ {0} /\ n \in DOMAIN POLICY_LIBRARY_FILES /\ sync.pc = "libraries"
    BY LibrariesInOrder DEF SyncLibrary, PushLibrary, Shapes, SyncTypes
<1>2. PICK reached \in BOOLEAN, answered \in BOOLEAN :
          /\ sync' = [sync EXCEPT !.next = @ + 1, !.clean = @ /\ reached /\ answered]
          /\ libraries' = IF reached /\ Imports[library] \subseteq libraries
                          THEN libraries \cup {library} ELSE libraries
    BY DEF SyncLibrary, PushLibrary
<1>3. /\ sync'.pc = "libraries" /\ sync'.todo = sync.todo /\ sync'.calm = sync.calm
      /\ sync'.pushed = sync.pushed
      /\ sync'.next = n + 1
      /\ sync'.clean = (sync.clean /\ reached /\ answered)
    BY <1>1, <1>2 DEF Shapes, SyncTypes
<1>4. ASSUME sync.calm, sync.clean, reached = TRUE
      PROVE  libraries' = libraries \cup {library}
    <2>1. Imports[library] \subseteq {POLICY_LIBRARY_FILES[j] : j \in 1..(n - 1)}
        BY <1>1, LibrariesInOrder
    <2>2. \A j \in 1..(n - 1) : j \in DOMAIN POLICY_LIBRARY_FILES /\ j < n
        BY <1>1, LibrariesInOrder
    <2>3. \A j \in 1..(n - 1) : POLICY_LIBRARY_FILES[j] \in libraries
        BY <1>1, <1>4, <2>2 DEF SyncInv
    <2> HIDE DEF library
    <2> QED BY <1>2, <1>4, <2>1, <2>3
<1>5. ASSUME sync'.calm, sync'.clean, NEW k \in DOMAIN POLICY_LIBRARY_FILES, k < n + 1
      PROVE  POLICY_LIBRARY_FILES[k] \in libraries'
    <2>1. sync.calm /\ sync.clean /\ reached = TRUE
        BY <1>3, <1>5
    <2>2. libraries' = libraries \cup {library}
        BY <1>4, <2>1
    <2>3. k \in Nat /\ (k < n \/ k = n)
        BY <1>1, <1>5, LibrariesInOrder
    <2>4. CASE k < n
        BY <1>1, <2>1, <2>2, <2>4 DEF SyncInv
    <2>5. CASE k = n
        BY <2>2, <2>5
    <2> QED BY <2>3, <2>4, <2>5
<1> HIDE DEF n, library
<1> QED BY <1>1, <1>3, <1>5 DEF SyncInv

LEMMA PushArrives ==
    ASSUME Shapes, Unique, SyncInv, NEW policy \in sync.todo, SyncPush(policy)
    PROVE  SyncInv'
<1>1. PICK answer \in Puts(Module(policy), policy.rego_code) :
          Load(Module(policy), policy.rego_code, answer) /\ Answered(policy, answer)
    BY DEF SyncPush
<1> DEFINE confirmed == {p \in {policy} : answer = "loaded"}
<1>2. /\ sync'.pc = "policies" /\ sync.pc = "policies" /\ sync'.todo = sync.todo \ {policy}
      /\ sync'.pushed = sync.pushed \cup confirmed
      /\ sync'.calm = sync.calm
      /\ sync'.clean = (sync.clean /\ answer \in {"loaded", "uncompiled"})
      /\ UNCHANGED <<rows, libraries>>
    BY <1>1 DEF SyncPush, Answered, Shapes, SyncTypes
<1>3. policy \in Policy /\ policy.rego_code \in Rego
    BY ModuleInDomain DEF Shapes, SyncTypes
<1>4. \A i \in Id : Due(i)' <=> Due(i)
    BY <1>2 DEF Due, Listed, Live
<1>5. policy \in sync.todo /\ confirmed \subseteq {policy}
    OBVIOUS
<1>6. ASSUME sync.calm, NEW p \in sync'.pushed
      PROVE  modules'[Module(p)] = p.rego_code
    <2>1. p \in Policy /\ Module(p) \in Key \X Version /\ Module(policy) \in Key \X Version
        BY <1>2, <1>3, ModuleInDomain DEF Shapes, SyncTypes
    <2>2. CASE p = policy /\ answer = "loaded"
        BY <1>1, <2>1, <2>2 DEF Load, Shapes, OpaTypes
    <2>3. CASE p \in sync.pushed
        <3>1. modules[Module(p)] = p.rego_code
            BY <1>6, <2>3 DEF SyncInv
        <3>2. PICK i \in Id : Due(i) /\ p = rows[i]
            BY <1>6, <2>3 DEF SyncInv
        <3>3. PICK j \in Id : Due(j) /\ policy = rows[j]
            BY <1>6 DEF SyncInv
        <3>4. Module(p) = Module(policy) => p = policy
            BY <3>2, <3>3 DEF Unique, Due, Listed, Live
        <3> QED BY <1>1, <2>1, <3>1, <3>4 DEF Load, Shapes, OpaTypes
    <2> QED BY <1>2, <2>2, <2>3
<1>7. ASSUME sync.calm, sync'.clean
      PROVE  /\ Library \subseteq libraries'
             /\ policy.rego_code.compiles => answer = "loaded"
             /\ answer = "loaded" => policy.rego_code.compiles
    <2>1. sync.clean /\ answer \in {"loaded", "uncompiled"}
        BY <1>2, <1>7
    <2>2. Library \subseteq libraries /\ policy.rego_code.needs \subseteq Library
        BY <1>2, <1>3, <1>7, <2>1, RegoIsRead DEF SyncInv
    <2> QED BY <1>1, <1>2, <2>1, <2>2 DEF Puts
<1>8. ASSUME sync.calm, sync'.clean, NEW i \in Id, Due(i), rows[i].rego_code.compiles
      PROVE  rows[i] \in sync'.todo \cup sync'.pushed
    <2>1. rows[i] \in sync.todo \cup sync.pushed
        BY <1>2, <1>8 DEF SyncInv
    <2>2. rows[i] = policy => rows[i] \in confirmed
        BY <1>7, <1>8
    <2> QED BY <1>2, <2>1, <2>2
<1>9. ASSUME sync.calm, sync'.clean, NEW p \in sync'.pushed
      PROVE  p.rego_code.compiles
    <2>1. CASE p \in sync.pushed
        BY <1>2, <1>9, <2>1 DEF SyncInv
    <2>2. CASE p \in confirmed
        BY <1>7, <1>9, <2>2
    <2> QED BY <1>2, <2>1, <2>2
<1>10. ASSUME sync.calm, NEW p \in sync'.todo \cup sync'.pushed
       PROVE  \E i \in Id : Due(i)' /\ p = rows'[i]
    <2>1. p \in sync.todo \cup sync.pushed
        BY <1>2, <1>5
    <2>2. \E i \in Id : Due(i) /\ p = rows[i]
        BY <1>10, <2>1 DEF SyncInv
    <2> QED BY <1>2, <1>4, <2>2
<1>11. ASSUME sync.calm, sync'.clean, NEW i \in Id, Due(i)', rows'[i].rego_code.compiles
       PROVE  rows'[i] \in sync'.todo \cup sync'.pushed
    BY <1>2, <1>4, <1>8, <1>11
<1>12. \A p : Module(p)' = Module(p)
    BY DEF Module
<1> HIDE DEF confirmed
<1> QED BY <1>2, <1>6, <1>7, <1>9, <1>10, <1>11, <1>12 DEF SyncInv

LEMMA SyncInvNext == Shapes /\ Unique /\ SyncInv /\ [Next]_vars => SyncInv'
<1> SUFFICES ASSUME Shapes, Unique, SyncInv, [Next]_vars PROVE SyncInv'
    OBVIOUS
<1>1. ASSUME Disturb
      PROVE  SyncInv'
    BY <1>1, DisturbedSync
<1>2. CASE Restart \/ Seed
    BY <1>1, <1>2 DEF Restart, Seed
<1>4. ASSUME NEW r \in Request,
             \/ \E id \in Id : Get(r, id) \/ \E draft \in Drafts : CreatePolicy(r, id, draft)
             \/ \E patch \in Patches : UpdatePolicy(r, patch)
             \/ DeletePolicy(r)
             \/ Commit(r)
             \/ Abort(r)
      PROVE  SyncInv'
    <2>1. Disturb \/ UNCHANGED <<rows, modules, libraries, sync>>
        BY <1>4 DEF Get, CreatePolicy, UpdatePolicy, DeletePolicy, Commit, Abort, FlushAndPush
    <2> QED BY <1>1, <2>1, SameSync
<1>5. CASE SyncStart
    <2>1. sync'.pc = "libraries" /\ sync'.todo = {} /\ sync'.pushed = {} /\ sync'.next = 1
        BY <1>5 DEF SyncStart, NoSync
    <2>2. \A k \in DOMAIN POLICY_LIBRARY_FILES : ~ (k < 1)
        BY LibrariesInOrder
    <2> QED BY <2>1, <2>2 DEF SyncInv
<1>6. CASE SyncLibrary
    BY <1>6, LibraryArrives
<1>7. CASE SyncList
    <2> DEFINE listed == {rows[i] : i \in {j \in Id : Listed(rows[j])}}
    <2>1. sync' = [sync EXCEPT !.pc = "policies", !.todo = listed] /\ sync.pc = "libraries"
          /\ sync.next > Len(POLICY_LIBRARY_FILES) /\ UNCHANGED <<rows, modules, libraries>>
        BY <1>7 DEF SyncList
    <2>2. \A p \in listed : \E i \in Id : Due(i) /\ p = rows[i]
        BY DEF Due
    <2>3. \A i \in Id : Due(i) => rows[i] \in listed
        BY DEF Due
    <2> HIDE DEF listed
    <2>4. sync'.pc = "policies" /\ sync'.todo = listed /\ sync'.pushed = {}
          /\ sync'.calm = sync.calm /\ sync'.clean = sync.clean
        BY <2>1 DEF Shapes, SyncTypes, SyncInv
    <2>5. \A i \in Id : Due(i)' <=> Due(i)
        BY <2>1 DEF Due, Listed, Live
    <2>6. sync.calm /\ sync.clean => Library \subseteq libraries
        <3> SUFFICES ASSUME sync.calm, sync.clean, NEW library \in Library
                     PROVE  library \in libraries
            OBVIOUS
        <3>1. PICK k \in DOMAIN POLICY_LIBRARY_FILES : POLICY_LIBRARY_FILES[k] = library
            BY LibrariesInOrder
        <3>2. k < sync.next
            BY <2>1, LibrariesInOrder DEF Shapes, SyncTypes
        <3> QED BY <2>1, <3>1, <3>2 DEF SyncInv
    <2> QED BY <2>1, <2>2, <2>3, <2>4, <2>5, <2>6 DEF SyncInv
<1>8. CASE SyncEnd
    <2>1. sync'.pc = "done" /\ sync'.todo = {} /\ sync.todo = {} /\ sync.pc = "policies"
          /\ sync'.pushed = sync.pushed /\ sync'.calm = sync.calm /\ sync'.clean = sync.clean
          /\ UNCHANGED <<rows, modules, libraries>>
        BY <1>8 DEF SyncEnd, Shapes, SyncTypes
    <2>2. (\A i \in Id : Due(i)' <=> Due(i)) /\ \A p : Module(p)' = Module(p)
        BY <2>1 DEF Due, Listed, Live, Module
    <2> QED BY <2>1, <2>2 DEF SyncInv
<1>9. ASSUME NEW policy \in sync.todo, SyncPush(policy)
      PROVE  SyncInv'
    BY <1>9, PushArrives
<1>10. CASE \/ \E scope \in Scopes : Select(scope)
            \/ \E x \in run.todo : Evaluate(x)
            \/ Finish
            \/ UNCHANGED vars
    BY <1>10, SameSync DEF Select, Evaluate, Finish, vars
<1> QED BY <1>2, <1>4, <1>5, <1>6, <1>7, <1>8, <1>9, <1>10 DEF Next

\* What an undisturbed synchronisation counts as pushed is what OPA has; one whose calls OPA
\* answers counts every active policy whose Rego compiles, for every set of libraries that
\* is pushed in order.
THEOREM SyncDoesHeal == Spec => []SyncHeals
<1>1. SyncInv => SyncHeals
    <2> DEFINE due == {rows[i] : i \in {j \in Id : /\ Listed(rows[j])
                                                  /\ rows[j].rego_code.compiles}}
    <2> SUFFICES ASSUME SyncInv, sync.pc = "done", sync.calm
                 PROVE  /\ \A p \in sync.pushed : modules[Module(p)] = p.rego_code
                        /\ sync.clean => sync.pushed = due
        BY DEF SyncHeals
    <2>1. \A p \in sync.pushed : modules[Module(p)] = p.rego_code
        BY DEF SyncInv
    <2>2. ASSUME sync.clean PROVE sync.pushed \subseteq due
        BY <2>2 DEF SyncInv, Due
    <2>3. ASSUME sync.clean PROVE due \subseteq sync.pushed
        BY <2>3 DEF SyncInv, Due
    <2> QED BY <2>1, <2>2, <2>3
<1>2. Init => Unique /\ Claims
    BY DEF Init, Unregistered, NoRequest, Unique, Claims
<1> QED BY <1>1, <1>2, ShapesInit, ShapesNext, UniqueNext, SyncInvInit, SyncInvNext, PTL DEF Spec

-----------------------------------------------------------------------------
(* After it, a run decides by the Rego of the rows *)

Compiles(policy) == policy.rego_code # None /\ policy.rego_code.compiles

Held(i) == modules[Module(rows[i])] = rows[i].rego_code

HealInv ==
    run.healed =>
        /\ \A x \in run.todo : /\ rows[x.id] # None /\ x.policy = rows[x.id]
                               /\ Compiles(x.policy) => Held(x.id)
        /\ \A p \in sync.todo : \E i \in Id : Due(i) /\ p = rows[i]
        /\ HealedRunsAreCurrent

LEMMA HealInvInit == Init => HealInv
BY DEF Init, NoRun, HealInv

\* When one module answers for a package, what it says is what the call returns.
LEMMA OneAnswer ==
    ASSUME Shapes, NEW policy \in Policy, policy.rego_code # None,
           modules[Module(policy)] = policy.rego_code,
           Others(Module(policy), policy.opa_package) = {},
           NEW raw \in Answers(Module(policy), policy.opa_package), raw # None
    PROVE  raw = policy.rego_code.says
<1> DEFINE mine == {rego \in {modules[Module(policy)]} :
                        rego # None /\ rego.package = policy.opa_package}
           says == {rego.says : rego \in mine \cup Others(Module(policy), policy.opa_package)}
           documents == {d \in says : ~d.boolean}
           said == policy.rego_code.says
<1>1. policy.rego_code \in Rego /\ said \in Response
    BY ModuleInDomain, RegoIsRead
<1>2. says \subseteq {said}
    OBVIOUS
<1>3. raw \in {None} \cup (says \ documents) \cup
          {[d EXCEPT !.violations = UNION {e.violations : e \in documents}] : d \in documents}
    BY DEF Answers
<1>4. documents \subseteq {said}
    BY <1>2
<1> HIDE DEF says, documents, said
<1>5. CASE raw \in says \ documents
    BY <1>2, <1>5 DEF said
<1>6. ASSUME NEW d \in documents,
             raw = [d EXCEPT !.violations = UNION {e.violations : e \in documents}]
      PROVE  raw = said
    <2>1. d = said /\ documents = {said}
        BY <1>4, <1>6
    <2>2. UNION {e.violations : e \in documents} = said.violations
        BY <2>1
    <2>3. [said EXCEPT !.violations = said.violations] = said
        BY <1>1 DEF Response
    <2> QED BY <1>6, <2>1, <2>2, <2>3
<1> QED BY <1>3, <1>5, <1>6 DEF said

LEMMA EvaluateIsCurrent ==
    ASSUME Shapes, HealInv, NEW x \in run.todo, Evaluate(x)
    PROVE  HealInv'
<1> SUFFICES ASSUME run'.healed PROVE HealInv'
    BY DEF HealInv
<1>1. PICK raw \in Answers(Module(x.policy), x.policy.opa_package) :
          run' = [run EXCEPT !.todo = @ \ {x}, !.checks = @ \cup {Record(x, raw)}]
    BY DEF Evaluate
<1> DEFINE check == Record(x, raw)
<1>2. /\ run.healed /\ run'.todo = run.todo \ {x} /\ run'.checks = run.checks \cup {check}
      /\ UNCHANGED <<rows, modules, sync>>
    BY <1>1 DEF Evaluate, Shapes, RunTypes
<1>3. x \in [id : Id, policy : Policy]
    BY DEF Shapes, RunTypes
<1>4. raw \in Response \cup {None}
    BY <1>3, AnswerTypes, ModuleInDomain
<1>5. /\ check.policy = x.policy /\ check.raw = raw
      /\ check.alone => Others(Module(x.policy), x.policy.opa_package) = {}
      /\ Decided(check, run.facts)
    BY RecordDecides
<1>6. check.engine = "opa" => raw # None
    <2>1. raw = None => evaluate_one(x.policy, raw, run.facts).engine \in {"rules", "none"}
        BY DEF evaluate_one, evaluate_rules
    <2> QED BY <1>5, <2>1 DEF Decided
<1> HIDE DEF check
<1>7. check.alone /\ check.engine = "opa" /\ Compiles(check.policy) =>
          check.raw = check.policy.rego_code.says
    <2> SUFFICES ASSUME check.alone, check.engine = "opa", Compiles(check.policy)
                 PROVE  check.raw = check.policy.rego_code.says
        OBVIOUS
    <2>1. x.policy \in Policy /\ Compiles(x.policy) /\ x.policy.rego_code # None /\ raw # None
        BY <1>3, <1>5, <1>6 DEF Compiles
    <2>2. modules[Module(x.policy)] = x.policy.rego_code
        BY <1>2, <2>1 DEF HealInv, Held
    <2>3. raw = x.policy.rego_code.says
        BY <1>5, <2>1, <2>2, OneAnswer
    <2> QED BY <1>5, <2>3
<1>8. HealedRunsAreCurrent'
    BY <1>2, <1>7 DEF HealInv, HealedRunsAreCurrent, Compiles
<1> QED BY <1>2, <1>8 DEF HealInv, Held, Due, Listed, Live, Module, Compiles

LEMMA SelectIsCurrent ==
    ASSUME Shapes, SyncInv, NEW scope \in Scopes, Select(scope)
    PROVE  HealInv'
<1> SUFFICES ASSUME run'.healed PROVE HealInv'
    BY DEF HealInv
<1> DEFINE selected == {i \in Id : Applies(rows[i], scope)}
           todo == {[id |-> i, policy |-> rows[i]] : i \in selected}
           healed == sync.pc = "done" /\ sync.calm /\ sync.clean
<1>1. run' = [pc |-> "evaluate", selected |-> selected, todo |-> todo,
              facts |-> scope.facts, checks |-> {}, healed |-> healed]
    BY DEF Select
<1>2. UNCHANGED <<rows, modules, sync>>
    BY DEF Select
<1>3. healed /\ run'.todo = todo /\ run'.checks = {}
    BY <1>1
<1>4. \A i \in Id : Due(i) /\ Compiles(rows[i]) => Held(i)
    BY <1>3 DEF SyncInv, Held, Compiles
<1>5. sync.todo = {}
    BY <1>3 DEF SyncInv
<1>6. \A i \in selected : rows[i] # None /\ (Compiles(rows[i]) => Due(i))
    BY DEF Applies, Live, Due, Listed, Compiles
<1>7. \A y \in todo : rows[y.id] # None /\ y.policy = rows[y.id]
                      /\ (Compiles(y.policy) => Held(y.id))
    BY <1>4, <1>6
<1> HIDE DEF todo
<1> QED BY <1>2, <1>3, <1>5, <1>7 DEF HealInv, HealedRunsAreCurrent, Held, Module, Compiles

\* Another synchronisation changes nothing for the run: it pushes what the rows hold.
LEMMA PushIsCurrent ==
    ASSUME Shapes, Unique, HealInv, NEW policy \in sync.todo, SyncPush(policy)
    PROVE  HealInv'
<1> SUFFICES ASSUME run.healed PROVE HealInv'
    BY DEF HealInv, SyncPush
<1>1. PICK answer : Load(Module(policy), policy.rego_code, answer) /\ Answered(policy, answer)
    BY DEF SyncPush
<1>2. sync'.todo = sync.todo \ {policy} /\ UNCHANGED <<rows, run>>
    BY <1>1 DEF SyncPush, Answered, Shapes, SyncTypes
<1>3. PICK j \in Id : Due(j) /\ policy = rows[j]
    BY DEF HealInv
<1>4. ASSUME NEW x \in run.todo, Compiles(x.policy)
      PROVE  modules'[Module(rows[x.id])] = rows[x.id].rego_code
    <2>1. x.id \in Id /\ x.policy \in Policy /\ x.policy = rows[x.id] /\ Held(x.id)
        BY <1>4 DEF HealInv, Shapes, RunTypes
    <2>2. Module(rows[x.id]) \in Key \X Version /\ rows[x.id] # None
        BY <2>1, ModuleInDomain, NoneIsNoPolicy
    <2>3. CASE Module(rows[x.id]) = Module(policy)
        <3>1. x.id = j
            BY <1>3, <2>1, <2>2, <2>3 DEF Unique, Due, Listed, Live
        <3>2. modules[Module(policy)] = policy.rego_code
            BY <1>3, <2>1, <3>1 DEF Held
        <3> QED BY <1>1, <1>3, <2>2, <2>3, <3>1, <3>2 DEF Load, Shapes, OpaTypes
    <2>4. CASE Module(rows[x.id]) # Module(policy)
        BY <1>1, <2>1, <2>2, <2>4 DEF Load, Shapes, OpaTypes, Held
    <2> QED BY <2>3, <2>4
<1>5. \A i \in Id : Due(i)' <=> Due(i)
    BY <1>2 DEF Due, Listed, Live
<1>6. \A x \in run.todo : Compiles(x.policy) => Held(x.id)'
    BY <1>2, <1>4 DEF Held, Module
<1> QED BY <1>2, <1>5, <1>6 DEF HealInv, HealedRunsAreCurrent, Compiles

LEMMA HealInvNext == Shapes /\ Unique /\ SyncInv /\ HealInv /\ [Next]_vars => HealInv'
<1> SUFFICES ASSUME Shapes, Unique, SyncInv, HealInv, [Next]_vars PROVE HealInv'
    OBVIOUS
<1>1. ASSUME Disturb
      PROVE  HealInv'
    <2>1. ~run'.healed
        BY <1>1 DEF Disturb, Shapes, RunTypes
    <2> QED BY <2>1 DEF HealInv
<1>2. ASSUME UNCHANGED <<rows, modules, run>>, sync'.todo \subseteq sync.todo
      PROVE  HealInv'
    BY <1>2 DEF HealInv, HealedRunsAreCurrent, Held, Due, Listed, Live, Module,
        Compiles
<1>3. CASE Restart \/ Seed
    BY <1>1, <1>3 DEF Restart, Seed
<1>4. ASSUME NEW r \in Request,
             \/ \E id \in Id : Get(r, id) \/ \E draft \in Drafts : CreatePolicy(r, id, draft)
             \/ \E patch \in Patches : UpdatePolicy(r, patch)
             \/ DeletePolicy(r)
             \/ Commit(r)
             \/ Abort(r)
      PROVE  HealInv'
    <2>1. Disturb \/ UNCHANGED <<rows, modules, sync, run>>
        BY <1>4 DEF Get, CreatePolicy, UpdatePolicy, DeletePolicy, Commit, Abort, FlushAndPush
    <2> QED BY <1>1, <1>2, <2>1
<1>5. CASE SyncStart \/ SyncLibrary \/ SyncEnd
    <2>1. UNCHANGED <<rows, modules, run>> /\ sync'.todo \subseteq sync.todo
        BY <1>5 DEF SyncStart, NoSync, SyncLibrary, PushLibrary, SyncEnd, Shapes, SyncTypes
    <2> QED BY <1>2, <2>1
<1>6. CASE SyncList
    <2> DEFINE listed == {rows[i] : i \in {j \in Id : Listed(rows[j])}}
    <2>1. sync' = [sync EXCEPT !.pc = "policies", !.todo = listed] /\ UNCHANGED <<rows, modules, run>>
        BY <1>6 DEF SyncList
    <2>2. \A p \in listed : \E i \in Id : Due(i) /\ p = rows[i]
        BY DEF Due
    <2> HIDE DEF listed
    <2>3. sync'.todo = listed
        BY <2>1 DEF Shapes, SyncTypes
    <2> QED BY <2>1, <2>2, <2>3 DEF HealInv, HealedRunsAreCurrent, Held, Due, Listed, Live, Module,
        Compiles
<1>7. ASSUME NEW policy \in sync.todo, SyncPush(policy)
      PROVE  HealInv'
    BY <1>7, PushIsCurrent
<1>8. ASSUME NEW scope \in Scopes, Select(scope)
      PROVE  HealInv'
    BY <1>8, SelectIsCurrent
<1>9. ASSUME NEW x \in run.todo, Evaluate(x)
      PROVE  HealInv'
    BY <1>9, EvaluateIsCurrent
<1>10. CASE Finish
    <2>1. UNCHANGED <<rows, modules, sync>> /\ run'.todo = run.todo /\ run'.checks = run.checks
          /\ run'.healed = run.healed
        BY <1>10 DEF Finish, Shapes, RunTypes
    <2> QED BY <2>1 DEF HealInv, HealedRunsAreCurrent, Held, Due, Listed, Live, Module,
        Compiles
<1>11. CASE UNCHANGED vars
    BY <1>2, <1>11 DEF vars
<1> QED BY <1>3, <1>4, <1>5, <1>6, <1>7, <1>8, <1>9, <1>10, <1>11 DEF Next

\* After such a synchronisation a run records what the Rego of the row says, never what a
\* Rego says that was pushed and rolled back or has been replaced.
THEOREM HealedRunsDoUseTheRows == Spec => []HealedRunsAreCurrent
<1>1. HealInv => HealedRunsAreCurrent
    BY DEF HealInv, HealedRunsAreCurrent
<1>2. Init => Unique /\ Claims
    BY DEF Init, Unregistered, NoRequest, Unique, Claims
<1> QED BY <1>1, <1>2, ShapesInit, ShapesNext, UniqueNext, SyncInvInit, SyncInvNext,
           HealInvInit, HealInvNext, PTL DEF Spec

===============================================================================
