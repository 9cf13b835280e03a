-------------------------- MODULE AssessmentProofs --------------------------
(***************************************************************************)
(* Theorems about Assessment, for any member states, jurisdictions, rows,  *)
(* metadata and number of requests.                                        *)
(*                                                                         *)
(* What the rules promise of every state is EngineProofs applied to the    *)
(* rules that are loaded; what requests store follows from an inductive    *)
(* invariant that says what each has added so far.                         *)
(***************************************************************************)
EXTENDS Assessment, EngineProofs

-----------------------------------------------------------------------------
(* Types *)

LEMMA InitTypes == Init => TypeOK
<1> SUFFICES ASSUME Init PROVE TypeOK
  OBVIOUS
<1>1. \A c \in DOMAIN JURISDICTIONS : JURISDICTIONS[c] # None /\ WellFormed(JURISDICTIONS[c])
  BY Storable
<1>2. DOMAIN rows = Code /\ \A c \in Code : rows[c] = None \/ WellFormed(rows[c])
  BY <1>1 DEF Init, Unregistered, seed_jurisdictions
<1>3. edits \in 0 .. MaxEdits
  BY Storable DEF Init
<1> QED BY <1>2, <1>3, Storable DEF Init, TypeOK, Idle

\* The row of an edit is one that may be stored.
LEMMA EditTypes ==
    ASSUME TypeOK,
           \/ \E code \in Administered : CreateJurisdiction(code) \/ UpdateJurisdiction(code)
           \/ Seed
           \/ EditMetadata
    PROVE  /\ DOMAIN rows' = Code
           /\ \A c \in Code : rows[c]' = None \/ WellFormed(rows[c]')
           /\ metadata' \in Metadata \cup {None}
<1> USE DEF TypeOK
<1>1. ASSUME NEW code \in Administered, CreateJurisdiction(code)
      PROVE  DOMAIN rows' = Code /\ \A c \in Code : rows'[c] = None \/ WellFormed(rows'[c])
  <2>1. PICK active \in BOOLEAN, territories \in Territories, taxonomy \in Taxonomies,
             overlay \in Overlays :
          rows' = [rows EXCEPT ![code] =
                      [is_active |-> active, territories |-> territories,
                       overlay_config |-> overlay, taxonomy |-> taxonomy]]
    BY <1>1 DEF CreateJurisdiction
  <2>2. WellFormed([is_active |-> active, territories |-> territories,
                    overlay_config |-> overlay, taxonomy |-> taxonomy])
    BY Storable DEF WellFormed
  <2> QED BY <2>1, <2>2
<1>2. ASSUME NEW code \in Administered, UpdateJurisdiction(code)
      PROVE  DOMAIN rows' = Code /\ \A c \in Code : rows'[c] = None \/ WellFormed(rows'[c])
  <2>1. WellFormed(rows[code]) /\ code \in Code
    BY <1>2, Storable DEF UpdateJurisdiction
  <2>2. CASE \E active \in BOOLEAN : rows' = [rows EXCEPT ![code].is_active = active]
    BY <2>1, <2>2 DEF WellFormed
  <2>3. CASE \E territories \in Territories :
                rows' = [rows EXCEPT ![code].territories = territories]
    BY <2>1, <2>3, Storable DEF WellFormed
  <2>4. CASE \E overlay \in Overlays : rows' = [rows EXCEPT ![code].overlay_config = overlay]
    BY <2>1, <2>4, Storable DEF WellFormed
  <2>5. CASE \E taxonomy \in Taxonomies : rows' = [rows EXCEPT ![code].taxonomy = taxonomy]
    BY <2>1, <2>5, Storable DEF WellFormed
  <2> QED BY <1>2, <2>2, <2>3, <2>4, <2>5 DEF UpdateJurisdiction
<1>3. ASSUME Seed
      PROVE  DOMAIN rows' = Code /\ \A c \in Code : rows'[c] = None \/ WellFormed(rows'[c])
  <2>1. \A c \in DOMAIN JURISDICTIONS : WellFormed(JURISDICTIONS[c])
    BY Storable
  <2>2. ASSUME NEW c \in Code PROVE rows'[c] = None \/ WellFormed(rows'[c])
    <3>1. CASE c \in DOMAIN JURISDICTIONS /\ rows[c] # None
      <4>1. rows'[c] = [JURISDICTIONS[c] EXCEPT !.is_active = rows[c].is_active]
        BY <1>3, <3>1 DEF Seed, seed_jurisdictions
      <4>2. rows[c].is_active \in BOOLEAN
        BY <3>1 DEF WellFormed
      <4> QED BY <2>1, <3>1, <4>1, <4>2 DEF WellFormed
    <3> QED BY <1>3, <2>1, <3>1 DEF Seed, seed_jurisdictions
  <2> QED BY <1>3, <2>2 DEF Seed, seed_jurisdictions
<1>4. metadata' \in Metadata \cup {None}
  BY Storable DEF CreateJurisdiction, UpdateJurisdiction, Seed, EditMetadata
<1>5. CASE EditMetadata
  BY <1>4, <1>5 DEF EditMetadata
<1> QED BY <1>1, <1>2, <1>3, <1>4, <1>5

LEMMA NextTypes == TypeOK /\ [Next]_vars => TypeOK'
<1> SUFFICES ASSUME TypeOK, [Next]_vars PROVE TypeOK'
  OBVIOUS
<1>1. CASE UNCHANGED vars
  BY <1>1 DEF vars, TypeOK
<1>2. CASE /\ Edit
           /\ \/ \E code \in Administered : CreateJurisdiction(code) \/ UpdateJurisdiction(code)
              \/ Seed
              \/ EditMetadata
  <2>1. edits' \in 0 .. MaxEdits /\ request' = request
    BY <1>2, Storable DEF Edit, TypeOK
  <2>2. /\ DOMAIN rows' = Code
        /\ \A c \in Code : rows[c]' = None \/ WellFormed(rows[c]')
        /\ metadata' \in Metadata \cup {None}
    BY <1>2, EditTypes
  <2> QED BY <2>1, <2>2 DEF TypeOK
<1>3. ASSUME NEW r \in Request,
             \/ LoadEngine(r) \/ ReadSystem(r)
             \/ \E asked \in Asked : Evaluate(r, asked)
             \/ \E code \in Code : Classify(r, code)
             \/ Commit(r) \/ NotRegistered(r)
      PROVE  TypeOK'
  <2>1. UNCHANGED <<rows, metadata, edits>> /\ DOMAIN request' = Request
    BY <1>3 DEF LoadEngine, ReadSystem, Evaluate, Classify, Commit, NotRegistered, TypeOK
  <2>2. \A q \in Request : q # r => request'[q] = request[q]
    BY <1>3 DEF LoadEngine, ReadSystem, Evaluate, Classify, Commit, NotRegistered, TypeOK
  <2> DEFINE Fits(q) ==
        q \in [pc : {"reading", "classify", "done", "failed"}, loaded : BOOLEAN, read : BOOLEAN,
               rules : {q.rules}, system : Metadata \cup {None}, asked : SUBSET Code,
               verdicts : {q.verdicts}, added : {q.added}]
  <2>3. Fits(request[r])
    BY DEF TypeOK
  <2>4. Fits(request'[r])
    <3>1. CASE LoadEngine(r)
      BY <2>3, <3>1 DEF LoadEngine, TypeOK
    <3>2. CASE ReadSystem(r)
      BY <2>3, <3>2 DEF ReadSystem, TypeOK
    <3>3. ASSUME NEW asked \in Asked, Evaluate(r, asked) PROVE Fits(request'[r])
      <4>1. asked \subseteq Code
        BY Storable
      <4> QED BY <2>3, <3>3, <4>1 DEF Evaluate, TypeOK
    <3>4. ASSUME NEW code \in Code, Classify(r, code) PROVE Fits(request'[r])
      BY <2>3, <3>4 DEF Classify, TypeOK
    <3>5. CASE Commit(r)
      BY <2>3, <3>5 DEF Commit, TypeOK
    <3>6. CASE NotRegistered(r)
      BY <2>3, <3>6 DEF NotRegistered, Idle, TypeOK
    <3> QED BY <1>3, <3>1, <3>2, <3>3, <3>4, <3>5, <3>6
  <2> QED BY <2>1, <2>2, <2>4 DEF TypeOK
<1> QED BY <1>1, <1>2, <1>3 DEF Next

\* The shapes hold in every behaviour.
THEOREM TypeCorrect == Spec => []TypeOK
  BY InitTypes, NextTypes, PTL DEF Spec

-----------------------------------------------------------------------------
(* What the rules promise, of every state *)

\* Every rule that is loaded is checked by AppliesIfTouched and ReportsWhatMatched.
THEOREM RightVerdicts == Spec => []VerdictsAreRight
<1>1. VerdictsAreRight
  BY AppliesIfTouched, ReportsWhatMatched DEF VerdictsAreRight
<1> QED BY <1>1, PTL

\* A row that names no known trigger has the built-in ones.
THEOREM StaleRowsDoStayOn == Spec => []StaleRowsStayOn
<1>1. ASSUME NEW c \in Code,
             "triggers" \in DOMAIN rows[c].overlay_config,
             rows[c].overlay_config.triggers \cap TRIGGER_REGISTRY = {}
      PROVE  LET rule == rule_from_row(c, rows[c])
                 p == from_metadata(metadata)
             IN  Touches([rule EXCEPT !.triggers = Fallback(c).triggers], p)
                     => evaluate_rule(rule, p).applicable
  <2> DEFINE rule == rule_from_row(c, rows[c])
             p == from_metadata(metadata)
  <2>1. rule.triggers = Fallback(c).triggers
    BY <1>1 DEF rule_from_row, coerce_triggers, Lookup
  <2>2. [rule EXCEPT !.triggers = Fallback(c).triggers] = rule
    BY <2>1 DEF rule_from_row
  <2> HIDE DEF rule, p
  <2>3. evaluate_rule(rule, p).applicable <=> Touches(rule, p)
    BY AppliesIfTouched
  <2>4. Touches([rule EXCEPT !.triggers = Fallback(c).triggers], p)
            => evaluate_rule(rule, p).applicable
    BY <2>2, <2>3
  <2> QED BY <2>4 DEF rule, p
<1>2. StaleRowsStayOn
  BY <1>1 DEF StaleRowsStayOn
<1> QED BY <1>2, PTL

\* No loaded rule counts a missing use case as consequential.
LEMMA RulesNameUseCases ==
    ASSUME TypeOK, NEW c \in DOMAIN load_engine(rows)
    PROVE  load_engine(rows)[c].consequential_use_cases \subseteq UseCase
<1>1. \A code : Fallback(code).consequential_use_cases = {}
  BY DEF Fallback, DEFAULT_RULES, Builtin
<1>2. CASE load_engine(rows) = DEFAULT_RULES
  BY <1>2 DEF DEFAULT_RULES, Builtin
<1>3. CASE load_engine(rows) # DEFAULT_RULES
  <2>1. c \in Code /\ rows[c] # None /\ load_engine(rows)[c] = rule_from_row(c, rows[c])
    BY <1>3 DEF load_engine
  <2>2. Lookup(rows[c].overlay_config, "consequential_use_cases", {}) \subseteq UseCase
    BY <2>1 DEF TypeOK, WellFormed, ValidOverlay
  <2> DEFINE named == Lookup(rows[c].overlay_config, "consequential_use_cases", {})
  <2>3. rule_from_row(c, rows[c]).consequential_use_cases
            = IF named # {} THEN named ELSE Fallback(c).consequential_use_cases
    BY DEF rule_from_row
  <2> QED BY <1>1, <2>1, <2>2, <2>3
<1> QED BY <1>2, <1>3

\* Declaring more never loses a regime.
THEOREM NoRegimeIsForgotten == Spec => NoRegimeForgotten
<1> DEFINE p == from_metadata(metadata)
           q == from_metadata(metadata')
           rules == load_engine(rows)
           Kept == rows' = rows /\ Wider(p, q) =>
                      evaluate(rules, p).applicable \subseteq evaluate(rules, q).applicable
<1>1. TypeOK /\ [Next]_vars => [Kept]_metadata
  <2> SUFFICES ASSUME TypeOK, Wider(p, q)
               PROVE  evaluate(rules, p).applicable \subseteq evaluate(rules, q).applicable
    OBVIOUS
  <2>1. \A c \in DOMAIN rules : rules[c].consequential_use_cases \subseteq UseCase
    BY RulesNameUseCases
  <2> HIDE DEF p, q, rules
  <2>2. \A c \in DOMAIN rules : Touches(rules[c], p) => Touches(rules[c], q)
    BY <2>1, TouchesMore
  <2> QED BY <2>2, ApplicableCodes
<1>2. NoRegimeForgotten <=> [][Kept]_metadata
  BY DEF NoRegimeForgotten
<1> QED BY <1>1, <1>2, TypeCorrect, PTL DEF Spec

\* Every loaded rule is about a code and has a number for its strictness.
LEMMA RulesCompare ==
    ASSUME TypeOK
    PROVE  /\ DOMAIN load_engine(rows) \subseteq Code
           /\ \A c \in DOMAIN load_engine(rows) : load_engine(rows)[c].strictness \in Int
<1>1. DOMAIN DEFAULT_RULES \subseteq Code
  BY Storable
<1>2. \A code \in DOMAIN DEFAULT_RULES : DEFAULT_RULES[code].strictness \in Int
  BY DEF DEFAULT_RULES, Builtin
<1>3. CASE load_engine(rows) = DEFAULT_RULES
  BY <1>1, <1>2, <1>3
<1>4. CASE load_engine(rows) # DEFAULT_RULES
  <2>1. ASSUME NEW c \in DOMAIN load_engine(rows)
        PROVE  c \in Code /\ load_engine(rows)[c].strictness \in Int
    <3>1. c \in Code /\ rows[c] # None /\ load_engine(rows)[c] = rule_from_row(c, rows[c])
      BY <1>4, <2>1 DEF load_engine
    <3>2. Lookup(rows[c].overlay_config, "strictness", 0) \in Int
      BY <3>1 DEF TypeOK, WellFormed, ValidOverlay
    <3>3. Fallback(c).strictness \in Int
      BY <1>2 DEF Fallback, Builtin
    <3>4. rule_from_row(c, rows[c]).strictness
              = Lookup(rows[c].overlay_config, "strictness", Fallback(c).strictness)
      BY DEF rule_from_row
    <3>5. Lookup(rows[c].overlay_config, "strictness", Fallback(c).strictness) \in Int
      BY <3>2, <3>3 DEF Lookup
    <3> QED BY <3>1, <3>4, <3>5
  <2> QED BY <2>1
<1> QED BY <1>3, <1>4

\* The regimes that take priority are the first to be evaluated, all of them, and a conflict
\* is announced exactly when there are two: for whatever rows are stored.
THEOREM StrictestAreFirst == Spec => []StrictestFirst
<1>1. TypeOK => StrictestFirst
  <2> DEFINE rules == load_engine(rows)
             p == from_metadata(metadata)
  <2> SUFFICES ASSUME TypeOK PROVE StrictestFirst
    OBVIOUS
  <2>1. DOMAIN rules \subseteq Code /\ \A c \in DOMAIN rules : rules[c].strictness \in Int
    BY RulesCompare
  <2> HIDE DEF rules, p
  <2>2. LET a == evaluate(rules, p)
            top == Cardinality(a.most_restrictive)
        IN  /\ {a.evaluation_order[i] : i \in 1 .. top} = a.most_restrictive
            /\ a.applicable # {} => top > 0
            /\ a.apply_most_restrictive <=> \E c, d \in a.applicable : c # d
    BY <2>1, StrictestComeFirst
  <2> QED BY <2>2 DEF StrictestFirst, rules, p
<1> QED BY <1>1, TypeCorrect, PTL

\* Declaring more makes no system safer, under the baseline and under any taxonomy.
THEOREM MoreIsNoSafer == Spec => DeclaringMoreIsNoSafer
<1> DEFINE old == baseline(metadata)
           new == baseline(metadata')
           tier(c, base, flags) == apply_overlay(rows[c].taxonomy, base, flags).tier
           NoSafer ==
              rows' = rows /\ DeclaresMore(metadata, metadata') =>
                /\ old.score <= new.score
                /\ \/ /\ AsGrave(new.tier, old.tier)
                      /\ \A c \in Code : rows[c] # None =>
                            AsGrave(tier(c, new, Flags(metadata')), tier(c, old, Flags(metadata)))
                   \/ Relabelled(metadata, metadata')
<1>1. TypeOK /\ TypeOK' => NoSafer
  <2> SUFFICES ASSUME TypeOK, TypeOK', DeclaresMore(metadata, metadata') PROVE NoSafer
    OBVIOUS
  <2>1. metadata \in Metadata \cup {None} /\ metadata' \in Metadata \cup {None}
    BY DEF TypeOK
  <2>2. old.score <= new.score /\ (AsGrave(new.tier, old.tier) \/ Relabelled(metadata, metadata'))
    BY <2>1, BaselineGrows
  <2>3. Graded01(old) /\ Graded01(new)
    BY <2>1, BaselineIsGraded
  <2>4. old.use_case \in {NoUseCase, new.use_case}
    <3>1. /\ metadata = None => old.use_case = NoUseCase
          /\ metadata # None => old.use_case = metadata.use_case
          /\ metadata' # None => new.use_case = (metadata').use_case
      BY DEF baseline, Graded
    <3> QED BY <3>1 DEF DeclaresMore
  <2>5. Flags(metadata) \subseteq Flags(metadata')
    BY DEF Flags, DeclaresMore
  <2> HIDE DEF old, new
  <2>6. ASSUME AsGrave(new.tier, old.tier), NEW c \in Code, rows[c] # None
        PROVE  AsGrave(tier(c, new, Flags(metadata')), tier(c, old, Flags(metadata)))
    <3>1. rows[c].taxonomy \in Taxonomy
      BY <2>6 DEF TypeOK, WellFormed
    <3> QED BY <2>3, <2>4, <2>5, <2>6, <3>1, OverlayGrows
  <2> HIDE DEF tier
  <2> QED BY <2>2, <2>6
<1>2. TypeOK /\ TypeOK' => [NoSafer]_metadata
  BY <1>1
<1>3. DeclaringMoreIsNoSafer <=> [][NoSafer]_metadata
  BY DEF DeclaringMoreIsNoSafer
<1> QED BY <1>2, <1>3, TypeCorrect, PTL

-----------------------------------------------------------------------------
(* What requests add *)

Escalated(x) == AsGrave(x.tier, x.baseline.tier) /\ x.score \in 0 .. 100

Mine(r) == {x \in classifications : x.request = r}
Touched(r) == {c \in DOMAIN request[r].rules : Touches(request[r].rules[c], Profile(r))}
Wanted(r) == IF request[r].asked = {} THEN Touched(r) ELSE request[r].asked

\* What request r has added, of what it has to.
Progress(r) ==
    LET q == request[r]
    IN  /\ q.pc \in {"reading", "failed"} => q.added = {}
        /\ q.pc # "done" => Mine(r) = {}
        /\ q.pc = "done" => Mine(r) = q.added /\ DOMAIN q.verdicts = {}
        /\ q.pc \in {"classify", "done"} =>
              /\ {x.code : x \in q.added} \cup DOMAIN q.verdicts = Wanted(r)
              /\ {x.code : x \in q.added} \cap DOMAIN q.verdicts = {}
              /\ \A c \in DOMAIN q.verdicts : q.verdicts[c] <=> c \in Touched(r)
              /\ \A x \in q.added : x.applicable <=> x.code \in Touched(r)
              /\ \A x, y \in q.added : x.code = y.code => x = y
        /\ \A x \in q.added : x.request = r /\ Escalated(x)

\* The inductive invariant.
IInv ==
    /\ TypeOK
    /\ \A r \in Request : Progress(r)
    /\ \A x \in classifications : Escalated(x)

LEMMA InitIInv == Init => IInv
  BY InitTypes DEF Init, IInv, Idle, Progress, Mine

\* A step that leaves a request, and the rows it stored, alone keeps its progress.
LEMMA ProgressKept ==
    ASSUME NEW r \in Request, Progress(r), request'[r] = request[r], Mine(r)' = Mine(r)
    PROVE  Progress(r)'
<1>1. Touched(r)' = Touched(r) /\ Wanted(r)' = Wanted(r)
  BY DEF Touched, Wanted, Profile
<1> QED BY <1>1 DEF Progress

LEMMA NextIInv == IInv /\ [Next]_vars => IInv'
<1> SUFFICES ASSUME IInv, [Next]_vars PROVE IInv'
  OBVIOUS
<1>t. TypeOK /\ TypeOK'
  BY NextTypes DEF IInv
<1>1. CASE UNCHANGED vars
  BY <1>t, <1>1, ProgressKept DEF vars, IInv, Mine
<1>2. CASE Edit
  <2>1. request' = request /\ classifications' = classifications
    BY <1>2 DEF Edit
  <2> QED BY <1>t, <2>1, ProgressKept DEF IInv, Mine
<1>3. ASSUME NEW r \in Request, LoadEngine(r) \/ ReadSystem(r)
      PROVE  IInv'
  <2>1. /\ classifications' = classifications
        /\ request[r].pc = "reading" /\ request'[r].pc = "reading"
        /\ request'[r].added = request[r].added
        /\ \A q \in Request : q # r => request'[q] = request[q]
    BY <1>t, <1>3 DEF LoadEngine, ReadSystem, TypeOK
  <2>2. Progress(r)'
    BY <2>1 DEF IInv, Progress, Mine
  <2> QED BY <1>t, <2>1, <2>2, ProgressKept DEF IInv, Mine
<1>4. ASSUME NEW r \in Request, NEW asked \in Asked, Evaluate(r, asked)
      PROVE  IInv'
  <2> DEFINE applicable == Assessed(r).applicable
  <2>1. /\ classifications' = classifications
        /\ request[r].pc = "reading" /\ request'[r].pc = "classify"
        /\ request'[r].added = request[r].added
        /\ request'[r].asked = asked
        /\ request'[r].rules = request[r].rules /\ request'[r].system = request[r].system
        /\ request'[r].verdicts = Chosen(applicable, asked)
        /\ \A q \in Request : q # r => request'[q] = request[q]
    BY <1>t, <1>4 DEF Evaluate, TypeOK
  <2>2. applicable = Touched(r)
    BY ApplicableCodes DEF Assessed, Touched
  <2>3. Touched(r)' = Touched(r)
    BY <2>1 DEF Touched, Profile
  <2>4. Wanted(r)' = IF asked = {} THEN applicable ELSE asked
    BY <2>1, <2>2, <2>3 DEF Wanted
  <2> HIDE DEF applicable
  <2>5. /\ DOMAIN request'[r].verdicts = Wanted(r)'
        /\ \A c \in DOMAIN request'[r].verdicts :
              request'[r].verdicts[c] <=> c \in Touched(r)'
    BY <2>1, <2>2, <2>3, <2>4 DEF Chosen
  <2>6. request'[r].added = {} /\ Mine(r)' = {}
    BY <2>1 DEF IInv, Progress, Mine
  <2>7. Progress(r)'
    BY <2>1, <2>5, <2>6 DEF Progress
  <2> QED BY <1>t, <2>1, <2>7, ProgressKept DEF IInv, Mine
<1>5. ASSUME NEW r \in Request, NEW code \in Code, Classify(r, code)
      PROVE  IInv'
  <2> DEFINE q == request[r]
             overlay == apply_overlay(rows[code].taxonomy, baseline(q.system), Flags(q.system))
             x == [request |-> r, code |-> code, applicable |-> q.verdicts[code],
                   tier |-> overlay.tier, score |-> overlay.score,
                   baseline |-> baseline(q.system)]
  <2>1. /\ classifications' = classifications
        /\ q.pc = "classify" /\ request'[r].pc = "classify"
        /\ code \in DOMAIN q.verdicts
        /\ request'[r].added = q.added \cup {x}
        /\ request'[r].asked = q.asked
        /\ request'[r].rules = q.rules /\ request'[r].system = q.system
        /\ request'[r].verdicts = [c \in DOMAIN q.verdicts \ {code} |-> q.verdicts[c]]
        /\ \A other \in Request : other # r => request'[other] = request[other]
    <3>1. /\ classifications' = classifications
          /\ q.pc = "classify" /\ code \in DOMAIN q.verdicts
          /\ request' = [request EXCEPT
                ![r].verdicts = [c \in DOMAIN q.verdicts \ {code} |-> q.verdicts[c]],
                ![r].added = @ \cup {x}]
      BY <1>5 DEF Classify
    <3>2. /\ DOMAIN request = Request
          /\ DOMAIN q = {"pc", "loaded", "read", "rules", "system", "asked", "verdicts", "added"}
      BY <1>t DEF TypeOK
    <3> HIDE DEF x
    <3> DEFINE left == [c \in DOMAIN q.verdicts \ {code} |-> q.verdicts[c]]
    <3> HIDE DEF left
    <3>3. request' = [request EXCEPT ![r].verdicts = left, ![r].added = @ \cup {x}]
      BY <3>1 DEF left
    <3>4. /\ request'[r].pc = q.pc /\ request'[r].added = q.added \cup {x}
          /\ request'[r].asked = q.asked /\ request'[r].rules = q.rules
          /\ request'[r].system = q.system /\ request'[r].verdicts = left
          /\ \A other \in Request : other # r => request'[other] = request[other]
      BY <3>2, <3>3
    <3> QED BY <3>1, <3>4 DEF left
  <2>2. Escalated(x)
    <3>1. Graded01(baseline(q.system))
      BY <1>t, BaselineIsGraded DEF TypeOK
    <3>2. rows[code].taxonomy \in Taxonomy
      BY <1>t, <1>5 DEF Classify, TypeOK, WellFormed
    <3>3. AsGrave(overlay.tier, baseline(q.system).tier) /\ overlay.score \in 0 .. 100
      BY <3>1, <3>2, OverlayEscalates
    <3> HIDE DEF overlay
    <3> QED BY <3>3 DEF Escalated
  <2>3. Touched(r)' = Touched(r) /\ Wanted(r)' = Wanted(r)
    BY <2>1 DEF Touched, Profile, Wanted
  <2>4. x.request = r /\ x.code = code /\ (x.applicable <=> q.verdicts[code])
    OBVIOUS
  <2> HIDE DEF x
  <2>5. Progress(r)'
    <3>1. Progress(r)
      BY DEF IInv
    <3>2. Mine(r)' = {}
      BY <2>1, <3>1 DEF Progress, Mine
    <3>3. DOMAIN request'[r].verdicts = DOMAIN q.verdicts \ {code}
      BY <2>1
    <3>4. {y.code : y \in request'[r].added} = {y.code : y \in q.added} \cup {code}
      BY <2>1, <2>4
    <3>5. \A c \in DOMAIN request'[r].verdicts : request'[r].verdicts[c] <=> c \in Touched(r)'
      BY <2>1, <2>3, <3>1, <3>3 DEF Progress
    <3>6. \A y \in request'[r].added : y.applicable <=> y.code \in Touched(r)'
      BY <2>1, <2>3, <2>4, <3>1 DEF Progress
    <3>7. \A y, z \in request'[r].added : y.code = z.code => y = z
      BY <2>1, <2>4, <3>1 DEF Progress
    <3>8. \A y \in request'[r].added : y.request = r /\ Escalated(y)
      BY <2>1, <2>2, <2>4, <3>1 DEF Progress
    <3>9. /\ {y.code : y \in request'[r].added} \cup DOMAIN request'[r].verdicts = Wanted(r)'
          /\ {y.code : y \in request'[r].added} \cap DOMAIN request'[r].verdicts = {}
      BY <2>1, <2>3, <3>1, <3>3, <3>4 DEF Progress
    <3> QED BY <2>1, <3>2, <3>5, <3>6, <3>7, <3>8, <3>9 DEF Progress, Escalated
  <2> QED BY <1>t, <2>1, <2>5, ProgressKept DEF IInv, Mine
<1>6. ASSUME NEW r \in Request, Commit(r)
      PROVE  IInv'
  <2>1. /\ classifications' = classifications \cup request[r].added
        /\ request[r].pc = "classify" /\ request'[r].pc = "done"
        /\ DOMAIN request[r].verdicts = {}
        /\ request'[r] = [request[r] EXCEPT !.pc = "done"]
        /\ \A q \in Request : q # r => request'[q] = request[q]
    BY <1>t, <1>6 DEF Commit, TypeOK
  <2>2. \A x \in request[r].added : x.request = r /\ Escalated(x)
    BY DEF IInv, Progress
  <2>3. \A q \in Request : q # r => Mine(q)' = Mine(q)
    BY <2>1, <2>2 DEF Mine
  <2>4. Mine(r)' = request[r].added
    BY <2>1, <2>2 DEF Mine, IInv, Progress
  <2>5. /\ request'[r].added = request[r].added /\ request'[r].verdicts = request[r].verdicts
        /\ request'[r].rules = request[r].rules /\ request'[r].system = request[r].system
        /\ request'[r].asked = request[r].asked
    BY <1>t, <2>1 DEF TypeOK
  <2>6. Touched(r)' = Touched(r) /\ Wanted(r)' = Wanted(r)
    BY <2>5 DEF Touched, Profile, Wanted
  <2>7. Progress(r)'
    BY <2>1, <2>4, <2>5, <2>6 DEF IInv, Progress
  <2>8. \A x \in classifications' : Escalated(x)
    BY <2>1, <2>2 DEF IInv
  <2>9. \A q \in Request : Progress(q)'
    BY <2>1, <2>3, <2>7, ProgressKept DEF IInv
  <2> QED BY <1>t, <2>8, <2>9 DEF IInv, Escalated
<1>7. ASSUME NEW r \in Request, NotRegistered(r)
      PROVE  IInv'
  <2>1. /\ classifications' = classifications
        /\ request[r].pc \in {"reading", "classify"}
        /\ request'[r].pc = "failed" /\ request'[r].added = {}
        /\ \A q \in Request : q # r => request'[q] = request[q]
    BY <1>t, <1>7 DEF NotRegistered, Idle, TypeOK
  <2>2. Progress(r)'
    BY <2>1 DEF IInv, Progress, Mine
  <2> QED BY <1>t, <2>1, <2>2, ProgressKept DEF IInv, Mine
<1> QED BY <1>1, <1>2, <1>3, <1>4, <1>5, <1>6, <1>7 DEF Next

LEMMA Inductive == Spec => []IInv
  BY InitIInv, NextIInv, PTL DEF Spec

\* No stored tier is below the baseline it was computed from.
THEOREM OverlaysDoEscalate == Spec => []OverlaysEscalate
<1>1. IInv => OverlaysEscalate
  BY DEF IInv, OverlaysEscalate, Escalated
<1> QED BY <1>1, Inductive, PTL

\* A request records what it was asked for, each code once and rightly flagged.
THEOREM RecordsAsAsked == Spec => []RecordedAsAsked
<1>1. IInv => RecordedAsAsked
  <2> SUFFICES ASSUME IInv, NEW r \in Request, request[r].pc = "done"
               PROVE  /\ {x.code : x \in Mine(r)} = Wanted(r)
                      /\ \A x \in Mine(r) : x.applicable <=> x.code \in Touched(r)
                      /\ \A x, y \in Mine(r) : x.code = y.code => x = y
    BY DEF RecordedAsAsked, Mine, Wanted, Touched
  <2> QED BY DEF IInv, Progress
<1> QED BY <1>1, Inductive, PTL

=============================================================================
