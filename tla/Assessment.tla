------------------------------ MODULE Assessment ------------------------------
(***************************************************************************)
(* Assessing a system: administrators and the seed write the rows of the   *)
(* jurisdictions, owners the metadata, and a request loads the rules,      *)
(* reads the system, decides which regimes apply and stores one            *)
(* classification for each.                                                *)
(*                                                                         *)
(* Every read of a request is a SELECT of its own under READ COMMITTED, so *)
(* others commit between them.  A row is read twice: for its rule when the *)
(* engine is loaded and for its taxonomy when its classification is made.  *)
(* One system; what its versions do is in Dashboard.                       *)
(***************************************************************************)
EXTENDS RiskOverlay

CONSTANTS
    Request,                            \* requests and worker tasks that classify
    Asked,                              \* the sets of codes they may ask for
    Administered,                       \* the codes administrators work on
    Territories, Taxonomies, Overlays,  \* what administrators may come to store
    Declared,                           \* the metadata owners may come to store
    MaxEdits                            \* bound on commits of others in a behaviour

VARIABLES
    rows,             \* jurisdictions, by code; None: not registered
    metadata,         \* system_metadata of the system; None: no row
    request,          \* the requests
    classifications,  \* risk_classifications, append-only
    edits             \* commits of others so far

vars == <<rows, metadata, request, classifications, edits>>

-----------------------------------------------------------------------------
(* The seed *)

OverlayKeys == {"strictness", "triggers", "always_applicable", "consequential_use_cases"}

Tuned(strictness, triggers) == [strictness |-> strictness, triggers |-> triggers]

Spelled(codes) == {Typed(code, "-") : code \in codes}

Seeded(territories, overlay, taxonomy) ==
    [is_active |-> TRUE, territories |-> territories, overlay_config |-> overlay,
     taxonomy |-> taxonomy]

Escalates(field, target) == <<[field |-> field, target |-> target]>>

SeededGlobal == Seeded({}, [strictness |-> 10, always_applicable |-> TRUE,
                            triggers |-> {"always_applicable"}], PlainTaxonomy)

SeededEU ==
    Seeded(Spelled({EU} \cup EU_MEMBER_STATES),
           Tuned(100, Territorial \cup Amplifier \cup {"consequential_decision_nexus"}),
           [PlainTaxonomy EXCEPT
              !.prohibited_use_cases = PROHIBITED_USE_CASES,
              !.high_risk_use_cases = HIGH_RISK_USE_CASES,
              !.escalate_if = Escalates("is_safety_component", "high")])

SeededCA ==
    LET decisions == {"employment_screening", "credit_scoring", "education_assessment",
                      "essential_services"}
    IN  Seeded({Typed(CALIFORNIA, "-"), Typed(<<"CA", "US">>, "-"), Name("CALIFORNIA")},
               [strictness |-> 70,
                triggers |-> Territorial \cup {"consequential_decision_nexus", "childrens_data"},
                consequential_use_cases |->
                    (decisions \cup {"housing_allocation", "insurance_underwriting"})
                        \cap UseCase],
               [PlainTaxonomy EXCEPT
                  !.high_risk_use_cases = decisions \cap UseCase,
                  !.escalate_if = Escalates("makes_automated_decisions", "limited")])

SeededCN ==
    Seeded({Name("CN"), Name("PRC"), Name("CHINA")},
           Tuned(90, DEFAULT_RULES["CN"].triggers),
           [PlainTaxonomy EXCEPT
              !.prohibited_use_cases = {"untargeted_face_scraping", "social_scoring"} \cap UseCase,
              !.high_risk_use_cases =
                  {"biometric_identification", "law_enforcement", "medical_diagnosis"} \cap UseCase,
              !.escalate_if = Escalates("uses_generative_ai", "high"),
              !.minimum_tier = "limited"])

SeededIN ==
    Seeded({Name("IN"), Name("INDIA")}, Tuned(60, Territorial \cup {"childrens_data"}),
           [PlainTaxonomy EXCEPT
              !.high_risk_use_cases =
                  {"credit_scoring", "employment_screening", "medical_diagnosis"} \cap UseCase,
              !.escalate_if = Escalates("affects_minors", "high")])

JURISDICTIONS ==
    [code \in DOMAIN DEFAULT_RULES |->
        CASE code = "GLOBAL" -> SeededGlobal [] code = "EU" -> SeededEU
          [] code = "CA" -> SeededCA [] code = "CN" -> SeededCN [] code = "IN" -> SeededIN]

\* What is registered is overwritten, but stays inactive if it was.
seed_jurisdictions(old) ==
    [c \in Code |-> IF c \notin DOMAIN JURISDICTIONS THEN old[c]
                    ELSE IF old[c] = None THEN JURISDICTIONS[c]
                    ELSE [JURISDICTIONS[c] EXCEPT !.is_active = old[c].is_active]]

\* The strictness is what int() makes of the value that is stored.
ValidOverlay(overlay) ==
    /\ DOMAIN overlay \subseteq OverlayKeys
    /\ Lookup(overlay, "strictness", 0) \in Int
    /\ Lookup(overlay, "consequential_use_cases", {}) \subseteq UseCase

WellFormed(row) ==
    /\ row \in [is_active : BOOLEAN, territories : SUBSET Spelling, taxonomy : Taxonomy,
                overlay_config : {row.overlay_config}]
    /\ ValidOverlay(row.overlay_config)

ASSUME Storable ==
    /\ Taxonomies \subseteq Taxonomy /\ Territories \subseteq SUBSET Spelling
    /\ \A overlay \in Overlays : ValidOverlay(overlay)
    /\ Declared \subseteq Metadata /\ None \notin Metadata
    /\ \A code \in DOMAIN JURISDICTIONS :
          JURISDICTIONS[code] # None /\ WellFormed(JURISDICTIONS[code])
    /\ DOMAIN DEFAULT_RULES \cup Administered \cup UNION Asked \subseteq Code
    /\ MaxEdits \in Nat

-----------------------------------------------------------------------------
(* Requests *)

\* rules and system: what was read, once loaded and read say so.  asked: the codes asked
\* for; verdicts: those still to classify, and whether they apply; added: the new rows.
Idle == [pc |-> "reading", loaded |-> FALSE, read |-> FALSE, rules |-> <<>>, system |-> None,
         asked |-> {}, verdicts |-> <<>>, added |-> {}]

Profile(r) == from_metadata(request[r].system)
Assessed(r) == evaluate(request[r].rules, Profile(r))

Flags(meta) == IF meta = None THEN {} ELSE meta.flags

Unregistered == [c \in Code |-> None]

Init ==
    /\ rows = Unregistered \/ rows = seed_jurisdictions(Unregistered)
    /\ metadata \in Declared \cup {None}
    /\ request = [r \in Request |-> Idle]
    /\ classifications = {}
    /\ edits = 0

-----------------------------------------------------------------------------
(* What others commit *)

Edit ==
    /\ edits < MaxEdits
    /\ edits' = edits + 1
    /\ UNCHANGED <<request, classifications>>

\* create_jurisdiction: a code that is taken is refused.
CreateJurisdiction(code) ==
    /\ rows[code] = None
    /\ \E active \in BOOLEAN, territories \in Territories, taxonomy \in Taxonomies,
          overlay \in Overlays :
          rows' = [rows EXCEPT ![code] =
                      [is_active |-> active, territories |-> territories,
                       overlay_config |-> overlay, taxonomy |-> taxonomy]]
    /\ UNCHANGED metadata

\* Variant: a field that is not given is reset.
UpdateUnset(code) ==
    /\ rows[code] # None
    /\ \E active \in BOOLEAN : rows' = [rows EXCEPT ![code] = [@ EXCEPT !.is_active = active,
                                                                  !.taxonomy = None]]
    /\ UNCHANGED metadata

\* update_jurisdiction: the fields that are given, each as a whole.
UpdateJurisdiction(code) ==
    /\ rows[code] # None
    /\ \/ \E active \in BOOLEAN : rows' = [rows EXCEPT ![code].is_active = active]
       \/ \E territories \in Territories :
             rows' = [rows EXCEPT ![code].territories = territories]
       \/ \E overlay \in Overlays : rows' = [rows EXCEPT ![code].overlay_config = overlay]
       \/ \E taxonomy \in Taxonomies : rows' = [rows EXCEPT ![code].taxonomy = taxonomy]
    /\ UNCHANGED metadata

Seed ==
    /\ rows' = seed_jurisdictions(rows)
    /\ UNCHANGED metadata

\* create_system with metadata, or update_system.
EditMetadata ==
    /\ metadata' \in Declared
    /\ UNCHANGED rows

-----------------------------------------------------------------------------
(* A request *)

\* RiskClassificationService(db), before or after the system is read.
LoadEngine(r) ==
    /\ request[r].pc = "reading" /\ ~request[r].loaded
    /\ request' = [request EXCEPT ![r].loaded = TRUE, ![r].rules = load_engine(rows)]
    /\ UNCHANGED <<rows, metadata, classifications, edits>>

ReadSystem(r) ==
    /\ request[r].pc = "reading" /\ ~request[r].read
    /\ request' = [request EXCEPT ![r].read = TRUE, ![r].system = metadata]
    /\ UNCHANGED <<rows, metadata, classifications, edits>>

\* Variant: codes asked for that do not apply are dropped.
ChosenDropping(applicable, asked) ==
    [c \in IF asked = {} THEN applicable ELSE applicable \cap asked |-> TRUE]

\* The codes to classify, and whether they apply: those that do, or those asked for.
Chosen(applicable, asked) ==
    [c \in IF asked = {} THEN applicable ELSE asked |-> c \in applicable]

\* classify: the codes asked for that do not apply are looked up; one that is not
\* registered ends the request.
Evaluate(r, asked) ==
    LET applicable == Assessed(r).applicable
    IN  /\ request[r].pc = "reading" /\ request[r].loaded /\ request[r].read
        /\ \A c \in asked \ applicable : rows[c] # None
        /\ request' = [request EXCEPT ![r].pc = "classify", ![r].asked = asked,
                                      ![r].verdicts = Chosen(applicable, asked)]
        /\ UNCHANGED <<rows, metadata, classifications, edits>>

\* The loop over the verdicts.  The order does not show: the new rows carry the same time.
Classify(r, code) ==
    LET q == request[r]
        base == baseline(q.system)
        overlay == apply_overlay(rows[code].taxonomy, base, Flags(q.system))
    IN  /\ q.pc = "classify" /\ code \in DOMAIN q.verdicts
        /\ rows[code] # None
        /\ request' = [request EXCEPT
              ![r].verdicts = [c \in DOMAIN q.verdicts \ {code} |-> q.verdicts[c]],
              ![r].added = @ \cup {[request |-> r, code |-> code, applicable |-> q.verdicts[code],
                                    tier |-> overlay.tier, score |-> overlay.score,
                                    baseline |-> base]}]
        /\ UNCHANGED <<rows, metadata, classifications, edits>>

Commit(r) ==
    /\ request[r].pc = "classify" /\ request[r].verdicts = <<>>
    /\ request' = [request EXCEPT ![r].pc = "done"]
    /\ classifications' = classifications \cup request[r].added
    /\ UNCHANGED <<rows, metadata, edits>>

\* NotFoundError, in either loop: the transaction is rolled back.
NotRegistered(r) ==
    /\ \/ /\ request[r].pc = "reading" /\ request[r].loaded /\ request[r].read
          /\ \E c \in UNION Asked \ Assessed(r).applicable : rows[c] = None
       \/ /\ request[r].pc = "classify"
          /\ \E c \in DOMAIN request[r].verdicts : rows[c] = None
    /\ request' = [request EXCEPT ![r] = [Idle EXCEPT !.pc = "failed"]]
    /\ UNCHANGED <<rows, metadata, classifications, edits>>

-----------------------------------------------------------------------------

Next ==
    \/ /\ Edit
       /\ \/ \E code \in Administered : CreateJurisdiction(code) \/ UpdateJurisdiction(code)
          \/ Seed
          \/ EditMetadata
    \/ \E r \in Request :
          \/ LoadEngine(r)
          \/ ReadSystem(r)
          \/ \E asked \in Asked : Evaluate(r, asked)
          \/ \E code \in Code : Classify(r, code)
          \/ Commit(r)
          \/ NotRegistered(r)

Spec == Init /\ [][Next]_vars

-----------------------------------------------------------------------------
(* Properties *)

\* Shapes of what is stored.
TypeOK ==
    /\ DOMAIN rows = Code
    /\ \A c \in Code : rows[c] = None \/ WellFormed(rows[c])
    /\ metadata \in Metadata \cup {None}
    /\ DOMAIN request = Request
    /\ \A r \in Request :
          request[r] \in
             [pc : {"reading", "classify", "done", "failed"}, loaded : BOOLEAN, read : BOOLEAN,
              rules : {request[r].rules}, system : Metadata \cup {None}, asked : SUBSET Code,
              verdicts : {request[r].verdicts}, added : {request[r].added}]
    /\ edits \in 0 .. MaxEdits

\* A regime applies exactly if the system touches a place it covers, whatever groups, aliases
\* and defaults its row and the metadata are written with; and the territories reported are
\* the places that matched, no more and no fewer.
VerdictsAreRight ==
    LET rules == load_engine(rows)
        p == from_metadata(metadata)
    IN  \A c \in DOMAIN rules :
            LET verdict == evaluate_rule(rules[c], p)
            IN  /\ verdict.applicable <=> Touches(rules[c], p)
                /\ PlacesOf(verdict.matched) =
                      PlacesOf(UNION {Matched(t, p, rules[c]) :
                                        t \in (verdict.signals \cap Nexus) \ {"always_applicable"}})

\* Declaring more never loses a regime.
NoRegimeForgotten ==
    [][ LET p == from_metadata(metadata)
            q == from_metadata(metadata')
            rules == load_engine(rows)
        IN  rows' = rows /\ Wider(p, q) =>
                evaluate(rules, p).applicable \subseteq evaluate(rules, q).applicable ]_metadata

\* "A stale row must not silently switch a jurisdiction off": when none of the triggers a row
\* names is known any more, a system that the built-in triggers would find is found.
StaleRowsStayOn ==
    LET stale == {c \in Code : /\ rows[c] # None
                               /\ "triggers" \in DOMAIN rows[c].overlay_config
                               /\ rows[c].overlay_config.triggers \cap TRIGGER_REGISTRY = {}}
        p == from_metadata(metadata)
    IN  \A c \in stale :
            LET rule == rule_from_row(c, rows[c])
            IN  Touches([rule EXCEPT !.triggers = Fallback(c).triggers], p)
                    => evaluate_rule(rule, p).applicable

\* "Overlays only escalate": no stored tier is below the baseline of the metadata it was
\* computed from, although taxonomies change under the requests; and a score is a score.
OverlaysEscalate ==
    \A x \in classifications :
        AsGrave(x.tier, x.baseline.tier) /\ x.score \in 0 .. 100

\* A request stores one row for each regime asked for, or for each that applies: flagged by
\* what it touches as the request has read it, and none "silently dropped".
RecordedAsAsked ==
    \A r \in Request : request[r].pc = "done" =>
        LET q == request[r]
            mine == {x \in classifications : x.request = r}
            touched == {c \in DOMAIN q.rules : Touches(q.rules[c], Profile(r))}
        IN  /\ {x.code : x \in mine} = IF q.asked = {} THEN touched ELSE q.asked
            /\ \A x \in mine : x.applicable <=> x.code \in touched
            /\ \A x, y \in mine : x.code = y.code => x = y

\* The regimes that take priority are the first ones to be evaluated, all of them, and a
\* conflict is announced exactly when there are two regimes.
StrictestFirst ==
    LET a == evaluate(load_engine(rows), from_metadata(metadata))
        top == Cardinality(a.most_restrictive)
    IN  /\ {a.evaluation_order[i] : i \in 1 .. top} = a.most_restrictive
        /\ a.applicable # {} => top > 0
        /\ a.apply_most_restrictive <=> \E c, d \in a.applicable : c # d

\* Declaring more makes no system safer: its baseline does not sink, neither the score nor, but
\* for a use case that is named on top of signals worth 100, the tier; and neither does the tier
\* of any jurisdiction, whatever its taxonomy.
DeclaringMoreIsNoSafer ==
    [][ LET old == baseline(metadata)
            new == baseline(metadata')
            tier(c, base, flags) == apply_overlay(rows[c].taxonomy, base, flags).tier
        IN  rows' = rows /\ DeclaresMore(metadata, metadata') =>
                /\ old.score <= new.score
                /\ \/ /\ AsGrave(new.tier, old.tier)
                      /\ \A c \in Code : rows[c] # None =>
                            AsGrave(tier(c, new, Flags(metadata')), tier(c, old, Flags(metadata)))
                   \/ Relabelled(metadata, metadata') ]_metadata

=============================================================================
