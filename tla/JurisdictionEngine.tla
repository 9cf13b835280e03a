------------------------- MODULE JurisdictionEngine -------------------------
(***************************************************************************)
(* Which regimes apply to a system.  Pure: a profile of the system's       *)
(* metadata against the rules made from the rows of the jurisdictions.     *)
(*                                                                         *)
(* Confidences are in hundredths.  A rule's triggers are a set: their      *)
(* order and their reasons are for display.                                *)
(***************************************************************************)
EXTENDS Regions, Integers

CONSTANTS
    Code,          \* jurisdiction codes, upper case
    Alphabetical,  \* the codes, in the order of sorted()
    Spelling,      \* what people type for regions
    UseCase,       \* use cases, lower case
    NoUseCase,
    DEFAULT_CONSEQUENTIAL_USE_CASES,
    None           \* no metadata, no row

ASSUME UseCasesAreNamed ==
    DEFAULT_CONSEQUENTIAL_USE_CASES \subseteq UseCase /\ NoUseCase \notin UseCase

ASSUME CodesAreSorted ==
    /\ Alphabetical \in Seq(Code)
    /\ \A c \in Code : \E i \in DOMAIN Alphabetical : Alphabetical[i] = c
    /\ \A i, j \in DOMAIN Alphabetical : Alphabetical[i] = Alphabetical[j] => i = j

-----------------------------------------------------------------------------
(* The profile *)

RegionField == {"deployment", "offered", "subjects", "residency", "service", "content"}
Flag == {"uses_biometrics", "is_safety_component", "makes_automated_decisions",
         "affects_minors", "uses_generative_ai"}

\* What system_metadata holds.
Metadata == [regions : [RegionField -> SUBSET Spelling], flags : SUBSET Flag,
             use_case : UseCase \cup {NoUseCase},
             data_categories : SUBSET {"biometric", "children", "health"},
             autonomy_level : {"human_in_the_loop", "human_on_the_loop", "fully_autonomous"}]

EmptyProfile == [regions |-> [f \in RegionField |-> {}], flags |-> {}, use_case |-> NoUseCase,
                 data_categories |-> {}]

from_metadata(metadata) ==
    IF metadata = None THEN EmptyProfile
    ELSE [regions |-> [f \in RegionField |-> normalize_regions(metadata.regions[f])],
          flags |-> metadata.flags, use_case |-> metadata.use_case,
          data_categories |-> metadata.data_categories]

audience_regions(p) == p.regions["offered"] \cup p.regions["subjects"]

-----------------------------------------------------------------------------
(* Triggers *)

Confidence ==
    [deployment_nexus |-> 98, offering_nexus |-> 95, data_subject_nexus |-> 92,
     data_residency_nexus |-> 90, service_accessibility_nexus |-> 75,
     generated_content_accessibility_nexus |-> 72, consequential_decision_nexus |-> 90,
     always_applicable |-> 60]

Nexus == DOMAIN Confidence
Amplifier == {"biometric_processing", "childrens_data", "generative_ai_service"}
TRIGGER_REGISTRY == Nexus \cup Amplifier

Rule == [territories : SUBSET Seq(STRING), strictness : Int, triggers : SUBSET TRIGGER_REGISTRY,
         always_applicable : BOOLEAN, consequential_use_cases : SUBSET UseCase]

\* The regions a territorial trigger looks at.
Looks(trigger, p) ==
    CASE trigger = "deployment_nexus" -> p.regions["deployment"]
      [] trigger = "offering_nexus" -> p.regions["offered"]
      [] trigger = "data_subject_nexus" -> p.regions["subjects"]
      [] trigger = "data_residency_nexus" -> p.regions["residency"]
      [] trigger = "service_accessibility_nexus" -> p.regions["service"]
      [] trigger = "generated_content_accessibility_nexus" -> p.regions["content"]
      [] trigger = "consequential_decision_nexus" -> audience_regions(p)
      [] OTHER -> {}

\* What a trigger asks for besides a territory.
Awake(trigger, p, rule) ==
    /\ trigger = "generated_content_accessibility_nexus" => "uses_generative_ai" \in p.flags
    /\ trigger = "consequential_decision_nexus" =>
          /\ "makes_automated_decisions" \in p.flags
          /\ p.use_case \in IF rule.consequential_use_cases # {}
                            THEN rule.consequential_use_cases
                            ELSE DEFAULT_CONSEQUENTIAL_USE_CASES

Matched(trigger, p, rule) == regions_intersect(Looks(trigger, p), rule.territories)

NexusFires(trigger, p, rule) ==
    IF trigger = "always_applicable" THEN rule.always_applicable
    ELSE Awake(trigger, p, rule) /\ Matched(trigger, p, rule) # {}

AmplifierFires(trigger, p) ==
    CASE trigger = "biometric_processing" ->
            "uses_biometrics" \in p.flags \/ "biometric" \in p.data_categories
      [] trigger = "childrens_data" ->
            "affects_minors" \in p.flags \/ "children" \in p.data_categories
      [] trigger = "generative_ai_service" -> "uses_generative_ai" \in p.flags

-----------------------------------------------------------------------------
(* The built-in rules *)

DEFAULT_TRIGGERS == {"always_applicable", "deployment_nexus", "offering_nexus",
                     "data_subject_nexus", "data_residency_nexus"}

Territorial == DEFAULT_TRIGGERS \ {"always_applicable"}

Builtin(territories, strictness, triggers) ==
    [territories |-> territories, strictness |-> strictness, triggers |-> triggers,
     always_applicable |-> FALSE, consequential_use_cases |-> {}]

DEFAULT_RULES ==
    [code \in {"GLOBAL", "EU", "CN", "CA", "IN"} |->
        CASE code = "GLOBAL" ->
                [Builtin({}, 10, {"always_applicable"}) EXCEPT !.always_applicable = TRUE]
          [] code = "EU" ->
                Builtin({EU, EEA}, 100, Territorial \cup Amplifier
                                            \cup {"consequential_decision_nexus"})
          [] code = "CN" ->
                Builtin({<<"CN">>}, 90, Territorial \cup
                    {"service_accessibility_nexus", "generated_content_accessibility_nexus",
                     "generative_ai_service", "biometric_processing"})
          [] code = "CA" ->
                Builtin({CALIFORNIA}, 70, Territorial \cup
                    {"consequential_decision_nexus", "childrens_data"})
          [] code = "IN" ->
                Builtin({<<"IN">>}, 60, Territorial \cup {"childrens_data"})]

\* A code without a built-in rule covers the place of its name.
Fallback(code) ==
    IF code \in DOMAIN DEFAULT_RULES THEN DEFAULT_RULES[code]
    ELSE Builtin({normalize_region(Name(code))}, 50, DEFAULT_TRIGGERS)

-----------------------------------------------------------------------------
(* Evaluation *)

Highest(numbers) == CHOOSE n \in numbers : \A m \in numbers : m <= n
AtMost(bound, n) == IF n > bound THEN bound ELSE n

Inapplicable(rule) == [applicable |-> FALSE, confidence |-> 0, signals |-> {},
                       matched |-> {}, strictness |-> rule.strictness]

\* Variant: an amplifier is taken for a nexus.
evaluate_amplified(rule, p) ==
    LET nexus == {t \in rule.triggers \cap Nexus : NexusFires(t, p, rule)}
        amplifiers == {t \in rule.triggers \cap Amplifier : AmplifierFires(t, p)}
    IN  IF nexus \cup amplifiers = {} THEN Inapplicable(rule)
        ELSE [applicable |-> TRUE, confidence |-> 60, signals |-> nexus \cup amplifiers,
              matched |-> {}, strictness |-> rule.strictness]

\* _evaluate_rule: no regime without a nexus.
evaluate_rule(rule, p) ==
    LET nexus == {t \in rule.triggers \cap Nexus : NexusFires(t, p, rule)}
        amplifiers == {t \in rule.triggers \cap Amplifier : AmplifierFires(t, p)}
        base == Highest({Confidence[t] : t \in nexus})
        boost == 5 * Cardinality(amplifiers)
        reported == UNION {collapse_regions(Matched(t, p, rule)) :
                              t \in nexus \ {"always_applicable"}}
    IN  IF nexus = {} THEN Inapplicable(rule)
        ELSE [applicable |-> TRUE, confidence |-> AtMost(100, base + boost),
              signals |-> nexus \cup amplifiers, matched |-> collapse_regions(reported),
              strictness |-> rule.strictness]

Rank(code) == CHOOSE i \in DOMAIN Alphabetical : Alphabetical[i] = code

\* Variant: the surest first.
BeforeBySurety(verdicts, c, d) ==
    LET v == verdicts[c]
        w == verdicts[d]
    IN  \/ v.confidence > w.confidence
        \/ v.confidence = w.confidence /\ Rank(c) < Rank(d)

\* Strictest first, then the surest, then by name.
Before(verdicts, c, d) ==
    LET v == verdicts[c]
        w == verdicts[d]
    IN  \/ v.strictness > w.strictness
        \/ v.strictness = w.strictness /\ v.confidence > w.confidence
        \/ v.strictness = w.strictness /\ v.confidence = w.confidence /\ Rank(c) < Rank(d)

evaluation_order(verdicts, codes) ==
    CHOOSE order \in [1 .. Cardinality(codes) -> codes] :
        \A i, j \in 1 .. Cardinality(codes) : i < j => Before(verdicts, order[i], order[j])

top_by_strictness(verdicts, codes) ==
    {c \in codes : \A d \in codes : verdicts[d].strictness <= verdicts[c].strictness}

\* rules: the rule of each code that has one.
evaluate(rules, p) ==
    LET verdicts == [c \in DOMAIN rules |-> evaluate_rule(rules[c], p)]
        applicable == {c \in DOMAIN rules : verdicts[c].applicable}
    IN  [verdicts |-> verdicts, applicable |-> applicable,
         evaluation_order |-> evaluation_order(verdicts, applicable),
         most_restrictive |-> top_by_strictness(verdicts, applicable),
         apply_most_restrictive |-> Cardinality(applicable) > 1]

-----------------------------------------------------------------------------
(* Rules from rows *)

\* A stored JSON object: the keys it has, with their values.
Lookup(object, key, default) == IF key \in DOMAIN object THEN object[key] ELSE default

\* Variant: what the registry does not know is dropped, and nothing else is done.
coerce_dropping(configured, fallback) == configured \cap TRIGGER_REGISTRY

\* _coerce_triggers
coerce_triggers(configured, fallback) ==
    LET known == configured \cap TRIGGER_REGISTRY
    IN  IF known = {} THEN fallback ELSE known

\* rules_from_jurisdiction_rows, for one row.
rule_from_row(code, row) ==
    LET overlay == row.overlay_config
        fallback == Fallback(code)
        territories == normalize_regions(row.territories)
        consequential == Lookup(overlay, "consequential_use_cases", {})
    IN  [territories |-> IF territories # {} THEN territories ELSE fallback.territories,
         strictness |-> Lookup(overlay, "strictness", fallback.strictness),
         triggers |-> coerce_triggers(Lookup(overlay, "triggers", {}), fallback.triggers),
         always_applicable |-> Lookup(overlay, "always_applicable", fallback.always_applicable),
         consequential_use_cases |-> IF consequential # {} THEN consequential
                                     ELSE fallback.consequential_use_cases]

\* The active rows; when there is none, the built-in rules.
load_engine(rows) ==
    LET active == {c \in Code : rows[c] # None /\ rows[c].is_active}
    IN  IF active = {} THEN DEFAULT_RULES
        ELSE [c \in active |-> rule_from_row(c, rows[c])]

-----------------------------------------------------------------------------
(* What the rules promise *)

\* The reference: some place the system reaches in a way the rule watches is covered by the
\* rule's territories, or the rule is a baseline for all.  Nothing that amplifies counts.
Touches(rule, p) ==
    \/ "always_applicable" \in rule.triggers /\ rule.always_applicable
    \/ \E t \in rule.triggers \cap Nexus :
          t # "always_applicable" /\ Awake(t, p, rule) /\ Reaches(Looks(t, p), rule.territories)

\* One profile declares all that another does, and no other use case.
Wider(p, q) ==
    /\ \A f \in RegionField : p.regions[f] \subseteq q.regions[f]
    /\ p.flags \subseteq q.flags
    /\ p.data_categories \subseteq q.data_categories
    /\ p.use_case \in {NoUseCase, q.use_case}

=============================================================================
