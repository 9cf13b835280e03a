----------------------------- MODULE RiskOverlay -----------------------------
(***************************************************************************)
(* Risk: the baseline score and tier of a system's metadata, and what a    *)
(* jurisdiction's taxonomy makes of them.  Pure; scores are whole numbers, *)
(* multipliers hundredths.                                                 *)
(***************************************************************************)
EXTENDS JurisdictionEngine

CONSTANTS HIGH_RISK_USE_CASES, PROHIBITED_USE_CASES   \* of the baseline

ASSUME UseCaseLists ==
    /\ HIGH_RISK_USE_CASES \cup PROHIBITED_USE_CASES \subseteq UseCase
    /\ HIGH_RISK_USE_CASES \cap PROHIBITED_USE_CASES = {}

RISK_TIER_ORDER == [unknown |-> 0, minimal |-> 1, limited |-> 2, high |-> 3, prohibited |-> 4]
RiskTier == {"unknown", "minimal", "limited", "high", "prohibited"}

\* What a taxonomy may hold; escalate_if is a dict, gone through in its order.
Escalation == [field : Flag, target : RiskTier]
Taxonomy == [prohibited_use_cases : SUBSET UseCase, high_risk_use_cases : SUBSET UseCase,
             escalate_if : Seq(Escalation), minimum_tier : RiskTier, score_multiplier : Nat]

PlainTaxonomy == [prohibited_use_cases |-> {}, high_risk_use_cases |-> {}, escalate_if |-> <<>>,
                  minimum_tier |-> "unknown", score_multiplier |-> 100]

-----------------------------------------------------------------------------
(* Baseline *)

SignalWeight ==
    [uses_biometrics |-> 25, is_safety_component |-> 25, makes_automated_decisions |-> 15,
     affects_minors |-> 15, uses_generative_ai |-> 5]

AUTONOMY_WEIGHT == [fully_autonomous |-> 20, human_on_the_loop |-> 10, human_in_the_loop |-> 0]
SENSITIVE_DATA_CATEGORIES == {"biometric", "health", "children"}

Weight(flag, flags) == IF flag \in flags THEN SignalWeight[flag] ELSE 0

\* What the metadata says before the use case counts.
SignalScore(meta) ==
    Weight("uses_biometrics", meta.flags) + Weight("is_safety_component", meta.flags)
      + Weight("makes_automated_decisions", meta.flags) + Weight("affects_minors", meta.flags)
      + Weight("uses_generative_ai", meta.flags) + AUTONOMY_WEIGHT[meta.autonomy_level]
      + IF meta.data_categories \cap SENSITIVE_DATA_CATEGORIES # {} THEN 15 ELSE 0

tier_from_score(score) ==
    IF score >= 100 THEN "prohibited"
    ELSE IF score >= 50 THEN "high"
    ELSE IF score >= 20 THEN "limited"
    ELSE "minimal"

Graded(score, tier, use_case) ==
    [score |-> AtMost(100, score), tier |-> tier, use_case |-> use_case]

\* Variant: an enumerated use case sets the score.
baseline_setting(meta) ==
    IF meta = None THEN Graded(0, "unknown", NoUseCase)
    ELSE IF meta.use_case \in PROHIBITED_USE_CASES
    THEN Graded(100, "prohibited", meta.use_case)
    ELSE IF meta.use_case \in HIGH_RISK_USE_CASES
    THEN Graded(30, "high", meta.use_case)
    ELSE Graded(SignalScore(meta), tier_from_score(SignalScore(meta)), meta.use_case)

baseline(meta) ==
    IF meta = None THEN Graded(0, "unknown", NoUseCase)
    ELSE LET score == SignalScore(meta)
         IN  IF meta.use_case \in PROHIBITED_USE_CASES
             THEN Graded(100, "prohibited", meta.use_case)
             ELSE IF meta.use_case \in HIGH_RISK_USE_CASES
             THEN Graded(score + 30, "high", meta.use_case)
             ELSE Graded(score, tier_from_score(score), meta.use_case)

-----------------------------------------------------------------------------
(* Overlays *)

AsGrave(tier, other) == RISK_TIER_ORDER[other] <= RISK_TIER_ORDER[tier]

escalate(current, candidate) == IF AsGrave(current, candidate) THEN current ELSE candidate

AtLeast(bound, n) == IF n < bound THEN bound ELSE n

\* The entries of escalate_if whose field is set.
Fired(escalate_if, flags) == {i \in DOMAIN escalate_if : escalate_if[i].field \in flags}

\* The loop over escalate_if: the gravest tier on the way ...
TierAfter(escalate_if, flags, tier) ==
    LET targets == {tier} \cup {escalate_if[i].target : i \in Fired(escalate_if, flags)}
    IN  CHOOSE t \in targets : \A u \in targets : AsGrave(t, u)

\* ... and a score of 60, if HIGH was reached from below by an entry of its own.
ScoreAfter(escalate_if, flags, tier, score) ==
    IF /\ ~AsGrave(tier, "high")
       /\ \E i \in Fired(escalate_if, flags) :
             /\ escalate_if[i].target = "high"
             /\ \A j \in Fired(escalate_if, flags) :
                   j < i => ~AsGrave(escalate_if[j].target, "high")
    THEN AtLeast(60, score)
    ELSE score

\* Variant: the floor of the taxonomy replaces the tier.
apply_floor(taxonomy, base, flags) ==
    [tier |-> IF taxonomy.minimum_tier = "unknown" THEN base.tier ELSE taxonomy.minimum_tier,
     score |-> base.score]

\* apply_overlay; without metadata no flag is set.
apply_overlay(taxonomy, base, flags) ==
    LET banned == base.use_case \in taxonomy.prohibited_use_cases
        listed == ~banned /\ base.use_case \in taxonomy.high_risk_use_cases
        tier == IF banned THEN "prohibited"
                ELSE IF listed THEN escalate(base.tier, "high") ELSE base.tier
        score == IF banned THEN 100
                 ELSE IF listed THEN AtLeast(60, base.score) ELSE base.score
        reached == ScoreAfter(taxonomy.escalate_if, flags, tier, score)
    IN  [tier |-> escalate(TierAfter(taxonomy.escalate_if, flags, tier), taxonomy.minimum_tier),
         score |-> AtMost(100, (reached * taxonomy.score_multiplier) \div 100)]

-----------------------------------------------------------------------------
(* What the score promises *)

\* The new metadata says all that the old said, names no other use case and leaves no less to
\* the system.
DeclaresMore(old, new) ==
    \/ old = None
    \/ /\ new # None
       /\ old.flags \subseteq new.flags
       /\ old.data_categories \subseteq new.data_categories
       /\ old.use_case \in {NoUseCase, new.use_case}
       /\ AUTONOMY_WEIGHT[old.autonomy_level] <= AUTONOMY_WEIGHT[new.autonomy_level]

\* Signals alone are worth "prohibited" from 100 on; an enumerated use case then makes "high".
Relabelled(old, new) ==
    /\ old.use_case = NoUseCase /\ new.use_case \in HIGH_RISK_USE_CASES
    /\ SignalScore(old) >= 100

=============================================================================
