---------------------------- MODULE EngineProofs ----------------------------
(***************************************************************************)
(* Theorems about what is computed without state, for any member states,   *)
(* jurisdictions, rules and metadata: the algebra of region codes, which   *)
(* regimes apply and in which order, and what an overlay makes of a risk.  *)
(***************************************************************************)
EXTENDS RiskOverlay, OrderProofs

-----------------------------------------------------------------------------
(* Regions *)

\* What the assumptions on the constants say of single codes.
LEMMA Apart ==
    /\ EU # EEA /\ EU # CANADA /\ EEA # CANADA
    /\ EU_MEMBER_STATES # {} /\ CANADA_SUBDIVISIONS # {}
    /\ \A s \in EEA_STATES : s \notin CANADA_SUBDIVISIONS /\ s \notin GroupCodes
    /\ \A s \in CANADA_SUBDIVISIONS : s \notin EEA_STATES /\ s \notin GroupCodes
    /\ EU_MEMBER_STATES \subseteq EEA_STATES
  BY GroupCodesDiffer, StatesAreStates DEF EEA_STATES

\* A code expands to its places and to codes of groups.
LEMMA ExpandHasPlaces ==
    ASSUME NEW a
    PROVE  /\ Places(a) \subseteq expand_region(a)
           /\ expand_region(a) \subseteq Places(a) \cup GroupCodes
           /\ EU \in expand_region(a) => a \in {EU, EEA}
           /\ EEA \in expand_region(a) => a = EEA
           /\ CANADA \in expand_region(a) => a = CANADA
  BY Apart DEF Places, expand_region, GroupCodes, EEA_STATES

\* Two expansions meet exactly where the places do.
LEMMA ExpansionsMeet ==
    ASSUME NEW a, NEW b
    PROVE  expand_region(a) \cap expand_region(b) # {} <=> Places(a) \cap Places(b) # {}
<1>1. ASSUME Places(a) \cap Places(b) # {}
      PROVE  expand_region(a) \cap expand_region(b) # {}
  BY <1>1, ExpandHasPlaces
<1>2. ASSUME NEW x \in expand_region(a) \cap expand_region(b)
      PROVE  Places(a) \cap Places(b) # {}
  <2>1. CASE x \notin GroupCodes
    BY <1>2, <2>1, ExpandHasPlaces
  <2>2. CASE x = EU
    <3>1. a \in {EU, EEA} /\ b \in {EU, EEA}
      BY <1>2, <2>2, ExpandHasPlaces
    <3>2. EU_MEMBER_STATES \subseteq Places(a) \cap Places(b)
      BY <3>1, Apart DEF Places
    <3> QED BY <3>2, Apart
  <2>3. CASE x = EEA
    <3>1. a = EEA /\ b = EEA
      BY <1>2, <2>3, ExpandHasPlaces
    <3> QED BY <3>1, Apart DEF Places
  <2>4. CASE x = CANADA
    <3>1. a = CANADA /\ b = CANADA
      BY <1>2, <2>4, ExpandHasPlaces
    <3> QED BY <3>1, Apart DEF Places
  <2> QED BY <2>1, <2>2, <2>3, <2>4 DEF GroupCodes
<1> QED BY <1>1, <1>2

\* Declared regions match territories exactly if they reach them.
THEOREM MatchIsReach ==
    ASSUME NEW declared, NEW territories
    PROVE  regions_intersect(declared, territories) # {} <=> Reaches(declared, territories)
<1>1. CASE declared = {} \/ territories = {}
  BY <1>1 DEF regions_intersect, Reaches, PlacesOf
<1>2. CASE declared # {} /\ territories # {} /\ GLOBAL \in declared
  BY <1>2 DEF regions_intersect, Reaches
<1>3. CASE declared # {} /\ territories # {} /\ GLOBAL \notin declared
  <2>1. regions_intersect(declared, territories)
            = expand_regions(declared) \cap expand_regions(territories)
    BY <1>3 DEF regions_intersect
  <2>2. expand_regions(declared) \cap expand_regions(territories) # {} <=>
            \E a \in declared, b \in territories : expand_region(a) \cap expand_region(b) # {}
    BY DEF expand_regions
  <2>3. PlacesOf(declared) \cap PlacesOf(territories) # {} <=>
            \E a \in declared, b \in territories : Places(a) \cap Places(b) # {}
    BY DEF PlacesOf
  <2>4. Reaches(declared, territories) <=>
            PlacesOf(declared) \cap PlacesOf(territories) # {}
    BY <1>3 DEF Reaches
  <2> QED BY <2>1, <2>2, <2>3, <2>4, ExpansionsMeet
<1> QED BY <1>1, <1>2, <1>3

\* Declaring more regions never loses a match.
THEOREM MatchIsMonotone ==
    ASSUME NEW fewer, NEW more, NEW territories, fewer \subseteq more,
           Reaches(fewer, territories)
    PROVE  Reaches(more, territories)
<1>1. PlacesOf(fewer) \subseteq PlacesOf(more)
  BY DEF PlacesOf
<1> QED BY <1>1 DEF Reaches

-----------------------------------------------------------------------------

\* The places of a union are those of its parts.
LEMMA PlacesOfUnion ==
    ASSUME NEW S, NEW T
    PROVE  PlacesOf(S \cup T) = PlacesOf(S) \cup PlacesOf(T)
  BY DEF PlacesOf

\* A turn of the loop keeps the places.
LEMMA FoldKeepsPlaces ==
    ASSUME NEW state, NEW group, NEW members,
           Places(group) = members,
           \A s \in members : Places(s) = {s}
    PROVE  PlacesOf(Fold(state, group, members).collapsed
                        \cup Fold(state, group, members).remaining)
               = PlacesOf(state.collapsed \cup state.remaining)
<1> DEFINE C == state.collapsed
           R == state.remaining
           rest == R \ (members \cup {group})
<1>1. CASE members \subseteq R \/ group \in R
  <2>1. Fold(state, group, members) = [collapsed |-> C \cup {group}, remaining |-> rest]
    BY <1>1 DEF Fold
  <2>2. members \subseteq PlacesOf(C \cup R)
    BY <1>1 DEF PlacesOf
  <2>3. PlacesOf(C \cup {group} \cup rest) = PlacesOf(C) \cup members \cup PlacesOf(rest)
    BY DEF PlacesOf
  <2>4. PlacesOf(R) \subseteq members \cup PlacesOf(rest) /\ PlacesOf(rest) \subseteq PlacesOf(R)
    BY DEF PlacesOf
  <2>5. PlacesOf(C \cup R) = PlacesOf(C) \cup PlacesOf(R)
    BY PlacesOfUnion
  <2> HIDE DEF C, R, rest
  <2>6. Fold(state, group, members).collapsed \cup Fold(state, group, members).remaining
            = C \cup {group} \cup rest
    BY <2>1
  <2>7. PlacesOf(C \cup {group} \cup rest) = PlacesOf(C \cup R)
    BY <2>2, <2>3, <2>4, <2>5
  <2> QED BY <2>6, <2>7 DEF C, R
<1>2. CASE ~(members \subseteq R \/ group \in R)
  <2>1. Fold(state, group, members) = state
    BY <1>2 DEF Fold
  <2> QED BY <2>1
<1> QED BY <1>1, <1>2

\* Collapsing codes to the tersest form neither adds a place nor loses one.
THEOREM CollapseKeepsPlaces ==
    ASSUME NEW codes
    PROVE  PlacesOf(collapse_regions(codes)) = PlacesOf(codes)
<1> DEFINE none == [collapsed |-> {}, remaining |-> codes]
           eea == Fold(none, EEA, EEA_STATES)
           eu == Fold(eea, EU, EU_MEMBER_STATES)
           all == Fold(eu, CANADA, CANADA_SUBDIVISIONS)
<1>1. /\ Places(EEA) = EEA_STATES
      /\ Places(EU) = EU_MEMBER_STATES
      /\ Places(CANADA) = CANADA_SUBDIVISIONS
      /\ \A s \in EEA_STATES \cup CANADA_SUBDIVISIONS : Places(s) = {s}
      /\ EU_MEMBER_STATES \subseteq EEA_STATES
  BY Apart DEF Places, GroupCodes
<1>2. none.collapsed \cup none.remaining = codes
  OBVIOUS
<1>3. collapse_regions(codes) = all.collapsed \cup all.remaining
  BY DEF collapse_regions
<1> HIDE DEF none
<1>4. PlacesOf(eea.collapsed \cup eea.remaining) = PlacesOf(none.collapsed \cup none.remaining)
  BY <1>1, FoldKeepsPlaces
<1> HIDE DEF eea
<1>5. PlacesOf(eu.collapsed \cup eu.remaining) = PlacesOf(eea.collapsed \cup eea.remaining)
  BY <1>1, FoldKeepsPlaces
<1> HIDE DEF eu
<1>6. PlacesOf(all.collapsed \cup all.remaining) = PlacesOf(eu.collapsed \cup eu.remaining)
  BY <1>1, FoldKeepsPlaces
<1> QED BY <1>2, <1>3, <1>4, <1>5, <1>6

-----------------------------------------------------------------------------
(* The engine *)

\* A nexus fires where its regions reach the territories.
LEMMA FiresWhereItReaches ==
    ASSUME NEW rule, NEW p, NEW t, t # "always_applicable"
    PROVE  NexusFires(t, p, rule) <=>
               Awake(t, p, rule) /\ Reaches(Looks(t, p), rule.territories)
<1>1. regions_intersect(Looks(t, p), rule.territories) # {}
          <=> Reaches(Looks(t, p), rule.territories)
  BY MatchIsReach
<1> QED BY <1>1 DEF NexusFires, Matched

LEMMA AlwaysIsANexus == "always_applicable" \in Nexus /\ Nexus \cap Amplifier = {}
  BY DEF Nexus, Confidence, Amplifier

\* The verdict of a rule, by the nexuses that fire.
LEMMA VerdictByNexus ==
    ASSUME NEW rule, NEW p
    PROVE  LET nexus == {t \in rule.triggers \cap Nexus : NexusFires(t, p, rule)}
               amplifiers == {t \in rule.triggers \cap Amplifier : AmplifierFires(t, p)}
               v == evaluate_rule(rule, p)
           IN  /\ v.applicable <=> nexus # {}
               /\ nexus = {} => v.matched = {} /\ v.signals = {}
               /\ nexus # {} =>
                     /\ v.signals = nexus \cup amplifiers
                     /\ v.matched = collapse_regions(UNION {collapse_regions(Matched(t, p, rule)) :
                                                        t \in nexus \ {"always_applicable"}})
<1> DEFINE nexus == {t \in rule.triggers \cap Nexus : NexusFires(t, p, rule)}
           amplifiers == {t \in rule.triggers \cap Amplifier : AmplifierFires(t, p)}
           v == evaluate_rule(rule, p)
           reported == collapse_regions(UNION {collapse_regions(Matched(t, p, rule)) :
                                                        t \in nexus \ {"always_applicable"}})
           sure == AtMost(100, Highest({Confidence[t] : t \in nexus}) + 5 * Cardinality(amplifiers))
<1>1. v = IF nexus = {} THEN Inapplicable(rule)
          ELSE [applicable |-> TRUE, confidence |-> sure, signals |-> nexus \cup amplifiers,
                matched |-> reported, strictness |-> rule.strictness]
  BY DEF evaluate_rule
<1> HIDE DEF nexus, amplifiers, v, reported, sure
<1>2. /\ v.applicable <=> nexus # {}
      /\ nexus = {} => v.matched = {} /\ v.signals = {}
      /\ nexus # {} => v.signals = nexus \cup amplifiers /\ v.matched = reported
  BY <1>1 DEF Inapplicable
<1> QED BY <1>2 DEF nexus, amplifiers, v, reported

\* A regime applies exactly if the system touches it: an amplifier alone never does it.
THEOREM AppliesIfTouched ==
    ASSUME NEW rule, NEW p
    PROVE  evaluate_rule(rule, p).applicable <=> Touches(rule, p)
<1> DEFINE nexus == {t \in rule.triggers \cap Nexus : NexusFires(t, p, rule)}
<1>1. evaluate_rule(rule, p).applicable <=> nexus # {}
  BY VerdictByNexus
<1>2. ASSUME NEW t \in nexus PROVE Touches(rule, p)
  <2>1. CASE t = "always_applicable"
    BY <1>2, <2>1 DEF NexusFires, Touches
  <2>2. CASE t # "always_applicable"
    BY <1>2, <2>2, FiresWhereItReaches DEF Touches
  <2> QED BY <2>1, <2>2
<1>3. ASSUME Touches(rule, p) PROVE nexus # {}
  <2>1. CASE "always_applicable" \in rule.triggers /\ rule.always_applicable
    <3>1. "always_applicable" \in nexus
      BY <2>1, AlwaysIsANexus DEF NexusFires
    <3> QED BY <3>1
  <2>2. ASSUME NEW t \in rule.triggers \cap Nexus, t # "always_applicable",
               Awake(t, p, rule), Reaches(Looks(t, p), rule.territories)
        PROVE  nexus # {}
    <3>1. t \in nexus
      BY <2>2, FiresWhereItReaches
    <3> QED BY <3>1
  <2> QED BY <1>3, <2>1, <2>2 DEF Touches
<1> QED BY <1>1, <1>2, <1>3

\* The territories reported are the places that matched.
THEOREM ReportsWhatMatched ==
    ASSUME NEW rule, NEW p
    PROVE  LET v == evaluate_rule(rule, p)
           IN  PlacesOf(v.matched) =
                   PlacesOf(UNION {Matched(t, p, rule) :
                                      t \in (v.signals \cap Nexus) \ {"always_applicable"}})
<1> DEFINE v == evaluate_rule(rule, p)
           nexus == {t \in rule.triggers \cap Nexus : NexusFires(t, p, rule)}
           amplifiers == {t \in rule.triggers \cap Amplifier : AmplifierFires(t, p)}
           fired == nexus \ {"always_applicable"}
<1> SUFFICES PlacesOf(v.matched) =
                 PlacesOf(UNION {Matched(t, p, rule) :
                                    t \in (v.signals \cap Nexus) \ {"always_applicable"}})
  OBVIOUS
<1>1. CASE nexus = {}
  <2>1. v.matched = {} /\ v.signals = {}
    BY <1>1, VerdictByNexus
  <2> HIDE DEF v
  <2>2. (v.signals \cap Nexus) \ {"always_applicable"} = {}
    BY <2>1
  <2> QED BY <2>1, <2>2 DEF PlacesOf
<1>2. CASE nexus # {}
  <2>1. /\ v.signals = nexus \cup amplifiers
        /\ v.matched = collapse_regions(UNION {collapse_regions(Matched(t, p, rule)) : t \in fired})
    BY <1>2, VerdictByNexus
  <2>2. (v.signals \cap Nexus) \ {"always_applicable"} = fired
    BY <2>1, AlwaysIsANexus
  <2> HIDE DEF v, fired
  <2>3. PlacesOf(v.matched) = PlacesOf(UNION {collapse_regions(Matched(t, p, rule)) : t \in fired})
    BY <2>1, CollapseKeepsPlaces
  <2>4. PlacesOf(UNION {collapse_regions(Matched(t, p, rule)) : t \in fired})
            = PlacesOf(UNION {Matched(t, p, rule) : t \in fired})
    <3>1. \A t \in fired : PlacesOf(collapse_regions(Matched(t, p, rule)))
                              = PlacesOf(Matched(t, p, rule))
      BY CollapseKeepsPlaces
    <3> QED BY <3>1 DEF PlacesOf
  <2> QED BY <2>2, <2>3, <2>4
<1> QED BY <1>1, <1>2

\* Declaring more, a system touches no less.
THEOREM TouchesMore ==
    ASSUME NEW rule, NEW p, NEW q, Wider(p, q), Touches(rule, p),
           rule.consequential_use_cases \subseteq UseCase
    PROVE  Touches(rule, q)
<1>1. CASE "always_applicable" \in rule.triggers /\ rule.always_applicable
  BY <1>1 DEF Touches
<1>2. ASSUME NEW t \in rule.triggers \cap Nexus, t # "always_applicable",
             Awake(t, p, rule), Reaches(Looks(t, p), rule.territories)
      PROVE  Touches(rule, q)
  <2>1. Awake(t, q, rule)
    BY <1>2, UseCasesAreNamed DEF Wider, Awake
  <2>2. Looks(t, p) \subseteq Looks(t, q)
    <3>1. t \in {"deployment_nexus", "offering_nexus", "data_subject_nexus",
                 "data_residency_nexus", "service_accessibility_nexus",
                 "generated_content_accessibility_nexus", "consequential_decision_nexus"}
      BY <1>2 DEF Nexus, Confidence
    <3>2. \A f \in RegionField : p.regions[f] \subseteq q.regions[f]
      BY DEF Wider
    <3> QED BY <3>1, <3>2 DEF Looks, RegionField, audience_regions
  <2>3. Reaches(Looks(t, q), rule.territories)
    BY <1>2, <2>2, MatchIsMonotone
  <2> QED BY <1>2, <2>1, <2>3 DEF Touches
<1> QED BY <1>1, <1>2 DEF Touches

\* What applies is what is touched.
LEMMA ApplicableCodes ==
    ASSUME NEW rules, NEW p
    PROVE  evaluate(rules, p).applicable = {c \in DOMAIN rules : Touches(rules[c], p)}
<1> DEFINE verdicts == [c \in DOMAIN rules |-> evaluate_rule(rules[c], p)]
<1>1. evaluate(rules, p).applicable = {c \in DOMAIN rules : verdicts[c].applicable}
  BY DEF evaluate
<1>2. \A c \in DOMAIN rules : verdicts[c].applicable <=> Touches(rules[c], p)
  BY AppliesIfTouched
<1> QED BY <1>1, <1>2

-----------------------------------------------------------------------------
(* Order *)

\* There is one code for each place in the alphabet.
LEMMA CodesAreFinite == IsFiniteSet(Code)
<1> DEFINE n == Len(Alphabetical)
           f == [i \in 1 .. n |-> Alphabetical[i]]
<1>1. n \in Nat /\ DOMAIN Alphabetical = 1 .. n /\ \A i \in 1 .. n : Alphabetical[i] \in Code
  BY CodesAreSorted
<1>2. IsFiniteSet(1 .. n)
  BY <1>1, FS_Interval
<1>3. f \in [1 .. n -> Code]
  BY <1>1
<1>4. \A c \in Code : \E i \in 1 .. n : f[i] = c
  BY <1>1, CodesAreSorted
<1> HIDE DEF f, n
<1>5. f \in Surjection(1 .. n, Code)
  BY <1>3, <1>4, Fun_IsSurj
<1> QED BY <1>2, <1>5, FS_Surjection

LEMMA RanksDiffer ==
    /\ \A c \in Code : Rank(c) \in Nat
    /\ \A c, d \in Code : Rank(c) = Rank(d) => c = d
<1>1. DOMAIN Alphabetical = 1 .. Len(Alphabetical)
  BY CodesAreSorted
<1>2. ASSUME NEW c \in Code
      PROVE  Rank(c) \in DOMAIN Alphabetical /\ Alphabetical[Rank(c)] = c
  BY CodesAreSorted DEF Rank
<1> QED BY <1>1, <1>2

LEMMA SureInt ==
    ASSUME NEW T \in SUBSET Nexus, T # {}
    PROVE  Highest({Confidence[t] : t \in T}) \in Nat
<1> DEFINE N == {Confidence[t] : t \in T}
<1>1. N \in SUBSET Nat /\ N # {} /\ \A n \in N : n <= 98
  BY DEF Nexus, Confidence
<1> HIDE DEF N
<1>2. IsFiniteSet(N)
  BY <1>1, FS_BoundedSetOfNaturals
<1>3. \E m \in N : \A n \in N : n <= m
  BY <1>1, <1>2, GreatestExists
<1>4. Highest(N) \in N
  BY <1>3 DEF Highest
<1> QED BY <1>1, <1>4 DEF N

\* What decides the order is a number.
LEMMA VerdictsCompare ==
    ASSUME NEW rule, NEW p, rule.strictness \in Int
    PROVE  /\ evaluate_rule(rule, p).strictness \in Int
           /\ evaluate_rule(rule, p).confidence \in Int
<1> DEFINE nexus == {t \in rule.triggers \cap Nexus : NexusFires(t, p, rule)}
           amplifiers == {t \in rule.triggers \cap Amplifier : AmplifierFires(t, p)}
           v == evaluate_rule(rule, p)
           reported == collapse_regions(UNION {collapse_regions(Matched(t, p, rule)) :
                                                        t \in nexus \ {"always_applicable"}})
           base == Highest({Confidence[t] : t \in nexus})
           sure == AtMost(100, base + 5 * Cardinality(amplifiers))
<1>1. v = IF nexus = {} THEN Inapplicable(rule)
          ELSE [applicable |-> TRUE, confidence |-> sure, signals |-> nexus \cup amplifiers,
                matched |-> reported, strictness |-> rule.strictness]
  BY DEF evaluate_rule
<1>2. Cardinality(amplifiers) \in Nat
  <2>1. IsFiniteSet(Amplifier)
    <3>1. IsFiniteSet({"biometric_processing"} \cup {"childrens_data"}
                          \cup {"generative_ai_service"})
      BY FS_Singleton, FS_AddElement
    <3>2. Amplifier = {"biometric_processing"} \cup {"childrens_data"}
                          \cup {"generative_ai_service"}
      BY DEF Amplifier
    <3> QED BY <3>1, <3>2
  <2>2. amplifiers \subseteq Amplifier
    OBVIOUS
  <2> HIDE DEF amplifiers
  <2> QED BY <2>1, <2>2, FS_Subset, FS_CardinalityType
<1>3. nexus # {} => base \in Nat
  <2>1. nexus \in SUBSET Nexus
    OBVIOUS
  <2> HIDE DEF nexus
  <2> QED BY <2>1, SureInt
<1> HIDE DEF nexus, amplifiers, v, reported, base
<1>4. nexus # {} => sure \in Int
  BY <1>2, <1>3 DEF AtMost
<1> HIDE DEF sure
<1> QED BY <1>1, <1>4 DEF Inapplicable, v

\* The strictest of finitely many come first in the order.
LEMMA TopIsFirst ==
    ASSUME NEW S \in SUBSET Code, NEW v,
           \A c \in S : v[c].strictness \in Int /\ v[c].confidence \in Int
    PROVE  LET order == evaluation_order(v, S)
               top == top_by_strictness(v, S)
           IN  /\ {order[i] : i \in 1 .. Cardinality(top)} = top
               /\ S # {} => Cardinality(top) > 0
<1> DEFINE R == {x \in S \X S : Before(v, x[1], x[2])}
           top == top_by_strictness(v, S)
           order == evaluation_order(v, S)
<1>1. IsFiniteSet(S)
  BY CodesAreFinite, FS_Subset
<1>2. \A c, d \in S : <<c, d>> \in R <=> Before(v, c, d)
  OBVIOUS
<1> HIDE DEF R
<1>3. Orders(R, S)
  <2>1. \A c \in S : ~Before(v, c, c)
    BY RanksDiffer DEF Before
  <2>2. \A b, c, d \in S : Before(v, b, c) /\ Before(v, c, d) => Before(v, b, d)
    <3> SUFFICES ASSUME NEW b \in S, NEW c \in S, NEW d \in S, Before(v, b, c), Before(v, c, d)
                 PROVE  Before(v, b, d)
      OBVIOUS
    <3>1. Rank(b) \in Nat /\ Rank(c) \in Nat /\ Rank(d) \in Nat
      BY RanksDiffer
    <3>2. \A x \in {b, c, d} : v[x].strictness \in Int /\ v[x].confidence \in Int
      OBVIOUS
    <3> QED BY <3>1, <3>2 DEF Before
  <2>3. \A c, d \in S : c = d \/ Before(v, c, d) \/ Before(v, d, c)
    <3> SUFFICES ASSUME NEW c \in S, NEW d \in S, c # d PROVE Before(v, c, d) \/ Before(v, d, c)
      OBVIOUS
    <3>1. Rank(c) \in Nat /\ Rank(d) \in Nat /\ Rank(c) # Rank(d)
      BY RanksDiffer
    <3> QED BY <3>1 DEF Before
  <2> QED BY <1>2, <2>1, <2>2, <2>3 DEF Orders
<1>4. Lists(order, S, R)
  <2>1. \A f : Lists(f, S, R) <=>
           /\ f \in [1 .. Cardinality(S) -> S]
           /\ \A i, j \in 1 .. Cardinality(S) : i < j => Before(v, f[i], f[j])
    BY <1>2 DEF Lists
  <2>2. \E f : Lists(f, S, R)
    BY <1>1, <1>3, ListExists
  <2> QED BY <2>1, <2>2 DEF evaluation_order
<1>5. top \in SUBSET S
  BY DEF top_by_strictness
<1>6. \A c, d \in S : <<c, d>> \in R /\ d \in top => c \in top
  <2> SUFFICES ASSUME NEW c \in S, NEW d \in S, Before(v, c, d), d \in top PROVE c \in top
    BY <1>2
  <2>1. v[d].strictness <= v[c].strictness
    BY DEF Before
  <2> QED BY <2>1 DEF top_by_strictness
<1>7. ASSUME S # {} PROVE top # {}
  <2> DEFINE n == Cardinality(S)
             first == order[1]
  <2>1. n \in Nat /\ n # 0
    BY <1>1, <1>7, FS_CardinalityType, FS_EmptySet
  <2>2. order \in Bijection(1 .. n, S)
    BY <1>1, <1>3, <1>4, ListIsComplete
  <2>3. /\ order \in [1 .. n -> S]
        /\ \A i, j \in 1 .. n : i < j => <<order[i], order[j]>> \in R
    BY <1>4 DEF Lists
  <2> HIDE DEF n, order
  <2>4. first \in S
    BY <2>1, <2>3
  <2>5. ASSUME NEW d \in S PROVE v[d].strictness <= v[first].strictness
    <3>1. PICK i \in 1 .. n : order[i] = d
      BY <2>2 DEF Bijection, Surjection
    <3>2. i = 1 \/ Before(v, first, d)
      <4>1. i # 1 => <<first, d>> \in R
        BY <2>1, <2>3, <3>1
      <4> HIDE DEF first
      <4> QED BY <1>2, <2>4, <4>1
    <3> HIDE DEF first
    <3>3. CASE i = 1
      BY <2>4, <3>1, <3>3 DEF first
    <3>4. CASE Before(v, first, d)
      BY <2>4, <3>4 DEF Before
    <3> QED BY <3>2, <3>3, <3>4
  <2> HIDE DEF first
  <2> QED BY <2>4, <2>5 DEF top_by_strictness
<1> HIDE DEF top, order
<1>8. {order[i] : i \in 1 .. Cardinality(top)} = top
  BY <1>1, <1>3, <1>4, <1>5, <1>6, BeginningOfList
<1>9. S # {} => Cardinality(top) > 0
  <2>1. IsFiniteSet(top)
    BY <1>1, <1>5, FS_Subset
  <2>2. Cardinality(top) \in Nat /\ (Cardinality(top) = 0 <=> top = {})
    BY <2>1, FS_CardinalityType, FS_EmptySet
  <2> QED BY <1>7, <2>2
<1> QED BY <1>8, <1>9 DEF top, order

\* The regimes that take priority are the first ones to be evaluated, all of them, whatever the
\* strictness of the rules; and a conflict is announced exactly when there are two regimes.
THEOREM StrictestComeFirst ==
    ASSUME NEW rules, DOMAIN rules \subseteq Code,
           \A c \in DOMAIN rules : rules[c].strictness \in Int, NEW p
    PROVE  LET a == evaluate(rules, p)
               top == Cardinality(a.most_restrictive)
           IN  /\ {a.evaluation_order[i] : i \in 1 .. top} = a.most_restrictive
               /\ a.applicable # {} => top > 0
               /\ a.apply_most_restrictive <=> \E c, d \in a.applicable : c # d
<1> DEFINE v == [c \in DOMAIN rules |-> evaluate_rule(rules[c], p)]
           S == {c \in DOMAIN rules : v[c].applicable}
           a == evaluate(rules, p)
<1>1. /\ a.applicable = S /\ a.evaluation_order = evaluation_order(v, S)
      /\ a.most_restrictive = top_by_strictness(v, S)
      /\ a.apply_most_restrictive <=> Cardinality(S) > 1
  BY DEF evaluate
<1>2. \A c \in S : v[c].strictness \in Int /\ v[c].confidence \in Int
  BY VerdictsCompare
<1>3. S \in SUBSET Code
  OBVIOUS
<1> HIDE DEF v, S, a
<1>4. LET order == evaluation_order(v, S)
          top == top_by_strictness(v, S)
      IN  /\ {order[i] : i \in 1 .. Cardinality(top)} = top
          /\ S # {} => Cardinality(top) > 0
  BY <1>2, <1>3, TopIsFirst
<1>5. Cardinality(S) > 1 <=> \E c, d \in S : c # d
  <2>1. IsFiniteSet(S)
    BY <1>3, CodesAreFinite, FS_Subset
  <2>2. /\ Cardinality(S) \in Nat /\ (Cardinality(S) = 0 <=> S = {})
        /\ Cardinality(S) = 1 <=> \E x : S = {x}
    BY <2>1, FS_CardinalityType, FS_EmptySet, FS_Singleton
  <2>3. (\E c, d \in S : c # d) <=> S # {} /\ ~ \E x : S = {x}
    OBVIOUS
  <2> QED BY <2>2, <2>3
<1> QED BY <1>1, <1>4, <1>5 DEF a

-----------------------------------------------------------------------------
(* Risk *)

Graded01(base) == base.tier \in RiskTier /\ base.score \in 0 .. 100

LEMMA BaselineIsGraded ==
    ASSUME NEW meta \in Metadata \cup {None}
    PROVE  Graded01(baseline(meta))
<1>1. CASE meta = None
  BY <1>1 DEF baseline, Graded, Graded01, RiskTier, AtMost
<1>2. CASE meta # None
  <2>1. SignalScore(meta) \in Nat
    <3>1. \A flag \in Flag : Weight(flag, meta.flags) \in Nat
      BY DEF Weight, SignalWeight, Flag
    <3>2. AUTONOMY_WEIGHT[meta.autonomy_level] \in Nat
      BY <1>2 DEF Metadata, AUTONOMY_WEIGHT
    <3> QED BY <3>1, <3>2 DEF SignalScore, Flag
  <2>2. \A n \in Nat : tier_from_score(n) \in RiskTier /\ AtMost(100, n) \in 0 .. 100
    BY DEF tier_from_score, RiskTier, AtMost
  <2>3. AtMost(100, 100) = 100 /\ SignalScore(meta) + 30 \in Nat
    BY <2>1 DEF AtMost
  <2> HIDE DEF SignalScore
  <2> QED BY <1>2, <2>1, <2>2, <2>3 DEF baseline, Graded, Graded01, RiskTier
<1> QED BY <1>1, <1>2

\* Of tiers, one is the gravest.
LEMMA GravestExists ==
    ASSUME NEW T, T \subseteq RiskTier, T # {}
    PROVE  \E t \in T : \A u \in T : AsGrave(t, u)
<1>1. CASE "prohibited" \in T
  BY <1>1 DEF RiskTier, AsGrave, RISK_TIER_ORDER
<1>2. CASE "prohibited" \notin T /\ "high" \in T
  BY <1>2 DEF RiskTier, AsGrave, RISK_TIER_ORDER
<1>3. CASE "prohibited" \notin T /\ "high" \notin T /\ "limited" \in T
  BY <1>3 DEF RiskTier, AsGrave, RISK_TIER_ORDER
<1>4. CASE "prohibited" \notin T /\ "high" \notin T /\ "limited" \notin T /\ "minimal" \in T
  BY <1>4 DEF RiskTier, AsGrave, RISK_TIER_ORDER
<1>5. CASE T = {"unknown"}
  BY <1>5 DEF AsGrave, RISK_TIER_ORDER
<1> QED BY <1>1, <1>2, <1>3, <1>4, <1>5 DEF RiskTier

LEMMA GravityIsAnOrder ==
    /\ \A t \in RiskTier : AsGrave(t, t)
    /\ \A t, u, v \in RiskTier : AsGrave(t, u) /\ AsGrave(u, v) => AsGrave(t, v)
    /\ \A t, u \in RiskTier : /\ escalate(t, u) \in RiskTier
                              /\ AsGrave(escalate(t, u), t)
    /\ \A t \in RiskTier : AsGrave("prohibited", t)
  BY DEF RiskTier, AsGrave, RISK_TIER_ORDER, escalate

\* An overlay never lowers a tier, and a score stays a score.
THEOREM OverlayEscalates ==
    ASSUME NEW taxonomy \in Taxonomy, NEW base, Graded01(base), NEW flags
    PROVE  LET o == apply_overlay(taxonomy, base, flags)
           IN  AsGrave(o.tier, base.tier) /\ o.score \in 0 .. 100
<1> DEFINE banned == base.use_case \in taxonomy.prohibited_use_cases
           listed == ~banned /\ base.use_case \in taxonomy.high_risk_use_cases
           tier == IF banned THEN "prohibited"
                   ELSE IF listed THEN escalate(base.tier, "high") ELSE base.tier
           score == IF banned THEN 100
                    ELSE IF listed THEN AtLeast(60, base.score) ELSE base.score
           after == TierAfter(taxonomy.escalate_if, flags, tier)
           reached == ScoreAfter(taxonomy.escalate_if, flags, tier, score)
           o == apply_overlay(taxonomy, base, flags)
<1>1. tier \in RiskTier /\ AsGrave(tier, base.tier)
  BY GravityIsAnOrder DEF Graded01, RiskTier
<1>2. score \in Nat
  BY DEF Graded01, AtLeast
<1>3. /\ o.tier = escalate(after, taxonomy.minimum_tier)
      /\ o.score = AtMost(100, (reached * taxonomy.score_multiplier) \div 100)
  BY DEF apply_overlay
<1> HIDE DEF tier, score, o
<1>4. after \in RiskTier /\ AsGrave(after, tier)
  <2> DEFINE targets == {tier} \cup {taxonomy.escalate_if[i].target :
                                        i \in Fired(taxonomy.escalate_if, flags)}
  <2>1. \A i \in Fired(taxonomy.escalate_if, flags) :
            taxonomy.escalate_if[i].target \in RiskTier
    <3>1. taxonomy.escalate_if \in Seq(Escalation)
      BY DEF Taxonomy
    <3>2. \A i \in DOMAIN taxonomy.escalate_if : taxonomy.escalate_if[i] \in Escalation
      BY <3>1
    <3> QED BY <3>2 DEF Fired, Escalation
  <2>2. targets \subseteq RiskTier /\ tier \in targets
    BY <1>1, <2>1
  <2>3. \E t \in targets : \A u \in targets : AsGrave(t, u)
    BY <2>2, GravestExists
  <2>4. after = CHOOSE t \in targets : \A u \in targets : AsGrave(t, u)
    BY DEF TierAfter
  <2> HIDE DEF targets, after
  <2> QED BY <2>2, <2>3, <2>4
<1>5. reached \in Nat
  BY <1>2 DEF ScoreAfter, AtLeast
<1> HIDE DEF after, reached
<1>6. AsGrave(o.tier, base.tier)
  BY <1>1, <1>3, <1>4, GravityIsAnOrder DEF Taxonomy, Graded01
<1>7. o.score \in 0 .. 100
  <2>1. reached * taxonomy.score_multiplier \in Nat
    BY <1>5 DEF Taxonomy
  <2>2. \A n \in Nat : AtMost(100, n \div 100) \in 0 .. 100
    BY DEF AtMost
  <2> QED BY <1>3, <2>1, <2>2
<1> QED BY <1>6, <1>7 DEF o

-----------------------------------------------------------------------------
(* The loop over escalate_if *)

\* One turn of the loop, as the code writes it.
Turn(entry, flags, s) ==
    IF entry.field \in flags /\ ~AsGrave(s.tier, entry.target)
    THEN [tier |-> entry.target,
          score |-> IF entry.target = "high" THEN AtLeast(60, s.score) ELSE s.score]
    ELSE s

\* run[k]: the tier and the score after k turns.
RunsThrough(run, loop, flags, tier, score) ==
    /\ DOMAIN run = 0 .. Len(loop)
    /\ run[0] = [tier |-> tier, score |-> score]
    /\ \A k \in 1 .. Len(loop) : run[k] = Turn(loop[k], flags, run[k - 1])

\* What TierAfter and ScoreAfter say, of the first k turns.
TargetsOf(loop, flags, tier, k) ==
    {tier} \cup {loop[i].target : i \in {j \in Fired(loop, flags) : j <= k}}

ReachesHigh(loop, flags, tier, k) ==
    /\ ~AsGrave(tier, "high")
    /\ \E i \in Fired(loop, flags) :
          /\ i <= k
          /\ loop[i].target = "high"
          /\ \A j \in Fired(loop, flags) : j < i => ~AsGrave(loop[j].target, "high")

AfterTurns(s, loop, flags, tier, score, k) ==
    /\ s.tier \in TargetsOf(loop, flags, tier, k)
    /\ \A u \in TargetsOf(loop, flags, tier, k) : AsGrave(s.tier, u)
    /\ s.score = IF ReachesHigh(loop, flags, tier, k) THEN AtLeast(60, score) ELSE score

LEMMA LoopTargets ==
    ASSUME NEW loop \in Seq(Escalation)
    PROVE  \A i \in DOMAIN loop : loop[i].target \in RiskTier
<1>1. \A i \in DOMAIN loop : loop[i] \in Escalation
  OBVIOUS
<1> QED BY <1>1 DEF Escalation

LEMMA TurnKeepsForm ==
    ASSUME NEW loop \in Seq(Escalation), NEW flags, NEW tier \in RiskTier, NEW score \in Nat,
           NEW k \in 1 .. Len(loop), NEW s, AfterTurns(s, loop, flags, tier, score, k - 1)
    PROVE  AfterTurns(Turn(loop[k], flags, s), loop, flags, tier, score, k)
<1> DEFINE F == Fired(loop, flags)
           old == TargetsOf(loop, flags, tier, k - 1)
           new == TargetsOf(loop, flags, tier, k)
           target == loop[k].target
           t == Turn(loop[k], flags, s)
<1>1. \A i \in DOMAIN loop : loop[i].target \in RiskTier
  BY LoopTargets
<1>2. F \subseteq DOMAIN loop /\ F \subseteq Nat /\ (k \in F <=> loop[k].field \in flags)
  BY DEF Fired
<1>3. target \in RiskTier
  BY <1>1
<1>4. \A j \in F : j <= k <=> j <= k - 1 \/ j = k
  BY <1>2
<1>5. new = IF k \in F THEN old \cup {target} ELSE old
  BY <1>2, <1>4 DEF TargetsOf
<1>6. old \subseteq RiskTier
  BY <1>1, <1>2 DEF TargetsOf
<1>7. tier \in old /\ \A j \in F : j < k => loop[j].target \in old
  BY <1>2 DEF TargetsOf
<1>8. /\ s.tier \in old /\ \A u \in old : AsGrave(s.tier, u)
      /\ s.score = IF ReachesHigh(loop, flags, tier, k - 1) THEN AtLeast(60, score) ELSE score
  BY DEF AfterTurns
<1>9. ReachesHigh(loop, flags, tier, k)
          <=> \/ ReachesHigh(loop, flags, tier, k - 1)
              \/ /\ ~AsGrave(tier, "high") /\ k \in F /\ target = "high"
                 /\ \A j \in F : j < k => ~AsGrave(loop[j].target, "high")
  BY <1>2, <1>4 DEF ReachesHigh
<1>10. \A u, v \in RiskTier : /\ AsGrave(u, v) \/ AsGrave(v, u)
                              /\ AsGrave(u, u)
                              /\ \A w \in RiskTier : AsGrave(u, v) /\ AsGrave(v, w) => AsGrave(u, w)
  BY DEF AsGrave, RISK_TIER_ORDER, RiskTier
<1>11. "high" \in RiskTier
  BY DEF RiskTier
<1>12. CASE k \notin F
  <2>1. t = s
    BY <1>2, <1>12 DEF Turn
  <2> HIDE DEF t, old, new, target
  <2> QED BY <1>5, <1>8, <1>9, <1>12, <2>1 DEF AfterTurns, t, old, new
<1>13. CASE k \in F /\ AsGrave(s.tier, target)
  <2>1. t = s
    BY <1>13 DEF Turn
  <2>2. ~ (/\ ~AsGrave(tier, "high") /\ target = "high"
           /\ \A j \in F : j < k => ~AsGrave(loop[j].target, "high"))
    <3>1. s.tier = tier \/ \E j \in F : j < k /\ s.tier = loop[j].target
      BY <1>2, <1>8 DEF TargetsOf
    <3> QED BY <1>13, <3>1
  <2> HIDE DEF t, old, new, target, F
  <2>3. t.tier \in new /\ \A u \in new : AsGrave(t.tier, u)
    BY <1>5, <1>8, <1>13, <2>1
  <2>4. t.score = IF ReachesHigh(loop, flags, tier, k) THEN AtLeast(60, score) ELSE score
    BY <1>8, <1>9, <2>1, <2>2
  <2> QED BY <2>3, <2>4 DEF AfterTurns, t, new
<1>14. CASE k \in F /\ ~AsGrave(s.tier, target)
  <2>1. /\ t.tier = target
        /\ t.score = IF target = "high" THEN AtLeast(60, s.score) ELSE s.score
    BY <1>2, <1>14 DEF Turn
  <2>2. \A u \in old : ~AsGrave(u, target)
    <3> HIDE DEF old, target, F
    <3> QED BY <1>3, <1>6, <1>8, <1>10, <1>14
  <2>3. target = "high" => /\ ~AsGrave(tier, "high")
                           /\ \A j \in F : j < k => ~AsGrave(loop[j].target, "high")
    BY <1>7, <2>2
  <2>4. target = "high" => ~ReachesHigh(loop, flags, tier, k - 1)
    <3> SUFFICES ASSUME target = "high", NEW i \in F, i <= k - 1, loop[i].target = "high"
                 PROVE  FALSE
      BY DEF ReachesHigh
    <3>1. loop[i].target \in old
      BY <1>2, <1>7
    <3> QED BY <1>10, <1>11, <2>2, <3>1
  <2> HIDE DEF t, old, new, target, F
  <2>5. t.tier \in new /\ \A u \in new : AsGrave(t.tier, u)
    BY <1>3, <1>5, <1>6, <1>8, <1>10, <1>14, <2>1, <2>2
  <2>6. t.score = IF ReachesHigh(loop, flags, tier, k) THEN AtLeast(60, score) ELSE score
    BY <1>8, <1>9, <1>14, <2>1, <2>3, <2>4
  <2> QED BY <2>5, <2>6 DEF AfterTurns, t, new
<1> QED BY <1>12, <1>13, <1>14

\* Going through escalate_if entry by entry, from whatever tier and score, ends where TierAfter
\* and ScoreAfter say, in whatever order the entries come.
THEOREM LoopEndsThere ==
    ASSUME NEW loop \in Seq(Escalation), NEW flags, NEW tier \in RiskTier, NEW score \in Nat,
           NEW run, RunsThrough(run, loop, flags, tier, score)
    PROVE  /\ run[Len(loop)].tier = TierAfter(loop, flags, tier)
           /\ run[Len(loop)].score = ScoreAfter(loop, flags, tier, score)
<1> DEFINE n == Len(loop)
           s == run[n]
           G == {k \in 0 .. n : AfterTurns(run[k], loop, flags, tier, score, k)}
<1>1. n \in Nat /\ DOMAIN loop = 1 .. n
  OBVIOUS
<1>2. 0 \in G
  <2>1. \A j \in Fired(loop, flags) : j >= 1 /\ j \in Nat
    BY <1>1 DEF Fired
  <2>2. TargetsOf(loop, flags, tier, 0) = {tier} /\ ~ReachesHigh(loop, flags, tier, 0)
    BY <2>1 DEF TargetsOf, ReachesHigh
  <2>3. run[0].tier = tier /\ run[0].score = score
    BY DEF RunsThrough
  <2>4. AsGrave(tier, tier)
    BY GravityIsAnOrder
  <2> QED BY <1>1, <2>2, <2>3, <2>4 DEF AfterTurns
<1>3. ASSUME NEW k \in 0 .. n - 1, k \in G PROVE k + 1 \in G
  <2>1. k + 1 \in 1 .. n /\ (k + 1) - 1 = k /\ k + 1 \in 0 .. n
    BY <1>1
  <2>2. run[k + 1] = Turn(loop[k + 1], flags, run[k])
    BY <2>1 DEF RunsThrough
  <2>3. AfterTurns(run[k], loop, flags, tier, score, (k + 1) - 1)
    BY <1>3, <2>1
  <2>4. AfterTurns(Turn(loop[k + 1], flags, run[k]), loop, flags, tier, score, k + 1)
    BY <2>1, <2>3, TurnKeepsForm
  <2> QED BY <2>1, <2>2, <2>4
<1>4. n \in G
  <2> HIDE DEF G, n
  <2> QED BY <1>1, <1>2, <1>3, CountingUp
<1>5. AfterTurns(s, loop, flags, tier, score, n)
  BY <1>4
<1>6. \A j \in Fired(loop, flags) : j <= n
  BY <1>1 DEF Fired
<1> DEFINE T == {tier} \cup {loop[i].target : i \in Fired(loop, flags)}
<1>7. TargetsOf(loop, flags, tier, n) = T
  BY <1>6 DEF TargetsOf
<1>8. s.tier = TierAfter(loop, flags, tier)
  <2>1. T \subseteq RiskTier
    BY LoopTargets DEF Fired
  <2>2. s.tier \in T /\ \A u \in T : AsGrave(s.tier, u)
    BY <1>5, <1>7 DEF AfterTurns
  <2>3. \A u, v \in RiskTier : AsGrave(u, v) /\ AsGrave(v, u) => u = v
    BY DEF AsGrave, RISK_TIER_ORDER, RiskTier
  <2>4. TierAfter(loop, flags, tier) = CHOOSE t \in T : \A u \in T : AsGrave(t, u)
    BY DEF TierAfter
  <2> HIDE DEF T, s
  <2> QED BY <2>1, <2>2, <2>3, <2>4
<1>9. ReachesHigh(loop, flags, tier, n)
          <=> /\ ~AsGrave(tier, "high")
              /\ \E i \in Fired(loop, flags) :
                    /\ loop[i].target = "high"
                    /\ \A j \in Fired(loop, flags) : j < i => ~AsGrave(loop[j].target, "high")
  BY <1>6 DEF ReachesHigh
<1>10. s.score = ScoreAfter(loop, flags, tier, score)
  BY <1>5, <1>9 DEF AfterTurns, ScoreAfter
<1> QED BY <1>8, <1>10

\* There is such a run, so the theorem speaks of every taxonomy.
LEMMA LoopRuns ==
    ASSUME NEW loop \in Seq(Escalation), NEW flags, NEW tier, NEW score
    PROVE  \E run : RunsThrough(run, loop, flags, tier, score)
<1> DEFINE n == Len(loop)
           Upto(run, k) == /\ DOMAIN run = 0 .. k
                           /\ run[0] = [tier |-> tier, score |-> score]
                           /\ \A j \in 1 .. k : run[j] = Turn(loop[j], flags, run[j - 1])
           G == {k \in 0 .. n : \E run : Upto(run, k)}
<1>1. n \in Nat
  OBVIOUS
<1>2. 0 \in G
  <2>1. Upto([j \in 0 .. 0 |-> [tier |-> tier, score |-> score]], 0)
    OBVIOUS
  <2>2. 0 \in 0 .. n
    BY <1>1
  <2> HIDE DEF Upto
  <2> QED BY <2>1, <2>2
<1>3. ASSUME NEW k \in 0 .. n - 1, k \in G PROVE k + 1 \in G
  <2>1. PICK run : Upto(run, k)
    BY <1>3
  <2> DEFINE next == Turn(loop[k + 1], flags, run[k])
             longer == [j \in 0 .. k + 1 |-> IF j = k + 1 THEN next ELSE run[j]]
  <2>2. \A j \in 0 .. k + 1 : longer[j] = IF j = k + 1 THEN next ELSE run[j]
    OBVIOUS
  <2>3. DOMAIN longer = 0 .. k + 1
    OBVIOUS
  <2> HIDE DEF next, longer
  <2>4. longer[0] = [tier |-> tier, score |-> score]
    BY <1>1, <2>1, <2>2
  <2>5. ASSUME NEW j \in 1 .. k + 1 PROVE longer[j] = Turn(loop[j], flags, longer[j - 1])
    <3>1. longer[j - 1] = run[j - 1]
      BY <1>1, <2>2
    <3>2. CASE j = k + 1
      BY <1>1, <2>2, <3>1, <3>2 DEF next
    <3>3. CASE j # k + 1
      <4>1. j \in 1 .. k /\ longer[j] = run[j]
        BY <1>1, <2>2, <3>3
      <4> QED BY <2>1, <3>1, <4>1
    <3> QED BY <3>2, <3>3
  <2>6. Upto(longer, k + 1)
    BY <2>3, <2>4, <2>5
  <2>7. k + 1 \in 0 .. n
    BY <1>1
  <2> HIDE DEF Upto
  <2> QED BY <2>6, <2>7
<1>4. n \in G
  <2> HIDE DEF G, n
  <2> QED BY <1>1, <1>2, <1>3, CountingUp
<1>5. PICK run : Upto(run, n)
  BY <1>4
<1>6. RunsThrough(run, loop, flags, tier, score)
  BY <1>5 DEF RunsThrough
<1> QED BY <1>6

-----------------------------------------------------------------------------
(* Declaring more *)

\* Signals only add up.
LEMMA SignalsAddUp ==
    ASSUME NEW old \in Metadata, NEW new \in Metadata, old # None, DeclaresMore(old, new)
    PROVE  /\ SignalScore(old) \in Nat /\ SignalScore(new) \in Nat
           /\ SignalScore(old) <= SignalScore(new)
<1> DEFINE Sensitive(m) == IF m.data_categories \cap SENSITIVE_DATA_CATEGORIES # {} THEN 15 ELSE 0
           a(m) == AUTONOMY_WEIGHT[m.autonomy_level]
<1>1. \A flag \in Flag : /\ Weight(flag, old.flags) \in Nat /\ Weight(flag, new.flags) \in Nat
                         /\ Weight(flag, old.flags) <= Weight(flag, new.flags)
  <2>1. old.flags \subseteq new.flags
    BY DEF DeclaresMore
  <2>2. \A flag \in Flag : SignalWeight[flag] \in Nat
    BY DEF SignalWeight, Flag
  <2> QED BY <2>1, <2>2 DEF Weight
<1>2. a(old) \in Nat /\ a(new) \in Nat /\ a(old) <= a(new)
  <2>1. \A m \in Metadata : a(m) \in Nat
    BY DEF AUTONOMY_WEIGHT, Metadata
  <2> QED BY <2>1 DEF DeclaresMore
<1>3. Sensitive(old) \in Nat /\ Sensitive(new) \in Nat /\ Sensitive(old) <= Sensitive(new)
  <2>1. old.data_categories \subseteq new.data_categories
    BY DEF DeclaresMore
  <2> QED BY <2>1
<1>4. \A m : SignalScore(m) =
          Weight("uses_biometrics", m.flags) + Weight("is_safety_component", m.flags)
            + Weight("makes_automated_decisions", m.flags) + Weight("affects_minors", m.flags)
            + Weight("uses_generative_ai", m.flags) + a(m) + Sensitive(m)
  BY DEF SignalScore
<1> HIDE DEF Sensitive, a
<1> QED BY <1>1, <1>2, <1>3, <1>4 DEF Flag

\* More metadata, no lower score; and no lower tier, but for a use case on top of signals that
\* are already worth the highest.
THEOREM BaselineGrows ==
    ASSUME NEW old \in Metadata \cup {None}, NEW new \in Metadata \cup {None},
           DeclaresMore(old, new)
    PROVE  /\ baseline(old).score <= baseline(new).score
           /\ AsGrave(baseline(new).tier, baseline(old).tier) \/ Relabelled(old, new)
<1>1. CASE old = None
  <2>1. baseline(old).score = 0 /\ baseline(old).tier = "unknown"
    BY <1>1 DEF baseline, Graded, AtMost
  <2>2. baseline(new).tier \in RiskTier /\ baseline(new).score \in 0 .. 100
    BY BaselineIsGraded DEF Graded01
  <2>3. \A t \in RiskTier : AsGrave(t, "unknown")
    BY DEF AsGrave, RISK_TIER_ORDER, RiskTier
  <2> QED BY <2>1, <2>2, <2>3
<1>2. CASE old # None
  <2> DEFINE s == SignalScore(old)
             t == SignalScore(new)
             B(m, n) == IF m.use_case \in PROHIBITED_USE_CASES
                        THEN Graded(100, "prohibited", m.use_case)
                        ELSE IF m.use_case \in HIGH_RISK_USE_CASES
                        THEN Graded(n + 30, "high", m.use_case)
                        ELSE Graded(n, tier_from_score(n), m.use_case)
  <2>1. old \in Metadata /\ new \in Metadata /\ new # None
    BY <1>2 DEF DeclaresMore
  <2>2. s \in Nat /\ t \in Nat /\ s <= t
    BY <1>2, <2>1, SignalsAddUp
  <2>3. old.use_case \in {NoUseCase, new.use_case}
    BY <1>2 DEF DeclaresMore
  <2>4. NoUseCase \notin PROHIBITED_USE_CASES /\ NoUseCase \notin HIGH_RISK_USE_CASES
    BY UseCasesAreNamed, UseCaseLists
  <2>5. baseline(old) = B(old, s) /\ baseline(new) = B(new, t)
    BY <1>2, <2>1 DEF baseline
  <2> HIDE DEF s, t
  <2>6. \A n \in Nat : AtMost(100, n) \in 0 .. 100
    BY DEF AtMost
  <2>7. /\ AtMost(100, s) <= AtMost(100, t)
        /\ AtMost(100, s) <= AtMost(100, t + 30)
        /\ AtMost(100, s + 30) <= AtMost(100, t + 30)
        /\ AtMost(100, s) <= 100 /\ AtMost(100, s + 30) <= 100 /\ AtMost(100, 100) = 100
    BY <2>2 DEF AtMost
  <2>8. /\ AsGrave(tier_from_score(t), tier_from_score(s))
        /\ s >= 100 \/ AsGrave("high", tier_from_score(s))
        /\ AsGrave("prohibited", tier_from_score(s)) /\ AsGrave("prohibited", "high")
        /\ AsGrave("high", "high") /\ AsGrave("prohibited", "prohibited")
    BY <2>2 DEF tier_from_score, AsGrave, RISK_TIER_ORDER
  <2>9. \A score, tier, use_case : /\ Graded(score, tier, use_case).score = AtMost(100, score)
                                   /\ Graded(score, tier, use_case).tier = tier
    BY DEF Graded
  <2>10. CASE old.use_case = new.use_case
    <3>1. CASE new.use_case \in PROHIBITED_USE_CASES
      BY <2>5, <2>7, <2>8, <2>9, <2>10, <3>1
    <3>2. CASE /\ new.use_case \notin PROHIBITED_USE_CASES
               /\ new.use_case \in HIGH_RISK_USE_CASES
      BY <2>5, <2>7, <2>8, <2>9, <2>10, <3>2
    <3>3. CASE /\ new.use_case \notin PROHIBITED_USE_CASES
               /\ new.use_case \notin HIGH_RISK_USE_CASES
      BY <2>5, <2>7, <2>8, <2>9, <2>10, <3>3
    <3> QED BY <3>1, <3>2, <3>3
  <2>11. CASE old.use_case = NoUseCase
    <3>1. baseline(old) = Graded(s, tier_from_score(s), old.use_case)
      BY <2>4, <2>5, <2>11
    <3>2. Relabelled(old, new) <=> new.use_case \in HIGH_RISK_USE_CASES /\ s >= 100
      BY <2>11 DEF Relabelled, s
    <3> QED BY <2>5, <2>7, <2>8, <2>9, <3>1, <3>2
  <2> QED BY <2>3, <2>10, <2>11
<1> QED BY <1>1, <1>2

\* Under one taxonomy, a graver baseline with more flags set makes no lesser tier.
THEOREM OverlayGrows ==
    ASSUME NEW taxonomy \in Taxonomy, NEW old, Graded01(old), NEW new, Graded01(new),
           AsGrave(new.tier, old.tier), old.use_case \in {NoUseCase, new.use_case},
           NEW flags, NEW more, flags \subseteq more
    PROVE  AsGrave(apply_overlay(taxonomy, new, more).tier, apply_overlay(taxonomy, old, flags).tier)
<1> DEFINE banned(b) == b.use_case \in taxonomy.prohibited_use_cases
           listed(b) == ~banned(b) /\ b.use_case \in taxonomy.high_risk_use_cases
           tier(b) == IF banned(b) THEN "prohibited"
                      ELSE IF listed(b) THEN escalate(b.tier, "high") ELSE b.tier
           T == {tier(old)} \cup {taxonomy.escalate_if[i].target :
                                     i \in Fired(taxonomy.escalate_if, flags)}
           U == {tier(new)} \cup {taxonomy.escalate_if[i].target :
                                     i \in Fired(taxonomy.escalate_if, more)}
           t == TierAfter(taxonomy.escalate_if, flags, tier(old))
           u == TierAfter(taxonomy.escalate_if, more, tier(new))
<1>1. /\ apply_overlay(taxonomy, old, flags).tier = escalate(t, taxonomy.minimum_tier)
      /\ apply_overlay(taxonomy, new, more).tier = escalate(u, taxonomy.minimum_tier)
  BY DEF apply_overlay
<1>2. old.tier \in RiskTier /\ new.tier \in RiskTier
  BY DEF Graded01
<1>3. \A a, b, c \in RiskTier : /\ AsGrave(a, a)
                                /\ AsGrave(a, b) /\ AsGrave(b, c) => AsGrave(a, c)
                                /\ AsGrave("prohibited", a)
                                /\ AsGrave(a, b) => AsGrave(escalate(a, c), escalate(b, c))
                                /\ AsGrave(escalate(a, c), a)
                                /\ escalate(a, c) \in RiskTier
  BY DEF AsGrave, RISK_TIER_ORDER, RiskTier, escalate
<1>4. "high" \in RiskTier /\ "prohibited" \in RiskTier
  BY DEF RiskTier
<1>5. tier(old) \in RiskTier /\ tier(new) \in RiskTier
  BY <1>2, <1>3, <1>4
<1>6. AsGrave(tier(new), tier(old))
  <2>1. NoUseCase \notin taxonomy.prohibited_use_cases
        /\ NoUseCase \notin taxonomy.high_risk_use_cases
    BY UseCasesAreNamed DEF Taxonomy
  <2>2. banned(old) => banned(new)
    BY <2>1
  <2>3. listed(old) => banned(new) \/ listed(new)
    BY <2>1
  <2> HIDE DEF banned, listed
  <2>4. CASE banned(new)
    <3>1. tier(new) = "prohibited"
      BY <2>4
    <3> HIDE DEF tier
    <3> QED BY <1>3, <1>5, <3>1
  <2>5. CASE ~banned(new) /\ listed(new)
    <3>1. /\ tier(new) = escalate(new.tier, "high")
          /\ tier(old) \in {escalate(old.tier, "high"), old.tier}
      BY <2>2, <2>5
    <3>2. /\ AsGrave(escalate(new.tier, "high"), escalate(old.tier, "high"))
          /\ AsGrave(escalate(new.tier, "high"), new.tier)
          /\ escalate(new.tier, "high") \in RiskTier
      BY <1>2, <1>3, <1>4
    <3>3. AsGrave(escalate(new.tier, "high"), old.tier)
      BY <1>2, <1>3, <3>2
    <3> HIDE DEF tier
    <3> QED BY <3>1, <3>2, <3>3
  <2>6. CASE ~banned(new) /\ ~listed(new)
    BY <2>2, <2>3, <2>6
  <2> QED BY <2>4, <2>5, <2>6
<1> HIDE DEF tier
<1>7. \A i \in DOMAIN taxonomy.escalate_if : taxonomy.escalate_if[i].target \in RiskTier
  BY LoopTargets DEF Taxonomy
<1>8. T \subseteq RiskTier /\ U \subseteq RiskTier /\ T # {} /\ U # {}
  BY <1>5, <1>7 DEF Fired
<1>9. \A x \in T : \E y \in U : AsGrave(y, x)
  <2>1. Fired(taxonomy.escalate_if, flags) \subseteq Fired(taxonomy.escalate_if, more)
    BY DEF Fired
  <2>2. \A x \in T : x = tier(old) \/ x \in U
    BY <2>1
  <2>3. tier(new) \in U
    OBVIOUS
  <2> HIDE DEF T, U
  <2> QED BY <1>3, <1>6, <1>8, <2>2, <2>3
<1>10. /\ t \in T /\ \A x \in T : AsGrave(t, x)
       /\ u \in U /\ \A y \in U : AsGrave(u, y)
  <2>1. /\ t = CHOOSE x \in T : \A y \in T : AsGrave(x, y)
        /\ u = CHOOSE x \in U : \A y \in U : AsGrave(x, y)
    BY DEF TierAfter
  <2> HIDE DEF T, U, t, u
  <2> QED BY <1>8, <2>1, GravestExists
<1> HIDE DEF T, U, t, u
<1>11. AsGrave(u, t)
  <2>1. PICK y \in U : AsGrave(y, t)
    BY <1>9, <1>10
  <2>2. AsGrave(u, y)
    BY <1>10
  <2>3. u \in RiskTier /\ y \in RiskTier /\ t \in RiskTier
    BY <1>8, <1>10
  <2> QED BY <1>3, <2>1, <2>2, <2>3
<1> QED BY <1>1, <1>3, <1>8, <1>10, <1>11 DEF Taxonomy

=============================================================================
