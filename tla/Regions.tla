------------------------------- MODULE Regions -------------------------------
(***************************************************************************)
(* Region codes: how free-form places are folded to codes, and the algebra *)
(* of codes and of the groups that stand for many of them (EU, EEA, the    *)
(* Canadian provinces).                                                    *)
(*                                                                         *)
(* A code is the tuple of the words between its hyphens: <<"DE">>,         *)
(* <<"US", "CA">>.  A spelling is what was typed, in upper case: words and *)
(* the separator between them.                                             *)
(***************************************************************************)
EXTENDS Sequences, FiniteSets, Naturals

CONSTANTS
    EU_MEMBER_STATES,    \* codes of the member states
    EEA_ONLY_STATES,     \* codes of the states that the EEA adds
    CANADA_SUBDIVISIONS  \* codes of the provinces

EU == <<"EU">>
EEA == <<"EEA">>
CANADA == <<"CA", "COUNTRY">>
GLOBAL == <<"GLOBAL">>
CALIFORNIA == <<"US", "CA">>

EEA_STATES == EU_MEMBER_STATES \cup EEA_ONLY_STATES
GroupCodes == {EU, EEA, CANADA}

ASSUME GroupCodesDiffer ==
    /\ EU # EEA /\ EU # CANADA /\ EEA # CANADA
    /\ GLOBAL \notin GroupCodes

ASSUME StatesAreStates ==
    /\ EU_MEMBER_STATES # {} /\ CANADA_SUBDIVISIONS # {}
    /\ EEA_STATES \cap CANADA_SUBDIVISIONS = {}
    /\ EU_MEMBER_STATES \cap EEA_ONLY_STATES = {}
    /\ (EEA_STATES \cup CANADA_SUBDIVISIONS) \cap (GroupCodes \cup {GLOBAL}) = {}

-----------------------------------------------------------------------------
(* Folding *)

Name(word) == [words |-> <<word>>, separator |-> "-"]

Typed(words, separator) == [words |-> words, separator |-> separator]

\* The alias tables, which share no key: one entry for each shape they hold.
Aliases ==
    {<<Name("CALIFORNIA"), CALIFORNIA>>, <<Typed(<<"CA", "US">>, "-"), CALIFORNIA>>,
     <<Typed(CALIFORNIA, "_"), CALIFORNIA>>, <<Typed(CALIFORNIA, "-"), CALIFORNIA>>,
     <<Name("GERMANY"), <<"DE">>>>, <<Name("UK"), <<"GB">>>>, <<Name("CHINA"), <<"CN">>>>,
     <<Name("PRC"), <<"CN">>>>, <<Name("INDIA"), <<"IN">>>>,
     <<Name("EUROPE"), EU>>, <<Typed(<<"EU", "27">>, "-"), EU>>, <<Name("EEA"), EEA>>,
     <<Name("CANADA"), CANADA>>, <<Typed(CANADA, "-"), CANADA>>,
     <<Name("QUEBEC"), <<"CA", "QC">>>>,
     <<Name("WORLDWIDE"), GLOBAL>>, <<Name("PUBLIC INTERNET"), GLOBAL>>,
     <<Typed(<<"PUBLIC", "INTERNET">>, "_"), GLOBAL>>}

\* Variant: every subdivision but a US state folds to its country.
NormalizeProvinces(spelling) ==
    LET token == Typed(spelling.words, "-")
        aliases == {alias \in Aliases : alias[1] = token}
        head == Head(spelling.words)
    IN  IF token = Name("CA") THEN CALIFORNIA
        ELSE IF aliases # {} THEN (CHOOSE alias \in aliases : TRUE)[2]
        ELSE IF Len(spelling.words) > 1 /\ head # "US" /\ Len(head) = 2 THEN <<head>>
        ELSE spelling.words

\* Underscores become hyphens before anything is looked up.  Bare CA is California;
\* an unknown subdivision folds to its country, unless it is a province or a US state.
normalize_region(spelling) ==
    LET token == Typed(spelling.words, "-")
        aliases == {alias \in Aliases : alias[1] = token}
        head == Head(spelling.words)
    IN  IF token = Name("CA") THEN CALIFORNIA
        ELSE IF aliases # {} THEN (CHOOSE alias \in aliases : TRUE)[2]
        ELSE IF /\ Len(spelling.words) > 1 /\ head # "US" /\ Len(head) = 2
                /\ spelling.words \notin CANADA_SUBDIVISIONS
             THEN <<head>>
        ELSE spelling.words

\* A blank is typed with no words at all.
normalize_regions(spellings) ==
    {normalize_region(spelling) : spelling \in {s \in spellings : s.words # <<>>}}

-----------------------------------------------------------------------------
(* Groups *)

expand_region(code) ==
    IF code = EU THEN EU_MEMBER_STATES \cup {EU}
    ELSE IF code = EEA THEN EEA_STATES \cup {EEA, EU}
    ELSE IF code = CANADA THEN CANADA_SUBDIVISIONS \cup {CANADA}
    ELSE {code}

expand_regions(codes) == UNION {expand_region(code) : code \in codes}

\* Variant: the regions must lie within the territories, not only meet them.
intersect_within(declared, territories) ==
    IF declared = {} \/ territories = {} THEN {}
    ELSE IF GLOBAL \in declared THEN territories
    ELSE IF expand_regions(declared) \subseteq expand_regions(territories)
    THEN expand_regions(declared)
    ELSE {}

\* The territories that declared regions match.  Worldwide matches them all.
regions_intersect(declared, territories) ==
    IF declared = {} \/ territories = {} THEN {}
    ELSE IF GLOBAL \in declared THEN territories
    ELSE expand_regions(declared) \cap expand_regions(territories)

\* One turn of the loop: a group stands for its members when all are there, or when
\* its own code is.
Fold(state, group, members) ==
    IF members \subseteq state.remaining \/ group \in state.remaining
    THEN [collapsed |-> state.collapsed \cup {group},
          remaining |-> state.remaining \ (members \cup {group})]
    ELSE state

\* The largest group first.  What is left is listed after the groups, sorted.
collapse_regions(codes) ==
    LET none == [collapsed |-> {}, remaining |-> codes]
        eea == Fold(none, EEA, EEA_STATES)
        eu == Fold(eea, EU, EU_MEMBER_STATES)
        all == Fold(eu, CANADA, CANADA_SUBDIVISIONS)
    IN  all.collapsed \cup all.remaining

-----------------------------------------------------------------------------
(* What a set of codes means *)

\* The single places that a code stands for.
Places(code) ==
    IF code = EU THEN EU_MEMBER_STATES
    ELSE IF code = EEA THEN EEA_STATES
    ELSE IF code = CANADA THEN CANADA_SUBDIVISIONS
    ELSE {code}

PlacesOf(codes) == UNION {Places(code) : code \in codes}

\* The reference for regions_intersect: some place is among those declared and among
\* those covered, or the whole world is declared.
Reaches(declared, territories) ==
    /\ territories # {}
    /\ GLOBAL \in declared \/ PlacesOf(declared) \cap PlacesOf(territories) # {}

=============================================================================
