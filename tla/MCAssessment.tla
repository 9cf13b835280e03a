----------------------------- MODULE MCAssessment -----------------------------
(* Two member states, one state of the EEA only, two provinces; what people  *)
(* type, what administrators store and what owners declare.                  *)
EXTENDS Assessment

MembersDef == {<<"DE">>, <<"FR">>}
EEAOnlyDef == {<<"NO">>}
ProvincesDef == {<<"CA", "QC">>, <<"CA", "ON">>}

\* US-CA with an underscore, a Land, a province, a group, a country by name, a blank.
TypedDef == {Typed(CALIFORNIA, "_"), Typed(<<"DE", "BY">>, "-"), Typed(<<"CA", "QC">>, "-"),
             Typed(<<"CA">>, "-"), Name("EEA"), Name("NO"), Name("CANADA"), Name("GERMANY"),
             Name("WORLDWIDE"), Name("BR"), [words |-> <<>>, separator |-> "-"]}

SpellingDef == TypedDef \cup UNION {JURISDICTIONS[c].territories : c \in DOMAIN JURISDICTIONS}

UseCaseDef == {"credit_scoring", "social_scoring", "support"}

Meta(deployment, offered, service, flags, use_case, categories) ==
    [regions |-> [f \in RegionField |->
        CASE f = "deployment" -> deployment [] f = "offered" -> offered
          [] f = "service" -> service [] OTHER -> {}],
     flags |-> flags, use_case |-> use_case, data_categories |-> categories,
     autonomy_level |-> "human_on_the_loop"]

DeclaredDef ==
    {Meta({Name("NO"), [words |-> <<>>, separator |-> "-"]}, {}, {}, {}, NoUseCase, {}),
     Meta({Name("NO"), Name("BR")}, {}, {Name("WORLDWIDE")}, {"uses_biometrics"}, "support", {}),
     Meta({Typed(<<"DE", "BY">>, "-")}, {Typed(<<"CA">>, "-")}, {},
          {"uses_biometrics", "makes_automated_decisions", "is_safety_component"},
          "support", {"children"}),
     Meta({}, {Typed(CALIFORNIA, "_")}, {Name("WORLDWIDE")},
          {"makes_automated_decisions", "affects_minors"}, "credit_scoring", {"health"}),
     Meta({}, {Name("EEA"), Name("CANADA")}, {}, Flag, "credit_scoring", {"biometric"}),
     Meta({}, {Typed(<<"CA", "QC">>, "-")}, {}, Flag, "social_scoring", {}),
     Meta({}, {Name("CANADA")}, {}, Flag, NoUseCase, {"biometric"}),
     Meta({}, {}, {Name("BR")}, {"uses_generative_ai"}, NoUseCase, {})}

TerritoriesDef == {{}, {Name("EEA"), Typed(<<"CA", "QC">>, "-")}}

TaxonomiesDef ==
    {[PlainTaxonomy EXCEPT
        !.high_risk_use_cases = {"support"}, !.score_multiplier = 150, !.minimum_tier = "limited"],
     [PlainTaxonomy EXCEPT
        !.escalate_if = <<[field |-> "uses_biometrics", target |-> "high"],
                          [field |-> "affects_minors", target |-> "prohibited"]>>,
        !.score_multiplier = 50]}

\* An old configuration by field names, and one that names a trigger of each kind.
OverlaysDef ==
    {[triggers |-> {"offered_in_regions"}],
     [triggers |-> {"service_accessibility_nexus", "consequential_decision_nexus",
                    "biometric_processing", "childrens_data"},
      strictness |-> 100, consequential_use_cases |-> {"support"}]}

AlphabeticalDef == <<"BR", "CA", "CN", "EU", "GLOBAL", "IN">>

AskedDef == {{}, {"BR", "EU"}}

-----------------------------------------------------------------------------

\* Where in the world each spelling is: not through its code.
Meaning(spelling) ==
    CASE spelling \in {Typed(CALIFORNIA, "_"), Typed(CALIFORNIA, "-"), Typed(<<"CA", "US">>, "-"),
                       Name("CALIFORNIA"), Name("CA")} -> {"California"}
      [] spelling \in {Name("DE"), Name("GERMANY"), Typed(<<"DE", "BY">>, "-")} -> {"Germany"}
      [] spelling = Name("FR") -> {"France"}
      [] spelling = Name("EU") -> {"Germany", "France"}
      [] spelling = Name("NO") -> {"Norway"}
      [] spelling = Name("EEA") -> {"Germany", "France", "Norway"}
      [] spelling = Typed(<<"CA", "QC">>, "-") -> {"Quebec"}
      [] spelling = Name("CANADA") -> {"Quebec", "Ontario"}
      [] spelling \in {Name("CN"), Name("PRC"), Name("CHINA")} -> {"China"}
      [] spelling \in {Name("IN"), Name("INDIA")} -> {"India"}
      [] spelling = Name("BR") -> {"Brazil"}
      [] spelling = Name("WORLDWIDE") -> {"Germany", "France", "Norway", "California", "Quebec",
                                          "Ontario", "China", "India", "Brazil"}
      [] spelling.words = <<>> -> {}

MeaningOf == [spelling \in Spelling |-> Meaning(spelling)]

Meant(spellings) == UNION {MeaningOf[spelling] : spelling \in spellings}

\* What a regime covers: what its row says, if any active row is there to be asked; else the
\* place of its name, the EEA for the EU, and no place for the global baseline.
Covered(code) ==
    LET asked == \E c \in Code : rows[c] # None /\ rows[c].is_active
        typed == IF asked THEN Meant(rows[code].territories) ELSE {}
    IN  IF typed # {} THEN typed
        ELSE IF code = "EU" THEN MeaningOf[Name("EEA")]
        ELSE IF code = "GLOBAL" THEN {}
        ELSE MeaningOf[Name(code)]

\* "CA-QC" once counted as California, and Quebec matched nothing: whatever way the owner and
\* the administrator spell a place, a trigger finds a regime exactly if what the one means and
\* what the other means meet on the map.
RegimesFollowTheMap ==
    LET rules == load_engine(rows)
        p == from_metadata(metadata)
    IN  metadata # None =>
            \A c \in DOMAIN rules :
                \A t \in (rules[c].triggers \cap Nexus) \ {"always_applicable"} :
                    Awake(t, p, rules[c]) =>
                        (NexusFires(t, p, rules[c]) <=>
                            Meant(Looks(t, metadata)) \cap Covered(c) # {})

===============================================================================
