------------------------------ MODULE Dashboard ------------------------------
(***************************************************************************)
(* The compliance dashboard over the rows that requests and workers        *)
(* commit: the version history of the systems, the append-only             *)
(* classifications and policy checks, and one cached aggregate.            *)
(*                                                                         *)
(* A classification reads a system, evaluates it and commits later; others *)
(* commit in between.  An aggregate is computed by several SELECTs, each   *)
(* of which sees what is committed by then (READ COMMITTED), and stored in *)
(* Redis for a while.  A request drops the stored aggregate before its     *)
(* transaction commits; the workers never drop it.                         *)
(*                                                                         *)
(* An edit is one step on the system here: InventoryVersions shows that it *)
(* may be (RecordSpec).  by_jurisdiction is the aggregate; summary has the *)
(* same life under a key of its own.                                       *)
(***************************************************************************)
EXTENDS Naturals, Sequences, FiniteSets

CONSTANTS
    System,       \* the keys of ai_systems
    Code,         \* the jurisdictions whose rules look at the metadata
    Baseline,     \* the jurisdiction that always applies (GLOBAL)
    Session,      \* requests and worker tasks that write
    Reader,       \* computations of the aggregate
    None,         \* no system, no cached value
    Ttl,          \* CACHE_TTL_SECONDS, in ticks
    MaxWrites     \* bound on edits and evaluations in a behaviour

ASSUME ConstantsApart ==
    /\ Baseline \notin Code /\ None \notin System
    /\ Ttl \in Nat \ {0} /\ MaxWrites \in Nat

Jurisdiction == Code \cup {Baseline}

VARIABLES
    past,        \* system_metadata_versions: what every version of a system was
    classified,  \* risk_classifications
    checked,     \* policy_checks
    clock,       \* the latest evaluated_at or checked_at handed out
    commits,     \* number of writes committed so far
    session,     \* the writers
    reader,      \* the computations of the aggregate under way
    cache, left  \* the stored aggregate, and the ticks it has left

tables == <<past, classified, checked, commits>>
vars == <<past, classified, checked, clock, commits, session, reader, cache, left>>

-----------------------------------------------------------------------------
(* Types *)

\* regimes: the jurisdictions whose triggers the metadata satisfies.
Content == {c \in [live : BOOLEAN, regimes : SUBSET Jurisdiction] : Baseline \in c.regimes}

Classification == [system : System, code : Jurisdiction, applicable : BOOLEAN,
                   version : Nat, at : Nat]

Check == [system : System, code : Jurisdiction, fail : BOOLEAN, at : Nat]

\* A writer: an edit with the content it is to commit, or an assessment with the
\* content and version it has read; known: the jurisdictions ever classified, when
\* it evaluated.
Write == [pc : {"idle", "evaluate", "invalidate", "commit"}, edit : BOOLEAN,
          system : System \cup {None}, version : Nat, content : Content \cup {None},
          known : SUBSET Jurisdiction, at : Nat]

NoWrite == [pc |-> "idle", edit |-> FALSE, system |-> None, version |-> 0,
            content |-> None, known |-> {}, at |-> 0]

\* scope: systems whose latest classification applies; checks and failing: systems
\* with a latest check, and with a failing one.
PerCode == [Jurisdiction -> SUBSET System]
Aggregate == [asOf : Nat, scope : PerCode, checks : PerCode, failing : PerCode]
Nowhere == [j \in Jurisdiction |-> {}]

ASSUME NoneIsNoAggregate == None \notin Aggregate

Computation == [pc : {"idle", "second", "store"}, value : Aggregate]
NoComputation ==
    [pc |-> "idle", value |-> [asOf |-> 0, scope |-> Nowhere, checks |-> Nowhere,
                               failing |-> Nowhere]]

\* Shapes of the tables and of what is under way; nothing is stored longer than
\* its time to live.
TypeOK ==
    /\ past \in [System -> Seq(Content)]
    /\ classified \subseteq Classification
    /\ checked \subseteq Check
    /\ clock \in Nat /\ commits \in Nat
    /\ session \in [Session -> Write]
    /\ \A r \in Session : session[r].pc # "idle" =>
          session[r].system \in System /\ session[r].content \in Content
    /\ reader \in [Reader -> Computation]
    /\ cache \in Aggregate \cup {None}
    /\ left \in 0 .. Ttl
    /\ cache = None <=> left = 0

\* A system may be registered before the behaviour begins.
Init ==
    /\ past \in [System -> {<<>>} \cup {<<c>> : c \in {d \in Content : d.live}}]
    /\ classified = {}
    /\ checked = {}
    /\ clock = 0
    /\ commits = 0
    /\ session = [r \in Session |-> NoWrite]
    /\ reader = [r \in Reader |-> NoComputation]
    /\ cache = None
    /\ left = 0

-----------------------------------------------------------------------------
(* What the tables say *)

Version(s) == Len(past[s])
Current(s) == past[s][Version(s)]
Live(s) == Version(s) > 0 /\ Current(s).live

\* The rows of a table that row_number() = 1 keeps: one per system and code, of
\* live systems.
Latest(rows) ==
    {x \in rows : Live(x.system) /\ \A y \in rows :
                     y.system = x.system /\ y.code = x.code => y.at <= x.at}

SystemsBy(rows) == [j \in Jurisdiction |-> {x.system : x \in {y \in rows : y.code = j}}]

RowsOf(s) == {x \in classified : x.system = s}

-----------------------------------------------------------------------------
(* Writers *)

\* Registration, PATCH, delete or restore, flushed.  The uncommitted editor of a
\* system keeps others out.
Edit(r, s, c) ==
    /\ session[r].pc = "idle"
    /\ clock < MaxWrites
    /\ \A q \in Session : session[q].edit => session[q].system # s
    /\ c.live \/ Live(s)
    /\ Version(s) > 0 /\ c.live # Live(s) => c.regimes = Current(s).regimes
    /\ clock' = clock + 1
    /\ session' = [session EXCEPT ![r] = [pc |-> "invalidate", edit |-> TRUE, system |-> s,
                                          version |-> Version(s), content |-> c,
                                          known |-> {}, at |-> clock + 1]]
    /\ UNCHANGED <<tables, reader, cache, left>>

\* classify_system, check_policies and the workers' tasks read the system, metadata
\* and version in one SELECT; only an evidence build reads a deleted one.
Read(r, s) ==
    /\ session[r].pc = "idle"
    /\ Version(s) > 0
    /\ session' = [session EXCEPT ![r] = [pc |-> "evaluate", edit |-> FALSE, system |-> s,
                                          version |-> Version(s), content |-> Current(s),
                                          known |-> {}, at |-> 0]]
    /\ UNCHANGED <<tables, clock, reader, cache, left>>

\* now = datetime.now(UTC), after the system was read.  The workers' tasks,
\* recheck_system_policies and an evidence build with refresh_checks, go on to
\* commit without dropping the cache.
Evaluate(r) ==
    /\ session[r].pc = "evaluate"
    /\ clock < MaxWrites
    /\ clock' = clock + 1
    /\ \E pc \in {"invalidate", "commit"} :
          /\ pc = "invalidate" => session[r].content.live
          /\ session' = [session EXCEPT ![r] =
                            [@ EXCEPT !.pc = pc, !.at = clock + 1,
                                      !.known = {x.code : x \in RowsOf(session[r].system)}]]
    /\ UNCHANGED <<tables, reader, cache, left>>

\* Variant: the entry is dropped, its time to live is not.
InvalidateValue(r) ==
    /\ session[r].pc = "invalidate"
    /\ session' = [session EXCEPT ![r].pc = "commit"]
    /\ cache' = None
    /\ UNCHANGED <<tables, clock, reader, left>>

\* _invalidate_dashboard, while the transaction is still open; a Redis error is
\* logged and ignored.
Invalidate(r) ==
    /\ session[r].pc = "invalidate"
    /\ session' = [session EXCEPT ![r].pc = "commit"]
    /\ \/ cache' = None /\ left' = 0
       \/ UNCHANGED <<cache, left>>
    /\ UNCHANGED <<tables, clock, reader>>

CommitEdit(r) ==
    /\ session[r].pc = "commit"
    /\ session[r].edit
    /\ past' = [past EXCEPT ![session[r].system] = Append(@, session[r].content)]
    /\ commits' = commits + 1
    /\ session' = [session EXCEPT ![r] = NoWrite]
    /\ UNCHANGED <<classified, checked, clock, reader, cache, left>>

\* Variant: the rows are stamped with the version the system has by now.
VerdictsStampedLate(w, codes) ==
    {[system |-> w.system, code |-> j, applicable |-> j \in w.content.regimes,
      version |-> Version(w.system), at |-> w.at] :
        j \in IF codes = {} THEN w.content.regimes ELSE codes}

\* classify: no codes asked for means all that apply; codes asked for that do not
\* apply are classified all the same, as inapplicable.
Verdicts(w, codes) ==
    {[system |-> w.system, code |-> j, applicable |-> j \in w.content.regimes,
      version |-> w.version, at |-> w.at] :
        j \in IF codes = {} THEN w.content.regimes ELSE codes}

\* The jurisdictions whose policies evaluate_system considers: those asked for, or
\* those just classified, or without reclassify those ever classified.
CheckedCodes(w, codes, reclassify) ==
    IF codes # {} THEN codes
    ELSE IF reclassify THEN w.content.regimes
    ELSE w.known

\* classify_system: what was asked for shows only here.
CommitClassification(r, codes) ==
    LET w == session[r]
    IN  /\ w.pc = "commit" /\ ~w.edit /\ w.content.live
        /\ classified' = classified \cup Verdicts(w, codes)
        /\ commits' = commits + 1
        /\ session' = [session EXCEPT ![r] = NoWrite]
        /\ UNCHANGED <<past, checked, clock, reader, cache, left>>

\* check_policies and the workers.  A policy selects itself by risk tier, so any of
\* the codes may yield no check.
CommitChecks(r, codes, reclassify) ==
    LET w == session[r]
    IN  /\ w.pc = "commit" /\ ~w.edit /\ (w.content.live \/ reclassify)
        /\ classified' = classified \cup (IF reclassify THEN Verdicts(w, codes) ELSE {})
        /\ \E failing, others \in SUBSET CheckedCodes(w, codes, reclassify) :
              /\ failing \cap others = {}
              /\ checked' = checked \cup
                   {[system |-> w.system, code |-> j, fail |-> j \in failing, at |-> w.at] :
                       j \in failing \cup others}
        /\ commits' = commits + 1
        /\ session' = [session EXCEPT ![r] = NoWrite]
        /\ UNCHANGED <<past, clock, reader, cache, left>>

\* A writer fails and is rolled back.
Abort(r) ==
    /\ session[r].pc # "idle"
    /\ session' = [session EXCEPT ![r] = NoWrite]
    /\ UNCHANGED <<tables, clock, reader, cache, left>>

-----------------------------------------------------------------------------
(* The aggregate *)

\* Variant: the checks first.
TablesSwapped == <<"checks", "classifications">>

\* by_jurisdiction: its SELECTs, in order.
Tables == <<"classifications", "checks">>

\* v with what the SELECT of a table returns now.
Selected(table, v) ==
    IF table = "classifications"
    THEN [v EXCEPT !.scope = SystemsBy({x \in Latest(classified) : x.applicable})]
    ELSE [v EXCEPT !.checks = SystemsBy(Latest(checked)),
                   !.failing = SystemsBy({x \in Latest(checked) : x.fail})]

\* Nothing is stored, or ?refresh=true or beat bypasses it: the first SELECT ...
ReadFirst(r) ==
    /\ reader[r].pc = "idle"
    /\ reader' = [reader EXCEPT ![r] =
                    [pc |-> "second",
                     value |-> Selected(Tables[1], [NoComputation.value EXCEPT !.asOf = commits])]]
    /\ UNCHANGED <<tables, clock, session, cache, left>>

\* ... and the second, which sees what has been committed in between.
ReadSecond(r) ==
    /\ reader[r].pc = "second"
    /\ reader' = [reader EXCEPT ![r] =
                    [pc |-> "store", value |-> Selected(Tables[2], reader[r].value)]]
    /\ UNCHANGED <<tables, clock, session, cache, left>>

\* Variant: SET, without a time to live.
StoreForever(r) ==
    /\ reader[r].pc = "store"
    /\ reader' = [reader EXCEPT ![r] = NoComputation]
    /\ cache' = reader[r].value /\ left' = 0
    /\ UNCHANGED <<tables, clock, session>>

\* SETEX, whatever is stored by now; a Redis error is logged and ignored.
Store(r) ==
    /\ reader[r].pc = "store"
    /\ reader' = [reader EXCEPT ![r] = NoComputation]
    /\ \/ cache' = reader[r].value /\ left' = Ttl
       \/ UNCHANGED <<cache, left>>
    /\ UNCHANGED <<tables, clock, session>>

\* Redis counts down and drops the entry.
Tick ==
    /\ left > 0
    /\ left' = left - 1
    /\ cache' = IF left = 1 THEN None ELSE cache
    /\ UNCHANGED <<tables, clock, session, reader>>

-----------------------------------------------------------------------------

Next ==
    \/ \E r \in Session, s \in System :
          \/ \E c \in Content : Edit(r, s, c)
          \/ Read(r, s)
    \/ \E r \in Session :
          \/ Evaluate(r)
          \/ Invalidate(r)
          \/ CommitEdit(r)
          \/ \E codes \in SUBSET Jurisdiction :
                \/ CommitClassification(r, codes)
                \/ \E reclassify \in BOOLEAN : CommitChecks(r, codes, reclassify)
          \/ Abort(r)
    \/ \E r \in Reader : ReadFirst(r) \/ ReadSecond(r) \/ Store(r)
    \/ Tick

Spec == Init /\ [][Next]_vars

\* A computation of the aggregate that has begun ends, and Redis expires what it
\* stores.  Nobody is obliged to write, to ask or to drop the cache.
Fairness ==
    /\ WF_vars(Tick)
    /\ \A r \in Reader : WF_vars(ReadSecond(r)) /\ WF_vars(Store(r))

FairSpec == Spec /\ Fairness

-----------------------------------------------------------------------------
(* Properties *)

\* "Classifications record the metadata_version they were computed against": every
\* row's verdict is the right one for the version it is stamped with, although the
\* system is read without a lock and may be edited before the row is committed.
StampIsTrue ==
    \A x \in classified :
        /\ x.version \in 1 .. Version(x.system)
        /\ x.applicable <=> x.code \in past[x.system][x.version].regimes

InScope(s, j) == {x \in classified : x.system = s /\ x.code = j /\ x.applicable}
Found(s, j) == {y \in checked : y.system = s /\ y.code = j}

\* s has never been deleted, and whenever it was found in scope of j it was checked as well.
AlwaysChecked(s, j) ==
    /\ \A n \in 1 .. Version(s) : past[s][n].live
    /\ \A x \in InScope(s, j) : \E y \in Found(s, j) : y.at = x.at

\* v shows s with checks, and as failing if nothing but failures has been recorded.
ShownWithChecks(v, s, j) ==
    /\ s \in v.checks[j]
    /\ (\A y \in Found(s, j) : y.fail) => s \in v.failing[j]

\* An aggregate may mix two states, but never so that a system looks better than it ever
\* was: one that it shows in scope, and that was always checked when it was found in scope,
\* is shown with checks, and as failing if it never passed.  For the checks are read after
\* the classifications, and a commit brings both.
ScopeComesWithChecks ==
    cache # None =>
        \A j \in Jurisdiction : \A s \in cache.scope[j] :
            AlwaysChecked(s, j) => ShownWithChecks(cache, s, j)

\* A stale aggregate does not live for ever, although it may be stored after the
\* write it misses has dropped the cache: from some time on, what is stored shows
\* every one of the first n writes.
EventuallyFresh ==
    \A n \in 1 .. MaxWrites :
        commits >= n ~> [](cache = None \/ cache.asOf >= n)

-----------------------------------------------------------------------------
(* What the repository says and the code does not do *)

\* schemas/dashboard.py: compliance_rate is between 0 and 1.  So the systems by_jurisdiction
\* counts as compliant, even when no commit falls between its SELECTs, should be no more
\* than those in scope.
RateIsAFraction ==
    LET scope == SystemsBy({x \in Latest(classified) : x.applicable})
        compliant(j) == SystemsBy(Latest(checked))[j]
                            \ SystemsBy({x \in Latest(checked) : x.fail})[j]
    IN  \A j \in Jurisdiction :
            scope[j] # {} => Cardinality(compliant(j)) <= Cardinality(scope[j])

=============================================================================
