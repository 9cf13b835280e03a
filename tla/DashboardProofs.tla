--------------------------- MODULE DashboardProofs ---------------------------
(***************************************************************************)
(* The stamps of Dashboard's classifications and what an aggregate that    *)
(* mixes two states may show, for any number of systems, jurisdictions,    *)
(* writers and computations.                                               *)
(*                                                                         *)
(* Stamps: metadata versions are only ever appended.  What a writer has    *)
(* read is therefore, for as long as the writer takes and whoever edits    *)
(* meanwhile, what the history says of the version it read (ReadInv).      *)
(*                                                                         *)
(* Aggregates: every assessment has a time of its own (AtInv), so no       *)
(* commit ever adds checks to classifications that were there before it.   *)
(* A system that the first SELECT has found in scope, and that is always   *)
(* checked when it is found in scope, therefore has its checks by the      *)
(* second one, and what has been stored of it stays right (ShownInv).      *)
(***************************************************************************)
EXTENDS Dashboard, OrderProofs, TLAPS

\* What an assessment has read is what is filed under the version it has read.
ReadInv ==
    \A r \in Session : session[r].pc # "idle" /\ ~session[r].edit =>
        /\ session[r].version \in 1 .. Version(session[r].system)
        /\ session[r].content = past[session[r].system][session[r].version]

IInv == TypeOK /\ ReadInv /\ StampIsTrue

-----------------------------------------------------------------------------
(* Types *)

\* The idle writer and the idle computation are well-formed.
LEMMA IdleTypes == NoWrite \in Write /\ NoComputation \in Computation
<1>1. NoWrite \in Write
    BY DEF NoWrite, Write
<1>2. Nowhere \in PerCode
    BY DEF Nowhere, PerCode
<1>3. NoComputation \in Computation
    BY <1>2 DEF NoComputation, Computation, Aggregate
<1> QED BY <1>1, <1>3

\* The initial state has the shape TypeOK describes.
LEMMA InitialTypes == Init => TypeOK
<1> SUFFICES ASSUME Init PROVE TypeOK
    OBVIOUS
<1>1. session \in [Session -> Write] /\ \A r \in Session : session[r].pc = "idle"
    BY IdleTypes DEF Init, NoWrite
<1>2. reader \in [Reader -> Computation]
    BY IdleTypes DEF Init
<1>3. left \in 0 .. Ttl
    BY ConstantsApart DEF Init
<1>4. past \in [System -> Seq(Content)]
    <2>1. \A c \in Content : <<c>> \in Seq(Content)
        OBVIOUS
    <2>2. <<>> \in Seq(Content)
        OBVIOUS
    <2>3. {<<>>} \cup {<<c>> : c \in {d \in Content : d.live}} \subseteq Seq(Content)
        BY <2>1, <2>2, Zenon
    <2> QED BY <2>3 DEF Init
<1> QED BY <1>1, <1>2, <1>3, <1>4 DEF Init, TypeOK

\* What a writer in progress holds.
LEMMA WriterTypes ==
    ASSUME TypeOK, NEW r \in Session, session[r].pc # "idle"
    PROVE  /\ session[r].system \in System /\ session[r].content \in Content
           /\ session[r].at \in Nat /\ session[r].version \in Nat
           /\ session[r].known \subseteq Jurisdiction
           /\ session[r].edit \in BOOLEAN
BY DEF TypeOK, Write

\* SystemsBy gives every jurisdiction a set of systems.
LEMMA SystemsByType ==
    ASSUME NEW rows, \A x \in rows : x.system \in System
    PROVE  SystemsBy(rows) \in PerCode
BY DEF SystemsBy, PerCode

\* Latest keeps only rows of the table.
LEMMA LatestIn == ASSUME NEW rows PROVE Latest(rows) \subseteq rows
BY DEF Latest

\* A SELECT fills an aggregate with systems.
LEMMA SelectedTypes ==
    ASSUME TypeOK, NEW table, NEW v \in Aggregate
    PROVE  Selected(table, v) \in Aggregate
<1>1. \A x \in classified \cup checked : x.system \in System
    BY DEF TypeOK, Classification, Check
<1>2. SystemsBy({x \in Latest(classified) : x.applicable}) \in PerCode
    BY <1>1, LatestIn, SystemsByType
<1>3. SystemsBy(Latest(checked)) \in PerCode
    BY <1>1, LatestIn, SystemsByType
<1>4. SystemsBy({x \in Latest(checked) : x.fail}) \in PerCode
    BY <1>1, LatestIn, SystemsByType
<1> QED BY <1>2, <1>3, <1>4 DEF Selected, Aggregate

\* The verdicts of an assessment are well-formed classifications.
LEMMA VerdictTypes ==
    ASSUME NEW w, w.system \in System, w.content \in Content, w.version \in Nat, w.at \in Nat,
           NEW codes \in SUBSET Jurisdiction
    PROVE  Verdicts(w, codes) \subseteq Classification
<1>1. w.content.regimes \subseteq Jurisdiction
    BY DEF Content
<1>2. SUFFICES ASSUME NEW x \in Verdicts(w, codes) PROVE x \in Classification
    OBVIOUS
<1>3. PICK j \in Jurisdiction :
         x = [system |-> w.system, code |-> j, applicable |-> j \in w.content.regimes,
              version |-> w.version, at |-> w.at]
    BY <1>1 DEF Verdicts
<1>4. (j \in w.content.regimes) \in BOOLEAN
    OBVIOUS
<1> QED BY <1>3, <1>4 DEF Classification

\* A writer that ends leaves a well-formed table of writers.
LEMMA EndTypes ==
    ASSUME TypeOK, NEW r \in Session, session' = [session EXCEPT ![r] = NoWrite]
    PROVE  /\ session' \in [Session -> Write]
           /\ \A q \in Session : session'[q].pc # "idle" =>
                 session'[q].system \in System /\ session'[q].content \in Content
BY IdleTypes DEF TypeOK, NoWrite

\* Every action keeps the types.
LEMMA StepTypes == TypeOK /\ [Next]_vars => TypeOK'
<1> SUFFICES ASSUME TypeOK, [Next]_vars PROVE TypeOK'
    OBVIOUS
<1>0. CASE UNCHANGED vars
    BY <1>0 DEF vars, TypeOK
<1>1. ASSUME NEW r \in Session, NEW s \in System, NEW c \in Content, Edit(r, s, c) PROVE TypeOK'
    <2>1. Version(s) \in Nat
        BY DEF TypeOK, Version
    <2>2. [pc |-> "invalidate", edit |-> TRUE, system |-> s, version |-> Version(s),
           content |-> c, known |-> {}, at |-> clock + 1] \in Write
        BY <2>1 DEF Write, TypeOK
    <2> QED BY <1>1, <2>2 DEF Edit, TypeOK, tables
<1>2. ASSUME NEW r \in Session, NEW s \in System, Read(r, s) PROVE TypeOK'
    <2>1. Version(s) \in Nat /\ Current(s) \in Content
        BY <1>2 DEF Read, TypeOK, Version, Current
    <2>2. [pc |-> "evaluate", edit |-> FALSE, system |-> s, version |-> Version(s),
           content |-> Current(s), known |-> {}, at |-> 0] \in Write
        BY <2>1 DEF Write
    <2> QED BY <1>2, <2>1, <2>2 DEF Read, TypeOK, tables
<1>3. ASSUME NEW r \in Session, Evaluate(r) PROVE TypeOK'
    <2>1. {x.code : x \in RowsOf(session[r].system)} \in SUBSET Jurisdiction
        BY DEF RowsOf, TypeOK, Classification
    <2>2. PICK pc \in {"invalidate", "commit"} :
             session' = [session EXCEPT ![r] =
                [@ EXCEPT !.pc = pc, !.at = clock + 1,
                          !.known = {x.code : x \in RowsOf(session[r].system)}]]
        BY <1>3 DEF Evaluate
    <2>3. session[r] \in Write /\ session[r].pc # "idle" /\ clock + 1 \in Nat
        BY <1>3 DEF Evaluate, TypeOK
    <2>4. [session[r] EXCEPT !.pc = pc, !.at = clock + 1,
              !.known = {x.code : x \in RowsOf(session[r].system)}] \in Write
        BY <2>1, <2>3 DEF Write
    <2>5. session' \in [Session -> Write]
        BY <2>2, <2>4 DEF TypeOK
    <2>6. \A q \in Session : session'[q].pc # "idle" =>
             session'[q].system \in System /\ session'[q].content \in Content
        BY <2>2, <2>3 DEF TypeOK, Write
    <2> QED BY <1>3, <2>3, <2>5, <2>6 DEF Evaluate, TypeOK, tables
<1>4. ASSUME NEW r \in Session, Invalidate(r) PROVE TypeOK'
    <2>1. session' \in [Session -> Write]
        BY <1>4 DEF Invalidate, TypeOK, Write
    <2>2. \A q \in Session : session'[q].pc # "idle" =>
             session'[q].system \in System /\ session'[q].content \in Content
        BY <1>4 DEF Invalidate, TypeOK, Write
    <2>3. cache' \in Aggregate \cup {None} /\ left' \in 0 .. Ttl /\ (cache' = None <=> left' = 0)
        BY <1>4, ConstantsApart DEF Invalidate, TypeOK
    <2> QED BY <1>4, <2>1, <2>2, <2>3 DEF Invalidate, TypeOK, tables
<1>5. ASSUME NEW r \in Session, CommitEdit(r) PROVE TypeOK'
    <2>1. past' \in [System -> Seq(Content)]
        BY <1>5, WriterTypes DEF CommitEdit, TypeOK
    <2>2. /\ session' \in [Session -> Write]
          /\ \A q \in Session : session'[q].pc # "idle" =>
                session'[q].system \in System /\ session'[q].content \in Content
        BY <1>5, EndTypes DEF CommitEdit
    <2> QED BY <1>5, <2>1, <2>2 DEF CommitEdit, TypeOK
<1>6. ASSUME NEW r \in Session, NEW codes \in SUBSET Jurisdiction, CommitClassification(r, codes)
      PROVE  TypeOK'
    <2>1. Verdicts(session[r], codes) \subseteq Classification
        BY <1>6, WriterTypes, VerdictTypes DEF CommitClassification
    <2>2. classified' \subseteq Classification /\ commits' \in Nat
        BY <1>6, <2>1 DEF CommitClassification, TypeOK
    <2>3. /\ session' \in [Session -> Write]
          /\ \A q \in Session : session'[q].pc # "idle" =>
                session'[q].system \in System /\ session'[q].content \in Content
        BY <1>6, EndTypes DEF CommitClassification
    <2> QED BY <1>6, <2>2, <2>3 DEF CommitClassification, TypeOK
<1>7. ASSUME NEW r \in Session, NEW codes \in SUBSET Jurisdiction, NEW reclassify \in BOOLEAN,
             CommitChecks(r, codes, reclassify)
      PROVE  TypeOK'
    <2> DEFINE w == session[r]
    <2>1. w.system \in System /\ w.content \in Content /\ w.at \in Nat /\ w.version \in Nat
          /\ w.known \subseteq Jurisdiction
        BY <1>7, WriterTypes DEF CommitChecks
    <2>2. Verdicts(w, codes) \subseteq Classification
        BY <2>1, VerdictTypes
    <2>3. CheckedCodes(w, codes, reclassify) \subseteq Jurisdiction
        BY <2>1 DEF CheckedCodes, Content
    <2>4. checked' \subseteq Check
        <3>1. PICK failing, others \in SUBSET CheckedCodes(w, codes, reclassify) :
                 checked' = checked \cup
                   {[system |-> w.system, code |-> j, fail |-> j \in failing, at |-> w.at] :
                       j \in failing \cup others}
            BY <1>7 DEF CommitChecks
        <3>2. ASSUME NEW j \in failing \cup others
              PROVE  [system |-> w.system, code |-> j, fail |-> j \in failing, at |-> w.at]
                         \in Check
            <4>1. j \in Jurisdiction /\ (j \in failing) \in BOOLEAN
                BY <2>3
            <4> QED BY <2>1, <4>1 DEF Check
        <3> QED BY <3>1, <3>2 DEF TypeOK
    <2>5. classified' \subseteq Classification /\ commits' \in Nat
        BY <1>7, <2>2 DEF CommitChecks, TypeOK
    <2>6. /\ session' \in [Session -> Write]
          /\ \A q \in Session : session'[q].pc # "idle" =>
                session'[q].system \in System /\ session'[q].content \in Content
        BY <1>7, EndTypes DEF CommitChecks
    <2>7. UNCHANGED <<past, clock, reader, cache, left>>
        BY <1>7 DEF CommitChecks
    <2> QED BY <2>4, <2>5, <2>6, <2>7 DEF TypeOK
<1>8. ASSUME NEW r \in Session, Abort(r) PROVE TypeOK'
    BY <1>8, EndTypes DEF Abort, TypeOK, tables
<1>9. ASSUME NEW r \in Reader, ReadFirst(r) \/ ReadSecond(r) \/ Store(r) PROVE TypeOK'
    <2>2. CASE ReadFirst(r) \/ ReadSecond(r)
        <3> DEFINE v == IF reader[r].pc = "idle" THEN [NoComputation.value EXCEPT !.asOf = commits]
                        ELSE reader[r].value
        <3>1. v \in Aggregate
            BY <2>2, IdleTypes DEF TypeOK, Computation, NoComputation, Aggregate
        <3>2. \A n \in {1, 2} : Selected(Tables[n], v) \in Aggregate
            BY <3>1, SelectedTypes
        <3>3. \E pc \in {"second", "store"}, n \in {1, 2} :
                 reader' = [reader EXCEPT ![r] = [pc |-> pc, value |-> Selected(Tables[n], v)]]
            BY <2>2 DEF ReadFirst, ReadSecond
        <3> HIDE DEF v
        <3>4. reader' \in [Reader -> Computation]
            BY <3>2, <3>3 DEF TypeOK, Computation
        <3> QED BY <2>2, <3>4 DEF ReadFirst, ReadSecond, TypeOK, tables
    <2>4. CASE Store(r)
        <3>1. reader' \in [Reader -> Computation] /\ reader[r].value \in Aggregate
            BY <2>4 DEF Store, TypeOK, Computation, NoComputation, Aggregate, PerCode, Nowhere
        <3> QED BY <2>4, <3>1, NoneIsNoAggregate, ConstantsApart DEF Store, TypeOK, tables
    <2> QED BY <1>9, <2>2, <2>4
<1>10. CASE Tick
    BY <1>10, ConstantsApart DEF Tick, TypeOK, tables
<1> QED BY <1>0, <1>1, <1>2, <1>3, <1>4, <1>5, <1>6, <1>7, <1>8, <1>9, <1>10 DEF Next

-----------------------------------------------------------------------------
(* Stamps *)

\* Versions are appended: none is lost and none changes.
LEMMA PastGrows ==
    ASSUME TypeOK, [Next]_vars, NEW s \in System
    PROVE  /\ Version(s)' \in Nat /\ Version(s) \in Nat /\ Version(s) <= Version(s)'
           /\ \A n \in 1 .. Version(s) : past'[s][n] = past[s][n]
<1>1. CASE \E r \in Session : CommitEdit(r)
    <2>1. PICK r \in Session : CommitEdit(r)
        BY <1>1
    <2>2. session[r].content \in Content /\ session[r].system \in System
        BY <2>1, WriterTypes DEF CommitEdit
    <2>3. past[s] \in Seq(Content)
        BY DEF TypeOK
    <2>4. past'[s] = IF s = session[r].system THEN Append(past[s], session[r].content)
                     ELSE past[s]
        BY <2>1 DEF CommitEdit, TypeOK
    <2> QED BY <2>2, <2>3, <2>4 DEF Version
<1>2. CASE ~\E r \in Session : CommitEdit(r)
    <2>1. past' = past
        BY <1>2 DEF Next, vars, tables, Edit, Read, Evaluate, Invalidate, CommitClassification,
                    CommitChecks, Abort, ReadFirst, ReadSecond, Store, Tick
    <2> QED BY <2>1 DEF Version, TypeOK
<1> QED BY <1>1, <1>2

\* A new row carries the verdict for the version its writer read.
LEMMA NewRows ==
    ASSUME TypeOK, ReadInv, NEW r \in Session, session[r].pc # "idle", ~session[r].edit,
           NEW codes, NEW x \in Verdicts(session[r], codes)
    PROVE  /\ x.system \in System /\ x.version \in 1 .. Version(x.system)
           /\ x.applicable <=> x.code \in past[x.system][x.version].regimes
<1>1. PICK j : x = [system |-> session[r].system, code |-> j,
                    applicable |-> j \in session[r].content.regimes,
                    version |-> session[r].version, at |-> session[r].at]
    BY DEF Verdicts
<1>2. /\ session[r].system \in System
      /\ session[r].version \in 1 .. Version(session[r].system)
      /\ session[r].content = past[session[r].system][session[r].version]
    BY WriterTypes DEF ReadInv
<1> QED BY <1>1, <1>2

\* A step other than its own reading leaves what an assessment has read alone.
LEMMA KeepsReading ==
    ASSUME TypeOK, [Next]_vars, NEW r \in Session, ~\E s \in System : Read(r, s),
           session'[r].pc # "idle", ~session'[r].edit
    PROVE  /\ session[r].pc # "idle" /\ ~session[r].edit
           /\ session'[r].system = session[r].system
           /\ session'[r].version = session[r].version
           /\ session'[r].content = session[r].content
<1>1. CASE session'[r] = session[r]
    BY <1>1
<1>2. ASSUME NEW q \in Session,
             CommitEdit(q) \/ Abort(q)
               \/ \E codes \in SUBSET Jurisdiction :
                     \/ CommitClassification(q, codes)
                     \/ \E reclassify \in BOOLEAN : CommitChecks(q, codes, reclassify)
      PROVE  session'[r] = session[r]
    <2>1. session' = [session EXCEPT ![q] = NoWrite]
        BY <1>2 DEF CommitEdit, Abort, CommitClassification, CommitChecks
    <2> QED BY <2>1 DEF TypeOK, NoWrite
<1>3. ASSUME NEW q \in Session, NEW s \in System, NEW c \in Content, Edit(q, s, c)
      PROVE  session'[r] = session[r]
    BY <1>3 DEF Edit, TypeOK
<1>4. ASSUME NEW q \in Session, NEW s \in System, Read(q, s) PROVE session'[r] = session[r]
    BY <1>4 DEF Read, TypeOK
<1>5. ASSUME NEW q \in Session, Evaluate(q) \/ Invalidate(q), q # r
      PROVE  session'[r] = session[r]
    BY <1>5 DEF Evaluate, Invalidate, TypeOK
<1>6. CASE Evaluate(r)
    <2>1. PICK pc \in {"invalidate", "commit"} :
             session' = [session EXCEPT ![r] =
                [@ EXCEPT !.pc = pc, !.at = clock + 1,
                          !.known = {x.code : x \in RowsOf(session[r].system)}]]
        BY <1>6 DEF Evaluate
    <2>2. session[r] \in Write /\ session[r].pc = "evaluate"
        BY <1>6 DEF Evaluate, TypeOK
    <2> QED BY <2>1, <2>2 DEF TypeOK, Write
<1>7. CASE Invalidate(r)
    BY <1>7 DEF Invalidate, TypeOK, Write
<1>8. CASE UNCHANGED session
    BY <1>8
<1>9. ASSUME NEW q \in Reader, ReadFirst(q) \/ ReadSecond(q) \/ Store(q)
      PROVE  UNCHANGED session
    BY <1>9 DEF ReadFirst, ReadSecond, Store
<1>10. Tick \/ UNCHANGED vars => UNCHANGED session
    BY DEF Tick, vars
<1> QED BY <1>1, <1>2, <1>3, <1>4, <1>5, <1>6, <1>7, <1>8, <1>9, <1>10 DEF Next

\* Every step keeps what writers have read filed.
LEMMA StepReads == TypeOK /\ ReadInv /\ [Next]_vars => ReadInv'
<1> SUFFICES ASSUME TypeOK, ReadInv, [Next]_vars,
                    NEW r \in Session, session'[r].pc # "idle", ~session'[r].edit
             PROVE  /\ session'[r].version \in 1 .. Len(past'[session'[r].system])
                    /\ session'[r].content = past'[session'[r].system][session'[r].version]
    BY DEF ReadInv, Version
<1>1. CASE \E s \in System : Read(r, s)
    <2>1. PICK s \in System : Read(r, s)
        BY <1>1
    <2>2. Len(past[s]) \in 1 .. Len(past[s])
        BY <2>1 DEF Read, TypeOK, Version
    <2>3. /\ session'[r].version = Len(past[s])
          /\ session'[r].content = past[s][Len(past[s])]
          /\ session'[r].system = s /\ past' = past
        BY <2>1 DEF Read, TypeOK, tables, Version, Current
    <2> QED BY <2>2, <2>3
<1>2. CASE ~\E s \in System : Read(r, s)
    <2>1. /\ session[r].pc # "idle" /\ ~session[r].edit
          /\ session'[r].system = session[r].system
          /\ session'[r].version = session[r].version
          /\ session'[r].content = session[r].content
        BY <1>2, KeepsReading
    <2> DEFINE s == session[r].system
               n == session[r].version
    <2>2. /\ n \in 1 .. Version(s)
          /\ session[r].content = past[s][n]
          /\ s \in System
        BY <2>1, WriterTypes DEF ReadInv
    <2>3. Len(past[s]) \in Nat /\ Len(past'[s]) \in Nat /\ Len(past[s]) <= Len(past'[s])
        BY <2>2, PastGrows DEF Version
    <2>4. past'[s][n] = past[s][n]
        BY <2>2, PastGrows
    <2> QED BY <2>1, <2>2, <2>3, <2>4 DEF Version
<1> QED BY <1>1, <1>2

\* Every step keeps the stamps true.
LEMMA StepStamps == TypeOK /\ ReadInv /\ StampIsTrue /\ [Next]_vars => StampIsTrue'
<1> SUFFICES ASSUME TypeOK, ReadInv, StampIsTrue, [Next]_vars, NEW x \in classified'
             PROVE  /\ x.version \in 1 .. Version(x.system)'
                    /\ x.applicable <=> x.code \in past'[x.system][x.version].regimes
    BY DEF StampIsTrue
<1>1. /\ x.system \in System /\ x.version \in 1 .. Version(x.system)
      /\ x.applicable <=> x.code \in past[x.system][x.version].regimes
    <2>1. CASE x \in classified
        BY <2>1 DEF StampIsTrue, TypeOK, Classification
    <2>2. CASE x \notin classified
        <3>1. \E r \in Session : \E codes \in SUBSET Jurisdiction :
                 /\ session[r].pc # "idle" /\ ~session[r].edit
                 /\ x \in Verdicts(session[r], codes)
            BY <2>2 DEF Next, vars, tables, Edit, Read, Evaluate, Invalidate, CommitEdit,
                 CommitClassification, CommitChecks, Abort, ReadFirst, ReadSecond,
                 Store, Tick
        <3> QED BY <3>1, NewRows
    <2> QED BY <2>1, <2>2
<1> QED BY <1>1, PastGrows DEF Version

-----------------------------------------------------------------------------
(* Aggregates *)

\* Every assessment has a time of its own, later than all before it.
AtInv ==
    /\ \A x \in classified \cup checked : x.at <= clock
    /\ \A r \in Session :
          /\ session[r].at <= clock
          /\ session[r].pc \in {"invalidate", "commit"} => session[r].at > 0
          /\ session[r].at > 0 =>
                /\ \A x \in classified \cup checked : x.at # session[r].at
                /\ \A q \in Session \ {r} : session[q].at # session[r].at

\* What a computation has found in scope is there; what it is about to store, and what is
\* stored, shows it with its checks.
ShownInv ==
    /\ \A r \in Reader :
          /\ reader[r].pc = "second" =>
                \A j \in Jurisdiction : \A s \in reader[r].value.scope[j] : InScope(s, j) # {}
          /\ reader[r].pc = "store" =>
                \A j \in Jurisdiction : \A s \in reader[r].value.scope[j] :
                    AlwaysChecked(s, j) => ShownWithChecks(reader[r].value, s, j)
    /\ ScopeComesWithChecks

\* No row is ever lost, and a new one carries the time of the writer that commits it.
LEMMA RowsGrow ==
    ASSUME TypeOK, [Next]_vars
    PROVE  /\ classified \subseteq classified' /\ checked \subseteq checked'
           /\ \/ classified' = classified /\ checked' = checked
              \/ \E r \in Session :
                    /\ session[r].pc = "commit" /\ clock' = clock
                    /\ session' = [session EXCEPT ![r] = NoWrite]
                    /\ \A x \in classified' : x \in classified \/ x.at = session[r].at
                    /\ \A x \in checked' : x \in checked \/ x.at = session[r].at
<1>1. ASSUME NEW r \in Session, NEW codes, NEW x \in Verdicts(session[r], codes)
      PROVE  x.at = session[r].at
    BY <1>1 DEF Verdicts
<1>2. ASSUME NEW r \in Session, NEW codes \in SUBSET Jurisdiction, CommitClassification(r, codes)
      PROVE  /\ classified \subseteq classified' /\ checked' = checked
             /\ session[r].pc = "commit" /\ clock' = clock
             /\ session' = [session EXCEPT ![r] = NoWrite]
             /\ \A x \in classified' : x \in classified \/ x.at = session[r].at
             /\ \A x \in checked' : x \in checked \/ x.at = session[r].at
    BY <1>1, <1>2 DEF CommitClassification
<1>3. ASSUME NEW r \in Session, NEW codes \in SUBSET Jurisdiction, NEW reclassify \in BOOLEAN,
             CommitChecks(r, codes, reclassify)
      PROVE  /\ classified \subseteq classified' /\ checked \subseteq checked'
             /\ session[r].pc = "commit" /\ clock' = clock
             /\ session' = [session EXCEPT ![r] = NoWrite]
             /\ \A x \in classified' : x \in classified \/ x.at = session[r].at
             /\ \A x \in checked' : x \in checked \/ x.at = session[r].at
    <2> DEFINE w == session[r]
    <2>1. PICK failing, others \in SUBSET CheckedCodes(w, codes, reclassify) :
             checked' = checked \cup
               {[system |-> w.system, code |-> j, fail |-> j \in failing, at |-> w.at] :
                   j \in failing \cup others}
        BY <1>3 DEF CommitChecks
    <2>2. checked \subseteq checked' /\ \A x \in checked' : x \in checked \/ x.at = w.at
        BY <2>1
    <2>3. \A x \in classified' : x \in classified \/ x.at = w.at
        BY <1>1, <1>3 DEF CommitChecks
    <2> QED BY <1>3, <2>2, <2>3 DEF CommitChecks
<1>4. \/ classified' = classified /\ checked' = checked
      \/ \E r \in Session, codes \in SUBSET Jurisdiction :
            \/ CommitClassification(r, codes)
            \/ \E reclassify \in BOOLEAN : CommitChecks(r, codes, reclassify)
    BY DEF Next, vars, tables, Edit, Read, Evaluate, Invalidate, CommitEdit, Abort, ReadFirst,
           ReadSecond, Store, Tick
<1> QED BY <1>2, <1>3, <1>4

LEMMA AtInvInit == Init => AtInv
BY DEF Init, NoWrite, AtInv

\* Writers get their times one after the other.
LEMMA StepTimes == TypeOK /\ AtInv /\ [Next]_vars => AtInv'
<1> SUFFICES ASSUME TypeOK, AtInv, [Next]_vars PROVE AtInv'
    OBVIOUS
<1>0. /\ clock \in Nat /\ session \in [Session -> Write]
      /\ \A r \in Session : session[r].at \in Nat
      /\ \A x \in classified \cup checked : x.at \in Nat
    BY DEF TypeOK, Write, Classification, Check
<1>1. ASSUME NEW r \in Session, session' = [session EXCEPT ![r] = NoWrite], clock' = clock,
             \A x \in classified' \cup checked' :
                 \/ x \in classified \cup checked
                 \/ x.at = session[r].at /\ session[r].pc = "commit"
      PROVE  AtInv'
    <2>1. session'[r].at = 0 /\ session'[r].pc = "idle" /\ \A q \in Session \ {r} : session'[q] = session[q]
        BY <1>0, <1>1 DEF NoWrite
    <2>2. \A x \in classified' \cup checked' : x.at <= clock
        BY <1>0, <1>1 DEF AtInv
    <2>3. ASSUME NEW q \in Session \ {r}, session[q].at > 0, NEW x \in classified' \cup checked'
          PROVE  x.at # session[q].at
        BY <1>0, <1>1, <2>3 DEF AtInv
    <2> QED BY <1>0, <1>1, <2>1, <2>2, <2>3 DEF AtInv
<1>2. ASSUME NEW r \in Session, UNCHANGED <<classified, checked>>, clock' = clock + 1,
             \A q \in Session \ {r} : session'[q] = session[q], session'[r].at = clock + 1
      PROVE  AtInv'
    <2>1. \A x \in classified' \cup checked' : x.at <= clock' /\ x.at # session'[r].at
        BY <1>0, <1>2 DEF AtInv
    <2>2. \A q \in Session \ {r} : session'[q].at # session'[r].at /\ session'[q].at <= clock'
        BY <1>0, <1>2 DEF AtInv
    <2> QED BY <1>0, <1>2, <2>1, <2>2 DEF AtInv
<1>3. ASSUME UNCHANGED <<classified, checked, clock>>,
             \A q \in Session : /\ session'[q].at = session[q].at
                                /\ session'[q].pc \in {"invalidate", "commit"} =>
                                      session[q].pc \in {"invalidate", "commit"}
      PROVE  AtInv'
    BY <1>3 DEF AtInv
<1>4. ASSUME NEW r \in Session, NEW s \in System, NEW c \in Content, Edit(r, s, c) PROVE AtInv'
    <2>1. /\ UNCHANGED <<classified, checked>> /\ clock' = clock + 1
          /\ \A q \in Session \ {r} : session'[q] = session[q]
          /\ session'[r].at = clock + 1
        BY <1>0, <1>4 DEF Edit, tables
    <2> QED BY <1>2, <2>1
<1>5. ASSUME NEW r \in Session, Evaluate(r) PROVE AtInv'
    <2>1. session[r] \in Write
        BY <1>0
    <2>2. /\ UNCHANGED <<classified, checked>> /\ clock' = clock + 1
          /\ \A q \in Session \ {r} : session'[q] = session[q]
          /\ session'[r].at = clock + 1
        BY <1>0, <1>5, <2>1 DEF Evaluate, tables, Write
    <2> QED BY <1>2, <2>2
<1>6. ASSUME NEW r \in Session, NEW s \in System, Read(r, s) PROVE AtInv'
    <2>1. /\ UNCHANGED <<classified, checked, clock>>
          /\ \A q \in Session \ {r} : session'[q] = session[q]
          /\ session'[r].at = 0 /\ session'[r].pc = "evaluate"
        BY <1>0, <1>6 DEF Read, tables
    <2> QED BY <1>0, <2>1 DEF AtInv
<1>7. ASSUME NEW r \in Session, Invalidate(r) PROVE AtInv'
    <2>1. session[r] \in Write /\ session[r].pc = "invalidate"
        BY <1>0, <1>7 DEF Invalidate
    <2>2. /\ UNCHANGED <<classified, checked, clock>>
          /\ \A q \in Session \ {r} : session'[q] = session[q]
          /\ session'[r].at = session[r].at
        BY <1>0, <1>7, <2>1 DEF Invalidate, tables, Write
    <2> QED BY <1>3, <2>1, <2>2
<1>8. ASSUME NEW r \in Session, CommitEdit(r) \/ Abort(r) PROVE AtInv'
    <2>1. session' = [session EXCEPT ![r] = NoWrite] /\ UNCHANGED <<classified, checked, clock>>
        BY <1>8 DEF CommitEdit, Abort, tables
    <2> QED BY <1>1, <2>1
<1>9. CASE classified' # classified \/ checked' # checked
    BY <1>1, <1>9, RowsGrow
<1>10. \/ classified' # classified \/ checked' # checked
       \/ \E r \in Session, s \in System : (\E c \in Content : Edit(r, s, c)) \/ Read(r, s)
       \/ \E r \in Session : Evaluate(r) \/ Invalidate(r) \/ CommitEdit(r) \/ Abort(r)
       \/ \E r \in Session : UNCHANGED <<classified, checked, clock>>
                             /\ session' = [session EXCEPT ![r] = NoWrite]
       \/ UNCHANGED <<classified, checked, clock, session>>
    BY DEF Next, vars, tables, CommitClassification, CommitChecks, ReadFirst, ReadSecond, Store,
           Tick
<1> QED BY <1>1, <1>3, <1>4, <1>5, <1>6, <1>7, <1>8, <1>9, <1>10

\* A commit makes no system an always checked one that was not.
LEMMA StaysUnchecked ==
    ASSUME TypeOK, AtInv, [Next]_vars, NEW s \in System, NEW j, AlwaysChecked(s, j)'
    PROVE  AlwaysChecked(s, j)
<1>1. ASSUME NEW n \in 1 .. Version(s) PROVE past[s][n].live
    <2>1. n \in 1 .. Version(s)' /\ past'[s][n] = past[s][n]
        BY <1>1, PastGrows
    <2> QED BY <2>1 DEF AlwaysChecked, Version
<1>2. ASSUME NEW x \in InScope(s, j) PROVE \E y \in Found(s, j) : y.at = x.at
    <2>1. x \in classified /\ x \in InScope(s, j)'
        BY <1>2, RowsGrow DEF InScope
    <2>2. PICK y \in Found(s, j)' : y.at = x.at
        BY <2>1 DEF AlwaysChecked
    <2>4. CASE y \in checked
        BY <2>2, <2>4 DEF Found
    <2>5. CASE y \notin checked
        <3>1. y \in checked' /\ checked' # checked
            BY <2>2, <2>5 DEF Found
        <3>2. PICK r \in Session :
                 /\ session[r].pc = "commit"
                 /\ \A z \in checked' : z \in checked \/ z.at = session[r].at
            BY <3>1, RowsGrow
        <3>3. y.at = session[r].at
            BY <2>5, <3>1, <3>2
        <3>4. session[r].at \in Nat /\ session[r].at > 0
            BY <3>2 DEF AtInv, TypeOK, Write
        <3> QED BY <2>1, <2>2, <3>3, <3>4 DEF AtInv
    <2> QED BY <2>4, <2>5
<1> QED BY <1>1, <1>2 DEF AlwaysChecked

\* What an aggregate shows of a system stays right.
LEMMA StaysShown ==
    ASSUME TypeOK, AtInv, [Next]_vars, NEW v, NEW s \in System, NEW j,
           AlwaysChecked(s, j) => ShownWithChecks(v, s, j)
    PROVE  AlwaysChecked(s, j)' =>
              /\ s \in v.checks[j]
              /\ (\A y \in Found(s, j)' : y.fail) => s \in v.failing[j]
<1>1. SUFFICES ASSUME AlwaysChecked(s, j)' PROVE ShownWithChecks(v, s, j)
                         /\ ((\A y \in Found(s, j)' : y.fail) => \A y \in Found(s, j) : y.fail)
    BY DEF ShownWithChecks
<1>2. AlwaysChecked(s, j)
    BY <1>1, StaysUnchecked
<1>3. Found(s, j) \subseteq Found(s, j)'
    BY RowsGrow DEF Found
<1> QED BY <1>2, <1>3

\* Of the checks of a live system for a jurisdiction one is the latest.
LEMMA LatestExists ==
    ASSUME TypeOK, AtInv, NEW s, NEW j, Live(s), Found(s, j) # {}
    PROVE  \E y \in Found(s, j) : y \in Latest(checked)
<1> DEFINE times == {y.at : y \in Found(s, j)}
<1>1. \A y \in Found(s, j) : y \in checked /\ y.system = s /\ y.code = j /\ y.at \in 0 .. clock
    BY DEF Found, AtInv, TypeOK, Check
<1>2. times \subseteq 0 .. clock /\ times # {}
    BY <1>1
<1>3. IsFiniteSet(0 .. clock)
    BY FS_Interval DEF TypeOK
<1>4. IsFiniteSet(times)
    BY <1>2, <1>3, FS_Subset
<1>5. times \in SUBSET Nat
    BY <1>2
<1> HIDE DEF times
<1>6. PICK m \in times : \A n \in times : n <= m
    BY <1>2, <1>4, <1>5, GreatestExists
<1>7. PICK y \in Found(s, j) : y.at = m
    BY <1>6 DEF times
<1>8. ASSUME NEW z \in checked, z.system = y.system, z.code = y.code PROVE z.at <= y.at
    <2>1. z \in Found(s, j)
        BY <1>1, <1>8 DEF Found
    <2>2. z.at \in times
        BY <2>1 DEF times
    <2> QED BY <1>6, <1>7, <2>2
<1>9. Live(y.system) /\ y \in checked
    BY <1>1
<1> QED BY <1>8, <1>9 DEF Latest

\* The first SELECT brings systems with a classification.
LEMMA FirstFinds ==
    ASSUME NEW j \in Jurisdiction,
           NEW s \in SystemsBy({x \in Latest(classified) : x.applicable})[j]
    PROVE  InScope(s, j) # {}
<1>1. PICK x \in classified : x.applicable /\ x.code = j /\ x.system = s
    BY LatestIn DEF SystemsBy
<1> QED BY <1>1 DEF InScope

\* The second brings their checks.
LEMMA SecondFinds ==
    ASSUME TypeOK, AtInv, StampIsTrue, NEW j \in Jurisdiction, NEW s \in System,
           InScope(s, j) # {}, AlwaysChecked(s, j)
    PROVE  /\ s \in SystemsBy(Latest(checked))[j]
           /\ (\A y \in Found(s, j) : y.fail) =>
                 s \in SystemsBy({x \in Latest(checked) : x.fail})[j]
<1>1. PICK x \in InScope(s, j) : TRUE
    OBVIOUS
<1>2. Found(s, j) # {}
    BY <1>1 DEF AlwaysChecked
<1>3. x.version \in 1 .. Version(s)
    BY <1>1 DEF InScope, StampIsTrue
<1>4. Version(s) \in Nat
    BY DEF Version, TypeOK
<1>5. Version(s) \in 1 .. Version(s)
    BY <1>3, <1>4
<1>6. Live(s)
    BY <1>5 DEF Live, Current, AlwaysChecked
<1>7. PICK y \in Found(s, j) : y \in Latest(checked)
    BY <1>2, <1>6, LatestExists
<1>8. y.system = s /\ y.code = j
    BY <1>7 DEF Found
<1> QED BY <1>7, <1>8 DEF SystemsBy

\* What can become of a computation, and of what is stored.
LEMMA ReaderSteps ==
    ASSUME TypeOK, [Next]_vars, NEW r \in Reader
    PROVE  \/ reader'[r] = reader[r] \/ reader'[r].pc = "idle"
           \/ ReadFirst(r) /\ reader'[r].pc = "second"
           \/ ReadSecond(r) /\ reader'[r].pc = "store"
<1>1. ASSUME NEW q \in Reader, ReadFirst(q) \/ ReadSecond(q) \/ Store(q), q # r
      PROVE  reader'[r] = reader[r]
    BY <1>1 DEF ReadFirst, ReadSecond, Store, TypeOK
<1>2. CASE Store(r)
    BY <1>2 DEF Store, TypeOK, NoComputation
<1>3. CASE ReadFirst(r)
    BY <1>3 DEF ReadFirst, TypeOK
<1>4. CASE ReadSecond(r)
    BY <1>4 DEF ReadSecond, TypeOK
<1>5. reader' = reader \/ \E q \in Reader : ReadFirst(q) \/ ReadSecond(q) \/ Store(q)
    BY DEF Next, vars, tables, Edit, Read, Evaluate, Invalidate, CommitEdit, CommitClassification,
           CommitChecks, Abort, Tick
<1> QED BY <1>1, <1>2, <1>3, <1>4, <1>5

LEMMA CacheSteps ==
    ASSUME [Next]_vars
    PROVE  \/ cache' = cache \/ cache' = None
           \/ \E r \in Reader : reader[r].pc = "store" /\ cache' = reader[r].value
BY DEF Next, vars, tables, Edit, Read, Evaluate, Invalidate, CommitEdit, CommitClassification,
       CommitChecks, Abort, ReadFirst, ReadSecond, Store, Tick

\* Every step keeps what aggregates show right.
LEMMA StepShows == TypeOK /\ AtInv /\ StampIsTrue /\ ShownInv /\ [Next]_vars => ShownInv'
<1> SUFFICES ASSUME TypeOK, AtInv, StampIsTrue, ShownInv, [Next]_vars PROVE ShownInv'
    OBVIOUS
<1>0. /\ reader \in [Reader -> Computation]
      /\ \A r \in Reader : reader[r].value \in Aggregate
      /\ cache # None => cache \in Aggregate
    BY DEF TypeOK, Computation
<1>1. \A v \in Aggregate : \A j \in Jurisdiction : v.scope[j] \subseteq System
    BY DEF Aggregate, PerCode
\* Whatever has been read, if it was right, is right.
<1>2. ASSUME NEW v \in Aggregate,
             \A j \in Jurisdiction : \A s \in v.scope[j] :
                 AlwaysChecked(s, j) => ShownWithChecks(v, s, j),
             NEW j \in Jurisdiction, NEW s \in v.scope[j], AlwaysChecked(s, j)'
      PROVE  /\ s \in v.checks[j]
             /\ (\A y \in Found(s, j)' : y.fail) => s \in v.failing[j]
    <2>1. s \in System /\ (AlwaysChecked(s, j) => ShownWithChecks(v, s, j))
        BY <1>1, <1>2
    <2> QED BY <1>2, <2>1, StaysShown
<1>3. ASSUME NEW r \in Reader, reader'[r].pc = "second"
      PROVE  \A j \in Jurisdiction : \A s \in reader'[r].value.scope[j] : InScope(s, j)' # {}
    <2> SUFFICES ASSUME NEW j \in Jurisdiction, NEW s \in reader'[r].value.scope[j]
                 PROVE  InScope(s, j) # {}
        BY RowsGrow DEF InScope
    <2>1. CASE ReadFirst(r)
        <3> DEFINE found == SystemsBy({x \in Latest(classified) : x.applicable})
        <3>1. reader'[r].value = [[NoComputation.value EXCEPT !.asOf = commits] EXCEPT !.scope = found]
            BY <1>0, <2>1 DEF ReadFirst, Selected, Tables
        <3>2. reader'[r].value.scope = found
            BY <3>1 DEF NoComputation
        <3> QED BY <3>2, FirstFinds
    <2>2. CASE reader'[r] = reader[r]
        BY <1>3, <2>2 DEF ShownInv
    <2> QED BY <1>0, <1>3, <2>1, <2>2, ReaderSteps
<1>4. ASSUME NEW r \in Reader, reader'[r].pc = "store",
             NEW j \in Jurisdiction, NEW s \in reader'[r].value.scope[j], AlwaysChecked(s, j)'
      PROVE  /\ s \in reader'[r].value.checks[j]
             /\ (\A y \in Found(s, j)' : y.fail) => s \in reader'[r].value.failing[j]
    <2>1. CASE ReadSecond(r)
        <3> DEFINE v == reader[r].value
                   shown == SystemsBy(Latest(checked))
                   failing == SystemsBy({x \in Latest(checked) : x.fail})
        <3>1. v \in Aggregate /\ reader[r].pc = "second"
            BY <1>0, <2>1 DEF ReadSecond
        <3>2. reader'[r].value = [v EXCEPT !.checks = shown, !.failing = failing]
            BY <1>0, <2>1 DEF ReadSecond, Selected, Tables
        <3> HIDE DEF v, shown, failing
        <3>3. /\ reader'[r].value.scope = v.scope
              /\ reader'[r].value.checks = shown
              /\ reader'[r].value.failing = failing
            BY <3>1, <3>2 DEF Aggregate
        <3>4. s \in System /\ InScope(s, j) # {}
            BY <1>1, <1>4, <3>1, <3>3 DEF ShownInv, v
        <3>5. AlwaysChecked(s, j)
            BY <1>4, <3>4, StaysUnchecked
        <3>6. Found(s, j)' = Found(s, j)
            BY <2>1 DEF ReadSecond, tables, Found
        <3> QED BY <3>3, <3>4, <3>5, <3>6, SecondFinds DEF shown, failing
    <2>2. CASE reader'[r] = reader[r]
        <3>1. reader[r].value \in Aggregate /\ s \in reader[r].value.scope[j]
            BY <1>0, <1>4, <2>2
        <3>2. \A k \in Jurisdiction : \A t \in reader[r].value.scope[k] :
                 AlwaysChecked(t, k) => ShownWithChecks(reader[r].value, t, k)
            BY <1>4, <2>2 DEF ShownInv
        <3> QED BY <1>2, <1>4, <2>2, <3>1, <3>2
    <2> QED BY <1>0, <1>4, <2>1, <2>2, ReaderSteps
<1>5. ASSUME cache' # None,
             NEW j \in Jurisdiction, NEW s \in cache'.scope[j], AlwaysChecked(s, j)'
      PROVE  /\ s \in cache'.checks[j]
             /\ (\A y \in Found(s, j)' : y.fail) => s \in cache'.failing[j]
    <2>1. CASE cache' = cache
        BY <1>0, <1>2, <1>5, <2>1 DEF ShownInv, ScopeComesWithChecks
    <2>2. ASSUME NEW r \in Reader, reader[r].pc = "store", cache' = reader[r].value
          PROVE  /\ s \in cache'.checks[j]
                 /\ (\A y \in Found(s, j)' : y.fail) => s \in cache'.failing[j]
        <3>1. reader[r].value \in Aggregate /\ s \in reader[r].value.scope[j]
            BY <1>0, <1>5, <2>2
        <3>2. \A k \in Jurisdiction : \A t \in reader[r].value.scope[k] :
                 AlwaysChecked(t, k) => ShownWithChecks(reader[r].value, t, k)
            BY <2>2 DEF ShownInv
        <3> QED BY <1>2, <1>5, <2>2, <3>1, <3>2
    <2> QED BY <1>5, <2>1, <2>2, CacheSteps
<1> QED BY <1>3, <1>4, <1>5 DEF ShownInv, ScopeComesWithChecks, ShownWithChecks

-----------------------------------------------------------------------------
(* Theorems *)

\* The initial state satisfies the inductive invariant.
LEMMA InitialInv == Init => IInv
BY InitialTypes DEF Init, IInv, ReadInv, StampIsTrue, NoWrite

\* Tables, writers, computations and the stored aggregate keep their shape, and an
\* aggregate is stored exactly as long as it has time to live.
THEOREM TypeCorrect == Spec => []TypeOK
<1>1. TypeOK /\ [Next]_vars => TypeOK'
    BY StepTypes
<1> QED BY <1>1, InitialTypes, PTL DEF Spec

\* classify stamps every row with the metadata version its verdict is right for,
\* although it reads without a lock and its system may be edited before it commits.
THEOREM TrueStamps == Spec => []StampIsTrue
<1>1. Init => IInv
    BY InitialInv
<1>2. IInv /\ [Next]_vars => IInv'
    BY StepTypes, StepReads, StepStamps DEF IInv
<1>3. IInv => StampIsTrue
    BY DEF IInv
<1> QED BY <1>1, <1>2, <1>3, PTL DEF Spec

\* by_jurisdiction reads classifications and checks in two statements, each of which sees
\* what is committed by then.  Whatever is committed in between and afterwards, what it
\* stores never shows a system in scope without the checks that came with the verdict.
THEOREM ScopeDoesComeWithChecks == Spec => []ScopeComesWithChecks
<1>1. Init => IInv /\ AtInv /\ ShownInv
    BY InitialInv, AtInvInit DEF Init, NoComputation, ShownInv, ScopeComesWithChecks
<1>2. IInv /\ AtInv /\ ShownInv /\ [Next]_vars => IInv' /\ AtInv' /\ ShownInv'
    BY StepTypes, StepReads, StepStamps, StepTimes, StepShows DEF IInv
<1>3. ShownInv => ScopeComesWithChecks
    BY DEF ShownInv
<1> QED BY <1>1, <1>2, <1>3, PTL DEF Spec

=============================================================================
