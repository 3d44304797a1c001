-------------------------- MODULE SuiteSweepProofs --------------------------
(***************************************************************************)
(* Machine-checked theorems about SuiteSweep: however the list of points    *)
(* grows and wherever suites are interrupted, neither the budget of a suite *)
(* nor that of the experiment is overrun, for every profile and budget.     *)
(***************************************************************************)
EXTENDS SuiteSweep, SequenceTheorems, TLAPS

PointSet == [scenario : Scenarios, level : Nat, cost : Nat, long : BOOLEAN, barred : BOOLEAN]

\* What the interrupted and finished suites have sent, and all the current
\* one may send, is covered by what is reserved, and that by the experiment.
Reserved ==
    profile.modern =>
        /\ usage.points <= Experiment.points
        /\ usage.requests <= Experiment.requests
        /\ sent.points <= usage.points /\ sent.requests <= usage.requests
        /\ sweeping =>
            /\ sent.points + profile.points <= usage.points + used.points
            /\ sent.requests + profile.requests <= usage.requests + used.requests

IdleIsEmpty == ~sweeping => used = Nothing /\ rows = <<>>

SweepInv ==
    /\ TypeOK
    /\ SuiteIsKept
    /\ Reserved
    /\ IdleIsEmpty

-----------------------------------------------------------------------------
LEMMA InsertAtType ==
    ASSUME NEW S, NEW seq \in Seq(S), NEW e \in S, NEW i \in 1..(Len(seq) + 1)
    PROVE  InsertAt(seq, i, e) \in Seq(S) /\ Len(InsertAt(seq, i, e)) = Len(seq) + 1
<1> USE LenProperties
<1>0. \A k \in 1..Len(seq) : seq[k] \in S
    BY ElementOfSeq
<1>1. SubSeq(seq, 1, i - 1) \in Seq(S) /\ Len(SubSeq(seq, 1, i - 1)) = i - 1
  <2>1. \A k \in 1..(i - 1) : seq[k] \in S
      BY <1>0
  <2>2. i - 1 \in Int /\ (1 <= i - 1 \/ i - 1 = 0)
      OBVIOUS
  <2>3. QED
      BY <2>1, <2>2, SubSeqProperties
<1>2. SubSeq(seq, i, Len(seq)) \in Seq(S) /\ Len(SubSeq(seq, i, Len(seq))) = Len(seq) + 1 - i
  <2>1. \A k \in i..Len(seq) : seq[k] \in S
      BY <1>0
  <2>2. i \in Int /\ Len(seq) \in Int /\ (i <= Len(seq) \/ i = Len(seq) + 1)
      OBVIOUS
  <2>3. QED
      BY <2>1, <2>2, SubSeqProperties
<1>3. <<e>> \in Seq(S) /\ Len(<<e>>) = 1
    OBVIOUS
<1>4. /\ SubSeq(seq, 1, i - 1) \o <<e>> \in Seq(S)
      /\ Len(SubSeq(seq, 1, i - 1) \o <<e>>) = i
    BY <1>1, <1>3, ConcatProperties
<1> DEFINE front == SubSeq(seq, 1, i - 1) \o <<e>>
           back == SubSeq(seq, i, Len(seq))
<1>5. InsertAt(seq, i, e) = front \o back
    BY DEF InsertAt
<1> HIDE DEF front, back
<1>6. front \o back \in Seq(S) /\ Len(front \o back) = Len(front) + Len(back)
    BY <1>2, <1>4, ConcatProperties DEF front, back
<1>7. Len(front) + Len(back) = Len(seq) + 1
    BY <1>2, <1>4, LenProperties DEF front, back
<1>8. QED
    BY <1>5, <1>6, <1>7

\* The profile is one of Profiles, and its plan is a plan.
LEMMA ProfileType ==
    ASSUME TypeOK
    PROVE  /\ profile.modern \in BOOLEAN
           /\ profile.points \in Nat /\ profile.requests \in Nat /\ profile.top \in Nat
           /\ profile.plan \in Seq(PointSet)
<1>1. profile.plan \in Seq([scenario : STRING, level : Nat, cost : Nat,
                            long : BOOLEAN, barred : BOOLEAN])
    BY ProfilesAssumption DEF TypeOK, ProfilesAssumption
<1>2. \A i \in 1..Len(profile.plan) : profile.plan[i] \in PointSet
  <2> SUFFICES ASSUME NEW i \in 1..Len(profile.plan) PROVE profile.plan[i] \in PointSet
      OBVIOUS
  <2>1. profile.plan[i].scenario \in Scenarios
      BY <1>1, LenProperties DEF Scenarios
  <2>2. profile.plan[i] \in [scenario : STRING, level : Nat, cost : Nat,
                             long : BOOLEAN, barred : BOOLEAN]
      BY <1>1, ElementOfSeq
  <2>3. QED
      BY <2>1, <2>2 DEF PointSet
<1>3. profile.plan \in Seq(PointSet)
  <2>1. Len(profile.plan) \in Nat /\ profile.plan \in [1..Len(profile.plan) -> PointSet]
      BY <1>1, <1>2, LenProperties
  <2>2. QED
      BY <2>1, SeqDef
<1>4. /\ profile.modern \in BOOLEAN
      /\ profile.points \in Nat /\ profile.requests \in Nat /\ profile.top \in Nat
    BY ProfilesAssumption DEF TypeOK, ProfilesAssumption
<1>5. QED
    BY <1>3, <1>4

\* The point at work is a point of the list.
LEMMA PointType ==
    ASSUME TypeOK, AtPoint
    PROVE  Point \in PointSet /\ Len(rows) + 1 \in 1..Len(points)
<1>1. points \in Seq(PointSet) /\ rows \in Seq(Rows)
    BY DEF TypeOK, PointSet
<1>2. Len(rows) + 1 \in 1..Len(points)
    BY <1>1, LenProperties DEF AtPoint
<1>3. QED
    BY <1>1, <1>2, ElementOfSeq DEF Point

\* Every addition to the list is of a point, in its place.
LEMMA GrowthType ==
    ASSUME TypeOK, AtPoint,
           Climb(Point) \/ Confirm(Point) \/ UNCHANGED points
    PROVE  points' \in Seq(PointSet) /\ Len(points') >= Len(points)
<1>1. points \in Seq(PointSet) /\ Point \in PointSet /\ Len(rows) + 1 \in 1..Len(points)
    BY PointType DEF TypeOK, PointSet
<1>2. CASE Climb(Point)
  <2>1. [Point EXCEPT !.level = 2 * Point.level] \in PointSet
    <3>1. Point.level \in Nat /\ 2 * Point.level \in Nat
        BY <1>1 DEF PointSet
    <3> DEFINE l == 2 * Point.level
    <3> HIDE DEF l
    <3>2. l \in Nat => [Point EXCEPT !.level = l] \in PointSet
        BY <1>1 DEF PointSet
    <3>3. QED
        BY <3>1, <3>2 DEF l
  <2> DEFINE q == [Point EXCEPT !.level = 2 * Point.level]
  <2>2. points' = Append(points, q) \/ points' = points
      BY <1>2 DEF Climb
  <2>3. q \in PointSet
      BY <2>1
  <2> HIDE DEF q
  <2>4. /\ Append(points, q) \in Seq(PointSet)
        /\ Len(Append(points, q)) = Len(points) + 1
      BY <1>1, <2>3, AppendProperties
  <2>5. Len(points) \in Nat
      BY <1>1, LenProperties
  <2>6. QED
      BY <1>1, <2>2, <2>4, <2>5
<1>3. CASE Confirm(Point)
    BY <1>1, <1>3, InsertAtType DEF Confirm
<1>4. QED
    BY <1>1, <1>2, <1>3

LEMMA InitEstablishes == Init => SweepInv
<1> SUFFICES ASSUME Init PROVE SweepInv
    OBVIOUS
<1>1. /\ points \in Seq(PointSet) /\ rows \in Seq(Rows) /\ Len(rows) <= Len(points)
    BY EmptySeq DEF Init
<1>2. TypeOK
    BY <1>1 DEF Init, TypeOK, PointSet, Halts, Counts, Nothing
<1>3. SuiteIsKept /\ Reserved /\ IdleIsEmpty
  <2>1. /\ profile.points \in Nat /\ profile.requests \in Nat
        /\ Experiment.points \in Nat /\ Experiment.requests \in Nat
      BY <1>2, ProfileType, ProfilesAssumption DEF ProfilesAssumption
  <2>2. QED
      BY <2>1 DEF Init, SuiteIsKept, Reserved, Nothing, IdleIsEmpty
<1>4. QED
    BY <1>2, <1>3 DEF SweepInv

\* A pass of the loop that ends in a row of the point at work keeps the types.
LEMMA PassKeepsTypes ==
    ASSUME TypeOK, AtPoint, NEW row \in Rows, rows' = Append(rows, row),
           Climb(Point) \/ Confirm(Point) \/ UNCHANGED points,
           UNCHANGED halted \/ \E why \in Halts : Halt(Point, why),
           UNCHANGED <<used, sent>> \/ Spend(Point),
           UNCHANGED <<profile, sweeping, dry, usage>>
    PROVE  TypeOK'
<1>1. points' \in Seq(PointSet) /\ Len(points') >= Len(points)
    BY GrowthType
<1>2. rows \in Seq(Rows) /\ Len(rows) + 1 \in 1..Len(points) /\ Point \in PointSet
    BY PointType DEF TypeOK
<1>3. rows' \in Seq(Rows) /\ Len(rows') = Len(rows) + 1
    BY <1>2, AppendProperties
<1>4. Len(rows') <= Len(points')
    BY <1>1, <1>2, <1>3, LenProperties
<1>5. halted' \in [Scenarios -> Halts]
    BY <1>2 DEF Halt, TypeOK
<1>6. used' \in Counts /\ sent' \in Counts
  <2>1. \A count \in Counts : Plus(count, Point) \in Counts
      BY <1>2 DEF Plus, Counts, PointSet
  <2>2. QED
      BY <2>1 DEF Spend, TypeOK
<1>7. Scenarios' = Scenarios /\ Rows' = Rows /\ PointSet' = PointSet
    BY DEF Scenarios, Rows, PointSet
<1>8. QED
    BY <1>1, <1>3, <1>4, <1>5, <1>6, <1>7 DEF TypeOK, PointSet

\* Sending a point that the budget covers stays within it.
LEMMA PassKeepsBudget ==
    ASSUME SweepInv, AtPoint,
           \/ UNCHANGED <<used, sent>>
           \/ Spend(Point) /\ Sendable(Point),
           UNCHANGED <<profile, sweeping, usage>>
    PROVE  (SuiteIsKept /\ Reserved /\ IdleIsEmpty)'
<1>1. /\ Point.cost \in Nat
      /\ used \in Counts /\ sent \in Counts /\ usage \in [calls : Nat, points : Nat, requests : Nat]
      /\ profile.points \in Nat /\ profile.requests \in Nat /\ sweeping
    BY PointType, ProfileType DEF SweepInv, TypeOK, PointSet, AtPoint
<1>2. CASE UNCHANGED <<used, sent>>
    BY <1>1, <1>2 DEF SweepInv, SuiteIsKept, Reserved, IdleIsEmpty
<1>3. CASE Spend(Point) /\ Sendable(Point)
  <2>1. /\ used'.points = used.points + 1 /\ used'.requests = used.requests + Point.cost
        /\ sent'.points = sent.points + 1 /\ sent'.requests = sent.requests + Point.cost
      BY <1>3 DEF Spend, Plus
  <2>2. profile.modern => /\ used.points + 1 <= profile.points
                          /\ used.requests + Point.cost <= profile.requests
      BY <1>1, <1>3 DEF Sendable, Open, Exhausted, Counts
  <2>3. QED
      BY <1>1, <2>1, <2>2 DEF SweepInv, SuiteIsKept, Reserved, Counts, IdleIsEmpty
<1>4. QED
    BY <1>2, <1>3

LEMMA PassPreserves ==
    ASSUME SweepInv, Skip \/ ContextTooLong \/ SafetyBlock \/ MeasureFails
                     \/ MeasureModern \/ MeasureLegacy
    PROVE  SweepInv'
<1> USE DEF SweepInv, Halts
<1>1. AtPoint /\ UNCHANGED <<profile, sweeping, dry, usage>>
    BY DEF Skip, ContextTooLong, SafetyBlock, MeasureFails, MeasureModern, MeasureLegacy, Note
<1>2. \/ UNCHANGED <<used, sent>>
      \/ Spend(Point) /\ Sendable(Point)
    BY DEF Skip, ContextTooLong, SafetyBlock, MeasureFails, MeasureModern, MeasureLegacy
<1>3. \A state \in States, slo \in Objectives, decision \in Decisions :
          Row(Point, state, slo, decision) \in Rows
    BY <1>1, PointType DEF PointSet, Row, Rows
<1>4. CASE MeasureModern
  <2>1. PICK slo \in Objectives \ {"none"}, drop \in BOOLEAN :
            LET decision == Decide(Point, slo, drop)
            IN  /\ rows' = Append(rows, Row(Point, "measured", slo, decision))
                /\ CASE decision = "confirm" -> Confirm(Point) /\ UNCHANGED halted
                     [] decision = "stop" -> Halt(Point, "early") /\ UNCHANGED points
                     [] OTHER -> Climb(Point) /\ UNCHANGED halted
      BY <1>4 DEF MeasureModern
  <2>2. Decide(Point, slo, drop) \in Decisions
      BY DEF Decide, Decisions
  <2>3. Row(Point, "measured", slo, Decide(Point, slo, drop)) \in Rows
      BY <1>3, <2>2 DEF States
  <2>4. /\ Climb(Point) \/ Confirm(Point) \/ UNCHANGED points
        /\ UNCHANGED halted \/ Halt(Point, "early")
      BY <2>1
  <2>5. TypeOK'
      BY <1>1, <1>2, <2>1, <2>3, <2>4, PassKeepsTypes
  <2>6. QED
      BY <1>1, <1>2, <2>5, PassKeepsBudget
<1>5. CASE MeasureLegacy
  <2>1. PICK slo \in {"passed", "failed"} :
            /\ rows' = Append(rows, Row(Point, "healthy", slo, "none"))
            /\ \/ Halt(Point, "early") /\ UNCHANGED points
               \/ Climb(Point) /\ UNCHANGED halted
      BY <1>5 DEF MeasureLegacy
  <2>2. Row(Point, "healthy", slo, "none") \in Rows
      BY <1>3 DEF States, Objectives, Decisions
  <2>3. TypeOK'
      BY <1>1, <1>2, <2>1, <2>2, PassKeepsTypes
  <2>4. QED
      BY <1>1, <1>2, <2>3, PassKeepsBudget
<1>6. CASE Skip \/ ContextTooLong \/ SafetyBlock \/ MeasureFails
  <2>1. \E state \in States : rows' = Append(rows, Row(Point, state, "none", "none"))
      BY <1>6 DEF Skip, ContextTooLong, SafetyBlock, MeasureFails, Note, States
  <2>2. PICK row \in Rows : rows' = Append(rows, row)
      BY <1>3, <2>1 DEF Objectives, Decisions
  <2>3. UNCHANGED points /\ (UNCHANGED halted \/ \E why \in Halts : Halt(Point, why))
      BY <1>6 DEF Skip, ContextTooLong, SafetyBlock, MeasureFails
  <2>4. TypeOK'
      BY <1>1, <1>2, <2>2, <2>3, PassKeepsTypes
  <2>5. QED
      BY <1>1, <1>2, <2>4, PassKeepsBudget
<1>7. QED
    BY <1>4, <1>5, <1>6

\* Starting and leaving a suite, with what is reserved when it starts.
LEMMA IdleIsTyped ==
    ASSUME TypeOK, Idle, UNCHANGED profile,
           usage' \in [calls : Nat, points : Nat, requests : Nat], sent' \in Counts
    PROVE  TypeOK'
<1>1. /\ points' \in Seq(PointSet) /\ rows' \in Seq(Rows) /\ Len(rows') <= Len(points')
    BY EmptySeq DEF Idle
<1>2. Scenarios' = Scenarios /\ Rows' = Rows /\ PointSet' = PointSet
    BY DEF Scenarios, Rows, PointSet
<1>3. halted' \in [Scenarios -> Halts] /\ used' \in Counts
    BY DEF Idle, Halts, Counts, Nothing
<1>4. QED
    BY <1>1, <1>2, <1>3 DEF TypeOK, PointSet, Idle

LEMMA StartPreserves ==
    ASSUME SweepInv, Start \/ StartBlocked
    PROVE  SweepInv'
<1> USE DEF SweepInv
<1>1. /\ profile.points \in Nat /\ profile.requests \in Nat /\ profile.modern \in BOOLEAN
      /\ profile.plan \in Seq(PointSet) /\ Experiment \in [calls : Nat, points : Nat, requests : Nat]
    BY ProfileType, ProfilesAssumption DEF ProfilesAssumption
<1>2. ~sweeping /\ Reserve /\ UNCHANGED <<profile, rows, halted, used, dry, sent>>
    BY DEF Start, StartBlocked, sweep
<1>3. /\ usage' \in [calls : Nat, points : Nat, requests : Nat]
      /\ profile.modern => /\ usage'.points = usage.points + profile.points
                           /\ usage'.requests = usage.requests + profile.requests
                           /\ usage'.points <= Experiment.points
                           /\ usage'.requests <= Experiment.requests
  <2>1. usage \in [calls : Nat, points : Nat, requests : Nat]
      BY DEF TypeOK
  <2>2. CASE profile.modern
    <3>1. /\ usage' = [calls |-> usage.calls + 1, points |-> usage.points + profile.points,
                       requests |-> usage.requests + profile.requests]
          /\ usage.points + profile.points <= Experiment.points
          /\ usage.requests + profile.requests <= Experiment.requests
        BY <1>2, <2>2 DEF Reserve
    <3>2. usage.calls \in Nat /\ usage.points \in Nat /\ usage.requests \in Nat
        BY <2>1
    <3>3. profile.points \in Nat /\ profile.requests \in Nat
        BY <1>1
    <3>4. QED
        BY <3>1, <3>2, <3>3
  <2>3. CASE ~profile.modern
      BY <1>2, <2>1, <2>3 DEF Reserve
  <2>4. QED
      BY <2>2, <2>3
<1>4. points' \in Seq(PointSet) /\ Len(rows') <= Len(points') /\ sweeping' \in BOOLEAN
  <2>1. CASE Start
    <3>1. rows = <<>>
        BY <1>2 DEF IdleIsEmpty
    <3>2. QED
        BY <1>1, <1>2, <2>1, <3>1, LenProperties, EmptySeq DEF Start
  <2>2. CASE StartBlocked
      BY <2>2 DEF StartBlocked, sweep, TypeOK, PointSet
  <2>3. QED
      BY <2>1, <2>2
<1>5. Scenarios' = Scenarios /\ Rows' = Rows /\ PointSet' = PointSet
    BY <1>2 DEF Scenarios, Rows, PointSet
<1>6. TypeOK'
    BY <1>2, <1>3, <1>4, <1>5 DEF TypeOK, PointSet
<1>7. SuiteIsKept' /\ Reserved' /\ IdleIsEmpty'
  <2>1. /\ usage \in [calls : Nat, points : Nat, requests : Nat] /\ sent \in Counts
        /\ used = Nothing /\ rows = <<>>
      BY <1>2 DEF TypeOK, IdleIsEmpty
  <2>2. used.points = 0 /\ used.requests = 0
      BY <2>1 DEF Nothing
  <2>3. SuiteIsKept' /\ IdleIsEmpty'
      BY <1>1, <1>2, <2>1, <2>2 DEF SuiteIsKept, IdleIsEmpty
  <2>4. ASSUME profile.modern
        PROVE  /\ sent.points + profile.points <= usage'.points
               /\ sent.requests + profile.requests <= usage'.requests
               /\ sent.points <= usage'.points /\ sent.requests <= usage'.requests
    <3>1. /\ sent.points \in Nat /\ sent.requests \in Nat
          /\ usage.points \in Nat /\ usage.requests \in Nat
        BY <2>1 DEF Counts
    <3>2. sent.points <= usage.points /\ sent.requests <= usage.requests
        BY <2>4 DEF Reserved
    <3>3. /\ usage'.points = usage.points + profile.points
          /\ usage'.requests = usage.requests + profile.requests
        BY <1>3, <2>4
    <3>4. QED
        BY SMTT(30), <1>1, <3>1, <3>2, <3>3
  <2>5. Reserved'
      BY SMTT(30), <1>1, <1>2, <1>3, <2>1, <2>2, <2>4 DEF Reserved, Counts
  <2>6. QED
      BY <2>3, <2>5
<1>8. QED
    BY <1>6, <1>7

\* A suite that ends, anywhere, has sent no more than it had reserved.
LEMMA EndPreserves ==
    ASSUME SweepInv, Finish \/ Interrupt
    PROVE  SweepInv'
<1> USE DEF SweepInv
<1>1. sweeping /\ Idle /\ UNCHANGED <<profile, usage>>
    BY DEF Finish, Interrupt
<1>2. /\ profile.points \in Nat /\ profile.requests \in Nat
      /\ used.points \in Nat /\ used.requests \in Nat
      /\ sent.points \in Nat /\ sent.requests \in Nat
      /\ usage.points \in Nat /\ usage.requests \in Nat
    BY ProfileType DEF TypeOK, Counts
<1>3. CASE UNCHANGED sent
  <2>1. TypeOK'
      BY <1>1, <1>3, IdleIsTyped DEF TypeOK
  <2>2. QED
      BY <1>1, <1>2, <1>3, <2>1 DEF Idle, Nothing, SuiteIsKept, Reserved, IdleIsEmpty
<1>4. CASE AtPoint /\ Sendable(Point) /\ sent' = Plus(sent, Point)
  <2>1. Point.cost \in Nat
      BY <1>4, PointType DEF PointSet
  <2>2. /\ sent'.points = sent.points + 1 /\ sent'.requests = sent.requests + Point.cost
        /\ sent' \in Counts
      BY <1>2, <1>4, <2>1 DEF Plus, Counts
  <2>3. TypeOK'
      BY <1>1, <2>2, IdleIsTyped DEF TypeOK
  <2>4. ASSUME profile.modern
        PROVE  sent'.points <= usage.points /\ sent'.requests <= usage.requests
    <3>1. used.points + 1 <= profile.points /\ used.requests + Point.cost <= profile.requests
        BY <1>2, <1>4, <2>1, <2>4 DEF Sendable, Open, Exhausted
    <3>2. /\ sent.points + profile.points <= usage.points + used.points
          /\ sent.requests + profile.requests <= usage.requests + used.requests
        BY <1>1, <2>4 DEF Reserved
    <3>3. QED
        BY <1>2, <2>1, <2>2, <3>1, <3>2
  <2>5. Reserved'
      BY <1>1, <2>4 DEF Reserved, Idle
  <2>6. SuiteIsKept' /\ IdleIsEmpty'
      BY <1>1, <1>2 DEF Idle, Nothing, SuiteIsKept, IdleIsEmpty
  <2>7. QED
      BY <2>3, <2>5, <2>6
<1>5. QED
    BY <1>3, <1>4 DEF Finish, Interrupt

LEMMA StepPreserves == SweepInv /\ [Next]_vars => SweepInv'
<1> SUFFICES ASSUME SweepInv, [Next]_vars PROVE SweepInv'
    OBVIOUS
<1>1. CASE RunDry \/ UNCHANGED vars
  <2>1. /\ UNCHANGED <<profile, sweeping, points, rows, halted, used, usage, sent>>
        /\ dry' \in BOOLEAN
      BY <1>1 DEF RunDry, vars, sweep, SweepInv, TypeOK
  <2>2. TypeOK'
      BY <2>1 DEF SweepInv, TypeOK, Scenarios, Rows
  <2>3. QED
      BY <2>1, <2>2 DEF SweepInv, SuiteIsKept, Reserved, IdleIsEmpty
<1>2. QED
    BY <1>1, StartPreserves, PassPreserves, EndPreserves DEF Next

\* SweepInv holds for every profile and every experiment budget.
THEOREM SweepInvariant == Spec => []SweepInv
    BY InitEstablishes, StepPreserves, PTL DEF Spec

\* Every variable of SuiteSweep keeps its type.
THEOREM TypeCorrect == Spec => []TypeOK
<1>1. SweepInv => TypeOK
    BY DEF SweepInv
<1>2. QED
    BY <1>1, SweepInvariant, PTL

\* _sweep: confirmations and ladder rungs included, a suite sends no more
\* than its profile's budget.
THEOREM SuitesAreBounded == Spec => []SuiteIsKept
<1>1. SweepInv => SuiteIsKept
    BY DEF SweepInv
<1>2. QED
    BY <1>1, SweepInvariant, PTL

\* suite_reservation: all suites of an experiment together, interrupted ones
\* included, send no more than the host's budget.
THEOREM ExperimentsAreBounded == Spec => []ExperimentIsKept
<1>1. SweepInv => ExperimentIsKept
  <2> SUFFICES ASSUME SweepInv, profile.modern
               PROVE  sent.points <= Experiment.points /\ sent.requests <= Experiment.requests
      BY DEF ExperimentIsKept
  <2>1. /\ sent.points \in Nat /\ sent.requests \in Nat
        /\ usage.points \in Nat /\ usage.requests \in Nat
        /\ Experiment.points \in Nat /\ Experiment.requests \in Nat
      BY ProfilesAssumption DEF ProfilesAssumption, SweepInv, TypeOK, Counts
  <2>2. QED
      BY <2>1 DEF SweepInv, Reserved
<1>2. QED
    BY <1>1, SweepInvariant, PTL

-----------------------------------------------------------------------------
(* Stops *)

\* A scenario that is in none of the stop sets has no row that stops it.
HaltsAreNoted ==
    \A s \in Scenarios : halted[s] = "none" =>
        \A i \in DOMAIN rows : rows[i].scenario = s => ~Stops(rows[i])

StopInv ==
    /\ SweepInv
    /\ HaltsAreNoted
    /\ StopIsKept

SentStates == {"measured", "healthy", "invalid_measurement"}

\* What a pass of the loop does to the stop sets: a row of a point that was
\* sent is of an open scenario, a row that stops leaves its scenario stopped,
\* and no scenario is ever taken out of a stop set.
LEMMA PassHalts ==
    ASSUME SweepInv, Skip \/ ContextTooLong \/ SafetyBlock \/ MeasureFails
                     \/ MeasureModern \/ MeasureLegacy
    PROVE  /\ AtPoint /\ UNCHANGED profile
           /\ \E row \in Rows :
                /\ rows' = Append(rows, row) /\ row.scenario = Point.scenario
                /\ row.state \in SentStates => halted[row.scenario] = "none"
                /\ Stops(row) => halted'[row.scenario] # "none"
                /\ \A s \in Scenarios : halted'[s] = "none" => halted[s] = "none"
<1> USE DEF SweepInv, Stops, SentStates
<1>1. AtPoint /\ UNCHANGED profile
    BY DEF Skip, ContextTooLong, SafetyBlock, MeasureFails, MeasureModern, MeasureLegacy, Note
<1>2. Point.scenario \in Scenarios /\ halted \in [Scenarios -> Halts]
    BY <1>1, PointType DEF PointSet, TypeOK
<1>3. \A state \in States, slo \in Objectives, decision \in Decisions :
          LET row == Row(Point, state, slo, decision)
          IN  /\ row \in Rows
              /\ row.scenario = Point.scenario
              /\ row.state = state /\ row.decision = decision
    BY <1>1, PointType DEF PointSet, Row, Rows
<1>4. ASSUME NEW why, Halt(Point, why), why # "none"
      PROVE  /\ halted'[Point.scenario] # "none"
             /\ \A s \in Scenarios : halted'[s] = "none" => halted[s] = "none"
    BY <1>2, <1>4 DEF Halt
<1>5. CASE Skip
  <2>1. PICK state \in States :
            /\ rows' = Append(rows, Row(Point, state, "none", "none"))
            /\ state \notin SentStates /\ state # "unsupported_context_length"
            /\ state = "not_run_safety_stop" => halted[Point.scenario] = "safety"
      BY <1>5 DEF Skip, Note, States
  <2>2. QED
      BY <1>1, <1>3, <1>5, <2>1 DEF Skip, Objectives, Decisions
<1>6. CASE ContextTooLong
    BY <1>1, <1>3, <1>4, <1>6 DEF ContextTooLong, Note, States, Objectives, Decisions
<1>7. CASE SafetyBlock
    BY <1>1, <1>3, <1>4, <1>7 DEF SafetyBlock, Note, States, Objectives, Decisions
<1>8. CASE MeasureFails
  <2>1. halted[Point.scenario] = "none"
      BY <1>8 DEF MeasureFails, Sendable, Open
  <2>2. CASE Note(Point, "not_run_safety_stop") /\ Halt(Point, "safety")
      BY <1>1, <1>3, <1>4, <2>1, <2>2 DEF Note, States, Objectives, Decisions
  <2>3. CASE /\ Note(Point, "invalid_measurement")
             /\ IF profile.modern THEN Halt(Point, "early") ELSE UNCHANGED halted
      BY <1>1, <1>3, <1>4, <2>1, <2>3 DEF Note, States, Objectives, Decisions
  <2>4. QED
      BY <1>8, <2>2, <2>3 DEF MeasureFails
<1>9. CASE MeasureModern
  <2>1. PICK slo \in Objectives \ {"none"}, drop \in BOOLEAN :
            LET decision == Decide(Point, slo, drop)
            IN  /\ rows' = Append(rows, Row(Point, "measured", slo, decision))
                /\ CASE decision = "confirm" -> Confirm(Point) /\ UNCHANGED halted
                     [] decision = "stop" -> Halt(Point, "early") /\ UNCHANGED points
                     [] OTHER -> Climb(Point) /\ UNCHANGED halted
      BY <1>9 DEF MeasureModern
  <2> DEFINE decision == Decide(Point, slo, drop)
             row == Row(Point, "measured", slo, decision)
  <2>2. decision \in Decisions
      BY DEF Decide, Decisions
  <2>3. halted[Point.scenario] = "none"
      BY <1>9 DEF MeasureModern, Sendable, Open
  <2>4. row \in Rows /\ row.scenario = Point.scenario
        /\ row.state = "measured" /\ row.decision = decision
      BY <1>3, <2>2 DEF States
  <2>5. rows' = Append(rows, row)
      BY <2>1
  <2>6. IF decision = "stop" THEN Halt(Point, "early") ELSE UNCHANGED halted
      BY <2>1
  <2> HIDE DEF decision, row
  <2>7. QED
      BY <1>1, <1>4, <2>3, <2>4, <2>5, <2>6
<1>10. CASE MeasureLegacy
  <2>1. PICK slo \in {"passed", "failed"} :
            /\ rows' = Append(rows, Row(Point, "healthy", slo, "none"))
            /\ UNCHANGED halted \/ Halt(Point, "early")
      BY <1>10 DEF MeasureLegacy
  <2>2. halted[Point.scenario] = "none"
      BY <1>10 DEF MeasureLegacy, Sendable, Open
  <2>3. QED
      BY <1>1, <1>3, <1>4, <2>1, <2>2 DEF States, Objectives, Decisions
<1>11. QED
    BY <1>5, <1>6, <1>7, <1>8, <1>9, <1>10

LEMMA PassKeepsStops ==
    ASSUME StopInv, AtPoint, UNCHANGED profile, NEW row \in Rows,
           rows' = Append(rows, row),
           row.state \in SentStates => halted[row.scenario] = "none",
           Stops(row) => halted'[row.scenario] # "none",
           \A s \in Scenarios : halted'[s] = "none" => halted[s] = "none"
    PROVE  HaltsAreNoted' /\ StopIsKept'
<1>1. rows \in Seq(Rows) /\ Scenarios' = Scenarios
    BY DEF StopInv, SweepInv, TypeOK, Scenarios
<1> DEFINE n == Len(rows)
<1>2. /\ n \in Nat /\ DOMAIN rows = 1..n /\ DOMAIN rows' = 1..(n + 1)
      /\ rows'[n + 1] = row
      /\ \A i \in 1..n : rows'[i] = rows[i] /\ rows[i] \in Rows
    BY <1>1, AppendProperties, LenProperties, ElementOfSeq
<1> HIDE DEF n
<1>3. row.scenario \in Scenarios /\ \A i \in 1..n : rows[i].scenario \in Scenarios
    BY <1>2 DEF Rows
<1>4. HaltsAreNoted'
  <2> SUFFICES ASSUME NEW s \in Scenarios, halted'[s] = "none",
                      NEW i \in 1..(n + 1), rows'[i].scenario = s
               PROVE  ~Stops(rows'[i])
      BY <1>1, <1>2 DEF HaltsAreNoted, Stops
  <2>1. CASE i = n + 1
      BY <1>2, <2>1
  <2>2. CASE i \in 1..n
      BY <1>2, <2>2 DEF StopInv, HaltsAreNoted
  <2>3. QED
      BY <1>2, <2>1, <2>2
<1>5. StopIsKept'
  <2> SUFFICES ASSUME NEW i \in 1..(n + 1), NEW j \in 1..(n + 1), i < j,
                      Stops(rows'[i]), rows'[j].scenario = rows'[i].scenario
               PROVE  rows'[j].state \notin SentStates
      BY <1>2 DEF StopIsKept, SentStates, Stops
  <2>1. i \in 1..n /\ Stops(rows[i])
      BY <1>2
  <2>2. CASE j = n + 1
      BY <1>2, <1>3, <2>1, <2>2 DEF StopInv, HaltsAreNoted
  <2>3. CASE j \in 1..n
      BY <1>2, <2>1, <2>3 DEF StopInv, StopIsKept, SentStates
  <2>4. QED
      BY <1>2, <2>2, <2>3
<1>6. QED
    BY <1>4, <1>5

\* Without rows there is nothing to note.
LEMMA NoRowsNoStops ==
    ASSUME rows' = <<>>
    PROVE  HaltsAreNoted' /\ StopIsKept'
<1>1. DOMAIN rows' = {}
    OBVIOUS
<1>2. QED
    BY <1>1 DEF HaltsAreNoted, StopIsKept

LEMMA StopStep == StopInv /\ [Next]_vars => StopInv'
<1> SUFFICES ASSUME StopInv, [Next]_vars PROVE StopInv'
    OBVIOUS
<1>1. SweepInv'
    BY StepPreserves DEF StopInv
<1>2. CASE Skip \/ ContextTooLong \/ SafetyBlock \/ MeasureFails
           \/ MeasureModern \/ MeasureLegacy
    BY <1>1, <1>2, PassHalts, PassKeepsStops DEF StopInv
<1>3. CASE Finish \/ Interrupt
    BY <1>1, <1>3, NoRowsNoStops DEF StopInv, Finish, Interrupt, Idle
<1>4. CASE Start \/ StartBlocked \/ RunDry \/ UNCHANGED vars
  <2>1. UNCHANGED <<profile, rows, halted>>
      BY <1>4 DEF Start, StartBlocked, RunDry, vars, sweep
  <2>2. HaltsAreNoted' /\ StopIsKept'
      BY <2>1 DEF StopInv, HaltsAreNoted, StopIsKept, Scenarios, Stops
  <2>3. QED
      BY <1>1, <2>2 DEF StopInv
<1>5. QED
    BY <1>2, <1>3, <1>4 DEF Next

\* _sweep: whatever stopped a scenario, a decision, the safety block, a failed
\* or a too long point, none of its later points is sent, for every profile.
THEOREM StopsAreKept == Spec => []StopIsKept
<1>1. Init => StopInv
  <2>1. Init => HaltsAreNoted /\ StopIsKept
    <3> SUFFICES ASSUME Init PROVE HaltsAreNoted /\ StopIsKept
        OBVIOUS
    <3>1. DOMAIN rows = {}
        BY DEF Init
    <3>2. QED
        BY <3>1 DEF HaltsAreNoted, StopIsKept
  <2>2. QED
      BY <2>1, InitEstablishes DEF StopInv
<1>2. StopInv => StopIsKept
    BY DEF StopInv
<1>3. QED
    BY <1>1, <1>2, StopStep, PTL DEF Spec

-----------------------------------------------------------------------------
(* Confirmations *)

\* A row that asks for a confirmation is of a failed measurement, and the
\* point that confirms it is on the list.
ConfirmationsFollow ==
    \A i \in DOMAIN rows : rows[i].decision = "confirm" =>
        /\ rows[i].state = "measured" /\ rows[i].slo = "failed"
        /\ i + 1 \in DOMAIN points

ConfirmInv ==
    /\ SweepInv
    /\ ConfirmationsFollow
    /\ FailureIsConfirmed

LEMMA InsertAtElements ==
    ASSUME NEW S, NEW seq \in Seq(S), NEW e \in S, NEW i \in 1..(Len(seq) + 1)
    PROVE  /\ InsertAt(seq, i, e)[i] = e
           /\ \A k \in 1..(i - 1) : InsertAt(seq, i, e)[k] = seq[k]
<1> USE LenProperties
<1>0. \A k \in 1..Len(seq) : seq[k] \in S
    BY ElementOfSeq
<1>1. /\ SubSeq(seq, 1, i - 1) \in Seq(S) /\ Len(SubSeq(seq, 1, i - 1)) = i - 1
      /\ \A k \in 1..(i - 1) : SubSeq(seq, 1, i - 1)[k] = seq[k]
  <2>1. \A k \in 1..(i - 1) : seq[k] \in S
      BY <1>0
  <2>2. i - 1 \in Int /\ (1 <= i - 1 \/ i - 1 = 0)
      OBVIOUS
  <2>3. QED
      BY <2>1, <2>2, SubSeqProperties
<1>2. SubSeq(seq, i, Len(seq)) \in Seq(S)
  <2>1. \A k \in i..Len(seq) : seq[k] \in S
      BY <1>0
  <2>2. i \in Int /\ Len(seq) \in Int /\ (i <= Len(seq) \/ i = Len(seq) + 1)
      OBVIOUS
  <2>3. QED
      BY <2>1, <2>2, SubSeqProperties
<1>3. <<e>> \in Seq(S) /\ Len(<<e>>) = 1 /\ <<e>>[1] = e
    OBVIOUS
<1> DEFINE lead == SubSeq(seq, 1, i - 1)
           front == lead \o <<e>>
           back == SubSeq(seq, i, Len(seq))
<1>4. InsertAt(seq, i, e) = front \o back
    BY DEF InsertAt
<1> HIDE DEF lead, back
<1>5. /\ front \in Seq(S) /\ Len(front) = i /\ front[i] = e
      /\ \A k \in 1..(i - 1) : front[k] = lead[k]
    BY <1>1, <1>3, ConcatProperties DEF lead
<1> HIDE DEF front
<1>6. Len(back) \in Nat
    BY <1>2 DEF back
<1>7. \A k \in 1..i : (front \o back)[k] = front[k]
    BY <1>2, <1>5, <1>6, ConcatProperties DEF back
<1>8. QED
    BY <1>1, <1>4, <1>5, <1>7 DEF lead

\* The list is never changed up to the point at work, and a confirmation is
\* the next point.
LEMMA GrowthKeeps ==
    ASSUME TypeOK, AtPoint,
           Climb(Point) \/ Confirm(Point) \/ UNCHANGED points
    PROVE  /\ \A k \in 1..(Len(rows) + 1) : points'[k] = points[k]
           /\ DOMAIN points \subseteq DOMAIN points'
           /\ Confirm(Point) => /\ points'[Len(rows) + 2] = Point
                                /\ Len(rows) + 2 \in DOMAIN points'
<1>1. points \in Seq(PointSet) /\ Point \in PointSet /\ Len(rows) + 1 \in 1..Len(points)
    BY PointType DEF TypeOK, PointSet
<1>2. points' \in Seq(PointSet) /\ Len(points') >= Len(points)
    BY GrowthType
<1>3. Len(rows) \in Nat /\ Len(points) \in Nat /\ Len(points') \in Nat
    BY <1>1, <1>2, LenProperties DEF TypeOK
<1>4. DOMAIN points = 1..Len(points) /\ DOMAIN points' = 1..Len(points')
    BY <1>1, <1>2, LenProperties
<1>5. DOMAIN points \subseteq DOMAIN points'
    BY <1>2, <1>3, <1>4
<1>6. CASE Confirm(Point)
  <2>1. Len(rows) + 2 \in 1..(Len(points) + 1)
      BY <1>1, <1>3
  <2>2. /\ points'[Len(rows) + 2] = Point
        /\ \A k \in 1..(Len(rows) + 2 - 1) : points'[k] = points[k]
      BY <1>1, <1>6, <2>1, InsertAtElements DEF Confirm
  <2>3. Len(points') = Len(points) + 1
      BY <1>1, <1>6, <2>1, InsertAtType DEF Confirm
  <2>4. QED
      BY <1>3, <1>4, <1>5, <2>1, <2>2, <2>3
<1>7. CASE ~Confirm(Point) /\ Climb(Point) /\ ~UNCHANGED points
  <2>1. PICK q : points' = Append(points, q)
      BY <1>7 DEF Climb
  <2>2. \A k \in 1..Len(points) : Append(points, q)[k] = points[k]
      BY <1>1
  <2>3. QED
      BY <1>1, <1>3, <1>5, <1>7, <2>1, <2>2
<1>8. CASE ~Confirm(Point) /\ UNCHANGED points
    BY <1>5, <1>8
<1>9. QED
    BY <1>6, <1>7, <1>8

\* healthy_by_scenario[...][-1] is the last row if that is measured.
LEMMA PreviousIsLast ==
    ASSUME TypeOK, NEW n \in Nat, n = Len(rows), n > 0, rows[n].state = "measured"
    PROVE  Previous(rows[n].scenario) = rows[n] /\ rows[n] # NoRow
<1> DEFINE s == rows[n].scenario
           hits == {i \in 1..Len(rows) : rows[i].scenario = s
                                         /\ rows[i].state \in {"measured", "healthy"}}
<1>1. n \in hits /\ \A i \in hits : i \in Int /\ i <= n
    OBVIOUS
<1>2. Max(hits) = n
  <2> HIDE DEF hits
  <2>1. \A x \in hits : (\A y \in hits : x >= y) => x = n
      BY <1>1
  <2>2. n \in hits /\ \A y \in hits : n >= y
      BY <1>1
  <2>3. QED
      BY <2>1, <2>2, Zenon DEF Max
<1>3. Previous(s) = rows[n]
  <2>1. Previous(s) = LET last == IF hits # {} THEN Max(hits) ELSE 0
                      IN  IF last = 0 THEN NoRow ELSE rows[last]
      BY DEF Previous, SelectLastInSeq
  <2>2. hits # {} /\ n # 0
      BY <1>1
  <2>3. QED
      BY <1>2, <2>1, <2>2
<1>4. rows[n] # NoRow
  <2>1. rows[n] \in Rows
      BY ElementOfSeq DEF TypeOK
  <2>2. rows[n].scenario \in STRING
    <3>1. PICK i \in DOMAIN profile.plan : rows[n].scenario = profile.plan[i].scenario
        BY <2>1 DEF Rows, Scenarios
    <3>2. profile.plan \in Seq([scenario : STRING, level : Nat, cost : Nat,
                                long : BOOLEAN, barred : BOOLEAN])
        BY ProfilesAssumption DEF TypeOK, ProfilesAssumption
    <3>3. i \in 1..Len(profile.plan)
        BY <3>1, <3>2, LenProperties
    <3>4. profile.plan[i] \in [scenario : STRING, level : Nat, cost : Nat,
                               long : BOOLEAN, barred : BOOLEAN]
        BY <3>2, <3>3, ElementOfSeq
    <3>5. QED
        BY <3>1, <3>4
  <2>3. QED
      BY <2>1, <2>2, NoRowAssumption DEF NoRowAssumption, Rows
<1>5. QED
    BY <1>3, <1>4

\* What a pass of the loop does to the list: a row of the point at work, and
\* with a confirmation to come the point once more, which it never is for a
\* point that confirms.
LEMMA PassConfirms ==
    ASSUME SweepInv, Skip \/ ContextTooLong \/ SafetyBlock \/ MeasureFails
                     \/ MeasureModern \/ MeasureLegacy
    PROVE  /\ AtPoint
           /\ Climb(Point) \/ Confirm(Point) \/ UNCHANGED points
           /\ \E row \in Rows :
                /\ rows' = Append(rows, row)
                /\ row.scenario = Point.scenario /\ row.level = Point.level
                /\ row.decision = "confirm" =>
                    /\ Confirm(Point)
                    /\ row.state = "measured" /\ row.slo = "failed"
                    /\ LET last == Previous(Point.scenario)
                       IN  ~(last # NoRow /\ last.level = Point.level /\ last.slo = "failed")
<1> USE DEF SweepInv
<1>1. AtPoint
    BY DEF Skip, ContextTooLong, SafetyBlock, MeasureFails, MeasureModern, MeasureLegacy
<1>2. \A state \in States, slo \in Objectives, decision \in Decisions :
          LET row == Row(Point, state, slo, decision)
          IN  /\ row \in Rows
              /\ row.scenario = Point.scenario /\ row.level = Point.level
              /\ row.state = state /\ row.slo = slo /\ row.decision = decision
    BY <1>1, PointType DEF PointSet, Row, Rows
<1>3. CASE Skip \/ ContextTooLong \/ SafetyBlock \/ MeasureFails
  <2>1. PICK state \in States : rows' = Append(rows, Row(Point, state, "none", "none"))
      BY <1>3 DEF Skip, ContextTooLong, SafetyBlock, MeasureFails, Note, States
  <2>2. UNCHANGED points
      BY <1>3 DEF Skip, ContextTooLong, SafetyBlock, MeasureFails
  <2>3. QED
      BY <1>1, <1>2, <2>1, <2>2 DEF Objectives, Decisions
<1>4. CASE MeasureLegacy
  <2>1. PICK slo \in {"passed", "failed"} :
            /\ rows' = Append(rows, Row(Point, "healthy", slo, "none"))
            /\ Climb(Point) \/ UNCHANGED points
      BY <1>4 DEF MeasureLegacy
  <2>2. QED
      BY <1>1, <1>2, <2>1 DEF States, Objectives, Decisions
<1>5. CASE MeasureModern
  <2>1. PICK slo \in Objectives \ {"none"}, drop \in BOOLEAN :
            LET decision == Decide(Point, slo, drop)
            IN  /\ rows' = Append(rows, Row(Point, "measured", slo, decision))
                /\ CASE decision = "confirm" -> Confirm(Point) /\ UNCHANGED halted
                     [] decision = "stop" -> Halt(Point, "early") /\ UNCHANGED points
                     [] OTHER -> Climb(Point) /\ UNCHANGED halted
      BY <1>5 DEF MeasureModern
  <2> DEFINE decision == Decide(Point, slo, drop)
             row == Row(Point, "measured", slo, decision)
             last == Previous(Point.scenario)
  <2>2. decision \in Decisions
      BY DEF Decide, Decisions
  <2>3. decision = "confirm" =>
            /\ slo = "failed"
            /\ ~(last # NoRow /\ last.level = Point.level /\ last.slo = "failed")
      BY <2>1 DEF Decide, Objectives
  <2>4. /\ row \in Rows
        /\ row.scenario = Point.scenario /\ row.level = Point.level
        /\ row.state = "measured" /\ row.slo = slo /\ row.decision = decision
      BY <1>2, <2>1, <2>2 DEF States
  <2>5. /\ rows' = Append(rows, row)
        /\ decision = "confirm" => Confirm(Point)
        /\ Climb(Point) \/ Confirm(Point) \/ UNCHANGED points
      BY <2>1
  <2> HIDE DEF decision, row
  <2>6. QED
      BY <1>1, <2>3, <2>4, <2>5
<1>6. QED
    BY <1>3, <1>4, <1>5

LEMMA PassKeepsConfirmations ==
    ASSUME ConfirmInv, AtPoint, NEW row \in Rows,
           Climb(Point) \/ Confirm(Point) \/ UNCHANGED points,
           rows' = Append(rows, row),
           row.scenario = Point.scenario, row.level = Point.level,
           row.decision = "confirm" =>
               /\ Confirm(Point)
               /\ row.state = "measured" /\ row.slo = "failed"
               /\ LET last == Previous(Point.scenario)
                  IN  ~(last # NoRow /\ last.level = Point.level /\ last.slo = "failed")
    PROVE  ConfirmationsFollow' /\ FailureIsConfirmed'
<1> DEFINE n == Len(rows)
<1>1. TypeOK /\ rows \in Seq(Rows)
    BY DEF ConfirmInv, SweepInv, TypeOK
<1>2. /\ n \in Nat /\ DOMAIN rows = 1..n /\ DOMAIN rows' = 1..(n + 1)
      /\ rows'[n + 1] = row
      /\ \A i \in 1..n : rows'[i] = rows[i]
    BY <1>1, AppendProperties, LenProperties
<1>3. /\ \A k \in 1..(n + 1) : points'[k] = points[k]
      /\ DOMAIN points \subseteq DOMAIN points'
      /\ Confirm(Point) => points'[n + 2] = Point /\ n + 2 \in DOMAIN points'
    BY <1>1, GrowthKeeps
\* Were the row before of a point to be confirmed, it would be the last one.
<1>4. ASSUME n > 0, rows[n].decision = "confirm"
      PROVE  row.decision # "confirm"
  <2>1. /\ rows[n].state = "measured" /\ rows[n].slo = "failed"
        /\ points[n + 1].scenario = rows[n].scenario
        /\ points[n + 1].level = rows[n].level
      BY <1>2, <1>4 DEF ConfirmInv, ConfirmationsFollow, FailureIsConfirmed
  <2>2. Previous(rows[n].scenario) = rows[n] /\ rows[n] # NoRow
      BY <1>1, <1>2, <1>4, <2>1, PreviousIsLast
  <2>3. Point = points[n + 1]
      BY DEF Point
  <2> HIDE DEF n
  <2>4. QED
      BY <2>1, <2>2, <2>3
<1> HIDE DEF n
<1>5. ConfirmationsFollow'
  <2> SUFFICES ASSUME NEW i \in 1..(n + 1), rows'[i].decision = "confirm"
               PROVE  /\ rows'[i].state = "measured" /\ rows'[i].slo = "failed"
                      /\ i + 1 \in DOMAIN points'
      BY <1>2 DEF ConfirmationsFollow
  <2>1. CASE i = n + 1
      BY <1>2, <1>3, <2>1
  <2>2. CASE i \in 1..n
      BY <1>2, <1>3, <2>2 DEF ConfirmInv, ConfirmationsFollow
  <2>3. QED
      BY <1>2, <2>1, <2>2
<1>6. FailureIsConfirmed'
  <2> SUFFICES ASSUME NEW i \in 1..(n + 1), rows'[i].decision = "confirm"
               PROVE  /\ points'[i + 1].scenario = rows'[i].scenario
                      /\ points'[i + 1].level = rows'[i].level
                      /\ i + 1 \in 1..(n + 1) => rows'[i + 1].decision # "confirm"
      BY <1>2 DEF FailureIsConfirmed
  <2>1. CASE i = n + 1
      BY <1>2, <1>3, <2>1
  <2>2. CASE i \in 1..n
    <3>1. /\ points[i + 1].scenario = rows[i].scenario
          /\ points[i + 1].level = rows[i].level
          /\ i + 1 \in 1..n => rows[i + 1].decision # "confirm"
        BY <1>2, <2>2 DEF ConfirmInv, FailureIsConfirmed
    <3>2. points'[i + 1] = points[i + 1]
        BY <1>2, <1>3, <2>2
    <3>3. CASE i = n
        BY <1>2, <1>4, <2>2, <3>1, <3>2, <3>3
    <3>4. CASE i + 1 \in 1..n
        BY <1>2, <2>2, <3>1, <3>2, <3>4
    <3>5. QED
        BY <1>2, <2>2, <3>3, <3>4
  <2>3. QED
      BY <1>2, <2>1, <2>2
<1>7. QED
    BY <1>5, <1>6

LEMMA ConfirmStep == ConfirmInv /\ [Next]_vars => ConfirmInv'
<1> SUFFICES ASSUME ConfirmInv, [Next]_vars PROVE ConfirmInv'
    OBVIOUS
<1>1. SweepInv'
    BY StepPreserves DEF ConfirmInv
<1>2. CASE Skip \/ ContextTooLong \/ SafetyBlock \/ MeasureFails
           \/ MeasureModern \/ MeasureLegacy
    BY <1>1, <1>2, PassConfirms, PassKeepsConfirmations DEF ConfirmInv
<1>3. ASSUME rows' = <<>>
      PROVE  ConfirmationsFollow' /\ FailureIsConfirmed'
  <2>1. DOMAIN rows' = {}
      BY <1>3
  <2>2. QED
      BY <2>1 DEF ConfirmationsFollow, FailureIsConfirmed
<1>4. CASE Start \/ Finish \/ Interrupt
  <2>1. rows' = <<>>
      BY <1>4 DEF ConfirmInv, SweepInv, IdleIsEmpty, Start, Finish, Interrupt, Idle
  <2>2. QED
      BY <1>1, <1>3, <2>1 DEF ConfirmInv
<1>5. CASE StartBlocked \/ RunDry \/ UNCHANGED vars
  <2>1. UNCHANGED <<rows, points>>
      BY <1>5 DEF StartBlocked, RunDry, vars, sweep
  <2>2. ConfirmationsFollow' /\ FailureIsConfirmed'
      BY <2>1 DEF ConfirmInv, ConfirmationsFollow, FailureIsConfirmed
  <2>3. QED
      BY <1>1, <2>2 DEF ConfirmInv
<1>6. QED
    BY <1>2, <1>4, <1>5 DEF Next

\* decide and _sweep: a failed objective is confirmed by the very next point,
\* once, however the list has grown behind it.
THEOREM FailuresAreConfirmed == Spec => []FailureIsConfirmed
<1>1. Init => ConfirmInv
  <2>1. Init => ConfirmationsFollow /\ FailureIsConfirmed
    <3> SUFFICES ASSUME Init PROVE ConfirmationsFollow /\ FailureIsConfirmed
        OBVIOUS
    <3>1. DOMAIN rows = {}
        BY DEF Init
    <3>2. QED
        BY <3>1 DEF ConfirmationsFollow, FailureIsConfirmed
  <2>2. QED
      BY <2>1, InitEstablishes DEF ConfirmInv
<1>2. ConfirmInv => FailureIsConfirmed
    BY DEF ConfirmInv
<1>3. QED
    BY <1>1, <1>2, ConfirmStep, PTL DEF Spec
=============================================================================
