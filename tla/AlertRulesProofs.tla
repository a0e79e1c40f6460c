-------------------------- MODULE AlertRulesProofs --------------------------
(***************************************************************************)
(* The safety of AlertRules for any projects, events, edits, requests and  *)
(* faults.                                                                 *)
(***************************************************************************)
EXTENDS AlertRules, Sequences, FiniteSetTheorems, TLAPS

(***************************************************************************)
(* Types.                                                                  *)
(***************************************************************************)
LEMMA NoRowType == NoRow \in Row
  BY RulesAssumption DEF NoRow, Row, Metric, Condition

LEMMA OverType ==
  ASSUME NEW row \in Row, NEW w, Over(NoRow, w) \in Row
  PROVE  Over(row, w) \in Row
  BY NoRowType DEF Over, Row, Columns

LEMMA WrittenType ==
  ASSUME NEW row \in Row, NEW w, Over(NoRow, w) \in Row
  PROVE  Written(row, w) \in Row
<1>1. Over(row, w) \in Row
  BY OverType
<1> QED
  BY <1>1 DEF Written, Row

LEMMA ToggleType ==
  ASSUME NEW row \in Row
  PROVE  Over(NoRow, [is_active |-> ~row.is_active]) \in Row
  BY NoRowType DEF Over, Row, Columns

LEMMA GoneType == Over(NoRow, [exists |-> FALSE]) \in Row
  BY NoRowType DEF Over, Row, Columns

LEMMA EditType == ASSUME NEW w \in Edits PROVE Over(NoRow, w) \in Row
  BY RulesAssumption

\* The variables of the requests, and those of the evaluations.
RequestsOK ==
  /\ rule \in Row /\ meant \in Row /\ overtaken \subseteq Columns
  /\ req \in [Requests -> Request]

EventsOK ==
  /\ now \in 0 .. MaxTime
  /\ created \in [Events -> Nat \cup {NotYet}] /\ \A e \in Events : created[e] <= now
  /\ stored \subseteq {e \in Events : created[e] # NotYet}
  /\ faults \in 0 .. MaxFaults

TasksOK ==
  /\ task \in [Events -> Task] /\ \A e \in Events : task[e].now <= now

TriggersOK ==
  triggers \subseteq Trigger /\ IsFiniteSet(triggers) /\ \A x \in triggers : x.at <= now

LEMMA TypeParts == TypeOK <=> RequestsOK /\ EventsOK /\ TasksOK /\ TriggersOK
  BY DEF TypeOK, RequestsOK, EventsOK, TasksOK, TriggersOK

LEMMA NoTaskType == NoTask \in Task
  BY NoRowType DEF NoTask, Task, Value, None

LEMMA InitType == Init => TypeOK
<1> SUFFICES ASSUME Init PROVE TypeOK
  OBVIOUS
<1>1. rule \in Row
  BY NoRowType, WrittenType, EditType DEF Init
<1>2. Idle \in Request
  BY NoRowType DEF Idle, Request
<1> QED
  <2>1. /\ now \in 0 .. MaxTime /\ faults \in 0 .. MaxFaults
        /\ overtaken \subseteq Columns /\ meant \in Row
        /\ triggers = {} /\ IsFiniteSet(triggers) /\ stored = {}
    BY <1>1, RulesAssumption, FS_EmptySet DEF Init
  <2>2. req \in [Requests -> Request]
    BY <1>2 DEF Init
  <2>3. created \in [Events -> Nat \cup {NotYet}] /\ \A e \in Events : created[e] <= now
    BY DEF Init, NotYet
  <2>4. task \in [Events -> Task] /\ \A e \in Events : task[e].now <= now
    BY NoTaskType DEF Init, NoTask
  <2> QED
    BY <1>1, <2>1, <2>2, <2>3, <2>4 DEF TypeOK

LEMMA DecideType ==
  ASSUME RequestsOK, NEW r \in Requests, NEW w, DOMAIN w \subseteq Columns,
         Over(NoRow, w) \in Row, Decide(r, w)
  PROVE  meant' \in Row /\ overtaken' \subseteq Columns
  BY OverType DEF Decide, RequestsOK

LEMMA EndType ==
  ASSUME RequestsOK, NEW r \in Requests, End(r)
  PROVE  req' \in [Requests -> Request]
  BY NoRowType DEF End, RequestsOK, Idle, Request, Holding

LEMMA ChangeType ==
  ASSUME TypeOK, NEW new \in Row, Change(new)
  PROVE  rule' \in Row /\ EventsOK' /\ TasksOK' /\ TriggersOK'
<1>1. task' \in [Events -> Task] /\ \A e \in Events : task'[e].now = task[e].now
  BY DEF Change, TypeOK, Task
<1> QED
  BY <1>1 DEF Change, TypeOK, EventsOK, TasksOK, TriggersOK

\* Triggers whose rule is deleted stay, and stay as many.
Unlinked(S) == {[x EXCEPT !.linked = FALSE] : x \in S}

LEMMA UnlinkedMany ==
  ASSUME NEW S \in SUBSET Trigger, IsFiniteSet(S)
  PROVE  /\ IsFiniteSet(Unlinked(S))
         /\ (\A x, y \in S : x.pk = y.pk => x = y) => Cardinality(Unlinked(S)) = Cardinality(S)
<1> DEFINE f == [x \in S |-> [x EXCEPT !.linked = FALSE]]
<1>1. f \in Surjection(S, Unlinked(S))
  BY DEF Surjection, Unlinked
<1>2. ASSUME \A x, y \in S : x.pk = y.pk => x = y
      PROVE  f \in Injection(S, Unlinked(S))
  <2>1. \A x \in S : f[x].pk = x.pk
    BY DEF Trigger
  <2>2. f \in [S -> Unlinked(S)]
    BY DEF Unlinked
  <2> HIDE DEF f
  <2> QED
    BY <1>2, <2>1, <2>2 DEF Injection, IsInjective
<1> HIDE DEF f
<1> QED
  BY <1>1, <1>2, FS_Surjection

LEMMA RequestType ==
  ASSUME TypeOK, NEW r \in Requests,
         \/ \E pc \in Holding : Load(r, pc)
         \/ \E w \in Edits : ApiSave(r, w) \/ AdminSave(r, w)
         \/ ToggleSave(r) \/ Delete(r) \/ Abandon(r)
  PROVE  TypeOK'
<1>0. /\ RequestsOK /\ EventsOK /\ TasksOK /\ TriggersOK
      /\ rule \in Row /\ req[r].row \in Row
  BY TypeParts DEF RequestsOK, Request
<1>1. ASSUME NEW pc \in Holding, Load(r, pc) PROVE TypeOK'
  BY <1>0, <1>1 DEF Load, TypeOK, Request, evaluations
<1>2. ASSUME NEW w \in Edits, ApiSave(r, w) \/ AdminSave(r, w) PROVE TypeOK'
  <2>1. Change(Written(req[r].row, w)) /\ Decide(r, w) /\ End(r)
    BY <1>2 DEF ApiSave, AdminSave
  <2>2. DOMAIN w \subseteq Columns /\ Over(NoRow, w) \in Row
    BY RulesAssumption
  <2> QED
    BY <1>0, <2>1, <2>2, WrittenType, ChangeType, DecideType, EndType
    DEF RequestsOK, EventsOK, TasksOK, TriggersOK, TypeOK
<1>3. ASSUME ToggleSave(r) PROVE TypeOK'
  <2> DEFINE w == [is_active |-> ~req[r].row.is_active]
  <2>1. Change(Written(rule, w)) /\ Decide(r, w) /\ End(r)
    BY <1>3 DEF ToggleSave
  <2>2. DOMAIN w \subseteq Columns
    BY DEF Columns
  <2>3. Over(NoRow, w) \in Row
    BY <1>0, ToggleType
  <2> HIDE DEF w
  <2> QED
    BY <1>0, <2>1, <2>2, <2>3, WrittenType, ChangeType, DecideType, EndType
    DEF RequestsOK, EventsOK, TasksOK, TriggersOK, TypeOK
<1>4. ASSUME Delete(r) PROVE TypeOK'
  <2>0. req' \in [Requests -> Request]
    BY <1>0, <1>4, EndType DEF Delete
  <2>1. meant' \in Row /\ overtaken' \subseteq Columns
    <3>1. DOMAIN [exists |-> FALSE] \subseteq Columns
      BY DEF Columns
    <3> QED
      BY <1>0, <1>4, <3>1, GoneType, DecideType DEF Delete
  <2>2. rule' \in Row
    BY <1>0, <1>4 DEF Delete, Row
  <2>3. TasksOK'
    <3>1. task' \in [Events -> Task] /\ \A e \in Events : task'[e].now = task[e].now
      BY <1>0, <1>4 DEF Delete, TasksOK, Task
    <3> QED
      BY <1>0, <1>4, <3>1 DEF Delete, TasksOK
  <2>4. TriggersOK'
    <3>1. \A x \in triggers : [x EXCEPT !.linked = FALSE] \in Trigger
                                /\ [x EXCEPT !.linked = FALSE].at = x.at
      BY <1>0 DEF TriggersOK, Trigger
    <3>2. IsFiniteSet(triggers')
      BY <1>0, <1>4, UnlinkedMany DEF Delete, TriggersOK, Unlinked
    <3> QED
      BY <1>0, <1>4, <3>1, <3>2 DEF Delete, TriggersOK
  <2> QED
    BY <1>0, <1>4, <2>0, <2>1, <2>2, <2>3, <2>4
    DEF Delete, RequestsOK, EventsOK, TasksOK, TriggersOK, TypeOK
<1>5. ASSUME Abandon(r) PROVE TypeOK'
  BY <1>0, <1>5, EndType DEF Abandon, TypeOK, evaluations
<1> QED
  BY <1>1, <1>2, <1>3, <1>4, <1>5

-----------------------------------------------------------------------------
LEMMA StoredFinite ==
  ASSUME TypeOK, NEW e
  PROVE  /\ IsFiniteSet(Window(e)) /\ IsFiniteSet(Errors(Window(e)))
         /\ Cardinality(Window(e)) \in Nat /\ Cardinality(Errors(Window(e))) \in Nat
         /\ Errors(Window(e)) \subseteq Window(e) /\ Window(e) \subseteq Events
<1>1. Errors(Window(e)) \subseteq Window(e) /\ Window(e) \subseteq Events
  BY DEF Errors, Window, TypeOK
<1> QED
  BY <1>1, RulesAssumption, FS_Subset, FS_CardinalityType

LEMMA AverageType == ASSUME NEW S \in SUBSET Events PROVE Average(S) \in Value
<1> DEFINE timed == {e \in S : Details[e].response # NoResponse}
           Millis(e) == {e} \X (1 .. Details[e].response)
<1>1. IsFiniteSet(timed) /\ Cardinality(timed) \in Nat
  BY RulesAssumption, FS_Subset, FS_CardinalityType
<1>2. \A e \in timed : IsFiniteSet(Millis(e))
  <2> TAKE e \in timed
  <2>1. Details[e].response \in Nat
    BY RulesAssumption
  <2>2. IsFiniteSet({e})
    BY FS_Singleton
  <2>3. IsFiniteSet(1 .. Details[e].response)
    BY <2>1, FS_Interval
  <2> QED
    BY <2>2, <2>3, FS_Product
<1>3. IsFiniteSet({Millis(e) : e \in timed})
  <2> DEFINE f == [e \in timed |-> Millis(e)]
  <2>1. f \in Surjection(timed, {Millis(e) : e \in timed})
    BY DEF Surjection
  <2> QED
    BY <1>1, <2>1, FS_Surjection
<1>4. \A M \in {Millis(e) : e \in timed} : IsFiniteSet(M)
  BY <1>2
<1>5. IsFiniteSet(UNION {Millis(e) : e \in timed})
  BY <1>3, <1>4, FS_UNION
<1>6. Cardinality(UNION {Millis(e) : e \in timed}) \in Nat
  BY <1>5, FS_CardinalityType
<1> QED
  BY <1>1, <1>6 DEF Average, Value

LEMMA JudgeType ==
  ASSUME TypeOK, NEW e \in Events, NEW v \in Value, Judge(e, v)
  PROVE  TypeOK'
<1> DEFINE pc == IF _condition_matches(task[e].row.condition, v, task[e].row.threshold)
                 THEN "matched" ELSE "done"
           k == [task[e] EXCEPT !.value = v, !.total = 0, !.pc = pc]
<1>0. k \in Task /\ k.now = task[e].now
  BY DEF TypeOK, Task, Measuring
<1>1. task' \in [Events -> Task] /\ \A d \in Events : task'[d].now = task[d].now
  <2>1. task' = [task EXCEPT ![e] = k]
    BY DEF Judge, TypeOK
  <2> HIDE DEF k
  <2> QED
    BY <1>0, <2>1 DEF TypeOK
<1> QED
  BY <1>1 DEF Judge, TypeOK, Evaluated, edits

LEMMA RateType ==
  ASSUME NEW errors \in Nat, NEW total \in Nat
  PROVE  Rate(errors, total) \in Value /\ Count(errors) \in Value
  BY DEF Rate, Count, Value

LEMMA FloatType ==
  ASSUME NEW v \in Value, NEW threshold, NEW f \in Floats(v, threshold)
  PROVE  f \in Value /\ f.num = v.num /\ f.den = v.den
  BY DEF Floats, Value

LEMMA TaskType ==
  ASSUME TypeOK, NEW e \in Events,
         \/ StartTask(e) \/ MeasureValue(e) \/ CountTotal(e) \/ CountErrors(e)
         \/ Fire(e) \/ Interrupt(e)
  PROVE  TypeOK'
<1>0. /\ task[e] \in Task /\ rule \in Row /\ now \in Nat /\ now <= MaxTime
  BY RulesAssumption DEF TypeOK
<1>1. ASSUME StartTask(e) PROVE TypeOK'
  <2>1. task' \in [Events -> Task] /\ \A d \in Events : task'[d].now <= now
    <3> DEFINE k(pc) == [NoTask EXCEPT !.now = now, !.row = rule, !.steady = TRUE, !.pc = pc]
    <3>1. \A pc \in {"done", "total", "value"} : k(pc) \in Task /\ k(pc).now = now
      BY <1>0, NoTaskType DEF NoTask, Task, Measuring
    <3>2. \E pc \in {"done", "total", "value"} : task' = [task EXCEPT ![e] = k(pc)]
      BY <1>1 DEF StartTask
    <3> HIDE DEF k
    <3> QED
      BY <1>0, <3>1, <3>2 DEF TypeOK
  <2> QED
    BY <1>1, <2>1 DEF StartTask, TypeOK, Evaluated, edits
<1>2. ASSUME MeasureValue(e) PROVE TypeOK'
  <2>1. Count(Cardinality(Errors(Window(e)))) \in Value /\ Average(Window(e)) \in Value
    BY StoredFinite, RateType, AverageType
  <2>2. PICK v \in Value : Judge(e, v)
    BY <1>2, <2>1, FloatType DEF MeasureValue
  <2> QED
    BY <2>2, JudgeType
<1>3. ASSUME CountTotal(e) PROVE TypeOK'
  <2>1. CASE Judge(e, Rate(0, 0))
    BY <2>1, RateType, JudgeType
  <2>2. CASE /\ task' = [task EXCEPT ![e].total = Cardinality(Window(e)), ![e].pc = "errors"]
             /\ UNCHANGED <<Evaluated, triggers>>
    <3>1. task' \in [Events -> Task] /\ \A d \in Events : task'[d].now = task[d].now
      BY <2>2, StoredFinite DEF TypeOK, Task, Measuring
    <3> QED
      BY <2>2, <3>1 DEF TypeOK, Evaluated, edits
  <2> QED
    BY <1>3, <2>1, <2>2 DEF CountTotal
<1>4. ASSUME CountErrors(e) PROVE TypeOK'
  <2>1. task[e].total \in Nat
    BY <1>0 DEF Task
  <2>2. Rate(Cardinality(Errors(Window(e))), task[e].total) \in Value
    BY <2>1, StoredFinite, RateType
  <2>3. PICK v \in Value : Judge(e, v)
    BY <1>4, <2>2, FloatType DEF CountErrors
  <2> QED
    BY <2>3, JudgeType
<1>5. ASSUME Fire(e) PROVE TypeOK'
  <2>1. task' \in [Events -> Task] /\ \A d \in Events : task'[d].now = task[d].now
    BY <1>5 DEF Fire, TypeOK, Task
  <2>2. NewTrigger(e) \in Trigger /\ NewTrigger(e).at <= now
    BY <1>0, FS_CardinalityType DEF NewTrigger, Trigger, Task, Row, TypeOK
  <2>3. triggers' = triggers \/ triggers' = triggers \cup {NewTrigger(e)}
    BY <1>5 DEF Fire
  <2>4. IsFiniteSet(triggers')
    BY <2>3, FS_AddElement DEF TypeOK
  <2> QED
    BY <1>5, <2>1, <2>2, <2>3, <2>4 DEF Fire, TypeOK, Evaluated, edits
<1>6. ASSUME Interrupt(e) PROVE TypeOK'
  <2>1. task' \in [Events -> Task] /\ \A d \in Events : task'[d].now = task[d].now
    BY <1>6 DEF Interrupt, TypeOK, Task
  <2> QED
    BY <1>6, <2>1, RulesAssumption DEF Interrupt, TypeOK, edits
<1> QED
  BY <1>1, <1>2, <1>3, <1>4, <1>5, <1>6

LEMMA SlipType ==
  ASSUME TypeOK, NEW e \in Events, NEW at
  PROVE  /\ Slip(e, at) \in [Events -> Task]
         /\ \A d \in Events : Slip(e, at)[d].now = task[d].now
  BY DEF Slip, TypeOK, Task

LEMMA EventType ==
  ASSUME TypeOK, NEW e \in Events,
         \/ Receive(e) \/ Store(e) \/ Remove(e)
         \/ \E at \in 0 .. now : Import(e, at)
  PROVE  TypeOK'
<1>0. now \in Nat
  BY RulesAssumption DEF TypeOK
<1>1. ASSUME Receive(e) PROVE TypeOK'
  BY <1>0, <1>1 DEF Receive, TypeOK, edits, NotYet
<1>2. ASSUME Store(e) PROVE TypeOK'
  <2>1. PICK pc \in {"queued", "lost"} : task' = [Slip(e, created[e]) EXCEPT ![e].pc = pc]
    BY <1>2 DEF Store
  <2>2. task' \in [Events -> Task] /\ \A d \in Events : task'[d].now = task[d].now
    BY <2>1, SlipType DEF Task
  <2> QED
    BY <1>2, <2>2 DEF Store, TypeOK, edits
<1>3. ASSUME Remove(e) PROVE TypeOK'
  BY <1>3 DEF Remove, TypeOK, edits
<1>4. ASSUME NEW at \in 0 .. now, Import(e, at) PROVE TypeOK'
  <2>1. task' \in [Events -> Task] /\ \A d \in Events : task'[d].now = task[d].now
    BY <1>4, SlipType DEF Import, Task
  <2> QED
    BY <1>0, <1>4, <2>1 DEF Import, TypeOK, edits, NotYet
<1> QED
  BY <1>1, <1>2, <1>3, <1>4

LEMMA TickType == ASSUME TypeOK, Tick PROVE TypeOK'
<1>1. now \in Nat /\ now' = now + 1 /\ now' \in 0 .. MaxTime
  BY RulesAssumption DEF Tick, TypeOK
<1>2. \A t : t \in Nat \cup {NotYet} /\ t <= now => t <= now'
  BY <1>1 DEF NotYet
<1>3. /\ \A e \in Events : created[e] <= now' /\ task[e].now <= now'
      /\ \A x \in triggers : x.at <= now'
  BY <1>2 DEF TypeOK, Task, Trigger
<1> QED
  BY <1>1, <1>3 DEF Tick, TypeOK, edits, evaluations

LEMMA NextType == TypeOK /\ [Next]_vars => TypeOK'
<1> SUFFICES ASSUME TypeOK, [Next]_vars PROVE TypeOK'
  OBVIOUS
<1>1. CASE UNCHANGED vars
  BY <1>1 DEF vars, edits, evaluations, TypeOK
<1>2. CASE Next
  BY <1>2, RequestType, EventType, TaskType, TickType DEF Next
<1> QED
  BY <1>1, <1>2

(***************************************************************************)
(* Every state of the rule, its requests and its evaluations is well       *)
(* typed.                                                                  *)
(***************************************************************************)
THEOREM TypeCorrect == Spec => []TypeOK
  BY InitType, NextType, PTL DEF Spec

-----------------------------------------------------------------------------
(***************************************************************************)
(* A request that is going to save the whole row holds what is meant, in   *)
(* the columns that no decision has overtaken.                             *)
(***************************************************************************)
Saver(r) == req[r].pc \in {"api", "admin"}

LoadedIsMeant ==
  \A r \in Requests :
    /\ req[r].pc \in Holding => req[r].row.exists
    /\ Saver(r) => \A c \in Columns \ overtaken : req[r].row[c] = meant[c]

MeantInv == ColumnsAreMeant /\ LoadedIsMeant

LEMMA OverColumn ==
  ASSUME NEW row, NEW w, NEW c \in Columns
  PROVE  Over(row, w)[c] = IF c \in DOMAIN w THEN w[c] ELSE row[c]
  BY DEF Over

LEMMA WrittenColumn ==
  ASSUME NEW row \in Row, NEW w, Over(NoRow, w) \in Row, row.exists,
         "exists" \notin DOMAIN w, NEW c \in Columns
  PROVE  Written(row, w)[c] = IF c \in DOMAIN w THEN w[c] ELSE row[c]
<1>1. Over(row, w) \in Row
  BY OverType
<1>2. \A new \in Row : [new EXCEPT !.exists = TRUE][c] = IF c = "exists" THEN TRUE ELSE new[c]
  BY DEF Row, Columns
<1>3. Written(row, w)[c] = IF c = "exists" THEN TRUE ELSE Over(row, w)[c]
  BY <1>1, <1>2 DEF Written
<1>4. c = "exists" => row[c] = TRUE
  BY DEF Row
<1> QED
  BY <1>3, <1>4, OverColumn

\* A decision overtakes every other request that holds the row.
LEMMA DecideOthers ==
  ASSUME MeantInv, NEW r \in Requests, NEW w, DOMAIN w \subseteq Columns, Decide(r, w),
         NEW q \in Requests, q # r, Saver(q), NEW c \in Columns \ overtaken'
  PROVE  req[q].row[c] = meant'[c]
<1>1. c \notin overtaken /\ req[q].row[c] = meant[c]
  BY DEF Decide, MeantInv, LoadedIsMeant
<1>2. c \in DOMAIN w => w[c] = meant[c]
  BY DEF Decide, Saver
<1> QED
  BY <1>1, <1>2, OverColumn DEF Decide

LEMMA InitMeant == Init => MeantInv
  BY DEF Init, MeantInv, ColumnsAreMeant, LoadedIsMeant, Idle, Saver, Holding

LEMMA EndsFree ==
  ASSUME TypeOK, NEW r \in Requests, End(r)
  PROVE  req'[r].pc \notin Holding
  BY DEF End, TypeOK, Idle, Holding

\* Request r saves row, loaded or read now, with its decision w.
LEMMA SaveMeant ==
  ASSUME TypeOK, MeantInv, NEW r \in Requests, NEW w, "exists" \notin DOMAIN w,
         DOMAIN w \subseteq Columns, Over(NoRow, w) \in Row,
         NEW row \in Row, row.exists, \A c \in Columns \ overtaken : row[c] = meant[c],
         Change(Written(row, w)), Decide(r, w), End(r)
  PROVE  MeantInv'
<1>1. ColumnsAreMeant'
  <2> SUFFICES ASSUME NEW c \in Columns \ overtaken' PROVE rule'[c] = meant'[c]
    BY DEF ColumnsAreMeant
  <2>1. c \notin overtaken /\ row[c] = meant[c]
    BY DEF Decide
  <2>2. rule'[c] = IF c \in DOMAIN w THEN w[c] ELSE row[c]
    BY WrittenColumn DEF Change
  <2>3. meant'[c] = IF c \in DOMAIN w THEN w[c] ELSE meant[c]
    BY OverColumn DEF Decide
  <2> QED
    BY <2>1, <2>2, <2>3
<1>2. LoadedIsMeant'
  <2> SUFFICES ASSUME NEW q \in Requests
               PROVE  /\ req'[q].pc \in Holding => req'[q].row.exists
                      /\ Saver(q)' => \A c \in Columns \ overtaken' : req'[q].row[c] = meant'[c]
    BY DEF LoadedIsMeant
  <2>1. CASE q = r
    BY <2>1, EndsFree DEF TypeOK, Saver, Holding
  <2>2. CASE q # r
    <3>1. req'[q] = req[q]
      BY <2>2 DEF End, TypeOK
    <3> QED
      BY <2>2, <3>1, DecideOthers DEF MeantInv, LoadedIsMeant, Saver
  <2> QED
    BY <2>1, <2>2
<1> QED
  BY <1>1, <1>2 DEF MeantInv

LEMMA RequestMeant ==
  ASSUME TypeOK, MeantInv, NEW r \in Requests,
         \/ \E pc \in Holding : Load(r, pc)
         \/ \E w \in Edits : ApiSave(r, w) \/ AdminSave(r, w)
         \/ ToggleSave(r) \/ Delete(r) \/ Abandon(r)
  PROVE  MeantInv'
<1>0. rule \in Row /\ req[r].row \in Row
  BY DEF TypeOK, Request
<1>1. ASSUME NEW pc \in Holding, Load(r, pc) PROVE MeantInv'
  BY <1>1 DEF Load, TypeOK, MeantInv, ColumnsAreMeant, LoadedIsMeant, Saver
<1>2. ASSUME NEW w \in Edits, ApiSave(r, w) \/ AdminSave(r, w) PROVE MeantInv'
  <2>1. Change(Written(req[r].row, w)) /\ Decide(r, w) /\ End(r) /\ Saver(r)
    BY <1>2 DEF ApiSave, AdminSave, Saver
  <2>2. /\ "exists" \notin DOMAIN w /\ DOMAIN w \subseteq Columns
        /\ Over(NoRow, w) \in Row
    BY RulesAssumption
  <2>3. /\ req[r].row.exists
        /\ \A c \in Columns \ overtaken : req[r].row[c] = meant[c]
    BY <2>1 DEF MeantInv, LoadedIsMeant, Saver, Holding
  <2> QED
    BY <1>0, <2>1, <2>2, <2>3, SaveMeant
<1>3. ASSUME ToggleSave(r) PROVE MeantInv'
  <2> DEFINE w == [is_active |-> ~req[r].row.is_active]
  <2>1. Change(Written(rule, w)) /\ Decide(r, w) /\ End(r) /\ rule.exists
    BY <1>3 DEF ToggleSave
  <2>2. "exists" \notin DOMAIN w /\ DOMAIN w \subseteq Columns
    BY DEF Columns
  <2>3. Over(NoRow, w) \in Row
    BY <1>0, ToggleType
  <2>4. \A c \in Columns \ overtaken : rule[c] = meant[c]
    BY DEF MeantInv, ColumnsAreMeant
  <2> HIDE DEF w
  <2> QED
    BY <1>0, <2>1, <2>2, <2>3, <2>4, SaveMeant
<1>4. ASSUME Delete(r) PROVE MeantInv'
  <2> DEFINE w == [exists |-> FALSE]
  <2>1. Decide(r, w) /\ DOMAIN w \subseteq Columns /\ End(r)
    BY <1>4 DEF Delete, Columns
  <2>2. ColumnsAreMeant'
    <3> SUFFICES ASSUME NEW c \in Columns \ overtaken' PROVE rule'[c] = meant'[c]
      BY DEF ColumnsAreMeant
    <3>1. meant'[c] = IF c = "exists" THEN FALSE ELSE meant[c]
      <4>1. meant' = Over(meant, w)
        BY <2>1 DEF Decide
      <4>2. DOMAIN w = {"exists"} /\ w["exists"] = FALSE
        OBVIOUS
      <4> HIDE DEF w
      <4> QED
        BY <4>1, <4>2, OverColumn
    <3>2. rule'[c] = IF c = "exists" THEN FALSE ELSE rule[c]
      BY <1>0, <1>4 DEF Delete, Row, Columns
    <3>3. c \notin overtaken
      BY <2>1 DEF Decide
    <3> QED
      BY <3>1, <3>2, <3>3 DEF MeantInv, ColumnsAreMeant
  <2>3. LoadedIsMeant'
    <3> HIDE DEF w
    <3>1. \A q \in Requests : q # r => req'[q] = req[q]
      BY <2>1 DEF End, TypeOK
    <3>2. req'[r].pc \notin Holding /\ ~Saver(r)'
      <4>1. req'[r].pc \notin Holding
        BY <2>1, EndsFree
      <4> QED
        BY <4>1 DEF Saver, Holding
    <3> QED
      BY <2>1, <3>1, <3>2, DecideOthers DEF MeantInv, LoadedIsMeant, Saver
  <2> QED
    BY <2>2, <2>3 DEF MeantInv
<1>5. ASSUME Abandon(r) PROVE MeantInv'
  <2>1. /\ req'[r].pc \notin Holding /\ ~Saver(r)'
        /\ \A q \in Requests : q # r => req'[q] = req[q]
    BY <1>5, EndsFree DEF Abandon, End, TypeOK, Saver, Holding
  <2> QED
    BY <1>5, <2>1 DEF Abandon, MeantInv, ColumnsAreMeant, LoadedIsMeant, Saver
<1> QED
  BY <1>1, <1>2, <1>3, <1>4, <1>5

LEMMA NextMeant == TypeOK /\ MeantInv /\ [Next]_vars => MeantInv'
<1> SUFFICES ASSUME TypeOK, MeantInv, [Next]_vars PROVE MeantInv'
  OBVIOUS
<1>1. CASE UNCHANGED edits
  BY <1>1 DEF edits, MeantInv, ColumnsAreMeant, LoadedIsMeant, Saver
<1>2. ASSUME NEW r \in Requests,
             \/ \E pc \in Holding : Load(r, pc)
             \/ \E w \in Edits : ApiSave(r, w) \/ AdminSave(r, w)
             \/ ToggleSave(r) \/ Delete(r) \/ Abandon(r)
      PROVE  MeantInv'
  BY <1>2, RequestMeant
<1>3. ASSUME NEW e \in Events,
             \/ Receive(e) \/ Store(e) \/ Remove(e)
             \/ \E at \in 0 .. now : Import(e, at)
      PROVE  UNCHANGED edits
  BY <1>3 DEF Receive, Store, Remove, Import
<1>4. ASSUME NEW e \in Events, \/ StartTask(e) \/ MeasureValue(e) \/ CountTotal(e)
                               \/ CountErrors(e) \/ Fire(e) \/ Interrupt(e)
      PROVE  UNCHANGED edits
  BY <1>4 DEF StartTask, MeasureValue, CountTotal, CountErrors, Judge, Fire, Interrupt, Evaluated
<1>5. Tick \/ UNCHANGED vars => UNCHANGED edits
  BY DEF Tick, vars
<1> QED
  BY <1>1, <1>2, <1>3, <1>4, <1>5 DEF Next

(***************************************************************************)
(* A column of the rule is as the last decision about it made it, unless   *)
(* that was saved while another edit held the row.                         *)
(***************************************************************************)
THEOREM ColumnsMeant == Spec => []ColumnsAreMeant
<1>1. Init => TypeOK /\ MeantInv
  BY InitType, InitMeant
<1>2. TypeOK /\ MeantInv /\ [Next]_vars => TypeOK' /\ MeantInv'
  BY NextType, NextMeant
<1>3. MeantInv => ColumnsAreMeant
  BY DEF MeantInv
<1> QED
  BY <1>1, <1>2, <1>3, PTL DEF Spec

-----------------------------------------------------------------------------
(***************************************************************************)
(* What a task e remembers of the rule and of what it has counted.         *)
(***************************************************************************)
GoodTask(e) ==
  /\ task[e].steady => task[e].row = rule
  /\ task[e].pc \in Measuring => task[e].row.project = Details[e].project
  /\ task[e].pc \in {"total", "errors"} => task[e].row.metric = "ERROR_RATE"
  /\ task[e].pc = "value" => task[e].row.metric # "ERROR_RATE"
  /\ task[e].pc = "matched" =>
       _condition_matches(task[e].row.condition, task[e].value, task[e].row.threshold)
  /\ task[e].row.metric = "ERROR_RATE" =>
       task[e].slipped \/ task[e].value.num <= 100 * task[e].value.den
  /\ task[e].pc = "errors" =>
       task[e].slipped \/ Cardinality(Errors(Window(e))) <= task[e].total
  /\ (e \in stored /\ task[e].pc \in Measuring \cup {"done"}) => created[e] <= task[e].now

TasksGood == \A e \in Events : GoodTask(e)

LEMMA InitGood == Init => TasksGood
  BY DEF Init, TasksGood, GoodTask, NoTask, NoRow, Measuring

LEMMA SameWindow ==
  ASSUME NEW e, task'[e].row = task[e].row, task'[e].now = task[e].now,
         stored' = stored, \A d \in stored : created'[d] = created[d]
  PROVE  Window(e)' = Window(e)
  BY DEF Window, InWindow

\* The rule may change and with it steady; nothing else of the tasks does.
LEMMA ChangeGood ==
  ASSUME TypeOK, TasksGood, UNCHANGED <<created, stored>>,
         NEW ghost \in [Events -> BOOLEAN],
         task' = [e \in Events |-> [task[e] EXCEPT !.steady = ghost[e]]],
         \A e \in Events : ghost[e] => task[e].steady /\ rule' = rule
  PROVE  TasksGood'
<1> SUFFICES ASSUME NEW e \in Events PROVE GoodTask(e)'
  BY DEF TasksGood
<1>1. /\ task'[e].pc = task[e].pc /\ task'[e].now = task[e].now /\ task'[e].row = task[e].row
      /\ task'[e].total = task[e].total /\ task'[e].value = task[e].value
      /\ task'[e].slipped = task[e].slipped /\ task'[e].steady = ghost[e]
  BY DEF TypeOK, Task
<1>2. Window(e)' = Window(e)
  BY <1>1, SameWindow
<1>3. Errors(Window(e))' = Errors(Window(e))
  BY <1>2 DEF Errors
<1> QED
  BY <1>1, <1>3 DEF TasksGood, GoodTask

LEMMA RequestGood ==
  ASSUME TypeOK, TasksGood, NEW r \in Requests,
         \/ \E pc \in Holding : Load(r, pc)
         \/ \E w \in Edits : ApiSave(r, w) \/ AdminSave(r, w)
         \/ ToggleSave(r) \/ Delete(r) \/ Abandon(r)
  PROVE  TasksGood'
<1>1. ASSUME NEW new, Change(new) PROVE TasksGood'
  <2> DEFINE ghost == [e \in Events |-> task[e].steady /\ new = rule]
  <2>1. ghost \in [Events -> BOOLEAN] /\ \A e \in Events : ghost[e] => task[e].steady /\ new = rule
    BY DEF TypeOK, Task
  <2>2. task' = [e \in Events |-> [task[e] EXCEPT !.steady = ghost[e]]]
    BY <1>1 DEF Change
  <2> HIDE DEF ghost
  <2> QED
    BY <1>1, <2>1, <2>2, ChangeGood DEF Change
<1>2. ASSUME Delete(r) PROVE TasksGood'
  <2> DEFINE ghost == [e \in Events |-> FALSE]
  <2>1. ghost \in [Events -> BOOLEAN] /\ \A e \in Events : ~ghost[e]
    OBVIOUS
  <2>2. task' = [e \in Events |-> [task[e] EXCEPT !.steady = ghost[e]]]
    BY <1>2 DEF Delete
  <2> HIDE DEF ghost
  <2> QED
    BY <1>2, <2>1, <2>2, ChangeGood DEF Delete
<1>3. ASSUME UNCHANGED <<rule, evaluations>> PROVE TasksGood'
  BY <1>3 DEF evaluations, TasksGood, GoodTask, Window, InWindow, Errors
<1> QED
  BY <1>1, <1>2, <1>3 DEF Load, ApiSave, AdminSave, ToggleSave, Abandon

\* A step of the task of e alone leaves the other tasks as good as they were.
LEMMA OthersGood ==
  ASSUME TypeOK, TasksGood, NEW e \in Events, NEW k, task' = [task EXCEPT ![e] = k],
         UNCHANGED <<rule, created, stored>>, GoodTask(e)'
  PROVE  TasksGood'
<1> SUFFICES ASSUME NEW d \in Events, d # e PROVE GoodTask(d)'
  BY DEF TasksGood
<1>1. task'[d] = task[d]
  BY DEF TypeOK
<1>2. Errors(Window(d))' = Errors(Window(d))
  BY <1>1, SameWindow DEF Errors
<1> QED
  BY <1>1, <1>2 DEF TasksGood, GoodTask

LEMMA RateBound ==
  ASSUME NEW errors \in Nat, NEW total \in Nat, errors <= total
  PROVE  Rate(errors, total).num <= 100 * Rate(errors, total).den
  BY DEF Rate, Count

\* The value v that a task finds is good for a rate as well.
LEMMA JudgeGood ==
  ASSUME TypeOK, TasksGood, NEW e \in Events, NEW v, Judge(e, v),
         task[e].pc \in {"value", "total", "errors"},
         task[e].row.metric = "ERROR_RATE" => task[e].slipped \/ v.num <= 100 * v.den
  PROVE  TasksGood'
<1> DEFINE pc == IF _condition_matches(task[e].row.condition, v, task[e].row.threshold)
                 THEN "matched" ELSE "done"
           k == [task[e] EXCEPT !.value = v, !.total = 0, !.pc = pc]
<1>1. task' = [task EXCEPT ![e] = k] /\ UNCHANGED <<rule, created, stored>>
  BY DEF Judge, TypeOK, Evaluated, edits
<1>2. /\ k.pc = pc /\ k.value = v /\ k.row = task[e].row /\ k.now = task[e].now
      /\ k.steady = task[e].steady /\ k.slipped = task[e].slipped
  BY DEF TypeOK, Task
<1> HIDE DEF k
<1>3. task'[e] = k
  BY <1>1 DEF TypeOK
<1>4. GoodTask(e)'
  BY <1>1, <1>2, <1>3 DEF TasksGood, GoodTask, Measuring
<1> QED
  BY <1>1, <1>4, OthersGood

LEMMA TaskGood ==
  ASSUME TypeOK, TasksGood, NEW e \in Events,
         \/ StartTask(e) \/ MeasureValue(e) \/ CountTotal(e) \/ CountErrors(e)
         \/ Fire(e) \/ Interrupt(e)
  PROVE  TasksGood'
<1>0. task[e] \in Task /\ GoodTask(e)
  BY DEF TypeOK, TasksGood
<1>1. ASSUME StartTask(e) PROVE TasksGood'
  <2> DEFINE k(pc) == [NoTask EXCEPT !.now = now, !.row = rule, !.steady = TRUE, !.pc = pc]
  <2>1. PICK pc \in {"done", "total", "value"} :
          /\ task' = [task EXCEPT ![e] = k(pc)]
          /\ pc # "done" => rule.project = Details[e].project
          /\ pc = "total" => rule.metric = "ERROR_RATE"
          /\ pc = "value" => rule.metric # "ERROR_RATE"
    BY <1>1 DEF StartTask
  <2>2. /\ k(pc).pc = pc /\ k(pc).now = now /\ k(pc).row = rule /\ k(pc).value = None
    BY DEF NoTask
  <2>3. UNCHANGED <<rule, created, stored>>
    BY <1>1 DEF StartTask, Evaluated, edits
  <2> HIDE DEF k
  <2>4. task'[e] = k(pc)
    BY <2>1 DEF TypeOK
  <2>5. GoodTask(e)'
    BY <2>1, <2>2, <2>3, <2>4 DEF GoodTask, Measuring, None, TypeOK
  <2> QED
    BY <2>1, <2>3, <2>5, OthersGood
<1>2. ASSUME MeasureValue(e) PROVE TasksGood'
  <2>1. PICK v : Judge(e, v)
    BY <1>2 DEF MeasureValue
  <2> QED
    BY <1>0, <1>2, <2>1, JudgeGood DEF MeasureValue, GoodTask
<1>3. ASSUME CountTotal(e) PROVE TasksGood'
  <2>1. CASE Judge(e, Rate(0, 0))
    BY <1>3, <2>1, RateBound, JudgeGood DEF CountTotal
  <2> DEFINE k == [task[e] EXCEPT !.total = Cardinality(Window(e)), !.pc = "errors"]
  <2>2. CASE task' = [task EXCEPT ![e] = k] /\ UNCHANGED <<Evaluated, triggers>>
    <3>1. /\ k.pc = "errors" /\ k.total = Cardinality(Window(e)) /\ k.row = task[e].row
          /\ k.now = task[e].now /\ k.value = task[e].value
          /\ k.steady = task[e].steady /\ k.slipped = task[e].slipped
      BY <1>0 DEF Task
    <3>2. UNCHANGED <<rule, created, stored>>
      BY <2>2 DEF Evaluated, edits
    <3> HIDE DEF k
    <3>3. task'[e] = k
      BY <2>2 DEF TypeOK
    <3>4. Errors(Window(e))' = Errors(Window(e))
      BY <3>1, <3>2, <3>3, SameWindow DEF Errors
    <3>5. Cardinality(Errors(Window(e))) <= Cardinality(Window(e))
      BY StoredFinite, FS_Subset
    <3>6. GoodTask(e)'
      BY <1>0, <1>3, <3>1, <3>2, <3>3, <3>4, <3>5 DEF GoodTask, CountTotal, Measuring
    <3> QED
      BY <2>2, <3>2, <3>6, OthersGood
  <2> QED
    BY <1>3, <2>1, <2>2 DEF CountTotal
<1>4. ASSUME CountErrors(e) PROVE TasksGood'
  <2> DEFINE errors == Cardinality(Errors(Window(e)))
  <2>1. task[e].total \in Nat /\ errors \in Nat
    BY <1>0, StoredFinite DEF Task
  <2>2. task[e].slipped \/ errors <= task[e].total
    BY <1>0, <1>4 DEF GoodTask, CountErrors
  <2>3. task[e].slipped
        \/ Rate(errors, task[e].total).num <= 100 * Rate(errors, task[e].total).den
    BY <2>1, <2>2, RateBound
  <2>4. PICK v \in Floats(Rate(errors, task[e].total), task[e].row.threshold) : Judge(e, v)
    BY <1>4 DEF CountErrors
  <2>5. v.num = Rate(errors, task[e].total).num /\ v.den = Rate(errors, task[e].total).den
    BY <2>1, <2>4, RateType, FloatType
  <2> QED
    BY <1>4, <2>3, <2>4, <2>5, JudgeGood DEF CountErrors
<1>5. ASSUME NEW pc \in {"done", "queued", "lost"}, task' = [task EXCEPT ![e].pc = pc],
             UNCHANGED <<rule, created, stored>>,
             pc = "done" => task[e].pc = "matched"
      PROVE  TasksGood'
  <2> DEFINE k == [task[e] EXCEPT !.pc = pc]
  <2>1. task' = [task EXCEPT ![e] = k]
    BY <1>5 DEF TypeOK
  <2>2. /\ k.pc = pc /\ k.row = task[e].row /\ k.now = task[e].now /\ k.value = task[e].value
        /\ k.steady = task[e].steady /\ k.slipped = task[e].slipped
    BY <1>0 DEF Task
  <2> HIDE DEF k
  <2>3. task'[e] = k
    BY <2>1 DEF TypeOK
  <2>4. GoodTask(e)'
    BY <1>0, <1>5, <2>2, <2>3 DEF GoodTask, Measuring
  <2> QED
    BY <1>5, <2>1, <2>4, OthersGood
<1>6. ASSUME Fire(e) PROVE TasksGood'
  BY <1>5, <1>6 DEF Fire, Evaluated, edits
<1>7. ASSUME Interrupt(e) PROVE TasksGood'
  BY <1>5, <1>7 DEF Interrupt, edits
<1> QED
  BY <1>1, <1>2, <1>3, <1>4, <1>6, <1>7

\* Event e appears, with created_at at: tasks between two counts may slip.
LEMMA StoreGood ==
  ASSUME TypeOK, TasksGood, NEW e \in Events, NEW at \in Nat, NEW pc \in {"queued", "lost"},
         task' = [Slip(e, at) EXCEPT ![e].pc = pc], rule' = rule,
         stored' = stored \cup {e}, e \notin stored, created' = [created EXCEPT ![e] = at]
  PROVE  TasksGood'
<1> SUFFICES ASSUME NEW d \in Events PROVE GoodTask(d)'
  BY DEF TasksGood
<1> DEFINE slipped == task[d].slipped \/ /\ task[d].pc = "errors"
                                         /\ e \in Errors({e}) /\ InWindow(e, at, d)
<1>0. GoodTask(d) /\ task[d] \in Task
  BY DEF TasksGood, TypeOK
<1>1. /\ task'[d].pc = (IF d = e THEN pc ELSE task[d].pc)
      /\ task'[d].now = task[d].now /\ task'[d].row = task[d].row
      /\ task'[d].total = task[d].total /\ task'[d].value = task[d].value
      /\ task'[d].steady = task[d].steady /\ task'[d].slipped = slipped
  BY <1>0 DEF Slip, Task
<1>2. CASE d = e
  BY <1>0, <1>1, <1>2 DEF GoodTask, Measuring
<1>3. CASE d # e
  <2>1. task[d].pc = "errors" => \/ task'[d].slipped
                                 \/ Errors(Window(d))' = Errors(Window(d))
    <3> SUFFICES ASSUME task[d].pc = "errors", ~(e \in Errors({e}) /\ InWindow(e, at, d))
                 PROVE  Errors(Window(d))' = Errors(Window(d))
      BY <1>1
    <3>1. created'[e] = at /\ \A x \in stored : x # e /\ created'[x] = created[x]
      BY DEF TypeOK
    <3>2. \A x, t : InWindow(x, t, d)' = InWindow(x, t, d)
      BY <1>1 DEF InWindow
    <3>3. Window(d)' = Window(d) \cup {x \in {e} : InWindow(x, at, d)}
      BY <3>1, <3>2 DEF Window
    <3> QED
      BY <3>3 DEF Errors
  <2>2. created'[d] = created[d] /\ (d \in stored' => d \in stored)
    BY <1>3 DEF TypeOK
  <2>3. task'[d].pc = task[d].pc
    BY <1>1, <1>3
  <2> HIDE DEF slipped
  <2>4. task[d].slipped => task'[d].slipped
    BY <1>1 DEF slipped
  <2> QED
    BY <1>0, <1>1, <2>1, <2>2, <2>3, <2>4 DEF GoodTask
<1> QED
  BY <1>2, <1>3

LEMMA EventGood ==
  ASSUME TypeOK, TasksGood, NEW e \in Events,
         \/ Receive(e) \/ Store(e) \/ Remove(e)
         \/ \E at \in 0 .. now : Import(e, at)
  PROVE  TasksGood'
<1>1. ASSUME Receive(e) PROVE TasksGood'
  <2>1. /\ UNCHANGED <<rule, stored, task>> /\ e \notin stored
        /\ \A d \in stored : created'[d] = created[d]
    BY <1>1 DEF Receive, TypeOK, edits
  <2>2. \A d \in Events : Errors(Window(d))' = Errors(Window(d))
    BY <2>1, SameWindow DEF Errors
  <2> QED
    BY <2>1, <2>2 DEF TasksGood, GoodTask
<1>2. ASSUME Store(e) PROVE TasksGood'
  <2>1. PICK pc \in {"queued", "lost"} : task' = [Slip(e, created[e]) EXCEPT ![e].pc = pc]
    BY <1>2 DEF Store
  <2>2. created[e] \in Nat /\ created' = [created EXCEPT ![e] = created[e]]
    BY <1>2 DEF Store, TypeOK
  <2> QED
    BY <1>2, <2>1, <2>2, StoreGood DEF Store, edits
<1>3. ASSUME Remove(e) PROVE TasksGood'
  <2> SUFFICES ASSUME NEW d \in Events PROVE GoodTask(d)'
    BY DEF TasksGood
  <2>1. UNCHANGED <<rule, created, task>> /\ stored' \subseteq stored
    BY <1>3 DEF Remove, edits
  <2>2. Errors(Window(d))' \subseteq Errors(Window(d))
    BY <2>1 DEF Errors, Window, InWindow
  <2>3. /\ Cardinality(Errors(Window(d)))' <= Cardinality(Errors(Window(d)))
        /\ Cardinality(Errors(Window(d)))' \in Nat /\ Cardinality(Errors(Window(d))) \in Nat
    BY <2>2, StoredFinite, FS_Subset, FS_CardinalityType
  <2>4. GoodTask(d) /\ task[d].total \in Nat
    BY DEF TasksGood, TypeOK, Task
  <2> QED
    BY <2>1, <2>3, <2>4 DEF GoodTask
<1>4. ASSUME NEW at \in 0 .. now, Import(e, at) PROVE TasksGood'
  <2>1. at \in Nat /\ e \notin stored
    BY <1>4, RulesAssumption DEF Import, TypeOK
  <2> QED
    BY <1>4, <2>1, StoreGood DEF Import, edits
<1> QED
  BY <1>1, <1>2, <1>3, <1>4

LEMMA NextGood == TypeOK /\ TasksGood /\ [Next]_vars => TasksGood'
<1> SUFFICES ASSUME TypeOK, TasksGood, [Next]_vars PROVE TasksGood'
  OBVIOUS
<1>1. CASE Tick \/ UNCHANGED vars
  BY <1>1 DEF Tick, vars, edits, evaluations, TasksGood, GoodTask, Window, InWindow, Errors
<1>2. CASE Next
  BY <1>1, <1>2, RequestGood, EventGood, TaskGood DEF Next
<1> QED
  BY <1>1, <1>2

LEMMA Good == Spec => [](TypeOK /\ TasksGood)
<1>1. Init => TypeOK /\ TasksGood
  BY InitType, InitGood
<1>2. TypeOK /\ TasksGood /\ [Next]_vars => TypeOK' /\ TasksGood'
  BY NextType, NextGood
<1> QED
  BY <1>1, <1>2, PTL DEF Spec

(***************************************************************************)
(* An error rate is at most 100 percent, unless an event of its window was *)
(* committed between its two counts.                                       *)
(***************************************************************************)
THEOREM Percentages == Spec => []RatesArePercentages
<1>1. TasksGood => RatesArePercentages
  BY DEF TasksGood, GoodTask, RatesArePercentages
<1> QED
  BY <1>1, Good, PTL

(***************************************************************************)
(* A rule fires while it is enabled, and as it is, unless it was changed   *)
(* while the task ran.                                                     *)
(***************************************************************************)
THEOREM FiresRight == Spec => FiresAsItIs
<1> DEFINE AsItIs(x) ==
      /\ rule.exists /\ rule.is_active
      /\ task[x.event].steady =>
           /\ rule.project = Details[x.event].project
           /\ x.metric = x.measured
           /\ _condition_matches(rule.condition, x.value, rule.threshold)
    Right == \A x \in triggers' \ triggers : x.linked => AsItIs(x)
<1>1. ASSUME TypeOK, TasksGood, [Next]_vars PROVE Right
  <2> SUFFICES ASSUME NEW x \in triggers' \ triggers, x.linked PROVE AsItIs(x)
    OBVIOUS
  <2>1. ASSUME NEW e \in Events, Fire(e) PROVE AsItIs(x)
    <3>1. x = NewTrigger(e) /\ rule.exists /\ rule.is_active /\ task[e].pc = "matched"
      BY <2>1 DEF Fire
    <3> QED
      BY <1>1, <3>1 DEF NewTrigger, TasksGood, GoodTask, Measuring
  <2>2. ASSUME NEW r \in Requests, Delete(r) PROVE FALSE
    <3>1. \A y \in triggers : ~[y EXCEPT !.linked = FALSE].linked
      BY <1>1 DEF TypeOK, Trigger
    <3> QED
      BY <2>2, <3>1 DEF Delete
  <2>3. triggers' # triggers
    OBVIOUS
  <2>4. ASSUME NEW r \in Requests,
               \/ \E pc \in Holding : Load(r, pc)
               \/ \E w \in Edits : ApiSave(r, w) \/ AdminSave(r, w)
               \/ ToggleSave(r) \/ Abandon(r)
        PROVE  FALSE
    BY <2>3, <2>4 DEF Load, ApiSave, AdminSave, ToggleSave, Abandon, Change, evaluations
  <2>5. ASSUME NEW e \in Events,
               \/ Receive(e) \/ Store(e) \/ Remove(e)
               \/ \E at \in 0 .. now : Import(e, at)
               \/ StartTask(e) \/ MeasureValue(e) \/ CountTotal(e) \/ CountErrors(e)
               \/ Interrupt(e)
        PROVE  FALSE
    BY <2>3, <2>5 DEF Receive, Store, Remove, Import, StartTask, MeasureValue, CountTotal,
                      CountErrors, Judge, Interrupt
  <2>6. ~Tick /\ ~UNCHANGED vars
    BY <2>3 DEF Tick, vars, evaluations
  <2> HIDE DEF AsItIs
  <2> QED
    BY <1>1, <2>1, <2>2, <2>4, <2>5, <2>6 DEF Next
<1>2. TypeOK /\ TasksGood /\ [Next]_vars => [Right]_vars
  BY <1>1
<1> QED
  BY <1>2, Good, PTL DEF Spec, FiresAsItIs

-----------------------------------------------------------------------------
(***************************************************************************)
(* Bursts.  Of any errors whose tasks have begun, one whose task began no  *)
(* earlier than the others' counts them all, or is about to; and one whose *)
(* task ended on a count that matches has a trigger or a cooldown to show. *)
(***************************************************************************)
Began ==
  {e \in Errors(stored) : /\ task[e].steady /\ task[e].pc \in Measuring \cup {"done"}
                          /\ Details[e].project = rule.project}

Counting == rule.exists /\ rule.is_active /\ rule.metric = "ERROR_COUNT"

Together(S) == \A d, e \in S : created[d] >= task[e].now - rule.time_window_minutes

CountsAll(e, S) ==
  /\ \A d \in S : task[d].now <= task[e].now
  /\ \/ task[e].pc = "value"
     \/ /\ task[e].pc \in {"matched", "done"}
        /\ task[e].value.den = 1 /\ task[e].value.side = 0
        /\ Cardinality(S) <= task[e].value.num

Answered(e) ==
  \E x \in triggers :
    x.linked /\ (x.event = e \/ x.at >= task[e].now - rule.cooldown_minutes)

BurstsGood ==
  Counting =>
    /\ \A S \in SUBSET Began : S # {} /\ Together(S) => \E e \in S : CountsAll(e, S)
    /\ \A e \in Began :
         (task[e].pc = "done" /\ _condition_matches(rule.condition, task[e].value, rule.threshold))
           => Answered(e)

LEMMA InitBursts == Init => BurstsGood
  BY DEF Init, BurstsGood, Began, Errors

LEMMA BeganFinite ==
  ASSUME TypeOK, NEW S \in SUBSET Began
  PROVE  IsFiniteSet(S) /\ Cardinality(S) \in Nat /\ S \subseteq Events
<1>1. S \subseteq Events
  BY DEF Began, Errors, TypeOK
<1> QED
  BY <1>1, RulesAssumption, FS_Subset, FS_CardinalityType

\* A step that begins no task and takes none of those that have begun further.
LEMMA FrameBursts ==
  ASSUME BurstsGood, rule' = rule, Counting => Began' \subseteq Began,
         Counting => \A e \in Began' :
           /\ task'[e].pc = task[e].pc /\ task'[e].now = task[e].now
           /\ task'[e].value = task[e].value /\ created'[e] = created[e],
         triggers \subseteq triggers'
  PROVE  BurstsGood'
<1> SUFFICES ASSUME Counting
             PROVE  /\ \A S \in SUBSET Began' : S # {} /\ Together(S)' => \E e \in S : CountsAll(e, S)'
                    /\ \A e \in Began' :
                         (/\ task'[e].pc = "done"
                          /\ _condition_matches(rule.condition, task'[e].value, rule.threshold))
                           => Answered(e)'
  BY DEF BurstsGood, Counting, _condition_matches
<1>1. ASSUME NEW S \in SUBSET Began', S # {}, Together(S)' PROVE \E e \in S : CountsAll(e, S)'
  <2>1. Together(S)
    BY <1>1 DEF Together
  <2>2. PICK e \in S : CountsAll(e, S)
    BY <1>1, <2>1 DEF BurstsGood
  <2>3. CountsAll(e, S)'
    BY <2>2 DEF CountsAll
  <2> QED
    BY <2>3
<1>2. ASSUME NEW e \in Began', task'[e].pc = "done",
             _condition_matches(rule.condition, task'[e].value, rule.threshold)
      PROVE  Answered(e)'
  <2>1. Answered(e)
    BY <1>2 DEF BurstsGood
  <2> QED
    BY <2>1 DEF Answered
<1> QED
  BY <1>1, <1>2

LEMMA NoneBegan == ASSUME Began' = {} PROVE BurstsGood'
  BY DEF BurstsGood

LEMMA RequestBursts ==
  ASSUME TypeOK, BurstsGood, NEW r \in Requests,
         \/ \E pc \in Holding : Load(r, pc)
         \/ \E w \in Edits : ApiSave(r, w) \/ AdminSave(r, w)
         \/ ToggleSave(r) \/ Delete(r) \/ Abandon(r)
  PROVE  BurstsGood'
<1>1. ASSUME NEW new, Change(new) PROVE BurstsGood'
  <2>1. \A e \in Events :
          /\ task'[e].pc = task[e].pc /\ task'[e].now = task[e].now
          /\ task'[e].value = task[e].value
          /\ task'[e].steady = (task[e].steady /\ new = rule)
    BY <1>1 DEF Change, TypeOK, Task
  <2>2. stored' = stored /\ stored \subseteq Events
    BY <1>1 DEF Change, TypeOK
  <2>3. CASE new = rule
    <3>1. Began' = Began /\ Began \subseteq Events
      BY <1>1, <2>1, <2>2, <2>3 DEF Began, Errors, Change
    <3> QED
      BY <1>1, <2>1, <2>3, <3>1, FrameBursts DEF Change
  <2>4. CASE new # rule
    <3>1. Began' = {}
      BY <2>1, <2>2, <2>4 DEF Began, Errors
    <3> QED
      BY <3>1, NoneBegan
  <2> QED
    BY <2>3, <2>4
<1>2. ASSUME Delete(r) PROVE BurstsGood'
  <2>1. \A e \in Events : ~task'[e].steady
    BY <1>2 DEF Delete, TypeOK, Task
  <2>2. Began' = {}
    BY <1>2, <2>1 DEF Delete, Began, Errors, TypeOK
  <2> QED
    BY <2>2, NoneBegan
<1>3. ASSUME UNCHANGED <<rule, evaluations>> PROVE BurstsGood'
  BY <1>3, FrameBursts DEF evaluations, Began, Errors
<1> QED
  BY <1>1, <1>2, <1>3 DEF Load, ApiSave, AdminSave, ToggleSave, Abandon

LEMMA EventBursts ==
  ASSUME TypeOK, BurstsGood, NEW e \in Events,
         \/ Receive(e) \/ Store(e) \/ Remove(e)
         \/ \E at \in 0 .. now : Import(e, at)
  PROVE  BurstsGood'
<1>0. stored \subseteq Events
  BY DEF TypeOK
<1>1. ASSUME Receive(e) PROVE BurstsGood'
  <2>1. e \notin stored /\ UNCHANGED <<rule, stored, task, triggers>>
        /\ \A d \in stored : created'[d] = created[d]
    BY <1>1 DEF Receive, TypeOK, edits
  <2> QED
    BY <2>1, FrameBursts DEF Began, Errors
<1>2. ASSUME NEW at, NEW pc \in {"queued", "lost"}, e \notin stored,
             task' = [Slip(e, at) EXCEPT ![e].pc = pc], stored' = stored \cup {e},
             UNCHANGED <<rule, triggers>>, \A d \in stored : created'[d] = created[d]
      PROVE  BurstsGood'
  <2>1. task'[e].pc = pc
    BY <1>2 DEF Slip, TypeOK, Task
  <2>2. \A d \in stored :
          /\ task'[d].pc = task[d].pc /\ task'[d].now = task[d].now
          /\ task'[d].value = task[d].value /\ task'[d].steady = task[d].steady
    BY <1>0, <1>2 DEF Slip, TypeOK, Task
  <2>3. Began' \subseteq Began /\ Began \subseteq stored
    BY <1>2, <2>1, <2>2 DEF Began, Errors, Measuring
  <2> QED
    BY <1>2, <2>2, <2>3, FrameBursts
<1>3. ASSUME Remove(e) PROVE BurstsGood'
  <2>1. UNCHANGED <<rule, created, task, triggers>> /\ stored' \subseteq stored
    BY <1>3 DEF Remove, edits
  <2>2. Began' \subseteq Began
    BY <2>1 DEF Began, Errors
  <2> QED
    BY <2>1, <2>2, FrameBursts
<1>4. Store(e) => BurstsGood'
  BY <1>2 DEF Store, edits
<1>5. ASSUME NEW at \in 0 .. now, Import(e, at) PROVE BurstsGood'
  <2>1. e \notin stored /\ \A d \in stored : created'[d] = created[d]
    BY <1>5 DEF Import, TypeOK
  <2> QED
    BY <1>2, <1>5, <2>1 DEF Import, edits
<1> QED
  BY <1>1, <1>3, <1>4, <1>5

\* A task begins: if the rule counts errors, it is about to count those begun.
LEMMA StartBursts ==
  ASSUME TypeOK, TasksGood, BurstsGood, NEW e \in Events, StartTask(e)
  PROVE  BurstsGood'
<1> DEFINE k(pc) == [NoTask EXCEPT !.now = now, !.row = rule, !.steady = TRUE, !.pc = pc]
<1>1. PICK pc \in {"done", "total", "value"} :
        /\ task' = [task EXCEPT ![e] = k(pc)]
        /\ (e \in stored /\ Counting /\ rule.project = Details[e].project) => pc = "value"
  BY DEF StartTask, Counting
<1>2. k(pc).pc = pc /\ k(pc).now = now
  BY DEF NoTask
<1> HIDE DEF k
<1>3. /\ task'[e].pc = pc /\ task'[e].now = now
      /\ \A d \in Events : d # e => task'[d] = task[d]
  BY <1>1, <1>2 DEF TypeOK
<1>4. UNCHANGED <<rule, created, stored, triggers>> /\ stored \subseteq Events
  BY DEF StartTask, Evaluated, edits, TypeOK
<1>5. \A d \in Began' : d \in Events /\ (d # e => d \in Began)
  BY <1>3, <1>4 DEF Began, Errors
<1> SUFFICES ASSUME Counting
             PROVE  /\ \A S \in SUBSET Began' : S # {} /\ Together(S)' => \E d \in S : CountsAll(d, S)'
                    /\ \A d \in Began' :
                         (/\ task'[d].pc = "done"
                          /\ _condition_matches(rule.condition, task'[d].value, rule.threshold))
                           => Answered(d)'
  BY <1>4 DEF BurstsGood, Counting, _condition_matches
<1>6. e \in Began' => pc = "value"
  BY <1>1, <1>4 DEF Began, Errors
<1>7. ASSUME NEW S \in SUBSET Began', S # {}, Together(S)' PROVE \E d \in S : CountsAll(d, S)'
  <2>1. CASE e \in S
    <3>1. \A d \in S : task'[d].now <= now
      BY <1>3, <1>5 DEF TypeOK, Task
    <3>2. CountsAll(e, S)'
      BY <1>3, <1>6, <2>1, <3>1 DEF CountsAll
    <3> QED
      BY <2>1, <3>2
  <2>2. CASE e \notin S
    <3>1. S \subseteq Began /\ \A d \in S : task'[d] = task[d]
      BY <1>3, <1>5, <2>2
    <3>2. Together(S)
      BY <1>4, <1>7, <3>1 DEF Together
    <3>3. PICK d \in S : CountsAll(d, S)
      BY <1>7, <3>1, <3>2 DEF BurstsGood
    <3>4. CountsAll(d, S)'
      BY <3>1, <3>3 DEF CountsAll
    <3> QED
      BY <3>4
  <2> QED
    BY <2>1, <2>2
<1>8. ASSUME NEW d \in Began', task'[d].pc = "done",
             _condition_matches(rule.condition, task'[d].value, rule.threshold)
      PROVE  Answered(d)'
  <2>1. d # e
    BY <1>3, <1>6, <1>8
  <2>2. d \in Began /\ task'[d] = task[d]
    BY <1>3, <1>5, <2>1
  <2>3. Answered(d)
    BY <1>8, <2>2 DEF BurstsGood
  <2> QED
    BY <1>4, <2>2, <2>3 DEF Answered
<1> QED
  BY <1>7, <1>8

\* Of a burst whose last task is counting, all errors are in its window.
LEMMA BurstInWindow ==
  ASSUME TypeOK, TasksGood, NEW S \in SUBSET Began, Together(S), NEW e \in S,
         \A d \in S : task[d].now <= task[e].now
  PROVE  S \subseteq Errors(Window(e)) /\ Cardinality(S) <= Cardinality(Errors(Window(e)))
<1>1. e \in Events /\ task[e].row = rule /\ rule \in Row
  BY DEF Began, Errors, TasksGood, GoodTask, TypeOK
<1>2. ASSUME NEW d \in S PROVE d \in Window(e)
  <2>1. d \in stored /\ d \in Events /\ Details[d].project = Details[e].project
    BY DEF Began, Errors, TypeOK
  <2>2. created[d] <= task[d].now /\ created[d] \in Int /\ task[d].now \in Int
    BY <2>1 DEF Began, TasksGood, GoodTask, TypeOK, Task, NotYet
  <2>3. task[e].now \in Int /\ rule.time_window_minutes \in Nat
    BY <1>1 DEF TypeOK, Task, Row
  <2>4. created[d] >= task[e].now - rule.time_window_minutes /\ created[d] <= task[e].now
    BY <2>2, <2>3 DEF Together
  <2> QED
    BY <1>1, <2>1, <2>2, <2>3, <2>4 DEF Window, InWindow
<1>3. S \subseteq Errors(Window(e))
  BY <1>2 DEF Began, Errors
<1> QED
  BY <1>3, StoredFinite, FS_Subset

\* A task counts, and goes on to fire or ends.
LEMMA MeasureBursts ==
  ASSUME TypeOK, TasksGood, BurstsGood, NEW e \in Events, MeasureValue(e)
  PROVE  BurstsGood'
<1>1. PICK v : /\ Judge(e, v)
               /\ task[e].row.metric = "ERROR_COUNT" => v = Count(Cardinality(Errors(Window(e))))
  BY DEF MeasureValue
<1> DEFINE matches == _condition_matches(task[e].row.condition, v, task[e].row.threshold)
           k == [task[e] EXCEPT !.value = v, !.total = 0, !.pc = IF matches THEN "matched" ELSE "done"]
<1>2. /\ k.pc = (IF matches THEN "matched" ELSE "done") /\ k.value = v
      /\ k.now = task[e].now /\ k.steady = task[e].steady /\ k.row = task[e].row
  BY DEF TypeOK, Task
<1>3. task' = [task EXCEPT ![e] = k] /\ task[e].pc = "value"
  BY <1>1 DEF Judge, TypeOK, MeasureValue
<1> HIDE DEF k
<1>4. task'[e] = k /\ \A d \in Events : d # e => task'[d] = task[d]
  BY <1>3 DEF TypeOK
<1>5. UNCHANGED <<rule, created, stored, triggers>> /\ stored \subseteq Events
  BY <1>1 DEF Judge, Evaluated, edits, TypeOK
<1>6. /\ Began' = Began /\ Began \subseteq Events
      /\ \A d \in Events : task'[d].now = task[d].now
  <2>1. \A d \in Events : /\ task'[d].steady = task[d].steady /\ task'[d].now = task[d].now
                          /\ task'[d].pc \in Measuring \cup {"done"}
                               <=> task[d].pc \in Measuring \cup {"done"}
    BY <1>2, <1>3, <1>4 DEF Measuring
  <2> QED
    BY <1>5, <2>1 DEF Began, Errors
<1> SUFFICES ASSUME Counting
             PROVE  /\ \A S \in SUBSET Began' : S # {} /\ Together(S)' => \E d \in S : CountsAll(d, S)'
                    /\ \A d \in Began' :
                         (/\ task'[d].pc = "done"
                          /\ _condition_matches(rule.condition, task'[d].value, rule.threshold))
                           => Answered(d)'
  BY <1>5 DEF BurstsGood, Counting, _condition_matches
<1>7. e \in Began => task[e].row = rule
  BY DEF Began, TasksGood, GoodTask
<1>8. ASSUME NEW S \in SUBSET Began', S # {}, Together(S)' PROVE \E d \in S : CountsAll(d, S)'
  <2>1. Together(S) /\ S \in SUBSET Began
    BY <1>5, <1>6, <1>8 DEF Together
  <2>2. PICK d \in S : CountsAll(d, S)
    BY <1>8, <2>1 DEF BurstsGood
  <2>3. CASE d # e
    <3>1. CountsAll(d, S)'
      BY <1>4, <1>6, <2>2, <2>3 DEF CountsAll
    <3> QED
      BY <3>1
  <2>4. CASE d = e
    <3>1. Cardinality(S) <= Cardinality(Errors(Window(e)))
      BY <2>1, <2>2, <2>4, BurstInWindow DEF CountsAll
    <3>2. v = Count(Cardinality(Errors(Window(e))))
      BY <1>1, <1>7, <2>1, <2>4 DEF Counting
    <3>3. v.den = 1 /\ v.side = 0 /\ Cardinality(S) <= v.num
      BY <3>1, <3>2 DEF Count
    <3>4. CountsAll(e, S)'
      BY <1>2, <1>4, <1>6, <2>2, <2>4, <3>3 DEF CountsAll
    <3> QED
      BY <2>4, <3>4
  <2> QED
    BY <2>3, <2>4
<1>9. ASSUME NEW d \in Began', task'[d].pc = "done",
             _condition_matches(rule.condition, task'[d].value, rule.threshold)
      PROVE  Answered(d)'
  <2>1. d # e
    BY <1>2, <1>4, <1>6, <1>7, <1>9
  <2>2. d \in Began /\ task'[d] = task[d]
    BY <1>4, <1>6, <2>1
  <2>3. Answered(d)
    BY <1>9, <2>2 DEF BurstsGood
  <2> QED
    BY <1>5, <2>2, <2>3 DEF Answered
<1> QED
  BY <1>8, <1>9

LEMMA FireBursts ==
  ASSUME TypeOK, BurstsGood, NEW e \in Events, Fire(e)
  PROVE  BurstsGood'
<1> DEFINE k == [task[e] EXCEPT !.pc = "done"]
<1>1. /\ k.pc = "done" /\ k.value = task[e].value /\ k.now = task[e].now
      /\ k.steady = task[e].steady
  BY DEF TypeOK, Task
<1>2. task' = [task EXCEPT ![e] = k] /\ task[e].pc = "matched"
  BY DEF Fire, TypeOK
<1> HIDE DEF k
<1>3. task'[e] = k /\ \A d \in Events : d # e => task'[d] = task[d]
  BY <1>2 DEF TypeOK
<1>4. UNCHANGED <<rule, created, stored>> /\ stored \subseteq Events /\ triggers \subseteq triggers'
  BY DEF Fire, Evaluated, edits, TypeOK
<1>5. /\ Began' = Began /\ Began \subseteq Events
      /\ \A d \in Events : task'[d].now = task[d].now /\ task'[d].value = task[d].value
  <2>1. \A d \in Events : /\ task'[d].steady = task[d].steady /\ task'[d].now = task[d].now
                          /\ task'[d].value = task[d].value
                          /\ task'[d].pc \in Measuring \cup {"done"}
                               <=> task[d].pc \in Measuring \cup {"done"}
    BY <1>1, <1>2, <1>3 DEF Measuring
  <2> QED
    BY <1>4, <2>1 DEF Began, Errors
<1> SUFFICES ASSUME Counting
             PROVE  /\ \A S \in SUBSET Began' : S # {} /\ Together(S)' => \E d \in S : CountsAll(d, S)'
                    /\ \A d \in Began' :
                         (/\ task'[d].pc = "done"
                          /\ _condition_matches(rule.condition, task'[d].value, rule.threshold))
                           => Answered(d)'
  BY <1>4 DEF BurstsGood, Counting, _condition_matches
<1>6. ASSUME NEW S \in SUBSET Began', S # {}, Together(S)' PROVE \E d \in S : CountsAll(d, S)'
  <2>1. Together(S) /\ S \in SUBSET Began
    BY <1>4, <1>5, <1>6 DEF Together
  <2>2. PICK d \in S : CountsAll(d, S)
    BY <1>6, <2>1 DEF BurstsGood
  <2>3. task'[d].pc = task[d].pc \/ (task[d].pc = "matched" /\ task'[d].pc = "done")
    BY <1>1, <1>2, <1>3, <1>5, <2>1
  <2>4. CountsAll(d, S)'
    BY <1>5, <2>1, <2>2, <2>3 DEF CountsAll
  <2> QED
    BY <2>4
<1>7. Answered(e)'
  <2>1. rule.exists /\ rule.is_active
    BY DEF Counting
  <2>2. CASE Marked(e)
    BY <1>4, <2>2 DEF Marked, Answered
  <2>3. CASE CoolingDown(e)
    <3>1. PICK x \in triggers : x.linked /\ x.at >= now - rule.cooldown_minutes
      BY <2>3 DEF CoolingDown
    <3>2. /\ x.at \in Int /\ now \in Int /\ rule.cooldown_minutes \in Int
          /\ task[e].now \in Int /\ task[e].now <= now
      BY DEF TypeOK, Trigger, Row, Task
    <3>3. x.at >= task[e].now - rule.cooldown_minutes
      BY <3>1, <3>2
    <3> QED
      BY <1>4, <1>5, <3>1, <3>3 DEF Answered
  <2>4. CASE ~Marked(e) /\ ~CoolingDown(e)
    <3> DEFINE x == NewTrigger(e)
    <3>1. x \in triggers' /\ x.linked /\ x.event = e
      BY <2>1, <2>4 DEF Fire, NewTrigger
    <3> QED
      BY <3>1 DEF Answered
  <2> QED
    BY <2>2, <2>3, <2>4
<1>8. ASSUME NEW d \in Began', d # e, task'[d].pc = "done",
             _condition_matches(rule.condition, task'[d].value, rule.threshold)
      PROVE  Answered(d)'
  <2>1. d \in Began /\ task'[d] = task[d]
    BY <1>3, <1>5, <1>8
  <2>2. Answered(d)
    BY <1>8, <2>1 DEF BurstsGood
  <2> QED
    BY <1>4, <2>1, <2>2 DEF Answered
<1> QED
  BY <1>6, <1>7, <1>8

\* The counts of an error rate belong to no burst: the rule of a burst counts
\* errors.  A task that is interrupted leaves it.
LEMMA OtherBursts ==
  ASSUME TypeOK, TasksGood, BurstsGood, NEW e \in Events,
         CountTotal(e) \/ CountErrors(e) \/ Interrupt(e)
  PROVE  BurstsGood'
<1>1. /\ UNCHANGED <<rule, created, stored, triggers>> /\ stored \subseteq Events
      /\ \A d \in Events : d # e => task'[d] = task[d]
  BY DEF CountTotal, CountErrors, Interrupt, Judge, Evaluated, edits, TypeOK
<1>2. Counting => e \notin Began'
  <2>1. ASSUME CountTotal(e) \/ CountErrors(e), task'[e].steady PROVE ~Counting
    <3>1. task[e].pc \in {"total", "errors"} /\ task[e].steady
      <4>1. \A v : Judge(e, v) => task'[e].steady = task[e].steady
        BY DEF Judge, TypeOK, Task
      <4>2. CASE CountTotal(e)
        BY <2>1, <4>1, <4>2 DEF CountTotal, TypeOK, Task
      <4>3. CASE CountErrors(e)
        BY <2>1, <4>1, <4>3 DEF CountErrors
      <4> QED
        BY <2>1, <4>2, <4>3
    <3> QED
      BY <3>1 DEF TasksGood, GoodTask, Counting
  <2>2. Interrupt(e) => task'[e].pc \in {"queued", "lost"}
    BY DEF Interrupt, TypeOK, Task
  <2> QED
    BY <2>1, <2>2 DEF Began, Measuring
<1>3. Counting => Began' \subseteq Began /\ \A d \in Began' : d \in Events /\ task'[d] = task[d]
  BY <1>1, <1>2 DEF Began, Errors
<1> QED
  BY <1>1, <1>3, FrameBursts

LEMMA NextBursts == TypeOK /\ TasksGood /\ BurstsGood /\ [Next]_vars => BurstsGood'
<1> SUFFICES ASSUME TypeOK, TasksGood, BurstsGood, [Next]_vars PROVE BurstsGood'
  OBVIOUS
<1>1. CASE Tick \/ UNCHANGED vars
  <2>1. UNCHANGED <<rule, created, stored, task, triggers>>
    BY <1>1 DEF Tick, vars, edits, evaluations
  <2> QED
    BY <2>1, FrameBursts DEF Began, Errors
<1>2. CASE Next
  BY <1>1, <1>2, RequestBursts, EventBursts, StartBursts, MeasureBursts, FireBursts, OtherBursts
  DEF Next
<1> QED
  BY <1>1, <1>2

LEMMA BurstNoticed ==
  ASSUME TypeOK, BurstsGood, Counting, rule.condition \in {"GT", "GTE"},
         NEW S \in SUBSET Began, S # {}, \A e \in S : task[e].pc = "done", Together(S),
         _condition_matches(rule.condition, Count(Cardinality(S)), rule.threshold)
  PROVE  \E x \in triggers :
           /\ x.linked
           /\ x.event \in S \/ \A e \in S : x.at >= task[e].now - rule.cooldown_minutes
<1>1. PICK e \in S : CountsAll(e, S)
  BY DEF BurstsGood
<1>2. /\ task[e].value.den = 1 /\ task[e].value.side = 0
      /\ Cardinality(S) <= task[e].value.num
  BY <1>1 DEF CountsAll
<1>3. /\ S \subseteq Events /\ Cardinality(S) \in Int
      /\ task[e].value.num \in Int /\ rule.threshold \in Int
  BY BeganFinite DEF TypeOK, Task, Value, Row
<1>4. _condition_matches(rule.condition, task[e].value, rule.threshold)
  <2>1. task[e].value # None
    BY <1>2 DEF None
  <2>2. CASE rule.condition = "GT"
    BY <1>2, <1>3, <2>1, <2>2 DEF _condition_matches, Count
  <2>3. CASE rule.condition = "GTE"
    BY <1>2, <1>3, <2>1, <2>3 DEF _condition_matches, Count
  <2> QED
    BY <2>2, <2>3
<1>5. PICK x \in triggers :
        x.linked /\ (x.event = e \/ x.at >= task[e].now - rule.cooldown_minutes)
  BY <1>4 DEF BurstsGood, Answered
<1>6. ASSUME x.at >= task[e].now - rule.cooldown_minutes, NEW d \in S
      PROVE  x.at >= task[d].now - rule.cooldown_minutes
  <2>1. task[d].now <= task[e].now
    BY <1>1 DEF CountsAll
  <2>2. x.at \in Int /\ task[d].now \in Int /\ task[e].now \in Int /\ rule.cooldown_minutes \in Int
    BY <1>3 DEF TypeOK, Trigger, Task, Row
  <2> QED
    BY <1>6, <2>1, <2>2
<1> QED
  BY <1>5, <1>6

(***************************************************************************)
(* Errors that together pass the threshold of an ERROR_COUNT rule, and     *)
(* whose tasks all began within the window of the first of them, have      *)
(* fired it once these tasks have ended.                                   *)
(***************************************************************************)
THEOREM BurstsNoticed == Spec => []BurstsAreNoticed
<1>1. Init => BurstsGood
  BY InitBursts
<1>2. TypeOK /\ TasksGood /\ BurstsGood /\ [Next]_vars => BurstsGood'
  BY NextBursts
<1>3. TypeOK /\ BurstsGood => BurstsAreNoticed
  <2> SUFFICES ASSUME TypeOK, BurstsGood,
                      NEW S \in SUBSET {e \in Errors(stored) :
                                          /\ task[e].pc = "done" /\ task[e].steady
                                          /\ Details[e].project = rule.project},
                      S # {}, Counting, rule.condition \in {"GT", "GTE"}, Together(S),
                      _condition_matches(rule.condition, Count(Cardinality(S)), rule.threshold)
               PROVE  \E x \in triggers :
                        /\ x.linked
                        /\ \/ x.event \in S
                           \/ \A e \in S : x.at >= task[e].now - rule.cooldown_minutes
    BY DEF BurstsAreNoticed, Counting, Together
  <2>1. S \in SUBSET Began /\ \A e \in S : task[e].pc = "done"
    BY DEF Began
  <2> QED
    BY <2>1, BurstNoticed
<1> QED
  BY <1>1, <1>2, <1>3, Good, PTL DEF Spec

-----------------------------------------------------------------------------
(***************************************************************************)
(* The log of triggers.  Primary keys number the triggers, and the         *)
(* cooldowns of the rule, and of the rows that requests hold, are among    *)
(* those that are written.                                                 *)
(***************************************************************************)
Numbered ==
  /\ \A x, y \in triggers : x.pk = y.pk => x = y
  /\ {x.pk : x \in triggers} = 1 .. Cardinality(triggers)

Allowed ==
  /\ rule.cooldown_minutes \in Cooldowns
  /\ \A r \in Requests : req[r].pc \in Holding => req[r].row.cooldown_minutes \in Cooldowns

LogInv == Numbered /\ Allowed

LEMMA CooldownWritten ==
  ASSUME NEW w \in Edits, NEW row \in Row,
         row.cooldown_minutes \in Cooldowns \/ "cooldown_minutes" \in DOMAIN w
  PROVE  Written(row, w).cooldown_minutes \in Cooldowns
<1>1. Over(row, w) \in Row /\ Over(NoRow, w) \in Row
  BY EditType, OverType
<1>2. Written(row, w).cooldown_minutes = Over(row, w).cooldown_minutes
  BY <1>1 DEF Written, Row
<1>3. CASE "cooldown_minutes" \in DOMAIN w
  <2>1. Over(row, w).cooldown_minutes = Over(NoRow, w).cooldown_minutes
    BY <1>3 DEF Over, Columns
  <2> QED
    BY <1>2, <2>1 DEF Cooldowns
<1>4. CASE "cooldown_minutes" \notin DOMAIN w
  <2>1. Over(row, w).cooldown_minutes = row.cooldown_minutes
    BY <1>4 DEF Over, Columns
  <2> QED
    BY <1>2, <1>4, <2>1
<1> QED
  BY <1>3, <1>4

LEMMA ToggleKeeps ==
  ASSUME NEW row \in Row, NEW loaded \in Row
  PROVE  Written(row, [is_active |-> ~loaded.is_active]).cooldown_minutes = row.cooldown_minutes
<1> DEFINE w == [is_active |-> ~loaded.is_active]
<1>1. Over(row, w) \in Row /\ Over(row, w).cooldown_minutes = row.cooldown_minutes
  BY DEF Over, Row, Columns
<1> QED
  BY <1>1 DEF Written, Row

LEMMA InitLog == Init => LogInv
<1> SUFFICES ASSUME Init PROVE LogInv
  OBVIOUS
<1>1. PICK w \in Edits : DOMAIN w = Columns \ {"exists"} /\ rule = Written(NoRow, w)
  BY DEF Init
<1>2. rule.cooldown_minutes \in Cooldowns
  BY <1>1, NoRowType, CooldownWritten DEF Columns
<1>3. Numbered
  BY FS_EmptySet DEF Init, Numbered
<1> QED
  BY <1>2, <1>3 DEF Init, LogInv, Allowed, Idle, Holding

\* Of the triggers, only a firing adds one, and a deletion unlinks them.
LEMMA FireLog ==
  ASSUME TypeOK, Numbered, NEW e, triggers' = triggers \cup {NewTrigger(e)}
  PROVE  /\ Numbered' /\ Cardinality(triggers') = Cardinality(triggers) + 1
         /\ NewTrigger(e).pk = Cardinality(triggers')
<1> DEFINE n == Cardinality(triggers)
<1>1. n \in Nat
  BY FS_CardinalityType DEF TypeOK
<1>2. NewTrigger(e).pk = n + 1
  BY DEF NewTrigger
<1>3. \A x \in triggers : x.pk \in 1 .. n
  BY DEF Numbered
<1>4. NewTrigger(e) \notin triggers
  BY <1>1, <1>2, <1>3
<1>5. Cardinality(triggers') = n + 1
  BY <1>4, FS_AddElement DEF TypeOK
<1>6. \A x, y \in triggers' : x.pk = y.pk => x = y
  <2> TAKE x, y \in triggers'
  <2>1. (x \in triggers \/ x = NewTrigger(e)) /\ (y \in triggers \/ y = NewTrigger(e))
    OBVIOUS
  <2>2. \A z \in triggers : z.pk # NewTrigger(e).pk
    BY <1>1, <1>2, <1>3
  <2> QED
    BY <2>1, <2>2 DEF Numbered
<1>7. {x.pk : x \in triggers'} = {x.pk : x \in triggers} \cup {n + 1}
  BY <1>2
<1>8. {x.pk : x \in triggers'} = 1 .. (n + 1)
  BY <1>1, <1>7 DEF Numbered
<1> QED
  BY <1>2, <1>5, <1>6, <1>8 DEF Numbered

LEMMA UnlinkLog ==
  ASSUME TypeOK, Numbered, triggers' = Unlinked(triggers)
  PROVE  Numbered' /\ Cardinality(triggers') = Cardinality(triggers)
<1>1. Cardinality(triggers') = Cardinality(triggers)
  BY UnlinkedMany DEF TypeOK, Numbered
<1>2. \A x \in triggers : [x EXCEPT !.linked = FALSE].pk = x.pk
  BY DEF TypeOK, Trigger
<1>3. \A x, y \in triggers' : x.pk = y.pk => x = y
  <2> TAKE x, y \in triggers'
  <2>1. PICK v \in triggers : x = [v EXCEPT !.linked = FALSE]
    BY DEF Unlinked
  <2>2. PICK w \in triggers : y = [w EXCEPT !.linked = FALSE]
    BY DEF Unlinked
  <2>3. x.pk = v.pk /\ y.pk = w.pk
    BY <1>2, <2>1, <2>2
  <2> QED
    BY <2>1, <2>2, <2>3 DEF Numbered
<1>4. {x.pk : x \in triggers'} = {x.pk : x \in triggers}
  BY <1>2 DEF Unlinked
<1> QED
  BY <1>1, <1>3, <1>4 DEF Numbered

\* What a save of request r does to the cooldowns.
LEMMA SaveAllowed ==
  ASSUME TypeOK, Allowed, NEW r \in Requests, End(r), rule'.cooldown_minutes \in Cooldowns
  PROVE  Allowed'
<1>1. req'[r].pc \notin Holding /\ \A q \in Requests : q # r => req'[q] = req[q]
  BY EndsFree DEF End, TypeOK
<1> QED
  BY <1>1 DEF Allowed

LEMMA RequestLog ==
  ASSUME TypeOK, LogInv, NEW r \in Requests,
         \/ \E pc \in Holding : Load(r, pc)
         \/ \E w \in Edits : ApiSave(r, w) \/ AdminSave(r, w)
         \/ ToggleSave(r) \/ Delete(r) \/ Abandon(r)
  PROVE  LogInv'
<1>0. rule \in Row /\ req[r].row \in Row
  BY DEF TypeOK, Request
<1>1. ASSUME NEW pc \in Holding, Load(r, pc) PROVE LogInv'
  <2>1. Allowed'
    BY <1>1 DEF Load, TypeOK, LogInv, Allowed
  <2> QED
    BY <1>1, <2>1 DEF Load, evaluations, LogInv, Numbered
<1>2. ASSUME NEW w \in Edits, ApiSave(r, w) \/ AdminSave(r, w) PROVE LogInv'
  <2>1. Change(Written(req[r].row, w)) /\ End(r) /\ req[r].pc \in Holding
    BY <1>2 DEF ApiSave, AdminSave, Holding
  <2>2. rule'.cooldown_minutes \in Cooldowns
    BY <1>0, <2>1, CooldownWritten DEF Change, LogInv, Allowed
  <2> QED
    BY <2>1, <2>2, SaveAllowed DEF Change, LogInv, Numbered
<1>3. ASSUME ToggleSave(r) PROVE LogInv'
  <2>1. Change(Written(rule, [is_active |-> ~req[r].row.is_active])) /\ End(r)
    BY <1>3 DEF ToggleSave
  <2>2. rule'.cooldown_minutes \in Cooldowns
    BY <1>0, <2>1, ToggleKeeps DEF Change, LogInv, Allowed
  <2> QED
    BY <2>1, <2>2, SaveAllowed DEF Change, LogInv, Numbered
<1>4. ASSUME Delete(r) PROVE LogInv'
  <2>1. rule'.cooldown_minutes = rule.cooldown_minutes /\ End(r)
    BY <1>0, <1>4 DEF Delete, Row
  <2>2. Numbered'
    BY <1>4, UnlinkLog DEF Delete, Unlinked, LogInv
  <2> QED
    BY <2>1, <2>2, SaveAllowed DEF LogInv, Allowed
<1>5. ASSUME Abandon(r) PROVE LogInv'
  <2>1. Allowed'
    BY <1>5, SaveAllowed DEF Abandon, LogInv, Allowed
  <2> QED
    BY <1>5, <2>1 DEF Abandon, evaluations, LogInv, Numbered
<1> QED
  BY <1>1, <1>2, <1>3, <1>4, <1>5

\* Whatever else happens leaves the requests alone, and the triggers but for Fire.
LEMMA OtherSteps ==
  ASSUME NEW e \in Events,
         \/ Receive(e) \/ Store(e) \/ Remove(e)
         \/ \E at \in 0 .. now : Import(e, at)
         \/ StartTask(e) \/ MeasureValue(e) \/ CountTotal(e) \/ CountErrors(e)
         \/ Fire(e) \/ Interrupt(e)
  PROVE  UNCHANGED <<rule, req>> /\ (UNCHANGED triggers \/ Fire(e))
  BY DEF Receive, Store, Remove, Import, StartTask, MeasureValue, CountTotal, CountErrors, Judge,
         Fire, Interrupt, Evaluated, edits

LEMMA NextLog == TypeOK /\ LogInv /\ [Next]_vars => LogInv'
<1> SUFFICES ASSUME TypeOK, LogInv, [Next]_vars PROVE LogInv'
  OBVIOUS
<1>1. CASE UNCHANGED <<rule, req, triggers>>
  BY <1>1 DEF LogInv, Numbered, Allowed
<1>2. ASSUME NEW e \in Events, Fire(e), UNCHANGED <<rule, req>> PROVE LogInv'
  <2>1. triggers' = triggers \/ triggers' = triggers \cup {NewTrigger(e)}
    BY <1>2 DEF Fire
  <2>2. Allowed'
    BY <1>2 DEF LogInv, Allowed
  <2> QED
    BY <1>1, <1>2, <2>1, <2>2, FireLog DEF LogInv
<1>3. Tick \/ UNCHANGED vars => UNCHANGED <<rule, req, triggers>>
  BY DEF Tick, vars, edits, evaluations
<1> QED
  BY <1>1, <1>2, <1>3, RequestLog, OtherSteps DEF Next

-----------------------------------------------------------------------------
(* Every step of the rule is a step of the log, or none.                   *)

\* The trigger with primary key i.
LEMMA TriggerOf ==
  ASSUME Numbered
  PROVE  /\ \A x \in triggers : x.pk \in 1 .. Cardinality(triggers) /\ TriggerRow(x.pk) = x
         /\ \A i \in 1 .. Cardinality(triggers) :
              TriggerRow(i) \in triggers /\ TriggerRow(i).pk = i
<1>1. ASSUME NEW x \in triggers
      PROVE  x.pk \in 1 .. Cardinality(triggers) /\ TriggerRow(x.pk) = x
  BY <1>1 DEF Numbered, TriggerRow
<1>2. ASSUME NEW i \in 1 .. Cardinality(triggers)
      PROVE  TriggerRow(i) \in triggers /\ TriggerRow(i).pk = i
  <2>1. PICK x \in triggers : x.pk = i
    BY <1>2 DEF Numbered
  <2> QED
    BY <1>1, <2>1
<1> QED
  BY <1>1, <1>2

LEMMA SameLog == UNCHANGED triggers => UNCHANGED Logged
  BY DEF Logged, TriggerRow

\* The rule as the log has it.
RuleOfLog ==
  [r \in {1} |-> [exists |-> rule.exists, is_active |-> rule.exists /\ rule.is_active,
                  cooldown |-> rule.cooldown_minutes]]

LEMMA LogStutters ==
  ASSUME UNCHANGED <<rule, triggers>>
  PROVE  UNCHANGED Ledger!vars
  BY SameLog DEF Ledger!vars

\* The owner's saves configure the rule.
LEMMA ConfigureStep ==
  ASSUME rule' \in Row, rule'.exists, rule'.cooldown_minutes \in Cooldowns, UNCHANGED triggers
  PROVE  Ledger!Next
<1> DEFINE row == [exists |-> TRUE, is_active |-> rule'.is_active,
                   cooldown |-> rule'.cooldown_minutes]
<1>1. row \in Ledger!RuleRow /\ row.exists
  BY DEF Ledger!RuleRow, Row
<1>2. RuleOfLog' = [RuleOfLog EXCEPT ![1] = row]
  BY DEF RuleOfLog, Row
<1>3. Ledger!Configure(1)
  BY <1>1, <1>2, SameLog DEF Ledger!Configure, RuleOfLog
<1> QED
  BY <1>3 DEF Ledger!Next

LEMMA RemoveStep ==
  ASSUME TypeOK, Numbered, NEW r \in Requests, Delete(r)
  PROVE  Ledger!Next
<1> DEFINE n == Cardinality(triggers)
           gone(i) == [rule |-> IF Logged[i].rule = 1 THEN 0 ELSE Logged[i].rule,
                       event |-> Logged[i].event, at |-> Logged[i].at]
<1>1. triggers' = Unlinked(triggers) /\ Numbered' /\ Cardinality(triggers') = n
  BY UnlinkLog DEF Delete, Unlinked
<1>2. ASSUME NEW i \in 1 .. n PROVE Logged'[i] = gone(i)
  <2>1. TriggerRow(i) \in triggers /\ TriggerRow(i).pk = i /\ TriggerRow(i) \in Trigger
    BY TriggerOf DEF TypeOK
  <2> DEFINE x == [TriggerRow(i) EXCEPT !.linked = FALSE]
  <2>2. /\ x.pk = i /\ x.linked = FALSE
        /\ x.event = TriggerRow(i).event /\ x.at = TriggerRow(i).at
    BY <2>1 DEF Trigger
  <2>3. x \in triggers'
    BY <1>1, <2>1 DEF Unlinked
  <2> HIDE DEF x
  <2>4. TriggerRow(i)' = x
    BY <1>1, <2>2, <2>3 DEF Numbered, TriggerRow
  <2>5. Logged'[i] = [rule |-> 0, event |-> TriggerRow(i).event, at |-> TriggerRow(i).at]
    BY <1>1, <2>2, <2>4 DEF Logged
  <2>6. gone(i) = [rule |-> 0, event |-> TriggerRow(i).event, at |-> TriggerRow(i).at]
    BY DEF Logged
  <2> QED
    BY <2>5, <2>6
<1>3. Logged' = [i \in DOMAIN Logged |-> gone(i)]
  <2>1. DOMAIN Logged = 1 .. n /\ Logged' = [i \in 1 .. n |-> Logged'[i]]
    BY <1>1 DEF Logged
  <2> QED
    BY <1>2, <2>1
<1>4. /\ RuleOfLog[1].exists
      /\ RuleOfLog' = [RuleOfLog EXCEPT ![1] = [exists |-> FALSE, is_active |-> FALSE,
                                                 cooldown |-> RuleOfLog[1].cooldown]]
  BY DEF Delete, RuleOfLog, TypeOK, Row
<1>5. Ledger!Remove(1)
  BY <1>3, <1>4 DEF Ledger!Remove, RuleOfLog
<1> QED
  BY <1>5 DEF Ledger!Next

\* A firing is recorded: the rule is there and enabled, the event has no trigger
\* of it and none of its triggers in the project is within the cooldown.
LEMMA RecordStep ==
  ASSUME TypeOK, Numbered, NEW e \in Events, Fire(e), triggers' # triggers
  PROVE  Ledger!Next
<1> DEFINE new == [rule |-> 1, event |-> e, at |-> now]
<1>0. PICK n \in Nat : n = Cardinality(triggers)
  BY FS_CardinalityType DEF TypeOK
<1>1. /\ rule.exists /\ rule.is_active /\ ~Marked(e) /\ ~CoolingDown(e)
      /\ triggers' = triggers \cup {NewTrigger(e)} /\ UNCHANGED rule
  BY DEF Fire, Evaluated, edits
<1>2. /\ Numbered' /\ Cardinality(triggers') = n + 1 /\ NewTrigger(e).pk = n + 1
  BY <1>0, <1>1, FireLog
<1>3. \A i \in 1 .. n : TriggerRow(i)' = TriggerRow(i)
  <2> SUFFICES ASSUME NEW i \in 1 .. n PROVE TriggerRow(i)' = TriggerRow(i)
    OBVIOUS
  <2>1. TriggerRow(i) \in triggers' /\ TriggerRow(i).pk = i
    BY <1>0, <1>1, TriggerOf
  <2> QED
    BY <1>2, <2>1 DEF Numbered, TriggerRow
<1>4. TriggerRow(n + 1)' = NewTrigger(e)
  <2>1. NewTrigger(e) \in triggers'
    BY <1>1
  <2> QED
    BY <1>2, <2>1 DEF Numbered, TriggerRow
<1>5. Logged' = Append(Logged, new)
  <2>1. Logged' = [i \in 1 .. (n + 1) |->
                     [rule |-> IF TriggerRow(i)'.linked THEN 1 ELSE 0,
                      event |-> TriggerRow(i)'.event, at |-> TriggerRow(i)'.at]]
    BY <1>2 DEF Logged
  <2>2. \A i \in 1 .. n : Logged'[i] = Logged[i]
    BY <1>0, <1>2, <1>3, <2>1 DEF Logged
  <2>3. Logged'[n + 1] = new
    <3>1. /\ NewTrigger(e).linked = TRUE /\ NewTrigger(e).event = e
          /\ NewTrigger(e).at = now
      BY DEF NewTrigger
    <3>2. n + 1 \in 1 .. (n + 1)
      BY <1>2
    <3> QED
      BY <1>4, <2>1, <3>1, <3>2
  <2>4. Logged = [i \in 1 .. n |-> Logged[i]] /\ Logged \in Seq({Logged[i] : i \in 1 .. n})
        /\ Len(Logged) = n
    BY <1>0, <1>2 DEF Logged
  <2>5. Append(Logged, new) = [i \in 1 .. (n + 1) |-> IF i = n + 1 THEN new ELSE Logged[i]]
    BY <1>2, <2>4
  <2>6. \A i \in 1 .. (n + 1) : Logged'[i] = IF i = n + 1 THEN new ELSE Logged[i]
    BY <1>2, <2>2, <2>3
  <2> QED
    BY <2>1, <2>5, <2>6
<1>6. ASSUME NEW i \in DOMAIN Logged, Logged[i].rule = 1
      PROVE  /\ Logged[i].event # e /\ Logged[i].event \in Events
             /\ \/ rule.cooldown_minutes = 0
                \/ Details[Logged[i].event].project # Details[e].project
                \/ Logged[i].at + rule.cooldown_minutes < now
  <2> DEFINE x == TriggerRow(i)
  <2>1. i \in 1 .. n /\ x \in triggers /\ x.linked
        /\ Logged[i].event = x.event /\ Logged[i].at = x.at
    BY <1>0, <1>6, TriggerOf DEF Logged
  <2> HIDE DEF x
  <2>2. x.event \in Events /\ x.at \in Nat /\ now \in Nat /\ rule.cooldown_minutes \in Nat
    BY <2>1, RulesAssumption DEF TypeOK, Trigger, Row
  <2> QED
    BY <1>1, <2>1, <2>2 DEF Marked, CoolingDown
<1>7. now \in 0 .. MaxTime
  BY DEF TypeOK
<1>8. Ledger!Record(1, e, now)
  BY <1>1, <1>5, <1>6 DEF Ledger!Record
<1> QED
  BY <1>7, <1>8 DEF Ledger!Next

LEMMA RequestRefines ==
  ASSUME TypeOK, LogInv, LogInv', TypeOK', NEW r \in Requests,
         \/ \E pc \in Holding : Load(r, pc)
         \/ \E w \in Edits : ApiSave(r, w) \/ AdminSave(r, w)
         \/ ToggleSave(r) \/ Delete(r) \/ Abandon(r)
  PROVE  [Ledger!Next]_(Ledger!vars)
<1>0. rule' \in Row /\ rule'.cooldown_minutes \in Cooldowns
  BY DEF TypeOK, LogInv, Allowed
<1>1. CASE (\E pc \in Holding : Load(r, pc)) \/ Abandon(r)
  BY <1>1, LogStutters DEF Load, Abandon, evaluations
<1>2. ASSUME NEW row, NEW w, rule' = Written(row, w) PROVE rule'.exists
  BY <1>0, <1>2 DEF Written, Row
<1>3. CASE \/ \E w \in Edits : ApiSave(r, w) \/ AdminSave(r, w)
           \/ ToggleSave(r)
  <2>1. UNCHANGED triggers /\ \E row, w : rule' = Written(row, w)
    BY <1>3 DEF ApiSave, AdminSave, ToggleSave, Change
  <2> QED
    BY <1>0, <1>2, <2>1, ConfigureStep
<1>4. CASE Delete(r)
  BY <1>4, RemoveStep DEF LogInv
<1> QED
  BY <1>1, <1>3, <1>4

(***************************************************************************)
(* One rule implements the ledger, for any projects, events, edits and     *)
(* requests: whatever its requests write over each other, and whatever its *)
(* tasks read before, it fires only while it is there and enabled, once    *)
(* for an event, and outside the cooldown in force for the project.        *)
(***************************************************************************)
THEOREM Refinement == Spec => ImplementsLedger
<1>1. Init => Ledger!Init
  <2> SUFFICES ASSUME Init PROVE Ledger!Init
    OBVIOUS
  <2>1. rule \in Row /\ rule.exists /\ rule.cooldown_minutes \in Cooldowns
    <3>1. rule \in Row /\ rule.cooldown_minutes \in Cooldowns
      BY InitType, InitLog DEF TypeOK, LogInv, Allowed
    <3>2. PICK w \in Edits : rule = Written(NoRow, w)
      BY DEF Init
    <3> QED
      BY <3>1, <3>2 DEF Written, Row
  <2>2. Logged = <<>>
    BY FS_EmptySet DEF Init, Logged
  <2>3. RuleOfLog \in [{1} -> {row \in Ledger!RuleRow : row.exists}]
    BY <2>1 DEF RuleOfLog, Ledger!RuleRow, Row
  <2> QED
    BY <2>2, <2>3 DEF Ledger!Init, RuleOfLog
<1>2. /\ TypeOK /\ LogInv /\ TypeOK' /\ LogInv' /\ [Next]_vars
      => [Ledger!Next]_(Ledger!vars)
  <2> SUFFICES ASSUME TypeOK, LogInv, TypeOK', LogInv', [Next]_vars
               PROVE  [Ledger!Next]_(Ledger!vars)
    OBVIOUS
  <2>1. CASE UNCHANGED <<rule, triggers>>
    BY <2>1, LogStutters
  <2>2. Tick \/ UNCHANGED vars => UNCHANGED <<rule, triggers>>
    BY DEF Tick, vars, edits, evaluations
  <2>3. ASSUME NEW e \in Events, Fire(e), UNCHANGED rule PROVE [Ledger!Next]_(Ledger!vars)
    BY <2>1, <2>3, RecordStep DEF LogInv
  <2> QED
    BY <2>1, <2>2, <2>3, OtherSteps, RequestRefines DEF Next
<1>3. Init => TypeOK /\ LogInv
  BY InitType, InitLog
<1>4. TypeOK /\ LogInv /\ [Next]_vars => TypeOK' /\ LogInv'
  BY NextType, NextLog
<1> QED
  BY <1>1, <1>2, <1>3, <1>4, PTL DEF Spec, ImplementsLedger, Ledger!Spec
=============================================================================
