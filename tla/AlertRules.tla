----------------------------- MODULE AlertRules -----------------------------
(***************************************************************************)
(* One alert rule: the requests that edit it (api.views, api.serializers,  *)
(* monitoring.views, monitoring.admin), and what the evaluations of it by  *)
(* monitoring.tasks.process_event count and compare.  AlertPipeline has    *)
(* the transactions of the workers and leaves open whether a condition     *)
(* holds; here the condition is computed, and the section under the row    *)
(* lock is one step, as AlertPipeline!LockProtectsChecks allows.           *)
(*                                                                         *)
(* A request loads the row and saves it later: the API and the admin's     *)
(* form write every column, the toggle of the page only is_active.  An     *)
(* event is stored some time after its created_at was set, and a task      *)
(* evaluates the window that ends at its own clock, query by query.        *)
(*                                                                         *)
(* Abstracted: the rule's name; the filters of one owner (all Projects are *)
(* his); the four decimals a trigger's value is rounded to; overlapping    *)
(* deliveries of one task, which AlertPipeline has.                        *)
(***************************************************************************)
EXTENDS Integers, FiniteSets

CONSTANTS
  Projects,
  Events,     \* primary keys, each given to one event
  Details,    \* Details[e]: the project, type, status and response time of e
  Edits,      \* what requests write: partial functions of the columns of a rule
  Requests,   \* the requests about the rule
  MaxTime,    \* bound on the clock, in minutes
  MaxFaults   \* bound on the tasks that are interrupted

NoResponse == -1

Metric == {"ERROR_COUNT", "ERROR_RATE", "AVG_RESPONSE_TIME"}

Condition == {"GT", "GTE", "LT", "LTE"}

\* The columns of an AlertRule, and whether there is a row at all.
Row == [exists : BOOLEAN, project : Projects, metric : Metric, condition : Condition,
        threshold : Int, time_window_minutes : Nat, cooldown_minutes : Nat,
        is_active : BOOLEAN]

Columns == {"exists", "project", "metric", "condition", "threshold",
            "time_window_minutes", "cooldown_minutes", "is_active"}

NoRow == [exists |-> FALSE, project |-> CHOOSE p \in Projects : TRUE,
          metric |-> "ERROR_COUNT", condition |-> "GT", threshold |-> 0,
          time_window_minutes |-> 1, cooldown_minutes |-> 0, is_active |-> FALSE]

\* A row with what w says of it.
Over(row, w) == [c \in Columns |-> IF c \in DOMAIN w THEN w[c] ELSE row[c]]

\* A row as it was loaded, saved with what w says of it.
Written(row, w) == [Over(row, w) EXCEPT !.exists = TRUE]

ASSUME RulesAssumption ==
  /\ IsFiniteSet(Events) /\ Projects # {}
  /\ \A e \in Events : /\ Details[e].project \in Projects
                        /\ Details[e].response \in Nat \cup {NoResponse}
  /\ \A w \in Edits : DOMAIN w \subseteq Columns \ {"exists"} /\ Over(NoRow, w) \in Row
  /\ MaxTime \in Nat /\ MaxFaults \in Nat

VARIABLES
  now,        \* minutes
  rule,       \* the AlertRule row
  meant,      \* the row as its owner and the admin decided it (ghost)
  overtaken,  \* columns decided about while an edit held the row (ghost)
  req,        \* req[r]: what request r loaded and will save
  created,    \* created[e]: created_at of event e, or NotYet
  stored,     \* events whose transaction has committed and that are still there
  task,       \* task[e]: the process_event task of e
  triggers,   \* AlertTrigger rows of the rule
  faults

edits == <<rule, meant, overtaken, req>>
evaluations == <<created, stored, task, triggers, faults>>
vars == <<now, edits, evaluations>>

NotYet == -1

-----------------------------------------------------------------------------
(* What a rule measures.                                                   *)

ERROR_EVENT_TYPES == {"APPLICATION_ERROR", "DATABASE_ERROR"}

\* _error_query
Errors(S) == {e \in S : Details[e].status >= 400 \/ Details[e].type \in ERROR_EVENT_TYPES}

\* Mutant: created_at__gt.
WindowOpen(e) ==
  LET row == task[e].row IN
  {d \in stored : /\ Details[d].project = Details[e].project
                  /\ created[d] > task[e].now - row.time_window_minutes
                  /\ created[d] <= task[e].now}

\* Mutant: the window has no end.
WindowEndless(e) ==
  LET row     == task[e].row
      minutes == IF row.time_window_minutes < 1 THEN 1 ELSE row.time_window_minutes
  IN  {d \in stored : /\ Details[d].project = Details[e].project
                      /\ created[d] >= task[e].now - minutes}

\* Event d, created at the time at, is of the window of the rule for event e, which
\* ends at the clock of the task of e.
InWindow(d, at, e) ==
  LET row     == task[e].row
      minutes == IF row.time_window_minutes < 1 THEN 1 ELSE row.time_window_minutes
  IN  /\ Details[d].project = Details[e].project
      /\ at >= task[e].now - minutes /\ at <= task[e].now

Window(e) == {d \in stored : InWindow(d, created[d], e)}

\* A measured value is the fraction num / den, or None of no response times.  A
\* rate and an average are floats: side is where one lies that should equal the
\* threshold, a decimal.
Value == [num : Int, den : Nat, side : {-1, 0, 1}]

None == [num |-> 0, den |-> 0, side |-> 0]

Count(n) == [num |-> n, den |-> 1, side |-> 0]

Rate(errors, total) ==
  IF total = 0 THEN Count(0) ELSE [num |-> 100 * errors, den |-> total, side |-> 0]

Floats(v, threshold) ==
  {[v EXCEPT !.side = s] : s \in IF v.den > 0 /\ v.num = threshold * v.den
                                 THEN {-1, 0, 1} ELSE {0}}

\* The sum counts the milliseconds of each event.
Average(S) ==
  LET timed == {e \in S : Details[e].response # NoResponse}
  IN  [num |-> Cardinality(UNION {{e} \X (1 .. Details[e].response) : e \in timed}),
       den |-> Cardinality(timed), side |-> 0]

_condition_matches(condition, v, threshold) ==
  LET t     == threshold * v.den
      above == v.num > t \/ (v.num = t /\ v.side = 1)
      below == v.num < t \/ (v.num = t /\ v.side = -1)
  IN  /\ v # None
      /\ \/ condition = "GT" /\ above
         \/ condition = "GTE" /\ ~below
         \/ condition = "LT" /\ below
         \/ condition = "LTE" /\ ~above

-----------------------------------------------------------------------------
(***************************************************************************)
(* A request: "api" - PUT or PATCH; "admin" - the admin's form; "toggle";  *)
(* each comes once.                                                        *)
(* A task: queued, or the query that is next ("value", "total", "errors"), *)
(* or "matched", or at its end ("done", "lost").  now and row are what the *)
(* task read when it started, steady says that the rule has not changed    *)
(* since, slipped that an error of the window was stored between its two   *)
(* counts (ghosts).                                                        *)
(***************************************************************************)
Holding == {"api", "admin", "toggle"}

Request == [pc : {"idle", "over"} \cup Holding, row : Row]

Idle == [pc |-> "idle", row |-> NoRow]

Measuring == {"value", "total", "errors", "matched"}

Task == [pc : {"none", "queued", "done", "lost"} \cup Measuring, now : Nat, row : Row,
         total : Nat, value : Value, steady : BOOLEAN, slipped : BOOLEAN]

NoTask == [pc |-> "none", now |-> 0, row |-> NoRow, total |-> 0, value |-> None,
           steady |-> FALSE, slipped |-> FALSE]

\* metric is that of the row under the lock, measured that of the row evaluated;
\* linked is FALSE once the rule was deleted (SET_NULL).
Trigger == [pk : Nat, event : Events, at : Nat, metric : Metric, measured : Metric,
            value : Value, linked : BOOLEAN]

TypeOK ==
  /\ now \in 0 .. MaxTime
  /\ rule \in Row /\ meant \in Row /\ overtaken \subseteq Columns
  /\ req \in [Requests -> Request]
  /\ created \in [Events -> Nat \cup {NotYet}] /\ \A e \in Events : created[e] <= now
  /\ stored \subseteq {e \in Events : created[e] # NotYet}
  /\ task \in [Events -> Task] /\ \A e \in Events : task[e].now <= now
  /\ triggers \subseteq Trigger /\ IsFiniteSet(triggers) /\ \A x \in triggers : x.at <= now
  /\ faults \in 0 .. MaxFaults

\* The rule as the form or POST /api/alerts/ created it.
Init ==
  /\ now = 0
  /\ \E w \in Edits : DOMAIN w = Columns \ {"exists"} /\ rule = Written(NoRow, w)
  /\ meant = rule /\ overtaken = {}
  /\ req = [r \in Requests |-> Idle]
  /\ created = [e \in Events |-> NotYet] /\ stored = {}
  /\ task = [e \in Events |-> NoTask]
  /\ triggers = {} /\ faults = 0

-----------------------------------------------------------------------------
(* Requests about the rule.                                                *)

\* A decision of request r about the columns of w, while another may hold the
\* row in order to save all of it.
Decide(r, w) ==
  /\ meant' = Over(meant, w)
  /\ overtaken' = overtaken \cup
       {c \in DOMAIN w : w[c] # meant[c]
                           /\ \E q \in Requests \ {r} : req[q].pc \in {"api", "admin"}}

\* The row becomes new: it is no longer what a task that runs has read.
Change(new) ==
  /\ rule' = new
  /\ task' = [e \in Events |-> [task[e] EXCEPT !.steady = @ /\ new = rule]]
  /\ UNCHANGED <<now, created, stored, triggers, faults>>

Load(r, pc) ==
  /\ req[r].pc = "idle"
  /\ rule.exists
  /\ req' = [req EXCEPT ![r] = [pc |-> pc, row |-> rule]]
  /\ UNCHANGED <<now, rule, meant, overtaken, evaluations>>

End(r) == req' = [req EXCEPT ![r] = [Idle EXCEPT !.pc = "over"]]

\* AlertRuleSerializer.validate looks at what the request sends, not at the row.
ThresholdPossible(w) ==
  {"metric", "threshold"} \subseteq DOMAIN w =>
    w.metric # "ERROR_RATE" \/ w.threshold <= 100

\* AlertDetailView: every column of the row loaded, and of w, is saved; a row
\* that is gone is inserted again.
ApiSave(r, w) ==
  /\ req[r].pc = "api"
  /\ ThresholdPossible(w)
  /\ Change(Written(req[r].row, w))
  /\ Decide(r, w)
  /\ End(r)

\* The admin's form does the same, without that check.
AdminSave(r, w) ==
  /\ req[r].pc = "admin"
  /\ Change(Written(req[r].row, w))
  /\ Decide(r, w)
  /\ End(r)

\* Mutant: update_fields is forgotten.
ToggleSaveAll(r) ==
  LET w == [is_active |-> ~req[r].row.is_active] IN
  /\ req[r].pc = "toggle"
  /\ rule.exists
  /\ Change(Written(req[r].row, w))
  /\ Decide(r, w)
  /\ End(r)

\* alert_toggle saves the negation of what it loaded, in that column alone; if
\* the row is gone it fails (Abandon).
ToggleSave(r) ==
  LET w == [is_active |-> ~req[r].row.is_active] IN
  /\ req[r].pc = "toggle"
  /\ rule.exists
  /\ Change(Written(rule, w))
  /\ Decide(r, w)
  /\ End(r)

\* DELETE, or the project's deletion, sets the rule of its triggers to NULL.
Delete(r) ==
  /\ req[r].pc = "idle"
  /\ rule.exists
  /\ rule' = [rule EXCEPT !.exists = FALSE]
  /\ Decide(r, [exists |-> FALSE])
  /\ End(r)
  /\ triggers' = {[x EXCEPT !.linked = FALSE] : x \in triggers}
  /\ task' = [e \in Events |-> [task[e] EXCEPT !.steady = FALSE]]
  /\ UNCHANGED <<now, created, stored, faults>>

\* A request that fails or finds its form invalid.
Abandon(r) ==
  /\ req[r].pc \in Holding
  /\ End(r)
  /\ UNCHANGED <<now, rule, meant, overtaken, evaluations>>

-----------------------------------------------------------------------------
(* Events.                                                                 *)

Tick ==
  /\ now < MaxTime
  /\ now' = now + 1
  /\ UNCHANGED <<edits, evaluations>>

\* POST /api/events/ saves the event; its transaction is open.
Receive(e) ==
  /\ created[e] = NotYet
  /\ created' = [created EXCEPT ![e] = now]
  /\ UNCHANGED <<now, edits, stored, task, triggers, faults>>

\* e appears: if it is an error, then behind the back of the tasks between their two
\* counts in whose window it is.
Slip(e, at) ==
  [d \in Events |->
     [task[d] EXCEPT !.slipped = @ \/ /\ task[d].pc = "errors"
                                      /\ e \in Errors({e}) /\ InWindow(e, at, d)]]

\* It commits, and the hook enqueues the task unless the broker fails.
Store(e) ==
  /\ created[e] # NotYet /\ task[e].pc = "none" /\ e \notin stored
  /\ stored' = stored \cup {e}
  /\ \E pc \in {"queued", "lost"} :
       task' = [Slip(e, created[e]) EXCEPT ![e].pc = pc]
  /\ UNCHANGED <<now, edits, created, triggers, faults>>

\* seed_demo_data stores events of any age, and no task.
Import(e, at) ==
  /\ created[e] = NotYet
  /\ created' = [created EXCEPT ![e] = at]
  /\ stored' = stored \cup {e}
  /\ task' = [Slip(e, at) EXCEPT ![e].pc = "lost"]
  /\ UNCHANGED <<now, edits, triggers, faults>>

\* seed_demo_data --reset, cleanup_old_events.
Remove(e) ==
  /\ e \in stored
  /\ stored' = stored \ {e}
  /\ UNCHANGED <<now, edits, created, task, triggers, faults>>

-----------------------------------------------------------------------------
(* process_event.                                                          *)

Evaluated == <<now, edits, created, stored, faults>>

\* Mutant: the rules are not filtered by project.
StartTaskAnyProject(e) ==
  LET found == e \in stored /\ rule.exists /\ rule.is_active
  IN  /\ task[e].pc = "queued"
      /\ task' = [task EXCEPT ![e] =
           [NoTask EXCEPT !.now = now, !.row = rule, !.steady = TRUE,
              !.pc = IF ~found THEN "done"
                     ELSE IF rule.metric = "ERROR_RATE" THEN "total" ELSE "value"]]
      /\ UNCHANGED <<Evaluated, triggers>>

\* The event, the clock and the active rules of the event's project are read.
StartTask(e) ==
  LET found == /\ e \in stored
               /\ rule.exists /\ rule.is_active /\ rule.project = Details[e].project
  IN  /\ task[e].pc = "queued"
      /\ task' = [task EXCEPT ![e] =
           [NoTask EXCEPT !.now = now, !.row = rule, !.steady = TRUE,
              !.pc = IF ~found THEN "done"
                     ELSE IF rule.metric = "ERROR_RATE" THEN "total" ELSE "value"]]
      /\ UNCHANGED <<Evaluated, triggers>>

\* The metric's value is compared with the threshold.
Judge(e, v) ==
  /\ task' = [task EXCEPT ![e].value = v, ![e].total = 0,
        ![e].pc = IF _condition_matches(task[e].row.condition, v, task[e].row.threshold)
                  THEN "matched" ELSE "done"]
  /\ UNCHANGED <<Evaluated, triggers>>

MeasureValue(e) ==
  /\ task[e].pc = "value"
  /\ \/ /\ task[e].row.metric = "ERROR_COUNT"
        /\ Judge(e, Count(Cardinality(Errors(Window(e)))))
     \/ /\ task[e].row.metric # "ERROR_COUNT"
        /\ \E v \in Floats(Average(Window(e)), task[e].row.threshold) : Judge(e, v)

\* An error rate is two queries: the events of the window ...
CountTotal(e) ==
  LET total == Cardinality(Window(e)) IN
  /\ task[e].pc = "total"
  /\ \/ total = 0 /\ Judge(e, Rate(0, 0))
     \/ /\ total > 0
        /\ task' = [task EXCEPT ![e].total = total, ![e].pc = "errors"]
        /\ UNCHANGED <<Evaluated, triggers>>

\* ... and the errors among those that are in it by now.
CountErrors(e) ==
  /\ task[e].pc = "errors"
  /\ \E v \in Floats(Rate(Cardinality(Errors(Window(e))), task[e].total),
                     task[e].row.threshold) : Judge(e, v)

Marked(e) == \E x \in triggers : x.linked /\ x.event = e

\* Mutant: the cooldown of the row that matched, not of the row locked.
CoolingDown_OfMatched(e) ==
  /\ task[e].row.cooldown_minutes > 0
  /\ \E x \in triggers : /\ x.linked /\ x.at >= now - task[e].row.cooldown_minutes
                          /\ Details[x.event].project = Details[e].project

CoolingDown(e) ==
  /\ rule.cooldown_minutes > 0
  /\ \E x \in triggers : /\ x.linked /\ x.at >= now - rule.cooldown_minutes
                          /\ Details[x.event].project = Details[e].project

NewTrigger(e) ==
  [pk |-> Cardinality(triggers) + 1, event |-> e, at |-> now, metric |-> rule.metric,
   measured |-> task[e].row.metric, value |-> task[e].value, linked |-> TRUE]

\* _create_rule_trigger: of the row locked, which may differ from the one that
\* matched, only is_active and the cooldown decide; its metric names the trigger.
Fire(e) ==
  LET fires == rule.exists /\ rule.is_active /\ ~Marked(e) /\ ~CoolingDown(e) IN
  /\ task[e].pc = "matched"
  /\ task' = [task EXCEPT ![e].pc = "done"]
  /\ \/ /\ fires
        /\ triggers' = triggers \cup {NewTrigger(e)}
     \/ ~fires /\ UNCHANGED triggers
  /\ UNCHANGED Evaluated

\* A worker is lost or the database fails: the task is delivered or tried again,
\* or given up.
Interrupt(e) ==
  /\ task[e].pc \in Measuring
  /\ faults < MaxFaults
  /\ faults' = faults + 1
  /\ \E pc \in {"queued", "lost"} : task' = [task EXCEPT ![e].pc = pc]
  /\ UNCHANGED <<now, edits, created, stored, triggers>>

Next ==
  \/ Tick
  \/ \E r \in Requests :
       \/ \E pc \in Holding : Load(r, pc)
       \/ \E w \in Edits : ApiSave(r, w) \/ AdminSave(r, w)
       \/ ToggleSave(r) \/ Delete(r) \/ Abandon(r)
  \/ \E e \in Events :
       \/ Receive(e) \/ Store(e) \/ Remove(e)
       \/ \E at \in 0 .. now : Import(e, at)
       \/ StartTask(e) \/ MeasureValue(e) \/ CountTotal(e) \/ CountErrors(e)
       \/ Fire(e) \/ Interrupt(e)

Spec == Init /\ [][Next]_vars
-----------------------------------------------------------------------------
(* Properties.                                                             *)

(***************************************************************************)
(* A column of the rule is as the last edit, toggle or deletion about it   *)
(* made it, whatever was saved at the same time about other columns,       *)
(* unless that decision was saved while the API or the admin's form held   *)
(* the row.                                                                *)
(***************************************************************************)
ColumnsAreMeant == \A c \in Columns \ overtaken : rule[c] = meant[c]

(***************************************************************************)
(* A rule fires only while it is there and enabled; and if it was not      *)
(* edited, moved or deleted while the task ran, it fires for an event of   *)
(* its own project, under the name of the metric that was measured, and on *)
(* a value that meets the condition it has when it fires.                  *)
(***************************************************************************)
FiresAsItIs ==
  [][\A x \in triggers' \ triggers : x.linked =>
       /\ rule.exists /\ rule.is_active
       /\ task[x.event].steady =>
            /\ rule.project = Details[x.event].project
            /\ x.metric = x.measured
            /\ _condition_matches(rule.condition, x.value, rule.threshold)]_vars

(***************************************************************************)
(* Errors that together pass the threshold of an ERROR_COUNT rule, and     *)
(* whose tasks all began within the window of the first of them, have      *)
(* fired it once these tasks have ended: no interleaving of the tasks and  *)
(* of other events lets each of them count too few.  One of them has its   *)
(* trigger, or a trigger within the cooldown kept them quiet.              *)
(***************************************************************************)
BurstsAreNoticed ==
  \A S \in SUBSET {e \in Errors(stored) : /\ task[e].pc = "done" /\ task[e].steady
                                          /\ Details[e].project = rule.project} :
    /\ S # {}
    /\ rule.exists /\ rule.is_active
    /\ rule.metric = "ERROR_COUNT" /\ rule.condition \in {"GT", "GTE"}
    /\ _condition_matches(rule.condition, Count(Cardinality(S)), rule.threshold)
    /\ \A d, e \in S : created[d] >= task[e].now - rule.time_window_minutes
    => \E x \in triggers :
         /\ x.linked
         /\ x.event \in S \/ \A e \in S : x.at >= task[e].now - rule.cooldown_minutes

(***************************************************************************)
(* An error rate is at most 100 percent, although its two counts are       *)
(* separate queries, unless an error of its own window was committed       *)
(* between them.                                                           *)
(***************************************************************************)
RatesArePercentages ==
  \A e \in Events : task[e].row.metric = "ERROR_RATE" =>
    task[e].slipped \/ task[e].value.num <= 100 * task[e].value.den

\* The values cooldown_minutes takes, and the AlertTrigger rows in the order of
\* their primary keys.
Cooldowns == {Over(NoRow, w).cooldown_minutes : w \in Edits}

TriggerRow(i) == CHOOSE x \in triggers : x.pk = i

Logged ==
  [i \in 1 .. Cardinality(triggers) |->
     [rule |-> IF TriggerRow(i).linked THEN 1 ELSE 0, event |-> TriggerRow(i).event, at |-> TriggerRow(i).at]]

(***************************************************************************)
(* One rule, whose row requests load, save and delete over each other and  *)
(* move between projects, and whose tasks compare with the row they read   *)
(* and fire with the row they lock, still keeps the log AlertLedger        *)
(* specifies: it fires only while it is there and enabled, once for an     *)
(* event, and outside the cooldown that holds when it fires.               *)
(***************************************************************************)
Ledger == INSTANCE AlertLedger WITH
  Rules     <- {1},
  ProjectOf <- [e \in Events |-> Details[e].project],
  rules     <- [r \in {1} |-> [exists    |-> rule.exists,
                              is_active |-> rule.exists /\ rule.is_active,
                              cooldown  |-> rule.cooldown_minutes]],
  triggers  <- Logged,
  mailed    <- {}

ImplementsLedger == Ledger!Spec
=============================================================================
