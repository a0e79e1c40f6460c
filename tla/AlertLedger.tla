---------------------------- MODULE AlertLedger ----------------------------
(***************************************************************************)
(* What the alert pipeline promises the owner of a project, with no        *)
(* workers, no queue and no locks: a log of alert triggers.  A rule        *)
(* records a trigger only while it exists and is enabled, at most once for *)
(* an event, and never within its cooldown of another trigger it has in    *)
(* the project of the event; the email of a trigger is handed to the       *)
(* mailer at most once, and only after the trigger is recorded.            *)
(* AlertPipeline, with its workers, and AlertRules, with its overlapping   *)
(* edits and moves between projects, implement this specification.         *)
(***************************************************************************)
EXTENDS Naturals, Sequences

CONSTANTS
  Rules,      \* primary keys of alert rules
  Events,     \* the events that are ingested
  ProjectOf,  \* ProjectOf[e]: the project of event e
  Cooldowns,  \* the values cooldown_minutes takes
  MaxTime     \* bound on the clock

VARIABLES
  rules,      \* rules[r]: the AlertRule row r
  triggers,   \* the AlertTrigger rows, in primary-key order
  mailed      \* the triggers whose notification email was enqueued

vars == <<rules, triggers, mailed>>

RuleRow == [exists : BOOLEAN, is_active : BOOLEAN, cooldown : Cooldowns]

\* rule = 0 (NULL) once the rule was deleted.
Trigger == [rule : Rules \cup {0}, event : Events, at : 0..MaxTime]

TypeOK ==
  /\ rules \in [Rules -> RuleRow]
  /\ triggers \in Seq(Trigger)
  /\ mailed \subseteq DOMAIN triggers

Init ==
  /\ rules \in [Rules -> {row \in RuleRow : row.exists}]
  /\ triggers = <<>>
  /\ mailed = {}

\* The owner enables, disables or edits a rule, or brings a deleted one back.
Configure(r) ==
  /\ \E row \in RuleRow : row.exists /\ rules' = [rules EXCEPT ![r] = row]
  /\ UNCHANGED <<triggers, mailed>>

\* The owner deletes a rule; its triggers stay, without it.
Remove(r) ==
  /\ rules[r].exists
  /\ rules' = [rules EXCEPT ![r] = [exists |-> FALSE, is_active |-> FALSE,
                                    cooldown |-> rules[r].cooldown]]
  /\ triggers' = [i \in DOMAIN triggers |->
                    [rule |-> IF triggers[i].rule = r THEN 0 ELSE triggers[i].rule,
                     event |-> triggers[i].event, at |-> triggers[i].at]]
  /\ UNCHANGED mailed

\* Rule r fires for event e at time t.
Record(r, e, t) ==
  /\ rules[r].exists
  /\ rules[r].is_active
  /\ \A i \in DOMAIN triggers :
       triggers[i].rule = r =>
         /\ triggers[i].event # e
         /\ \/ rules[r].cooldown = 0
            \/ ProjectOf[triggers[i].event] # ProjectOf[e]
            \/ triggers[i].at + rules[r].cooldown < t
  /\ triggers' = Append(triggers, [rule |-> r, event |-> e, at |-> t])
  /\ UNCHANGED <<rules, mailed>>

\* The email of trigger i is enqueued.
Mail(i) ==
  /\ i \notin mailed
  /\ mailed' = mailed \cup {i}
  /\ UNCHANGED <<rules, triggers>>

Next ==
  \/ \E r \in Rules : Configure(r) \/ Remove(r)
  \/ \E r \in Rules, e \in Events, t \in 0..MaxTime : Record(r, e, t)
  \/ \E i \in DOMAIN triggers : Mail(i)

Spec == Init /\ [][Next]_vars

(***************************************************************************)
(* No rule records two triggers for one event (the "[event:<pk>]" marker   *)
(* of monitoring/tasks.py), however often the event is processed.          *)
(***************************************************************************)
OneTriggerPerEvent ==
  \A i, j \in DOMAIN triggers :
    /\ triggers[i].rule \in Rules
    /\ triggers[i].rule = triggers[j].rule
    /\ triggers[i].event = triggers[j].event
    => i = j
=============================================================================
