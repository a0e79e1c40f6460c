--------------------------- MODULE AlertPipeline ---------------------------
(***************************************************************************)
(* Alert evaluation: monitoring.tasks.process_event and                    *)
(* _create_rule_trigger, run by several Celery workers over one PostgreSQL *)
(* database, with notifications.services.create_notification and the       *)
(* on_commit hooks that push the notification and enqueue its email.       *)
(*                                                                         *)
(* One project, whose rules are edited, toggled and deleted while workers  *)
(* evaluate them.  The broker redelivers (acks_late,                       *)
(* reject_on_worker_lost); a database error retries a task; workers crash  *)
(* between any two steps; a hook may fail.                                 *)
(*                                                                         *)
(* Abstracted: whether a rule's condition holds at an evaluation is a      *)
(* free choice (the windows, metrics and thresholds only feed that         *)
(* Boolean), and a trigger and its notification, created by one            *)
(* transaction, are one row.  Rules are created before the events come,    *)
(* and stay in their project.                                              *)
(***************************************************************************)
EXTENDS Naturals, Sequences, FiniteSets

CONSTANTS
  Rules,       \* primary keys of the project's alert rules
  Events,      \* the events the project ingests
  Cooldowns,   \* the values cooldown_minutes takes
  Workers,     \* the processes of the Celery prefork pool
  NoEvent,     \* the event of an idle worker
  MaxRetries,  \* max_retries of process_event (3 in the code)
  MaxTime,     \* bound on the clock
  MaxFaults    \* bound on the faults of the environment, all kinds together

ASSUME PipelineAssumption == /\ Rules \subseteq Nat \ {0}
                             /\ Cooldowns \subseteq Nat
                             /\ NoEvent \notin Events
                             /\ MaxRetries \in Nat
                             /\ MaxTime \in Nat
                             /\ MaxFaults \in Nat

VARIABLES
  rules,    \* rules[r]: the AlertRule row r
  triggers, \* the AlertTrigger rows (each with its Notification), in primary-key order
  mailed,   \* triggers whose notification email was enqueued
  event,    \* event[e]: is the Event row not yet stored, stored or deleted
  queue,    \* the process_event messages waiting at the broker
  worker,   \* worker[w]: what worker w is doing (WorkerState)
  pushed,   \* triggers whose notification was broadcast to the user's group
  now,      \* the clock, in minutes
  faults    \* faults so far

vars == <<rules, triggers, mailed, event, queue, worker, pushed, now, faults>>

RuleRow == [exists : BOOLEAN, is_active : BOOLEAN, cooldown : Cooldowns]

\* rule = 0 (NULL) once the rule was deleted.
Trigger == [rule : Rules \cup {0}, event : Events, at : 0..MaxTime]

Message == [event : Events, retries : 0..MaxRetries]

(***************************************************************************)
(* pc: "loop"   - in the for loop of process_event;                        *)
(*     "lock"   - in _create_rule_trigger, before the row lock is granted; *)
(*     "commit" - trigger inserted, transaction open, row lock held;       *)
(*     "push"   - committed, the _broadcast hook is next;                  *)
(*     "mail"   - the _enqueue_email hook is next.                         *)
(* todo is what is left of the snapshot of active rules; rule, at and pk   *)
(* are the rule being fired, the time read before its lock, and the row it *)
(* committed.                                                              *)
(***************************************************************************)
WorkerState ==
  [pc : {"idle", "loop", "lock", "commit", "push", "mail"},
   event : Events \cup {NoEvent}, retries : 0..MaxRetries,
   todo : SUBSET Rules, rule : Rules \cup {0}, at : 0..MaxTime, pk : Nat]

Idle == [pc |-> "idle", event |-> NoEvent, retries |-> 0,
         todo |-> {}, rule |-> 0, at |-> 0, pk |-> 0]

WorkersOK ==
  /\ worker \in [Workers -> WorkerState]
  /\ \A w \in Workers :
       /\ worker[w].pc # "idle" => worker[w].event \in Events
       /\ worker[w].pc \in {"lock", "commit"} => worker[w].rule \in Rules

TypeOK ==
  /\ rules \in [Rules -> RuleRow]
  /\ triggers \in Seq(Trigger)
  /\ mailed \subseteq Nat
  /\ event \in [Events -> {"new", "stored", "deleted"}]
  /\ queue \subseteq Message
  /\ WorkersOK
  /\ pushed \subseteq Nat
  /\ now \in 0..MaxTime
  /\ faults \in 0..MaxFaults

Init ==
  /\ rules \in [Rules -> {row \in RuleRow : row.exists}]
  /\ triggers = <<>>
  /\ mailed = {}
  /\ event = [e \in Events |-> "new"]
  /\ queue = {}
  /\ worker = [w \in Workers |-> Idle]
  /\ pushed = {}
  /\ now = 0
  /\ faults = 0

-----------------------------------------------------------------------------
Fault == faults < MaxFaults /\ faults' = faults + 1

\* AlertRule row r is locked by an open transaction of _create_rule_trigger.
Locked(r) == \E w \in Workers : worker[w].pc = "commit" /\ worker[w].rule = r

\* Worker w goes on with its message.
Goto(w, pc, todo, rule, at, pk) ==
  worker' = [worker EXCEPT ![w] =
    [pc |-> pc, event |-> worker[w].event, retries |-> worker[w].retries,
     todo |-> todo, rule |-> rule, at |-> at, pk |-> pk]]

\* Worker w leaves its rule behind and takes the next one of its snapshot.
NextRule(w) == Goto(w, "loop", worker[w].todo \ {worker[w].rule}, 0, 0, 0)

\* Worker w is done with its message, for better or worse: acks_late acks it.
Settle(w) == worker' = [worker EXCEPT ![w] = Idle]

\* A trigger of rule r already carries the marker of event e.
Marked(r, e) ==
  \E i \in DOMAIN triggers : triggers[i].rule = r /\ triggers[i].event = e

\* Mutant: the cutoff itself is outside the cooldown (__gt for __gte).
CoolingDownStrict(r, t) ==
  /\ rules[r].cooldown > 0
  /\ \E i \in DOMAIN triggers :
       triggers[i].rule = r /\ triggers[i].at + rules[r].cooldown > t

\* A trigger of rule r is no older than the cutoff, t minus the cooldown.
CoolingDown(r, t) ==
  /\ rules[r].cooldown > 0
  /\ \E i \in DOMAIN triggers :
       triggers[i].rule = r /\ triggers[i].at + rules[r].cooldown >= t

-----------------------------------------------------------------------------
(* The environment: ingestion, the clock, the owner's edits.               *)

\* POST /api/events stores e; its hook enqueues process_event, or swallows
\* the broker's error (or the web process dies before the hook runs).
Ingest(e) ==
  /\ event[e] = "new"
  /\ event' = [event EXCEPT ![e] = "stored"]
  /\ \/ queue' = queue \cup {[event |-> e, retries |-> 0]} /\ UNCHANGED faults
     \/ Fault /\ UNCHANGED queue
  /\ UNCHANGED <<rules, triggers, mailed, worker, pushed, now>>

\* Retention or a project edit removes the row before its task runs.
DeleteEvent(e) ==
  /\ event[e] = "stored"
  /\ event' = [event EXCEPT ![e] = "deleted"]
  /\ UNCHANGED <<rules, triggers, mailed, queue, worker, pushed, now, faults>>

Tick ==
  /\ now < MaxTime
  /\ now' = now + 1
  /\ UNCHANGED <<rules, triggers, mailed, event, queue, worker, pushed, faults>>

\* Mutant: an edit that does not wait for the row lock.
SaveRuleUnlocked(r, is_active, cooldown) ==
  /\ rules[r].exists
  /\ rules' = [rules EXCEPT ![r] = [exists |-> TRUE, is_active |-> is_active,
                                    cooldown |-> cooldown]]
  /\ UNCHANGED <<triggers, mailed, event, queue, worker, pushed, now, faults>>

\* The toggle view, the admin's form or PATCH/PUT /api/alerts/<pk>: an UPDATE
\* waits for the row lock.  Any of them may carry stale values, so all are free.
SaveRule(r, is_active, cooldown) ==
  /\ rules[r].exists
  /\ ~Locked(r)
  /\ rules' = [rules EXCEPT ![r] = [exists |-> TRUE, is_active |-> is_active,
                                    cooldown |-> cooldown]]
  /\ UNCHANGED <<triggers, mailed, event, queue, worker, pushed, now, faults>>

\* PATCH or PUT loads the row, and saves it whole: if the row was deleted in
\* between, save() finds nothing to update and inserts it again.
ReviveRule(r, is_active, cooldown) ==
  /\ ~rules[r].exists
  /\ Fault
  /\ rules' = [rules EXCEPT ![r] = [exists |-> TRUE, is_active |-> is_active,
                                    cooldown |-> cooldown]]
  /\ UNCHANGED <<triggers, mailed, event, queue, worker, pushed, now>>

\* DELETE /api/alerts/<pk>: the rule's triggers stay, with rule = NULL.
DeleteRule(r) ==
  /\ rules[r].exists
  /\ ~Locked(r)
  /\ rules' = [rules EXCEPT ![r] = [exists |-> FALSE, is_active |-> FALSE,
                                    cooldown |-> rules[r].cooldown]]
  /\ triggers' = [i \in DOMAIN triggers |->
                    [rule |-> IF triggers[i].rule = r THEN 0 ELSE triggers[i].rule,
                     event |-> triggers[i].event, at |-> triggers[i].at]]
  /\ UNCHANGED <<mailed, event, queue, worker, pushed, now, faults>>

-----------------------------------------------------------------------------
(* The worker.                                                             *)

\* process_event begins: a missing event ends the task, else the active rules
\* are read once, into the list the loop runs over.
StartTask(w) ==
  /\ worker[w].pc = "idle"
  /\ \E m \in queue :
       /\ queue' = queue \ {m}
       /\ \/ /\ event[m.event] = "stored"
             /\ worker' = [worker EXCEPT ![w] =
                  [pc |-> "loop", event |-> m.event, retries |-> m.retries,
                   todo |-> {r \in Rules : rules[r].exists /\ rules[r].is_active},
                   rule |-> 0, at |-> 0, pk |-> 0]]
          \/ event[m.event] # "stored" /\ UNCHANGED worker
  /\ UNCHANGED <<rules, triggers, mailed, event, pushed, now, faults>>

\* One iteration of the loop, newest rule first: the metric is computed, and
\* either the condition does not hold or the rule is to be fired, with the time
\* read now, before the lock.
Evaluate(w) ==
  /\ worker[w].pc = "loop"
  /\ \E r \in worker[w].todo :
       /\ \A s \in worker[w].todo : s <= r
       /\ \/ Goto(w, "loop", worker[w].todo \ {r}, 0, 0, 0)
          \/ Goto(w, "lock", worker[w].todo, r, now, 0)
  /\ UNCHANGED <<rules, triggers, mailed, event, queue, pushed, now, faults>>

\* Mutant: get() in place of select_for_update().get().
LockRuleUnlocked(w) ==
  LET r == worker[w].rule IN
  /\ worker[w].pc = "lock"
  /\ \/ ~rules[r].exists /\ Settle(w)
     \/ /\ rules[r].exists
        /\ ~rules[r].is_active \/ Marked(r, worker[w].event) \/ CoolingDown(r, worker[w].at)
        /\ NextRule(w)
     \/ /\ rules[r].exists /\ rules[r].is_active
        /\ ~Marked(r, worker[w].event)
        /\ ~CoolingDown(r, worker[w].at)
        /\ Goto(w, "commit", worker[w].todo, r, worker[w].at, 0)
  /\ UNCHANGED <<rules, triggers, mailed, event, queue, pushed, now, faults>>

\* Mutant: is_active is taken from the snapshot, not from the locked row.
LockRuleTrustsSnapshot(w) ==
  LET r == worker[w].rule IN
  /\ worker[w].pc = "lock"
  /\ ~Locked(r)
  /\ \/ ~rules[r].exists /\ Settle(w)
     \/ /\ rules[r].exists
        /\ Marked(r, worker[w].event) \/ CoolingDown(r, worker[w].at)
        /\ NextRule(w)
     \/ /\ rules[r].exists
        /\ ~Marked(r, worker[w].event)
        /\ ~CoolingDown(r, worker[w].at)
        /\ Goto(w, "commit", worker[w].todo, r, worker[w].at, 0)
  /\ UNCHANGED <<rules, triggers, mailed, event, queue, pushed, now, faults>>

\* Mutant: a worker whose rule was deleted keeps asking for its row.
LockRuleIgnoresDeletion(w) ==
  LET r == worker[w].rule IN
  /\ worker[w].pc = "lock"
  /\ ~Locked(r)
  /\ \/ /\ rules[r].exists
        /\ ~rules[r].is_active \/ Marked(r, worker[w].event) \/ CoolingDown(r, worker[w].at)
        /\ NextRule(w)
     \/ /\ rules[r].exists /\ rules[r].is_active
        /\ ~Marked(r, worker[w].event)
        /\ ~CoolingDown(r, worker[w].at)
        /\ Goto(w, "commit", worker[w].todo, r, worker[w].at, 0)
  /\ UNCHANGED <<rules, triggers, mailed, event, queue, pushed, now, faults>>

\* select_for_update() is granted, and the checks run under the lock: a deleted
\* rule raises DoesNotExist, which ends the task with rules still in todo; a
\* disabled rule, an event seen before or a cooldown ends the transaction with
\* nothing written; else the trigger is inserted and the transaction is open.
LockRule(w) ==
  LET r == worker[w].rule IN
  /\ worker[w].pc = "lock"
  /\ ~Locked(r)
  /\ \/ ~rules[r].exists /\ Settle(w)
     \/ /\ rules[r].exists
        /\ ~rules[r].is_active \/ Marked(r, worker[w].event) \/ CoolingDown(r, worker[w].at)
        /\ NextRule(w)
     \/ /\ rules[r].exists /\ rules[r].is_active
        /\ ~Marked(r, worker[w].event)
        /\ ~CoolingDown(r, worker[w].at)
        /\ Goto(w, "commit", worker[w].todo, r, worker[w].at, 0)
  /\ UNCHANGED <<rules, triggers, mailed, event, queue, pushed, now, faults>>

\* The rows of w's open transaction become visible.
Insert(w) ==
  triggers' = Append(triggers, [rule |-> worker[w].rule, event |-> worker[w].event,
                                at |-> worker[w].at])

\* Mutant: the hooks are not registered.
CommitWithoutHooks(w) ==
  /\ worker[w].pc = "commit"
  /\ Insert(w)
  /\ NextRule(w)
  /\ UNCHANGED <<rules, mailed, event, queue, pushed, now, faults>>

\* Mutant: the email hook is registered before the broadcast.
CommitMailFirst(w) ==
  /\ worker[w].pc = "commit"
  /\ Insert(w)
  /\ Goto(w, "mail", worker[w].todo, worker[w].rule, 0, Len(triggers) + 1)
  /\ UNCHANGED <<rules, mailed, event, queue, pushed, now, faults>>

\* The transaction commits; its hooks run next, in the order of registration.
Commit(w) ==
  /\ worker[w].pc = "commit"
  /\ Insert(w)
  /\ Goto(w, "push", worker[w].todo, worker[w].rule, 0, Len(triggers) + 1)
  /\ UNCHANGED <<rules, mailed, event, queue, pushed, now, faults>>

\* First hook, _broadcast.  Nothing catches its exception, so an unreachable
\* channel layer drops the second hook and ends the task.
Push(w) ==
  /\ worker[w].pc = "push"
  /\ \/ /\ pushed' = pushed \cup {worker[w].pk}
        /\ Goto(w, "mail", worker[w].todo, worker[w].rule, 0, worker[w].pk)
        /\ UNCHANGED faults
     \/ Fault /\ Settle(w) /\ UNCHANGED pushed
  /\ UNCHANGED <<rules, triggers, mailed, event, queue, now>>

\* Second hook, _enqueue_email, which swallows every exception.
Mail(w) ==
  /\ worker[w].pc = "mail"
  /\ \/ mailed' = mailed \cup {worker[w].pk} /\ UNCHANGED faults
     \/ Fault /\ UNCHANGED mailed
  /\ NextRule(w)
  /\ UNCHANGED <<rules, triggers, event, queue, pushed, now>>

\* The loop is over: process_event returns.
Finish(w) ==
  /\ worker[w].pc = "loop"
  /\ worker[w].todo = {}
  /\ Settle(w)
  /\ UNCHANGED <<rules, triggers, mailed, event, queue, pushed, now, faults>>

-----------------------------------------------------------------------------
(* Faults.                                                                 *)

\* Mutant: no limit on retries.
RetryUncapped(w) ==
  /\ Settle(w)
  /\ queue' = queue \cup {[event |-> worker[w].event, retries |-> worker[w].retries + 1]}

\* autoretry_for: the open transaction is rolled back and the task retried, up
\* to MaxRetries times; then it has failed for good.
Retry(w) ==
  /\ Settle(w)
  /\ queue' = IF worker[w].retries < MaxRetries
              THEN queue \cup {[event |-> worker[w].event, retries |-> worker[w].retries + 1]}
              ELSE queue

DatabaseError(w) ==
  /\ worker[w].pc \in {"loop", "lock", "commit"}
  /\ Fault
  /\ Retry(w)
  /\ UNCHANGED <<rules, triggers, mailed, event, pushed, now>>

\* The connection is lost during COMMIT: the rows are durable, the worker sees
\* an OperationalError, and no hook runs.
CommitUnknown(w) ==
  /\ worker[w].pc = "commit"
  /\ Fault
  /\ Insert(w)
  /\ Retry(w)
  /\ UNCHANGED <<rules, mailed, event, pushed, now>>

\* The worker process is lost: rolled back, and the message is redelivered.
Crash(w) ==
  /\ worker[w].pc # "idle"
  /\ Fault
  /\ Settle(w)
  /\ queue' = queue \cup {[event |-> worker[w].event, retries |-> worker[w].retries]}
  /\ UNCHANGED <<rules, triggers, mailed, event, pushed, now>>

\* The broker loses the consumer and delivers the unacknowledged message again
\* while w is still working on it.
Redeliver(w) ==
  /\ worker[w].pc # "idle"
  /\ Fault
  /\ queue' = queue \cup {[event |-> worker[w].event, retries |-> worker[w].retries]}
  /\ UNCHANGED <<rules, triggers, mailed, event, worker, pushed, now>>

\* The task is stopped at its time limit: rolled back, acknowledged as failed.
TimeLimit(w) ==
  /\ worker[w].pc # "idle"
  /\ Fault
  /\ Settle(w)
  /\ UNCHANGED <<rules, triggers, mailed, event, queue, pushed, now>>

-----------------------------------------------------------------------------
Environment ==
  \/ \E e \in Events : Ingest(e) \/ DeleteEvent(e)
  \/ Tick
  \/ \E r \in Rules, is_active \in BOOLEAN, cooldown \in Cooldowns :
       SaveRule(r, is_active, cooldown) \/ ReviveRule(r, is_active, cooldown)
  \/ \E r \in Rules : DeleteRule(r)

Work(w) ==
  \/ StartTask(w) \/ Evaluate(w) \/ LockRule(w) \/ Commit(w)
  \/ Push(w) \/ Mail(w) \/ Finish(w)

Failure(w) ==
  \/ DatabaseError(w) \/ CommitUnknown(w) \/ Crash(w) \/ Redeliver(w) \/ TimeLimit(w)

Next == Environment \/ \E w \in Workers : Work(w) \/ Failure(w)

Spec == Init /\ [][Next]_vars

\* A live worker keeps working; PostgreSQL grants a free row lock to a waiter.
FairSpec == Spec /\ \A w \in Workers : WF_vars(Work(w))
-----------------------------------------------------------------------------
(* Properties.                                                             *)

(***************************************************************************)
(* The row lock of select_for_update() protects what the checks of         *)
(* _create_rule_trigger read until the transaction ends: while a worker    *)
(* has a trigger inserted and not committed, nobody else is in that        *)
(* section for the rule, the rule is still there and enabled, and neither  *)
(* the marker nor the cooldown has come to forbid the trigger, although    *)
(* its time was read before the lock was granted.                          *)
(***************************************************************************)
LockProtectsChecks ==
  \A w \in Workers : worker[w].pc = "commit" =>
    /\ \A v \in Workers : worker[v].pc = "commit" /\ worker[v].rule = worker[w].rule => v = w
    /\ rules[worker[w].rule].exists
    /\ rules[worker[w].rule].is_active
    /\ ~Marked(worker[w].rule, worker[w].event)
    /\ ~CoolingDown(worker[w].rule, worker[w].at)

(***************************************************************************)
(* A committed trigger is broadcast before its email is enqueued, and each *)
(* of its two hooks is run by one worker, once: create_notification        *)
(* registers _broadcast before _create_rule_trigger registers              *)
(* _enqueue_email, and the hooks of a transaction are not shared.          *)
(***************************************************************************)
HooksRunOnceInOrder ==
  /\ mailed \subseteq pushed
  /\ pushed \subseteq DOMAIN triggers
  /\ \A w \in Workers :
       /\ worker[w].pc \in {"push", "mail"} =>
            /\ worker[w].pk \in DOMAIN triggers \ mailed
            /\ worker[w].pc = "mail" <=> worker[w].pk \in pushed
       /\ \A v \in Workers :
            {worker[v].pc, worker[w].pc} \subseteq {"push", "mail"}
              /\ worker[v].pk = worker[w].pk => v = w

(***************************************************************************)
(* A new trigger of a rule with a cooldown is later than every trigger the *)
(* rule has by more than the cooldown in force when it is committed, even  *)
(* when it carries a time read before another worker's trigger.            *)
(***************************************************************************)
CooldownHonoured ==
  [][\A i \in DOMAIN triggers' \ DOMAIN triggers :
       LET r == triggers'[i].rule
       IN  rules[r].cooldown > 0 =>
             \A j \in DOMAIN triggers :
               triggers[j].rule = r => triggers[j].at + rules[r].cooldown < triggers'[i].at]_vars

(***************************************************************************)
(* The pipeline, with its workers, locks, redeliveries and faults,         *)
(* implements the log of triggers AlertLedger specifies: the variables the *)
(* two share are the mapping, and the queue, the workers and the clock are *)
(* hidden.                                                                 *)
(***************************************************************************)
Ledger == INSTANCE AlertLedger WITH
  ProjectOf <- [e \in Events |-> "the project"],
  rules <- rules, triggers <- triggers, mailed <- mailed
ImplementsLedger == Ledger!Spec

(***************************************************************************)
(* No rule fires twice for one event, although the event's task is         *)
(* delivered, retried and run by several workers.                          *)
(***************************************************************************)
OneTriggerPerEvent == Ledger!OneTriggerPerEvent

(***************************************************************************)
(* Whatever fails, and however the owner edits the rules meanwhile, the    *)
(* queue drains and every worker comes to rest: no task waits for a lock   *)
(* for ever and no task is retried for ever.                               *)
(***************************************************************************)
PipelineDrains == <>[](queue = {} /\ \A w \in Workers : worker[w] = Idle)

(***************************************************************************)
(* In the end, every trigger's email has been enqueued but for at most one *)
(* per fault: whatever fails, and whenever, loses one email at most, and   *)
(* without a fault none is lost.  A lost one stays lost, as the hooks are  *)
(* not part of what a retried task repeats: its trigger carries the        *)
(* event's marker by then.                                                 *)
(***************************************************************************)
TriggersAreMailed == <>[](Cardinality(DOMAIN triggers \ mailed) <= faults)
=============================================================================
