------------------------ MODULE AlertPipelineProofs ------------------------
(***************************************************************************)
(* The safety of AlertPipeline for any rules, events, workers, cooldowns   *)
(* and any number of retries and faults.                                   *)
(***************************************************************************)
EXTENDS AlertPipeline, TLAPS

LEMMA AppendTrigger ==
  ASSUME NEW T, NEW s \in Seq(T), NEW t \in T
  PROVE  /\ Append(s, t) \in Seq(T)
         /\ DOMAIN Append(s, t) = DOMAIN s \cup {Len(s) + 1}
         /\ Len(s) + 1 \in Nat
         /\ Len(s) + 1 \notin DOMAIN s
         /\ Append(s, t)[Len(s) + 1] = t
         /\ \A i \in DOMAIN s : Append(s, t)[i] = s[i]
  OBVIOUS

LEMMA InitType == Init => TypeOK
  BY PipelineAssumption DEF Init, TypeOK, WorkersOK, Idle, WorkerState, RuleRow, Trigger

\* A worker that goes on with its message, or settles it, stays well typed.
LEMMA GotoType ==
  ASSUME WorkersOK, NEW w \in Workers, worker[w].pc # "idle",
         NEW pc \in {"loop", "lock", "commit", "push", "mail"}, NEW todo \in SUBSET Rules,
         NEW rule \in Rules \cup {0}, NEW at \in 0..MaxTime, NEW pk \in Nat,
         pc \in {"lock", "commit"} => rule \in Rules,
         Goto(w, pc, todo, rule, at, pk)
  PROVE  WorkersOK'
  BY DEF WorkersOK, WorkerState, Goto

LEMMA SettleType == ASSUME WorkersOK, NEW w \in Workers, Settle(w) PROVE WorkersOK'
  BY PipelineAssumption DEF WorkersOK, WorkerState, Settle, Idle

LEMMA NextRuleType ==
  ASSUME WorkersOK, NEW w \in Workers, worker[w].pc # "idle", NextRule(w) PROVE WorkersOK'
<1>1. worker[w].todo \ {worker[w].rule} \in SUBSET Rules
  BY DEF WorkersOK, WorkerState
<1> QED
  BY <1>1, GotoType, PipelineAssumption DEF NextRule

\* The message a busy worker would put back into the queue is a message.
LEMMA MessageType ==
  ASSUME WorkersOK, NEW w \in Workers, worker[w].pc # "idle"
  PROVE  /\ worker[w].retries \in 0..MaxRetries
         /\ [event |-> worker[w].event, retries |-> worker[w].retries] \in Message
         /\ worker[w].retries < MaxRetries =>
              [event |-> worker[w].event, retries |-> worker[w].retries + 1] \in Message
  BY PipelineAssumption DEF WorkersOK, WorkerState, Message

\* Inserting w's trigger keeps the rows typed and every primary key valid.
LEMMA InsertType ==
  ASSUME TypeOK, NEW w \in Workers, worker[w].pc = "commit", Insert(w)
  PROVE  /\ triggers' \in Seq(Trigger)
         /\ DOMAIN triggers' = DOMAIN triggers \cup {Len(triggers) + 1}
         /\ Len(triggers) + 1 \in Nat
         /\ Len(triggers) + 1 \notin DOMAIN triggers
         /\ triggers'[Len(triggers) + 1] =
              [rule |-> worker[w].rule, event |-> worker[w].event, at |-> worker[w].at]
         /\ \A i \in DOMAIN triggers : triggers'[i] = triggers[i]
<1> DEFINE t == [rule |-> worker[w].rule, event |-> worker[w].event, at |-> worker[w].at]
<1>1. t \in Trigger
  BY DEF TypeOK, WorkersOK, WorkerState, Trigger
<1>2. triggers \in Seq(Trigger)
  BY DEF TypeOK
<1> QED
  BY <1>1, <1>2, AppendTrigger DEF Insert

\* A deletion takes the rule off its triggers and changes nothing else of them.
LEMMA Unlinked ==
  ASSUME TypeOK, NEW r \in Rules, DeleteRule(r)
  PROVE  /\ triggers' \in Seq(Trigger)
         /\ DOMAIN triggers' = DOMAIN triggers
         /\ \A i \in DOMAIN triggers :
              /\ triggers'[i].rule = r => FALSE
              /\ triggers'[i].rule \in Rules => triggers'[i].rule = triggers[i].rule
              /\ triggers[i].rule # r => triggers'[i].rule = triggers[i].rule
              /\ triggers'[i].event = triggers[i].event
              /\ triggers'[i].at = triggers[i].at
<1> DEFINE t(i) == [rule |-> IF triggers[i].rule = r THEN 0 ELSE triggers[i].rule,
                    event |-> triggers[i].event, at |-> triggers[i].at]
<1>1. triggers \in Seq(Trigger)
  BY DEF TypeOK
<1>2. triggers' = [i \in DOMAIN triggers |-> t(i)]
  BY DEF DeleteRule
<1>3. \A i \in DOMAIN triggers : t(i) \in Trigger
  <2> SUFFICES ASSUME NEW i \in DOMAIN triggers PROVE t(i) \in Trigger
    OBVIOUS
  <2>1. triggers[i] \in Trigger
    BY <1>1
  <2> QED
    BY <2>1 DEF Trigger
<1>4. DOMAIN triggers' = DOMAIN triggers
  BY <1>2
<1>5. triggers' \in Seq(Trigger)
  <2>1. PICK n \in Nat : DOMAIN triggers = 1..n
    BY <1>1
  <2>2. triggers' \in [1..n -> Trigger]
    BY <1>2, <1>3, <2>1
  <2> QED
    BY <2>1, <2>2
<1>6. 0 \notin Rules
  BY PipelineAssumption
<1>7. \A i \in DOMAIN triggers : triggers'[i] = t(i)
  BY <1>2
<1> HIDE DEF t
<1>8. \A i \in DOMAIN triggers :
        /\ t(i).rule = IF triggers[i].rule = r THEN 0 ELSE triggers[i].rule
        /\ t(i).event = triggers[i].event
        /\ t(i).at = triggers[i].at
  BY DEF t
<1> QED
  BY <1>4, <1>5, <1>6, <1>7, <1>8

LEMMA EnvironmentType == TypeOK /\ Environment => TypeOK'
<1> SUFFICES ASSUME TypeOK, Environment PROVE TypeOK'
  OBVIOUS
<1> USE PipelineAssumption DEF TypeOK, WorkersOK
<1>1. ASSUME NEW e \in Events, Ingest(e) PROVE TypeOK'
  BY <1>1 DEF Ingest, Fault, Message
<1>2. ASSUME NEW e \in Events, DeleteEvent(e) PROVE TypeOK'
  BY <1>2 DEF DeleteEvent
<1>3. CASE Tick
  BY <1>3 DEF Tick
<1>4. ASSUME NEW r \in Rules, NEW a \in BOOLEAN, NEW c \in Cooldowns, SaveRule(r, a, c)
      PROVE  TypeOK'
  BY <1>4 DEF SaveRule, RuleRow
<1>5. ASSUME NEW r \in Rules, DeleteRule(r) PROVE TypeOK'
  <2>1. triggers' \in Seq(Trigger)
    BY <1>5, Unlinked
  <2>2. rules' \in [Rules -> RuleRow]
    BY <1>5 DEF DeleteRule, RuleRow
  <2> QED
    BY <1>5, <2>1, <2>2 DEF DeleteRule
<1>6. ASSUME NEW r \in Rules, NEW a \in BOOLEAN, NEW c \in Cooldowns, ReviveRule(r, a, c)
      PROVE  TypeOK'
  BY <1>6 DEF ReviveRule, RuleRow, Fault
<1> QED
  BY <1>1, <1>2, <1>3, <1>4, <1>5, <1>6 DEF Environment

LEMMA WorkType == ASSUME NEW w \in Workers PROVE TypeOK /\ Work(w) => TypeOK'
<1> SUFFICES ASSUME TypeOK, Work(w) PROVE TypeOK'
  OBVIOUS
<1> USE PipelineAssumption
<1>0. /\ WorkersOK
      /\ worker[w].todo \in SUBSET Rules /\ worker[w].rule \in Rules \cup {0}
      /\ worker[w].at \in 0..MaxTime /\ worker[w].pk \in Nat
      /\ worker[w].pc \in {"lock", "commit"} => worker[w].rule \in Rules
      /\ now \in 0..MaxTime /\ 0 \in 0..MaxTime
  BY DEF TypeOK, WorkersOK, WorkerState
<1>1. CASE StartTask(w)
  <2>1. PICK m \in queue :
          /\ queue' = queue \ {m}
          /\ \/ worker' = [worker EXCEPT ![w] =
                  [pc |-> "loop", event |-> m.event, retries |-> m.retries,
                   todo |-> {r \in Rules : rules[r].exists /\ rules[r].is_active},
                   rule |-> 0, at |-> 0, pk |-> 0]]
             \/ UNCHANGED worker
    BY <1>1 DEF StartTask
  <2>2. m.event \in Events /\ m.retries \in 0..MaxRetries
    BY DEF TypeOK, Message
  <2>3. WorkersOK'
    BY <1>0, <2>1, <2>2 DEF WorkersOK, WorkerState
  <2> QED
    BY <1>1, <2>1, <2>3 DEF StartTask, TypeOK
<1>2. CASE Evaluate(w)
  <2>1. worker[w].pc # "idle"
    BY <1>2 DEF Evaluate
  <2>2. PICK r \in worker[w].todo :
          \/ Goto(w, "loop", worker[w].todo \ {r}, 0, 0, 0)
          \/ Goto(w, "lock", worker[w].todo, r, now, 0)
    BY <1>2 DEF Evaluate
  <2>3. WorkersOK'
    BY <1>0, <2>1, <2>2, GotoType
  <2> QED
    BY <1>2, <2>3 DEF Evaluate, TypeOK
<1>3. CASE LockRule(w)
  <2>1. worker[w].pc = "lock"
    BY <1>3 DEF LockRule
  <2>2. \/ Settle(w)
        \/ NextRule(w)
        \/ Goto(w, "commit", worker[w].todo, worker[w].rule, worker[w].at, 0)
    BY <1>3 DEF LockRule
  <2>3. WorkersOK'
    BY <1>0, <2>1, <2>2, GotoType, NextRuleType, SettleType
  <2> QED
    BY <1>3, <2>3 DEF LockRule, TypeOK
<1>4. CASE Commit(w)
  <2>1. Len(triggers) + 1 \in Nat
    BY <1>4, InsertType DEF Commit
  <2>2. WorkersOK'
    BY <1>0, <1>4, <2>1, GotoType DEF Commit
  <2>3. triggers' \in Seq(Trigger)
    BY <1>4, InsertType DEF Commit
  <2> QED
    BY <1>4, <2>2, <2>3 DEF Commit, TypeOK
<1>5. CASE Push(w)
  <2>1. WorkersOK'
    BY <1>0, <1>5, GotoType, SettleType DEF Push
  <2>2. faults' \in 0..MaxFaults
    BY <1>5 DEF Push, Fault, TypeOK
  <2>3. pushed' \subseteq Nat
    BY <1>0, <1>5 DEF Push, TypeOK
  <2> QED
    BY <1>5, <2>1, <2>2, <2>3 DEF Push, TypeOK
<1>6. CASE Mail(w)
  <2>1. WorkersOK'
    BY <1>0, <1>6, NextRuleType DEF Mail
  <2>2. faults' \in 0..MaxFaults
    BY <1>6 DEF Mail, Fault, TypeOK
  <2>3. mailed' \subseteq Nat
    BY <1>0, <1>6 DEF Mail, TypeOK
  <2> QED
    BY <1>6, <2>1, <2>2, <2>3 DEF Mail, TypeOK
<1>7. CASE Finish(w)
  BY <1>7, <1>0, SettleType DEF Finish, TypeOK
<1> QED
  BY <1>1, <1>2, <1>3, <1>4, <1>5, <1>6, <1>7 DEF Work

LEMMA RetryType ==
  ASSUME TypeOK, NEW w \in Workers, worker[w].pc # "idle", Retry(w)
  PROVE  WorkersOK' /\ queue' \subseteq Message
<1>1. WorkersOK'
  BY SettleType DEF Retry, TypeOK
<1>2. queue' \subseteq Message
  BY MessageType DEF Retry, TypeOK
<1> QED
  BY <1>1, <1>2

LEMMA FailureType == ASSUME NEW w \in Workers PROVE TypeOK /\ Failure(w) => TypeOK'
<1> SUFFICES ASSUME TypeOK, Failure(w) PROVE TypeOK'
  OBVIOUS
<1>0. WorkersOK
  BY DEF TypeOK
<1>1. faults' \in 0..MaxFaults
  BY PipelineAssumption
  DEF Failure, DatabaseError, CommitUnknown, Crash, Redeliver, TimeLimit, Fault, TypeOK
<1>2. CASE DatabaseError(w)
  <2>1. worker[w].pc # "idle"
    BY <1>2 DEF DatabaseError
  <2> QED
    BY <1>1, <1>2, <2>1, RetryType DEF DatabaseError, TypeOK
<1>3. CASE CommitUnknown(w)
  <2>1. WorkersOK' /\ queue' \subseteq Message
    BY <1>3, RetryType DEF CommitUnknown
  <2>2. triggers' \in Seq(Trigger)
    BY <1>3, InsertType DEF CommitUnknown
  <2> QED
    BY <1>1, <1>3, <2>1, <2>2 DEF CommitUnknown, TypeOK
<1>4. CASE Crash(w)
  BY <1>0, <1>1, <1>4, SettleType, MessageType DEF Crash, TypeOK
<1>5. CASE Redeliver(w)
  <2>1. WorkersOK'
    BY <1>0, <1>5 DEF Redeliver, WorkersOK
  <2> QED
    BY <1>0, <1>1, <1>5, <2>1, MessageType DEF Redeliver, TypeOK
<1>6. CASE TimeLimit(w)
  BY <1>0, <1>1, <1>6, SettleType DEF TimeLimit, TypeOK
<1> QED
  BY <1>2, <1>3, <1>4, <1>5, <1>6 DEF Failure

LEMMA NextType == TypeOK /\ [Next]_vars => TypeOK'
<1>1. TypeOK /\ UNCHANGED vars => TypeOK'
  BY DEF vars, TypeOK, WorkersOK
<1> QED
  BY <1>1, EnvironmentType, WorkType, FailureType DEF Next

(***************************************************************************)
(* Every state of the pipeline is well typed.                              *)
(***************************************************************************)
THEOREM TypeCorrect == Spec => []TypeOK
  BY InitType, NextType, PTL DEF Spec

-----------------------------------------------------------------------------
(***************************************************************************)
(* Safety.  OneTriggerPerEvent is not inductive: that a trigger about to   *)
(* be committed is the first of its rule and event is known only from the  *)
(* checks made under the lock (LockProtectsChecks).                        *)
(***************************************************************************)
IInv == TypeOK /\ LockProtectsChecks /\ HooksRunOnceInOrder /\ OneTriggerPerEvent

\* Where no rule or trigger changes and nobody enters the locked section,
\* what the lock protects stays protected.
LEMMA LockFrame ==
  ASSUME LockProtectsChecks, UNCHANGED <<rules, triggers>>,
         \A v \in Workers : worker'[v].pc = "commit" => worker'[v] = worker[v]
  PROVE  LockProtectsChecks'
  BY DEF LockProtectsChecks, Marked, CoolingDown

\* Where no trigger changes and nobody gets or runs a hook, the hooks keep
\* their order.
LEMMA HooksFrame ==
  ASSUME HooksRunOnceInOrder, UNCHANGED <<triggers, mailed, pushed>>,
         \A v \in Workers : worker'[v].pc \in {"push", "mail"} => worker'[v] = worker[v]
  PROVE  HooksRunOnceInOrder'
  BY DEF HooksRunOnceInOrder

\* A step of worker w touches w alone.
LEMMA OneWorker ==
  ASSUME TypeOK, NEW w \in Workers, Work(w) \/ Failure(w)
  PROVE  \A v \in Workers \ {w} : worker'[v] = worker[v]
  BY DEF Work, Failure, StartTask, Evaluate, LockRule, Commit, Push, Mail, Finish,
         DatabaseError, CommitUnknown, Crash, Redeliver, TimeLimit, Retry, Settle, NextRule,
         Goto, TypeOK, WorkersOK

\* Where a step leaves w, by the action it took.
LEMMA WhereNext ==
  ASSUME TypeOK, NEW w \in Workers
  PROVE  /\ StartTask(w) \/ Evaluate(w) \/ Mail(w) => worker'[w].pc \in {"idle", "loop", "lock"}
         /\ LockRule(w) => worker'[w].pc \in {"idle", "loop", "commit"}
         /\ Commit(w) => worker'[w].pc = "push" /\ worker'[w].pk = Len(triggers) + 1
         /\ Push(w) => \/ worker'[w].pc = "idle"
                       \/ worker'[w].pc = "mail" /\ worker'[w].pk = worker[w].pk
         /\ Finish(w) \/ DatabaseError(w) \/ CommitUnknown(w) \/ Crash(w) \/ TimeLimit(w)
              => worker'[w].pc = "idle"
         /\ Redeliver(w) => worker'[w] = worker[w]
  BY DEF StartTask, Evaluate, LockRule, Commit, Push, Mail, Finish,
         DatabaseError, CommitUnknown, Crash, Redeliver, TimeLimit, Retry, Settle, NextRule,
         Goto, Idle, TypeOK, WorkersOK

\* A step that is neither LockRule nor an insertion keeps the lock's promise;
\* LockRule makes it for w, after its checks; an insertion by w, which then
\* leaves the section, cannot break it for another rule.
LEMMA WorkerLock ==
  ASSUME NEW w \in Workers
  PROVE  TypeOK /\ LockProtectsChecks /\ (Work(w) \/ Failure(w)) => LockProtectsChecks'
<1> SUFFICES ASSUME TypeOK, LockProtectsChecks, Work(w) \/ Failure(w)
             PROVE  LockProtectsChecks'
  OBVIOUS
<1>1. \A v \in Workers \ {w} : worker'[v] = worker[v]
  BY OneWorker
<1>2. CASE \/ StartTask(w) \/ Evaluate(w) \/ Push(w) \/ Mail(w) \/ Finish(w)
           \/ DatabaseError(w) \/ Crash(w) \/ Redeliver(w) \/ TimeLimit(w)
  <2>1. worker'[w].pc = "commit" => worker'[w] = worker[w]
    BY <1>2, WhereNext
  <2>2. UNCHANGED <<rules, triggers>>
    BY <1>2 DEF StartTask, Evaluate, Push, Mail, Finish, DatabaseError, Crash, Redeliver,
                TimeLimit
  <2> QED
    BY <1>1, <2>1, <2>2, LockFrame
<1>3. CASE LockRule(w)
  <2>1. CASE worker'[w].pc # "commit"
    BY <1>1, <1>3, <2>1, LockFrame DEF LockRule
  <2>2. CASE worker'[w].pc = "commit"
    <3>1. /\ Goto(w, "commit", worker[w].todo, worker[w].rule, worker[w].at, 0)
          /\ rules[worker[w].rule].exists /\ rules[worker[w].rule].is_active
          /\ ~Marked(worker[w].rule, worker[w].event)
          /\ ~CoolingDown(worker[w].rule, worker[w].at)
      BY <1>3, <2>2 DEF LockRule, Settle, Idle, NextRule, Goto, TypeOK, WorkersOK
    <3>2. worker'[w].rule = worker[w].rule /\ worker'[w].event = worker[w].event
          /\ worker'[w].at = worker[w].at
      BY <3>1 DEF Goto, TypeOK, WorkersOK
    <3>3. \A v \in Workers : ~(worker[v].pc = "commit" /\ worker[v].rule = worker[w].rule)
      BY <1>3 DEF LockRule, Locked
    <3>4. UNCHANGED <<rules, triggers>>
      BY <1>3 DEF LockRule
    <3> QED
      BY <1>1, <3>1, <3>2, <3>3, <3>4 DEF LockProtectsChecks, Marked, CoolingDown
  <2> QED
    BY <2>1, <2>2
<1>4. CASE Commit(w) \/ CommitUnknown(w)
  <2>1. worker[w].pc = "commit" /\ Insert(w) /\ UNCHANGED rules
    BY <1>4 DEF Commit, CommitUnknown
  <2>2. worker'[w].pc # "commit"
    BY <1>4, WhereNext
  <2>3. ASSUME NEW v \in Workers, worker'[v].pc = "commit"
        PROVE  /\ v # w /\ worker'[v] = worker[v]
               /\ worker[v].rule # worker[w].rule
    BY <1>1, <2>1, <2>2, <2>3 DEF LockProtectsChecks
  <2>5. /\ DOMAIN triggers' = DOMAIN triggers \cup {Len(triggers) + 1}
        /\ triggers'[Len(triggers) + 1].rule = worker[w].rule
        /\ \A i \in DOMAIN triggers : triggers'[i] = triggers[i]
    <3>1. triggers'[Len(triggers) + 1] =
            [rule |-> worker[w].rule, event |-> worker[w].event, at |-> worker[w].at]
      BY <2>1, InsertType
    <3>2. DOMAIN triggers' = DOMAIN triggers \cup {Len(triggers) + 1}
      BY <2>1, InsertType
    <3>3. \A i \in DOMAIN triggers : triggers'[i] = triggers[i]
      BY <2>1, InsertType
    <3> QED
      BY <3>1, <3>2, <3>3
  <2>4. ASSUME NEW v \in Workers, worker'[v].pc = "commit", NEW i \in DOMAIN triggers',
               triggers'[i].rule = worker[v].rule
        PROVE  i \in DOMAIN triggers /\ triggers'[i] = triggers[i]
    <3>1. worker[v].rule # worker[w].rule
      BY <2>3, <2>4
    <3> QED
      BY <2>4, <2>5, <3>1
  <2> QED
    BY <2>1, <2>3, <2>4 DEF LockProtectsChecks, Marked, CoolingDown
<1> QED
  BY <1>2, <1>3, <1>4 DEF Work, Failure

\* An edit or a deletion waits for the lock of its row, and a row that is gone
\* is locked by nobody.
LEMMA EnvironmentLock == TypeOK /\ LockProtectsChecks /\ Environment => LockProtectsChecks'
<1> SUFFICES ASSUME TypeOK, LockProtectsChecks, Environment PROVE LockProtectsChecks'
  OBVIOUS
<1>1. ASSUME NEW r \in Rules, ~Locked(r) \/ ~rules[r].exists, UNCHANGED <<triggers, worker>>,
             \E row : rules' = [rules EXCEPT ![r] = row]
      PROVE  LockProtectsChecks'
  <2>1. \A v \in Workers : worker[v].pc = "commit" => rules'[worker[v].rule] = rules[worker[v].rule]
    BY <1>1 DEF Locked, LockProtectsChecks
  <2> QED
    BY <1>1, <2>1 DEF LockProtectsChecks, Marked, CoolingDown
<1>2. ASSUME NEW e \in Events, Ingest(e) \/ DeleteEvent(e) PROVE LockProtectsChecks'
  BY <1>2, LockFrame DEF Ingest, DeleteEvent
<1>3. CASE Tick
  BY <1>3, LockFrame DEF Tick
<1>4. ASSUME NEW r \in Rules, NEW a \in BOOLEAN, NEW c \in Cooldowns, SaveRule(r, a, c)
      PROVE  LockProtectsChecks'
  BY <1>1, <1>4 DEF SaveRule
<1>5. ASSUME NEW r \in Rules, DeleteRule(r) PROVE LockProtectsChecks'
  <2>1. UNCHANGED worker /\ ~Locked(r) /\ \E row : rules' = [rules EXCEPT ![r] = row]
    BY <1>5 DEF DeleteRule
  <2>2. \A v \in Workers : worker[v].pc = "commit" =>
          /\ worker[v].rule \in Rules
          /\ worker[v].rule # r
          /\ rules'[worker[v].rule] = rules[worker[v].rule]
    BY <2>1 DEF Locked, TypeOK, WorkersOK
  <2>3. ASSUME NEW s \in Rules, NEW i \in DOMAIN triggers', triggers'[i].rule = s
        PROVE  /\ i \in DOMAIN triggers /\ triggers[i].rule = s
               /\ triggers[i].event = triggers'[i].event /\ triggers[i].at = triggers'[i].at
    BY <1>5, <2>3, Unlinked
  <2>4. ASSUME NEW v \in Workers, worker[v].pc = "commit"
        PROVE  /\ ~Marked(worker[v].rule, worker[v].event)'
               /\ ~CoolingDown(worker[v].rule, worker[v].at)'
    BY <2>1, <2>2, <2>3, <2>4 DEF LockProtectsChecks, Marked, CoolingDown
  <2> QED
    BY <2>1, <2>2, <2>4 DEF LockProtectsChecks
<1>6. ASSUME NEW r \in Rules, NEW a \in BOOLEAN, NEW c \in Cooldowns, ReviveRule(r, a, c)
      PROVE  LockProtectsChecks'
  BY <1>1, <1>6 DEF ReviveRule
<1> QED
  BY <1>2, <1>3, <1>4, <1>5, <1>6 DEF Environment

LEMMA WorkerHooks ==
  ASSUME NEW w \in Workers
  PROVE  TypeOK /\ HooksRunOnceInOrder /\ (Work(w) \/ Failure(w)) => HooksRunOnceInOrder'
<1> SUFFICES ASSUME TypeOK, HooksRunOnceInOrder, Work(w) \/ Failure(w)
             PROVE  HooksRunOnceInOrder'
  OBVIOUS
<1>1. \A v \in Workers \ {w} : worker'[v] = worker[v]
  BY OneWorker
<1>2. CASE \/ StartTask(w) \/ Evaluate(w) \/ LockRule(w) \/ Finish(w)
           \/ DatabaseError(w) \/ Crash(w) \/ Redeliver(w) \/ TimeLimit(w)
  <2>1. worker'[w].pc \in {"push", "mail"} => worker'[w] = worker[w]
    BY <1>2, WhereNext
  <2>2. UNCHANGED <<triggers, mailed, pushed>>
    BY <1>2 DEF StartTask, Evaluate, LockRule, Finish, DatabaseError, Crash, Redeliver,
                TimeLimit
  <2> QED
    BY <1>1, <2>1, <2>2, HooksFrame
<1>3. CASE Commit(w) \/ CommitUnknown(w)
  <2>1. worker[w].pc = "commit" /\ Insert(w) /\ UNCHANGED <<mailed, pushed>>
    BY <1>3 DEF Commit, CommitUnknown
  <2>2. \/ worker'[w].pc = "push" /\ worker'[w].pk = Len(triggers) + 1
        \/ worker'[w].pc = "idle"
    BY <1>3, WhereNext
  <2>3. /\ DOMAIN triggers' = DOMAIN triggers \cup {Len(triggers) + 1}
        /\ Len(triggers) + 1 \notin DOMAIN triggers
    BY <2>1, InsertType
  <2> QED
    BY <1>1, <2>1, <2>2, <2>3 DEF HooksRunOnceInOrder
<1>4. CASE Push(w)
  <2>1. worker[w].pc = "push" /\ UNCHANGED <<triggers, mailed>>
    BY <1>4 DEF Push
  <2>2. \/ worker'[w].pc = "idle" /\ UNCHANGED pushed
        \/ /\ worker'[w].pc = "mail" /\ worker'[w].pk = worker[w].pk
           /\ pushed' = pushed \cup {worker[w].pk}
    BY <1>4 DEF Push, Settle, Idle, Goto, TypeOK, WorkersOK
  <2> QED
    BY <1>1, <2>1, <2>2 DEF HooksRunOnceInOrder
<1>5. CASE Mail(w)
  <2>1. worker[w].pc = "mail" /\ UNCHANGED <<triggers, pushed>>
        /\ (UNCHANGED mailed \/ mailed' = mailed \cup {worker[w].pk})
    BY <1>5 DEF Mail
  <2>2. worker'[w].pc \notin {"push", "mail"}
    BY <1>5, WhereNext
  <2> QED
    BY <1>1, <2>1, <2>2 DEF HooksRunOnceInOrder
<1> QED
  BY <1>2, <1>3, <1>4, <1>5 DEF Work, Failure

LEMMA EnvironmentHooks == TypeOK /\ HooksRunOnceInOrder /\ Environment => HooksRunOnceInOrder'
<1> SUFFICES ASSUME TypeOK, HooksRunOnceInOrder, Environment PROVE HooksRunOnceInOrder'
  OBVIOUS
<1>1. CASE UNCHANGED triggers
  BY <1>1, HooksFrame
  DEF Environment, Ingest, DeleteEvent, Tick, SaveRule, ReviveRule, DeleteRule
<1>2. ASSUME NEW r \in Rules, DeleteRule(r) PROVE HooksRunOnceInOrder'
  <2>1. DOMAIN triggers' = DOMAIN triggers
    BY <1>2, Unlinked
  <2> QED
    BY <1>2, <2>1 DEF DeleteRule, HooksRunOnceInOrder
<1> QED
  BY <1>1, <1>2 DEF Environment, Ingest, DeleteEvent, Tick, SaveRule, ReviveRule

\* What a step may do to the log: nothing, unlink a deleted rule, or one
\* insertion by a worker whose locked section it is.
LEMMA OnlyCommitsInsert ==
  ASSUME Next
  PROVE  \/ UNCHANGED triggers
         \/ \E r \in Rules : DeleteRule(r)
         \/ \E w \in Workers : (Commit(w) \/ CommitUnknown(w))
                               /\ worker[w].pc = "commit" /\ Insert(w)
                               /\ UNCHANGED <<rules, mailed>>
  BY DEF Next, Environment, Ingest, DeleteEvent, Tick, SaveRule, ReviveRule, Work, Failure,
         StartTask, Evaluate, LockRule, Commit, Push, Mail, Finish, DatabaseError,
         CommitUnknown, Crash, Redeliver, TimeLimit

LEMMA NextOnce ==
  TypeOK /\ LockProtectsChecks /\ OneTriggerPerEvent /\ Next => OneTriggerPerEvent'
<1> SUFFICES ASSUME TypeOK, LockProtectsChecks, OneTriggerPerEvent, Next
             PROVE  OneTriggerPerEvent'
  OBVIOUS
<1> USE DEF OneTriggerPerEvent, Ledger!OneTriggerPerEvent
<1>1. CASE UNCHANGED triggers
  BY <1>1
<1>2. ASSUME NEW w \in Workers, worker[w].pc = "commit", Insert(w)
      PROVE  OneTriggerPerEvent'
  <2>1. triggers'[Len(triggers) + 1] =
          [rule |-> worker[w].rule, event |-> worker[w].event, at |-> worker[w].at]
    BY <1>2, InsertType
  <2>2. DOMAIN triggers' = DOMAIN triggers \cup {Len(triggers) + 1}
    BY <1>2, InsertType
  <2>3. \A i \in DOMAIN triggers : triggers'[i] = triggers[i]
    BY <1>2, InsertType
  <2>4. \A i \in DOMAIN triggers :
          ~(triggers[i].rule = worker[w].rule /\ triggers[i].event = worker[w].event)
    BY <1>2 DEF LockProtectsChecks, Marked
  <2> QED
    BY <2>1, <2>2, <2>3, <2>4
<1>3. ASSUME NEW r \in Rules, DeleteRule(r) PROVE OneTriggerPerEvent'
  BY <1>3, Unlinked
<1> QED
  BY <1>1, <1>2, <1>3, OnlyCommitsInsert

LEMMA InitInvariant == Init => IInv
  BY InitType DEF Init, IInv, LockProtectsChecks, HooksRunOnceInOrder, OneTriggerPerEvent,
                  Ledger!OneTriggerPerEvent, Idle

LEMMA NextInvariant == IInv /\ [Next]_vars => IInv'
<1> SUFFICES ASSUME IInv, [Next]_vars PROVE IInv'
  OBVIOUS
<1> USE DEF IInv
<1>1. CASE Next
  <2>1. LockProtectsChecks'
    BY <1>1, WorkerLock, EnvironmentLock DEF Next
  <2>2. HooksRunOnceInOrder'
    BY <1>1, WorkerHooks, EnvironmentHooks DEF Next
  <2> QED
    BY <1>1, <2>1, <2>2, NextType, NextOnce
<1>2. CASE UNCHANGED vars
  <2>1. LockProtectsChecks' /\ HooksRunOnceInOrder'
    BY <1>2, LockFrame, HooksFrame DEF vars
  <2>2. OneTriggerPerEvent'
    BY <1>2 DEF vars, OneTriggerPerEvent, Ledger!OneTriggerPerEvent
  <2> QED
    BY <1>2, <2>1, <2>2, NextType
<1> QED
  BY <1>1, <1>2

LEMMA InvariantHolds == Spec => []IInv
  BY InitInvariant, NextInvariant, PTL DEF Spec

(***************************************************************************)
(* The row lock protects the checks of _create_rule_trigger until the      *)
(* transaction that made them ends.                                        *)
(***************************************************************************)
THEOREM LockProtects == Spec => []LockProtectsChecks
<1>1. IInv => LockProtectsChecks
  BY DEF IInv
<1> QED
  BY <1>1, InvariantHolds, PTL

(***************************************************************************)
(* A rule fires at most once for an event: redelivery, retries, crashes    *)
(* and concurrent workers never make a second trigger.                     *)
(***************************************************************************)
THEOREM TriggersOnce == Spec => []OneTriggerPerEvent
<1>1. IInv => OneTriggerPerEvent
  BY DEF IInv
<1> QED
  BY <1>1, InvariantHolds, PTL

(***************************************************************************)
(* A trigger is broadcast before its email is enqueued, and neither hook   *)
(* runs twice.                                                             *)
(***************************************************************************)
THEOREM HooksInOrder == Spec => []HooksRunOnceInOrder
<1>1. IInv => HooksRunOnceInOrder
  BY DEF IInv
<1> QED
  BY <1>1, InvariantHolds, PTL

-----------------------------------------------------------------------------
\* The trigger a worker inserts respects the cooldown of its locked rule.
LEMMA InsertCoolsDown ==
  ASSUME IInv, NEW w \in Workers, worker[w].pc = "commit", Insert(w)
  PROVE  /\ triggers'[Len(triggers) + 1] =
              [rule |-> worker[w].rule, event |-> worker[w].event, at |-> worker[w].at]
         /\ DOMAIN triggers' \ DOMAIN triggers = {Len(triggers) + 1}
         /\ rules[worker[w].rule].cooldown > 0 =>
              \A j \in DOMAIN triggers :
                triggers[j].rule = worker[w].rule =>
                  triggers[j].at + rules[worker[w].rule].cooldown < worker[w].at
<1>1. triggers'[Len(triggers) + 1] =
        [rule |-> worker[w].rule, event |-> worker[w].event, at |-> worker[w].at]
  BY InsertType DEF IInv
<1>2. /\ DOMAIN triggers' = DOMAIN triggers \cup {Len(triggers) + 1}
      /\ Len(triggers) + 1 \notin DOMAIN triggers
  BY InsertType DEF IInv
<1>3. ASSUME rules[worker[w].rule].cooldown > 0, NEW j \in DOMAIN triggers,
             triggers[j].rule = worker[w].rule
      PROVE  triggers[j].at + rules[worker[w].rule].cooldown < worker[w].at
  <2>1. ~(triggers[j].at + rules[worker[w].rule].cooldown >= worker[w].at)
    BY <1>3 DEF IInv, LockProtectsChecks, CoolingDown
  <2>2. worker[w].rule \in Rules /\ worker[w].at \in Nat
    BY PipelineAssumption DEF IInv, TypeOK, WorkersOK, WorkerState
  <2>3. rules[worker[w].rule].cooldown \in Nat
    BY <2>2, PipelineAssumption DEF IInv, TypeOK, RuleRow
  <2>4. triggers[j].at \in Nat
    <3>1. triggers \in Seq(Trigger)
      BY DEF IInv, TypeOK
    <3>2. triggers[j] \in Trigger
      BY <1>3, <3>1
    <3> QED
      BY <3>2, PipelineAssumption DEF Trigger
  <2> QED
    BY <2>1, <2>2, <2>3, <2>4
<1> QED
  BY <1>1, <1>2, <1>3

(***************************************************************************)
(* Triggers of a rule are further apart than its cooldown.                 *)
(***************************************************************************)
THEOREM Cooldown == Spec => CooldownHonoured
<1> DEFINE Apart == \A i \in DOMAIN triggers' \ DOMAIN triggers :
                      LET r == triggers'[i].rule
                      IN  rules[r].cooldown > 0 =>
                            \A j \in DOMAIN triggers :
                              triggers[j].rule = r =>
                                triggers[j].at + rules[r].cooldown < triggers'[i].at
<1>1. IInv /\ [Next]_vars => [Apart]_vars
  <2> SUFFICES ASSUME IInv, Next PROVE Apart
    OBVIOUS
  <2>1. CASE UNCHANGED triggers
    BY <2>1
  <2>2. ASSUME NEW w \in Workers, worker[w].pc = "commit", Insert(w) PROVE Apart
    <3>1. SUFFICES ASSUME NEW i \in DOMAIN triggers' \ DOMAIN triggers
                   PROVE  rules[triggers'[i].rule].cooldown > 0 =>
                            \A j \in DOMAIN triggers :
                              triggers[j].rule = triggers'[i].rule =>
                                triggers[j].at + rules[triggers'[i].rule].cooldown
                                  < triggers'[i].at
      OBVIOUS
    <3>2. triggers'[i] =
            [rule |-> worker[w].rule, event |-> worker[w].event, at |-> worker[w].at]
      BY <2>2, <3>1, InsertCoolsDown
    <3>3. triggers'[i].rule = worker[w].rule /\ triggers'[i].at = worker[w].at
      BY <3>2
    <3> QED
      BY <2>2, <3>3, InsertCoolsDown
  <2>3. ASSUME NEW r \in Rules, DeleteRule(r) PROVE Apart
    <3>1. DOMAIN triggers' = DOMAIN triggers
      BY <2>3, Unlinked DEF IInv
    <3> QED
      BY <3>1
  <2> QED
    BY <2>1, <2>2, <2>3, OnlyCommitsInsert
<1> QED
  BY <1>1, InvariantHolds, PTL DEF Spec, CooldownHonoured

-----------------------------------------------------------------------------
(* Refinement: every step of the pipeline is a step of the ledger.         *)

LEMMA EnvironmentRefines ==
  ASSUME IInv, Environment PROVE [Ledger!Next]_(Ledger!vars)
<1> USE DEF Ledger!vars
<1>1. ASSUME NEW r \in Rules, NEW a \in BOOLEAN, NEW c \in Cooldowns,
             SaveRule(r, a, c) \/ ReviveRule(r, a, c)
      PROVE  Ledger!Next
  <2> DEFINE row == [exists |-> TRUE, is_active |-> a, cooldown |-> c]
  <2>1. row \in Ledger!RuleRow /\ row.exists
    BY DEF Ledger!RuleRow
  <2>2. rules' = [rules EXCEPT ![r] = row] /\ UNCHANGED <<triggers, mailed>>
    BY <1>1 DEF SaveRule, ReviveRule
  <2>3. Ledger!Configure(r)
    BY <2>1, <2>2 DEF Ledger!Configure
  <2> QED
    BY <2>3 DEF Ledger!Next
<1>2. ASSUME NEW e \in Events, Ingest(e) \/ DeleteEvent(e) PROVE UNCHANGED Ledger!vars
  BY <1>2 DEF Ingest, DeleteEvent
<1>3. CASE Tick
  BY <1>3 DEF Tick
<1>4. ASSUME NEW r \in Rules, DeleteRule(r) PROVE Ledger!Next
  <2>1. Ledger!Remove(r)
    BY <1>4 DEF DeleteRule, Ledger!Remove
  <2> QED
    BY <2>1 DEF Ledger!Next
<1> QED
  BY <1>1, <1>2, <1>3, <1>4 DEF Environment

LEMMA InsertRefines ==
  ASSUME IInv, NEW w \in Workers, worker[w].pc = "commit", Insert(w), UNCHANGED <<rules, mailed>>
  PROVE  Ledger!Next
<1> DEFINE r == worker[w].rule
           e == worker[w].event
           t == worker[w].at
<1>1. r \in Rules /\ e \in Events /\ t \in 0..MaxTime
  BY DEF IInv, TypeOK, WorkersOK, WorkerState
<1>2. rules[r].exists /\ rules[r].is_active
  BY DEF IInv, LockProtectsChecks
<1>3. \A i \in DOMAIN triggers : triggers[i].rule = r => triggers[i].event # e
  BY DEF IInv, LockProtectsChecks, Marked
<1>4. rules[r].cooldown > 0 =>
        \A i \in DOMAIN triggers : triggers[i].rule = r => triggers[i].at + rules[r].cooldown < t
  BY InsertCoolsDown
<1>5. rules[r].cooldown = 0 \/ rules[r].cooldown > 0
  <2>1. rules[r] \in RuleRow
    BY <1>1 DEF IInv, TypeOK
  <2>2. rules[r].cooldown \in Nat
    BY <2>1, PipelineAssumption DEF RuleRow
  <2> QED
    BY <2>2
<1>6. Ledger!Record(r, e, t)
  BY <1>2, <1>3, <1>4, <1>5 DEF Ledger!Record, Insert
<1> QED
  BY <1>1, <1>6 DEF Ledger!Next

LEMMA MailRefines ==
  ASSUME IInv, NEW w \in Workers, Mail(w) PROVE [Ledger!Next]_(Ledger!vars)
<1>1. worker[w].pk \in DOMAIN triggers \ mailed
  BY DEF IInv, HooksRunOnceInOrder, Mail
<1>2. CASE UNCHANGED mailed
  BY <1>2 DEF Mail, Ledger!vars
<1>3. CASE mailed' = mailed \cup {worker[w].pk}
  BY <1>1, <1>3 DEF Mail, Ledger!Next, Ledger!Mail
<1> QED
  BY <1>2, <1>3 DEF Mail

LEMMA WorkerRefines ==
  ASSUME IInv, NEW w \in Workers, Work(w) \/ Failure(w)
  PROVE  [Ledger!Next]_(Ledger!vars)
<1>1. CASE Commit(w) \/ CommitUnknown(w)
  BY <1>1, InsertRefines DEF Commit, CommitUnknown
<1>2. CASE Mail(w)
  BY <1>2, MailRefines
<1>3. CASE \/ StartTask(w) \/ Evaluate(w) \/ LockRule(w) \/ Push(w) \/ Finish(w)
           \/ DatabaseError(w) \/ Crash(w) \/ Redeliver(w) \/ TimeLimit(w)
  BY <1>3 DEF StartTask, Evaluate, LockRule, Push, Finish, DatabaseError, Crash, Redeliver,
              TimeLimit, Ledger!vars
<1> QED
  BY <1>1, <1>2, <1>3 DEF Work, Failure

(***************************************************************************)
(* The pipeline implements the ledger: triggers are recorded only for a    *)
(* rule that exists and is enabled, once per event and outside the         *)
(* cooldown, and each is mailed at most once.                              *)
(***************************************************************************)
THEOREM Refinement == Spec => ImplementsLedger
<1>1. Init => Ledger!Init
  BY DEF Init, Ledger!Init, Ledger!RuleRow, RuleRow
<1>2. IInv /\ [Next]_vars => [Ledger!Next]_(Ledger!vars)
  <2>1. IInv /\ UNCHANGED vars => UNCHANGED Ledger!vars
    BY DEF vars, Ledger!vars
  <2> QED
    BY <2>1, EnvironmentRefines, WorkerRefines DEF Next
<1> QED
  BY <1>1, <1>2, InvariantHolds, PTL DEF Spec, ImplementsLedger, Ledger!Spec
=============================================================================
