------------------------ MODULE BackgroundJobsProofs ------------------------
(***************************************************************************)
(* Proofs about BackgroundJobs, for any events, projects, settings and any *)
(* number of tasks and faults.                                             *)
(***************************************************************************)
EXTENDS BackgroundJobs, FiniteSetTheorems, TLAPS

Places == {"queued", "loop", "measure", "create", "hook", "delete", "save", "send", "sent", "done",
           "failed"}

Task == [kind : Kinds \cup {"email"}, pc : Places, now : Nat, left : SUBSET Projects,
         project : Projects \cup {NoProject}, held : SUBSET Posted,
         notice : Notices \cup {NoNotice}, retries : 0..MaxRetries, cut : BOOLEAN]

(***************************************************************************)
(* What a task remembers.  A task that has a notice owns it: the scan that *)
(* created the trigger until its email is enqueued, then the email task.   *)
(***************************************************************************)
Owns(k) == k.kind = "email" \/ k.pc = "hook"

\* Of a task k at time c, the triggers being tr, the stored events S and the
\* notifications that were sent M.
GoodTask(k, c, tr, S, M) ==
  /\ k.now <= c
  /\ k.project \in Projects <=> k.pc \in {"measure", "create", "hook", "save"}
  /\ IF Owns(k) THEN k.notice \in tr ELSE k.notice = NoNotice
  /\ k.pc = "sent" => k.kind = "email" /\ k.notice \in M
  /\ (k.kind = "cleanup" /\ k.pc = "delete") => \A e \in k.held : e.at + Retention < k.now
  /\ (k.kind = "cleanup" /\ k.pc = "done") => \A e \in S : e.at + Retention >= k.now

TasksGood ==
  /\ tasks \in Seq(Task)
  /\ \A t \in T : GoodTask(tasks[t], clock, triggers, Stored, DOMAIN mails)

WorldOK ==
  /\ clock \in Start..MaxTime /\ cooldown \in Cooldowns
  /\ projects \subseteq Projects
  /\ deleted \subseteq Posted /\ \A e \in deleted : e.at + Retention < clock
  /\ triggers \subseteq Notices /\ IsFiniteSet(triggers)
  /\ \A s \in DOMAIN summary : s[1] \in Projects /\ s[2] \in Int /\ summary[s] \subseteq Posted
  /\ DOMAIN mails \subseteq triggers /\ lost \subseteq DOMAIN mails
  /\ beats \in 0..MaxBeats /\ faults \in 0..MaxFaults

LEMMA InitGood == Init => TasksGood /\ WorldOK
BY JobsAssumption, FS_EmptySet DEF Init, TasksGood, WorldOK, T

\* What a step does to the world of the tasks it does not touch.
Later ==
  /\ clock <= clock'
  /\ triggers \subseteq triggers'
  /\ \A e \in Stored' : e \in Stored \/ e.at > clock
  /\ DOMAIN mails \subseteq DOMAIN mails'

LEMMA GoodLater ==
  ASSUME NEW k \in Task, GoodTask(k, clock, triggers, Stored, DOMAIN mails), Later,
         clock \in Nat, clock' \in Nat
  PROVE  GoodTask(k, clock', triggers', Stored', DOMAIN mails')
<1>1. \A e \in Posted : e.at \in Nat
  BY JobsAssumption
<1>2. Retention \in Nat /\ k.now \in Nat /\ Stored' \subseteq Posted
  BY JobsAssumption DEF Task, Stored
<1> QED
  BY <1>1, <1>2 DEF Later, GoodTask, Owns

LEMMA SetGood ==
  ASSUME TasksGood, WorldOK, Later, clock' \in Nat, NEW t \in T,
         NEW r \in Task, GoodTask(r, clock', triggers', Stored', DOMAIN mails'), Set(t, r)
  PROVE  TasksGood'
<1>1. tasks \in Seq(Task) /\ clock \in Nat
  BY JobsAssumption DEF TasksGood, WorldOK
<1>2. /\ tasks' \in Seq(Task) /\ Len(tasks') = Len(tasks)
      /\ \A u \in T : tasks'[u] = IF u = t THEN r ELSE tasks[u]
  BY <1>1 DEF Set, T
<1>3. \A u \in T : GoodTask(tasks'[u], clock', triggers', Stored', DOMAIN mails')
  <2> TAKE u \in T
  <2>1. CASE u = t
    BY <1>2, <2>1
  <2>2. CASE u # t
    <3>1. /\ tasks[u] \in Task /\ GoodTask(tasks[u], clock, triggers, Stored, DOMAIN mails)
          /\ tasks'[u] = tasks[u]
      BY <1>1, <1>2, <2>2 DEF T, TasksGood
    <3> QED
      BY <1>1, <3>1, GoodLater
  <2> QED
    BY <2>1, <2>2
<1> QED
  BY <1>2, <1>3 DEF TasksGood, T

LEMMA QuietGood ==
  ASSUME TasksGood, WorldOK, NEW t \in T, NEW r \in Task,
         GoodTask(r, clock, triggers, Stored, DOMAIN mails), Set(t, r),
         UNCHANGED <<clock, projects, deleted, triggers, mails>>
  PROVE  TasksGood'
<1>1. Stored' = Stored
  BY DEF Stored
<1>2. Later /\ clock' \in Nat /\ GoodTask(r, clock', triggers', Stored', DOMAIN mails')
  BY <1>1, JobsAssumption DEF Later, WorldOK
<1> QED
  BY <1>2, SetGood

\* A task that is queued again, or given up, keeps nothing but an email's notice.
LEMMA AgainGood ==
  ASSUME TasksGood, WorldOK, NEW t \in T, NEW n \in 0..MaxRetries
  PROVE  /\ Again(t, n) \in Task /\ GoodTask(Again(t, n), clock, triggers, Stored, DOMAIN mails)
         /\ Ended(t) \in Task
         /\ GoodTask(Ended(t), clock, triggers, Stored, DOMAIN mails)
<1> DEFINE k == tasks[t]
<1>0. k \in Task /\ GoodTask(k, clock, triggers, Stored, DOMAIN mails)
  BY DEF TasksGood, T
<1>1. /\ k \in Task /\ GoodTask(k, clock, triggers, Stored, DOMAIN mails)
      /\ k.retries \in 0..MaxRetries
  BY <1>0 DEF Task
<1>2. clock \in Nat
  BY JobsAssumption DEF WorldOK
<1>3. NoProject \notin Projects
  BY JobsAssumption
<1> HIDE DEF k
<1>4. ASSUME NEW m \in 0..MaxRetries
      PROVE  /\ Again(t, m) \in Task
             /\ Again(t, m).kind = k.kind /\ Again(t, m).pc = "queued" /\ Again(t, m).now = 0
             /\ Again(t, m).project = NoProject
             /\ Again(t, m).notice = IF k.kind = "email" THEN k.notice ELSE NoNotice
  BY <1>1 DEF Again, NewTask, Task, Places, k
<1>5. ASSUME NEW m \in 0..MaxRetries
      PROVE  GoodTask(Again(t, m), clock, triggers, Stored, DOMAIN mails)
  BY <1>1, <1>2, <1>3, <1>4 DEF GoodTask, Owns
<1>6. /\ Ended(t) \in Task
      /\ Ended(t).kind = k.kind /\ Ended(t).pc = "failed" /\ Ended(t).now = 0
      /\ Ended(t).project = NoProject
      /\ Ended(t).notice = IF k.kind = "email" THEN k.notice ELSE NoNotice
  BY <1>1, <1>4 DEF Ended, Task, Places, k
<1>7. GoodTask(Ended(t), clock, triggers, Stored, DOMAIN mails)
  BY <1>1, <1>2, <1>3, <1>6 DEF GoodTask, Owns
<1> QED
  BY <1>4, <1>5, <1>6, <1>7

\* A worker is lost, or the task raises, or its time is up.
LEMMA InterruptGood ==
  ASSUME TasksGood, WorldOK, NEW t \in T, WorkerLost(t) \/ Retry(t) \/ TimeLimit(t)
  PROVE  TasksGood' /\ WorldOK'
<1>1. faults' \in 0..MaxFaults
  BY JobsAssumption DEF WorldOK, WorkerLost, Retry, TimeLimit, Fault
<1>2. tasks[t] \in Task /\ GoodTask(tasks[t], clock, triggers, Stored, DOMAIN mails)
  BY DEF TasksGood, T
<1>3. lost' \subseteq DOMAIN mails
  BY <1>2 DEF WorldOK, WorkerLost, Retry, TimeLimit, Interrupted, GoodTask
<1>4. WorldOK'
  BY <1>1, <1>3 DEF WorldOK, WorkerLost, Retry, TimeLimit
<1>5. tasks[t].retries \in 0..MaxRetries
  BY <1>2 DEF Task
<1>6. PICK n \in 0..MaxRetries : Set(t, Again(t, n)) \/ Set(t, Ended(t))
  <2>1. CASE WorkerLost(t) \/ TimeLimit(t)
    BY <1>5, <2>1 DEF WorkerLost, TimeLimit
  <2>2. CASE Retry(t)
    <3>1. CASE tasks[t].retries < MaxRetries
      <4>1. tasks[t].retries + 1 \in 0..MaxRetries
        BY <1>5, <3>1, JobsAssumption
      <4> QED
        BY <2>2, <3>1, <4>1 DEF Retry
    <3>2. CASE ~(tasks[t].retries < MaxRetries)
      BY <1>5, <2>2, <3>2 DEF Retry
    <3> QED
      BY <3>1, <3>2
  <2> QED
    BY <2>1, <2>2
<1>7. UNCHANGED <<clock, projects, deleted, triggers, mails>>
  BY DEF WorkerLost, Retry, TimeLimit
<1>8. TasksGood'
  BY <1>6, <1>7, AgainGood, QuietGood
<1> QED
  BY <1>4, <1>8

LEMMA TaskAt ==
  ASSUME TasksGood, WorldOK, NEW t \in T
  PROVE  /\ tasks[t] \in Task /\ GoodTask(tasks[t], clock, triggers, Stored, DOMAIN mails)
         /\ clock \in Nat /\ projects \subseteq Projects /\ NoProject \notin Projects
         /\ clock' = clock => clock' \in Nat
<1>1. tasks[t] \in Task /\ GoodTask(tasks[t], clock, triggers, Stored, DOMAIN mails)
  BY DEF TasksGood, T
<1>2. clock \in Nat /\ projects \subseteq Projects /\ NoProject \notin Projects
  BY JobsAssumption DEF WorldOK
<1> QED
  BY <1>1, <1>2

LEMMA StoredEvents ==
  ASSUME NEW e \in Stored
  PROVE  e \in Posted /\ e.at \in Nat /\ e.at <= clock /\ Retention \in Nat
BY JobsAssumption DEF Stored

\* The head of the two loops over the projects.
LEMMA LoopGood ==
  ASSUME TasksGood, WorldOK, NEW t \in T, StartLoop(t) \/ EndLoop(t) \/ Report(t)
  PROVE  TasksGood' /\ WorldOK'
<1>1. WorldOK' /\ UNCHANGED <<clock, projects, deleted, triggers, mails>>
  BY DEF WorldOK, StartLoop, EndLoop, Report
<1>2. PICK r : /\ Set(t, r) /\ r \in Task
               /\ GoodTask(r, clock, triggers, Stored, DOMAIN mails)
  <2>1. CASE StartLoop(t)
    <3>0. PICK left \in SUBSET projects :
                 Set(t, [tasks[t] EXCEPT !.pc = "loop", !.now = clock, !.left = left])
      BY <2>1 DEF StartLoop
    <3> DEFINE r == [tasks[t] EXCEPT !.pc = "loop", !.now = clock, !.left = left]
    <3>1. /\ r \in Task /\ r.pc = "loop" /\ r.now = clock
          /\ \A f \in {"kind", "project", "notice"} : r[f] = tasks[t][f]
      BY TaskAt DEF Task, Places
    <3>2. tasks[t].pc = "queued" /\ tasks[t].kind \in {"spikes", "summaries"}
      BY <2>1 DEF StartLoop
    <3> HIDE DEF r
    <3>3. GoodTask(r, clock, triggers, Stored, DOMAIN mails)
      BY <3>1, <3>2, TaskAt DEF GoodTask, Owns
    <3> QED
      BY <3>0, <3>1, <3>3 DEF r
  <2>2. CASE EndLoop(t)
    <3> DEFINE r == [tasks[t] EXCEPT !.pc = "done"]
    <3>1. r \in Task
      BY TaskAt DEF Task, Places
    <3>2. GoodTask(r, clock, triggers, Stored, DOMAIN mails)
      BY <2>2, TaskAt DEF EndLoop, GoodTask, Owns, Task
    <3> QED
      BY <2>2, <3>1, <3>2 DEF EndLoop
  <2>3. CASE Report(t)
    <3> DEFINE r == [tasks[t] EXCEPT !.pc = "failed"]
    <3>1. r \in Task
      BY TaskAt DEF Task, Places
    <3>2. GoodTask(r, clock, triggers, Stored, DOMAIN mails)
      BY <2>3, TaskAt DEF Report, At, GoodTask, Owns, Task
    <3> QED
      BY <2>3, <3>1, <3>2 DEF Report
  <2> QED
    BY <2>1, <2>2, <2>3
<1> QED
  BY <1>1, <1>2, QuietGood

LEMMA CountCurrentGood ==
  ASSUME TasksGood, WorldOK, NEW t \in T, NEW p \in tasks[t].left, CountCurrent(t, p)
  PROVE  TasksGood' /\ WorldOK'
<1>1. WorldOK' /\ UNCHANGED <<clock, projects, deleted, triggers, mails>>
  BY DEF WorldOK, CountCurrent
<1> DEFINE held == Errors(p, tasks[t].now - Bucket, tasks[t].now)
           r == [tasks[t] EXCEPT !.pc = "measure", !.left = @ \ {p}, !.project = p, !.held = held]
<1>2. p \in Projects /\ held \subseteq Posted
  BY TaskAt DEF Task, Errors, Stored
<1>3. Set(t, r) /\ tasks[t].kind = "spikes" /\ tasks[t].pc = "loop"
  BY DEF CountCurrent, At
<1> HIDE DEF held
<1>4. /\ r \in Task /\ r.pc = "measure" /\ r.project = p
      /\ \A f \in {"kind", "now", "notice"} : r[f] = tasks[t][f]
  BY <1>2, TaskAt DEF Task, Places
<1> HIDE DEF r
<1>5. GoodTask(r, clock, triggers, Stored, DOMAIN mails)
  BY <1>2, <1>3, <1>4, TaskAt DEF GoodTask, Owns
<1> QED
  BY <1>1, <1>3, <1>4, <1>5, QuietGood

\* Where the second count leads.
Quiet(t) == [tasks[t] EXCEPT !.pc = "loop", !.held = {}, !.project = NoProject]

Found(t) == [tasks[t] EXCEPT !.pc = "create", !.held = {}]

LEMMA MeasureGood ==
  ASSUME TasksGood, WorldOK, NEW t \in T, Measure(t)
  PROVE  TasksGood' /\ WorldOK'
<1>1. WorldOK' /\ UNCHANGED <<clock, projects, deleted, triggers, mails>>
  BY DEF WorldOK, Measure
<1>2. tasks[t].kind = "spikes" /\ tasks[t].pc = "measure" /\ tasks[t].project \in Projects
  BY TaskAt DEF Measure, At, GoodTask
<1>3. /\ Quiet(t) \in Task /\ Quiet(t).pc = "loop" /\ Quiet(t).project = NoProject
      /\ \A f \in {"kind", "now", "notice"} : Quiet(t)[f] = tasks[t][f]
  BY TaskAt DEF Task, Places, Quiet
<1>4. /\ Found(t) \in Task /\ Found(t).pc = "create"
      /\ \A f \in {"kind", "now", "notice", "project"} : Found(t)[f] = tasks[t][f]
  BY TaskAt DEF Task, Places, Found
<1>5. Set(t, Quiet(t)) \/ Set(t, Found(t))
  BY DEF Measure, Quiet, Found
<1>6. GoodTask(Quiet(t), clock, triggers, Stored, DOMAIN mails)
  BY <1>2, <1>3, TaskAt DEF GoodTask, Owns
<1>7. GoodTask(Found(t), clock, triggers, Stored, DOMAIN mails)
  BY <1>2, <1>4, TaskAt DEF GoodTask, Owns
<1> QED
  BY <1>1, <1>3, <1>4, <1>5, <1>6, <1>7, QuietGood

LEMMA CleanupGood ==
  ASSUME TasksGood, WorldOK, NEW t \in T, StartCleanup(t) \/ SelectBatch(t) \/ DeleteBatch(t)
  PROVE  TasksGood' /\ WorldOK'
<1>0. /\ tasks[t] \in Task /\ tasks[t].now \in Nat /\ tasks[t].held \subseteq Posted
      /\ GoodTask(tasks[t], clock, triggers, Stored, DOMAIN mails) /\ clock \in Nat
  BY TaskAt DEF Task
<1>1. CASE StartCleanup(t)
  <2> DEFINE r == [tasks[t] EXCEPT !.pc = "loop", !.now = clock]
  <2>1. r \in Task
    BY <1>0 DEF Task, Places
  <2>2. GoodTask(r, clock, triggers, Stored, DOMAIN mails)
    BY <1>0, <1>1 DEF StartCleanup, At, GoodTask, Owns, Task
  <2>3. WorldOK' /\ UNCHANGED <<clock, projects, deleted, triggers, mails>> /\ Set(t, r)
    BY <1>1 DEF WorldOK, StartCleanup
  <2> QED
    BY <2>1, <2>2, <2>3, QuietGood
<1>2. CASE SelectBatch(t)
  <2> DEFINE old == Older(Stored, tasks[t].now - Retention)
             done == [tasks[t] EXCEPT !.pc = "done"]
             batch == [tasks[t] EXCEPT !.pc = "delete", !.held = Batch(old)]
  <2>1. WorldOK' /\ UNCHANGED <<clock, projects, deleted, triggers, mails>>
    BY <1>2 DEF WorldOK, SelectBatch
  <2>2. old \subseteq Stored /\ Batch(old) \subseteq old /\ Stored \subseteq Posted
    BY DEF Older, Batch, Stored
  <2>3. CASE old = {}
    <3>1. Set(t, done)
      BY <1>2, <2>3 DEF SelectBatch
    <3>2. done \in Task
      BY <1>0 DEF Task, Places
    <3>3. \A e \in Stored : e.at + Retention >= tasks[t].now
      BY <1>0, <2>3, StoredEvents DEF Older
    <3>4. GoodTask(done, clock, triggers, Stored, DOMAIN mails)
      BY <1>0, <1>2, <3>3 DEF SelectBatch, At, GoodTask, Owns, Task
    <3> QED
      BY <2>1, <3>1, <3>2, <3>4, QuietGood
  <2>4. CASE old # {}
    <3>1. Set(t, batch)
      BY <1>2, <2>4 DEF SelectBatch
    <3>2. batch \in Task
      BY <1>0, <2>2 DEF Task, Places
    <3>3. \A e \in Batch(old) : e.at + Retention < tasks[t].now
      BY <1>0, <2>2, StoredEvents DEF Older
    <3>4. GoodTask(batch, clock, triggers, Stored, DOMAIN mails)
      BY <1>0, <1>2, <3>3 DEF SelectBatch, At, GoodTask, Owns, Task
    <3> QED
      BY <2>1, <3>1, <3>2, <3>4, QuietGood
  <2> QED
    BY <2>3, <2>4
<1>3. CASE DeleteBatch(t)
  <2> DEFINE r == [tasks[t] EXCEPT !.pc = "loop", !.held = {}]
  <2>1. \A e \in tasks[t].held : e.at + Retention < tasks[t].now /\ tasks[t].now <= clock
    BY <1>0, <1>3 DEF DeleteBatch, At, GoodTask
  <2>2. \A e \in deleted' : e.at + Retention < clock
    <3>1. \A e \in Posted : e.at + Retention \in Nat
      BY JobsAssumption
    <3> QED
      BY <1>0, <1>3, <2>1, <3>1 DEF DeleteBatch, WorldOK
  <2>3. WorldOK'
    BY <1>0, <1>3, <2>2 DEF DeleteBatch, WorldOK
  <2>4. Stored' \subseteq Stored /\ UNCHANGED <<clock, triggers, mails>> /\ Set(t, r)
    BY <1>3 DEF DeleteBatch, Stored
  <2>5. r \in Task
    BY <1>0 DEF Task, Places
  <2>6. GoodTask(r, clock', triggers', Stored', DOMAIN mails')
    BY <1>0, <1>3, <2>4 DEF DeleteBatch, At, GoodTask, Owns, Task
  <2>7. Later /\ clock' \in Nat
    BY <1>0, <2>4 DEF Later
  <2> QED
    BY <2>3, <2>4, <2>5, <2>6, <2>7, SetGood
<1> QED
  BY <1>1, <1>2, <1>3

LEMMA SummaryGood ==
  ASSUME TasksGood, WorldOK, NEW t \in T,
         (\E p \in tasks[t].left : CountDay(t, p)) \/ SaveSummary(t)
  PROVE  TasksGood' /\ WorldOK'
<1>0. /\ tasks[t] \in Task /\ tasks[t].now \in Nat /\ tasks[t].held \subseteq Posted
      /\ tasks[t].left \subseteq Projects
      /\ GoodTask(tasks[t], clock, triggers, Stored, DOMAIN mails) /\ NoProject \notin Projects
  BY TaskAt DEF Task
<1>1. ASSUME NEW p \in tasks[t].left, CountDay(t, p) PROVE TasksGood' /\ WorldOK'
  <2> DEFINE held == OfDay(Stored, p, ReportDate(tasks[t].now))
             r == [tasks[t] EXCEPT !.pc = "save", !.left = @ \ {p}, !.project = p, !.held = held]
  <2>1. WorldOK' /\ UNCHANGED <<clock, projects, deleted, triggers, mails>> /\ Set(t, r)
    BY <1>1 DEF WorldOK, CountDay
  <2>2. held \subseteq Posted /\ p \in Projects
    BY <1>0, <1>1 DEF OfDay, Stored
  <2> HIDE DEF held
  <2>3. r \in Task
    BY <1>0, <2>2 DEF Task, Places
  <2>4. GoodTask(r, clock, triggers, Stored, DOMAIN mails)
    BY <1>0, <1>1, <2>2 DEF CountDay, At, GoodTask, Owns, Task
  <2> QED
    BY <2>1, <2>3, <2>4, QuietGood
<1>2. CASE SaveSummary(t)
  <2> DEFINE r == [tasks[t] EXCEPT !.pc = "loop", !.project = NoProject, !.held = {}]
             key == <<tasks[t].project, ReportDate(tasks[t].now)>>
  <2>1. UNCHANGED <<clock, projects, deleted, triggers, mails>> /\ Set(t, r)
    BY <1>2 DEF SaveSummary
  <2>2. ReportDate(tasks[t].now) \in Int /\ tasks[t].project \in Projects
    <3>1. tasks[t].now \div Day \in Int
      BY <1>0, JobsAssumption
    <3> QED
      BY <1>2, <3>1 DEF ReportDate, SaveSummary, WorldOK
  <2>3. summary' = [y \in DOMAIN summary \cup {key} |->
                     IF y = key THEN tasks[t].held ELSE summary[y]]
    BY <1>2 DEF SaveSummary, Assign
  <2>4. \A s \in DOMAIN summary' :
          s[1] \in Projects /\ s[2] \in Int /\ summary'[s] \subseteq Posted
    BY <1>0, <2>2, <2>3 DEF WorldOK
  <2>5. WorldOK'
    BY <1>2, <2>4 DEF WorldOK, SaveSummary
  <2>6. r \in Task
    BY <1>0 DEF Task, Places
  <2>7. GoodTask(r, clock, triggers, Stored, DOMAIN mails)
    BY <1>0, <1>2 DEF SaveSummary, At, GoodTask, Owns, Task
  <2> QED
    BY <2>1, <2>5, <2>6, <2>7, QuietGood
<1> QED
  BY <1>1, <1>2

LEMMA MailGood ==
  ASSUME TasksGood, WorldOK, NEW t \in T, LoadNotice(t) \/ SendMail(t) \/ Acknowledge(t)
  PROVE  TasksGood' /\ WorldOK'
<1>0. /\ tasks[t] \in Task /\ GoodTask(tasks[t], clock, triggers, Stored, DOMAIN mails)
      /\ clock \in Nat
  BY TaskAt
<1>1. CASE LoadNotice(t) \/ Acknowledge(t)
  <2>1. WorldOK' /\ UNCHANGED <<clock, projects, deleted, triggers, mails>>
    BY <1>1, JobsAssumption DEF WorldOK, LoadNotice, Acknowledge, Fault
  <2> DEFINE R(pc) == [tasks[t] EXCEPT !.pc = pc]
  <2>2. PICK pc \in {"send", "done"} : Set(t, R(pc))
    BY <1>1 DEF LoadNotice, Acknowledge
  <2>3. R(pc) \in Task
    BY <1>0 DEF Task, Places
  <2>4. GoodTask(R(pc), clock, triggers, Stored, DOMAIN mails)
    BY <1>0, <1>1 DEF LoadNotice, Acknowledge, At, GoodTask, Owns, Task
  <2> QED
    BY <2>1, <2>2, <2>3, <2>4, QuietGood
<1>2. CASE SendMail(t)
  <2> DEFINE r == [tasks[t] EXCEPT !.pc = "sent"]
             n == tasks[t].notice
  <2>1. DOMAIN mails' = DOMAIN mails \cup {n} /\ Set(t, r)
    BY <1>2 DEF SendMail, Assign
  <2>2. n \in triggers
    BY <1>0, <1>2 DEF SendMail, At, GoodTask, Owns
  <2>3. WorldOK'
    BY <1>2, <2>1, <2>2 DEF SendMail, WorldOK
  <2>4. UNCHANGED <<clock, projects, deleted, triggers>> /\ Stored' = Stored
    BY <1>2 DEF SendMail, Stored
  <2>5. r \in Task
    BY <1>0 DEF Task, Places
  <2>6. GoodTask(r, clock', triggers', Stored', DOMAIN mails')
    BY <1>0, <1>2, <2>1, <2>4 DEF SendMail, At, GoodTask, Owns, Task
  <2>7. Later /\ clock' \in Nat
    BY <1>0, <2>1, <2>4 DEF Later
  <2> QED
    BY <2>1, <2>3, <2>5, <2>6, <2>7, SetGood
<1> QED
  BY <1>1, <1>2

\* The trigger that a scan creates.
Fresh(t) == [id |-> Cardinality(triggers) + 1, project |-> tasks[t].project, at |-> tasks[t].now]

LEMMA SpikeCases ==
  ASSUME NEW t \in T, CreateSpike(t)
  PROVE  \/ /\ UNCHANGED triggers
            /\ \/ /\ tasks[t].project \notin projects
                  /\ Set(t, [tasks[t] EXCEPT !.pc = "failed", !.project = NoProject])
               \/ /\ Marked(tasks[t].project, tasks[t].now)
                       \/ CoolingDown(tasks[t].project, tasks[t].now)
                  /\ Set(t, [tasks[t] EXCEPT !.pc = "loop", !.project = NoProject])
         \/ /\ tasks[t].project \in projects
            /\ ~Marked(tasks[t].project, tasks[t].now)
            /\ ~CoolingDown(tasks[t].project, tasks[t].now)
            /\ triggers' = triggers \cup {Fresh(t)}
            /\ Set(t, [tasks[t] EXCEPT !.pc = "hook", !.notice = Fresh(t)])
BY DEF CreateSpike, Fresh

LEMMA FreshNotice ==
  ASSUME TasksGood, WorldOK, NEW t \in T, tasks[t].project \in Projects
  PROVE  Fresh(t) \in Notices /\ IsFiniteSet(triggers \cup {Fresh(t)})
<1>1. Cardinality(triggers) + 1 \in Nat /\ IsFiniteSet(triggers)
  BY FS_CardinalityType DEF WorldOK
<1>2. tasks[t].now \in Nat
  BY TaskAt DEF Task
<1>3. Fresh(t) \in Notices
  BY <1>1, <1>2 DEF Fresh, Notices
<1> QED
  BY <1>1, <1>3, FS_AddElement

LEMMA SpikeGood ==
  ASSUME TasksGood, WorldOK, NEW t \in T, CreateSpike(t)
  PROVE  TasksGood' /\ WorldOK'
<1>0. /\ tasks[t] \in Task /\ tasks[t].project \in Projects
      /\ GoodTask(tasks[t], clock, triggers, Stored, DOMAIN mails)
      /\ clock \in Nat /\ NoProject \notin Projects
      /\ At(t, "spikes", "create")
      /\ UNCHANGED <<clock, cooldown, projects, deleted, summary, mails, lost, beats, faults>>
  BY TaskAt DEF CreateSpike, At, GoodTask
<1>1. ASSUME NEW pc \in {"failed", "loop"}, UNCHANGED triggers,
             Set(t, [tasks[t] EXCEPT !.pc = pc, !.project = NoProject])
      PROVE  TasksGood' /\ WorldOK'
  <2> DEFINE r == [tasks[t] EXCEPT !.pc = pc, !.project = NoProject]
  <2>1. r \in Task
    BY <1>0 DEF Task, Places
  <2>2. GoodTask(r, clock, triggers, Stored, DOMAIN mails)
    BY <1>0 DEF At, GoodTask, Owns, Task
  <2>3. WorldOK'
    BY <1>0, <1>1 DEF WorldOK
  <2> QED
    BY <1>0, <1>1, <2>1, <2>2, <2>3, QuietGood
<1>2. ASSUME triggers' = triggers \cup {Fresh(t)},
             Set(t, [tasks[t] EXCEPT !.pc = "hook", !.notice = Fresh(t)])
      PROVE  TasksGood' /\ WorldOK'
  <2> DEFINE r == [tasks[t] EXCEPT !.pc = "hook", !.notice = Fresh(t)]
  <2>1. Fresh(t) \in Notices /\ IsFiniteSet(triggers')
    BY <1>0, <1>2, FreshNotice
  <2>2. WorldOK'
    BY <1>0, <1>2, <2>1 DEF WorldOK
  <2>3. r \in Task
    BY <1>0, <2>1 DEF Task, Places
  <2>4. Stored' = Stored
    BY <1>0 DEF Stored
  <2>5. GoodTask(r, clock', triggers', Stored', DOMAIN mails')
    BY <1>0, <1>2, <2>4 DEF At, GoodTask, Owns, Task
  <2>6. Later /\ clock' \in Nat
    BY <1>0, <1>2, <2>4 DEF Later
  <2> QED
    BY <1>2, <2>2, <2>3, <2>5, <2>6, SetGood
<1> QED
  BY <1>1, <1>2, SpikeCases

LEMMA NewTaskGood ==
  ASSUME WorldOK, NEW kind \in Kinds \cup {"email"}, NEW n \in Notices \cup {NoNotice},
         IF kind = "email" THEN n \in triggers ELSE n = NoNotice
  PROVE  /\ NewTask(kind, n) \in Task
         /\ GoodTask(NewTask(kind, n), clock, triggers, Stored, DOMAIN mails)
<1>1. clock \in Nat /\ NoProject \notin Projects /\ 0 \in 0..MaxRetries
  BY JobsAssumption DEF WorldOK
<1>2. NewTask(kind, n) \in Task
  BY <1>1 DEF NewTask, Task, Places
<1>3. GoodTask(NewTask(kind, n), clock, triggers, Stored, DOMAIN mails)
  BY <1>1 DEF NewTask, GoodTask, Owns
<1> QED
  BY <1>2, <1>3

\* The scan goes on without the notice it handed over.
Handed(t) == [tasks[t] EXCEPT !.pc = "loop", !.project = NoProject, !.notice = NoNotice]

LEMMA HandOver ==
  ASSUME TasksGood, WorldOK, NEW t \in T, EnqueueEmail(t)
  PROVE  /\ tasks[t].notice \in triggers
         /\ Len(tasks) \in Nat
         /\ \/ /\ Len(tasks') = Len(tasks)
               /\ tasks' \in Seq(Task)
            \/ /\ Len(tasks') = Len(tasks) + 1
               /\ tasks' \in Seq(Task)
               /\ tasks'[Len(tasks) + 1] = NewTask("email", tasks[t].notice)
         /\ \A u \in T : tasks'[u] = IF u = t THEN Handed(t) ELSE tasks[u]
<1>1. /\ tasks \in Seq(Task) /\ t \in 1..Len(tasks)
      /\ GoodTask(tasks[t], clock, triggers, Stored, DOMAIN mails)
  BY DEF TasksGood, T
<1>2. tasks[t].notice \in triggers /\ tasks[t].notice \in Notices
  BY <1>1 DEF EnqueueEmail, At, GoodTask, Owns, WorldOK
<1>3. Handed(t) \in Task
  BY <1>1, TaskAt DEF Handed, Task, Places
<1>4. NewTask("email", tasks[t].notice) \in Task
  BY <1>2, NewTaskGood
<1> DEFINE back == [tasks EXCEPT ![t] = Handed(t)]
<1>5. tasks' = Append(back, NewTask("email", tasks[t].notice)) \/ tasks' = back
  BY <1>1 DEF EnqueueEmail, Handed
<1>6. /\ back \in Seq(Task) /\ Len(back) = Len(tasks)
      /\ \A u \in T : back[u] = IF u = t THEN Handed(t) ELSE tasks[u]
  BY <1>1, <1>3 DEF T
<1> HIDE DEF back
<1>7. CASE tasks' = back
  BY <1>1, <1>2, <1>6, <1>7
<1>8. CASE tasks' = Append(back, NewTask("email", tasks[t].notice))
  <2> DEFINE e == NewTask("email", tasks[t].notice)
  <2> HIDE DEF e
  <2>1. /\ Append(back, e) \in Seq(Task) /\ Len(Append(back, e)) = Len(tasks) + 1
        /\ Append(back, e)[Len(tasks) + 1] = e
        /\ \A u \in T : Append(back, e)[u] = back[u]
    BY <1>1, <1>4, <1>6 DEF T, e
  <2>2. tasks' = Append(back, e)
    BY <1>8 DEF e
  <2>3. \A u \in T : tasks'[u] = IF u = t THEN Handed(t) ELSE tasks[u]
    BY <1>6, <2>1, <2>2
  <2>4. Len(tasks) \in Nat
    BY <1>1
  <2> QED
    BY <1>2, <2>1, <2>2, <2>3, <2>4 DEF e
<1> QED
  BY <1>5, <1>7, <1>8

LEMMA EnqueueGood ==
  ASSUME TasksGood, WorldOK, NEW t \in T, EnqueueEmail(t)
  PROVE  TasksGood' /\ WorldOK'
<1>0. faults' \in 0..MaxFaults
  <2>1. CASE UNCHANGED faults
    BY <2>1 DEF WorldOK
  <2>2. CASE Fault
    BY <2>2, JobsAssumption DEF WorldOK, Fault
  <2> QED
    BY <2>1, <2>2 DEF EnqueueEmail
<1>1. WorldOK' /\ UNCHANGED <<clock, projects, deleted, triggers, mails>>
  BY <1>0 DEF EnqueueEmail, WorldOK
<1>2. Stored' = Stored
  BY <1>1 DEF Stored
<1>3. \A u \in T : GoodTask(tasks[u], clock, triggers, Stored, DOMAIN mails)
  BY DEF TasksGood
<1>4. GoodTask(Handed(t), clock, triggers, Stored, DOMAIN mails)
  BY TaskAt DEF Handed, GoodTask, Owns, Task, EnqueueEmail, At
<1>5. GoodTask(NewTask("email", tasks[t].notice), clock, triggers, Stored, DOMAIN mails)
  BY HandOver, NewTaskGood DEF WorldOK
<1>6. ASSUME NEW u \in T' PROVE GoodTask(tasks'[u], clock, triggers, Stored, DOMAIN mails)
  <2>1. u \in T \/ u = Len(tasks) + 1
    BY HandOver DEF T
  <2>2. CASE u \in T
    BY <1>3, <1>4, <2>2, HandOver
  <2>3. CASE u = Len(tasks) + 1
    BY <1>5, <2>3, HandOver DEF T
  <2> QED
    BY <2>1, <2>2, <2>3
<1> QED
  BY <1>1, <1>2, <1>6, HandOver DEF TasksGood

LEMMA BeatGood ==
  ASSUME TasksGood, WorldOK, NEW kind \in Kinds, Beat(kind)
  PROVE  /\ TasksGood' /\ WorldOK'
         /\ Len(tasks') = Len(tasks) + 1
         /\ tasks'[Len(tasks) + 1] = NewTask(kind, NoNotice)
         /\ \A u \in T : tasks'[u] = tasks[u]
<1>1. WorldOK' /\ UNCHANGED <<clock, projects, deleted, triggers, mails>>
  BY JobsAssumption DEF Beat, WorldOK
<1>2. Stored' = Stored
  BY <1>1 DEF Stored
<1> DEFINE n == NewTask(kind, NoNotice)
<1>3. n \in Task /\ GoodTask(n, clock, triggers, Stored, DOMAIN mails)
  <2>1. kind # "email"
    BY DEF Kinds
  <2> QED
    BY <2>1, NewTaskGood
<1>4. tasks \in Seq(Task) /\ tasks' = Append(tasks, n)
  BY DEF Beat, TasksGood
<1> HIDE DEF n
<1>5. /\ tasks' \in Seq(Task) /\ Len(tasks') = Len(tasks) + 1 /\ tasks'[Len(tasks) + 1] = n
      /\ \A u \in T : tasks'[u] = tasks[u]
  BY <1>3, <1>4 DEF T
<1>6. \A u \in T' : GoodTask(tasks'[u], clock, triggers, Stored, DOMAIN mails)
  BY <1>3, <1>4, <1>5 DEF T, TasksGood
<1> QED
  BY <1>1, <1>2, <1>5, <1>6 DEF TasksGood, n

\* The clock moves, or a project is deleted with its events and summaries.
LEMMA WorldGood ==
  ASSUME TasksGood, WorldOK, Tick \/ \E p \in Projects : DeleteProject(p)
  PROVE  TasksGood' /\ WorldOK'
<1>0. clock \in Nat /\ clock' \in Nat /\ clock <= clock' /\ UNCHANGED <<tasks, triggers, mails>>
  <2>1. clock \in Nat
    BY JobsAssumption DEF WorldOK
  <2>2. CASE Tick
    BY <2>1, <2>2 DEF Tick
  <2>3. CASE \E p \in Projects : DeleteProject(p)
    BY <2>1, <2>3 DEF DeleteProject
  <2> QED
    BY <2>2, <2>3
<1>1. WorldOK'
  <2>1. CASE Tick
    <3>1. clock' = clock + 1 /\ clock' \in Start..MaxTime
      BY <2>1, JobsAssumption DEF Tick, WorldOK
    <3>2. \A e \in deleted : e.at + Retention < clock'
      <4>1. \A e \in Posted : e.at + Retention \in Nat
        BY JobsAssumption
      <4> QED
        BY <1>0, <3>1, <4>1 DEF WorldOK
    <3> QED
      BY <2>1, <3>1, <3>2 DEF Tick, WorldOK
  <2>2. ASSUME NEW p \in Projects, DeleteProject(p) PROVE WorldOK'
    BY <2>2, JobsAssumption DEF DeleteProject, WorldOK, Fault
  <2> QED
    BY <2>1, <2>2
<1>2. Later
  <2>1. \A e \in Stored' : e \in Stored \/ e.at > clock
    <3>1. \A e \in Posted : e.at \in Nat
      BY JobsAssumption
    <3>2. CASE Tick
      BY <1>0, <3>1, <3>2 DEF Stored, Tick
    <3>3. CASE \E p \in Projects : DeleteProject(p)
      BY <1>0, <3>1, <3>3 DEF Stored, DeleteProject
    <3> QED
      BY <3>2, <3>3
  <2> QED
    BY <1>0, <2>1 DEF Later
<1>3. \A u \in T : GoodTask(tasks[u], clock', triggers', Stored', DOMAIN mails')
  BY <1>0, <1>2, GoodLater DEF TasksGood, T
<1> QED
  BY <1>0, <1>1, <1>3 DEF TasksGood, T

LEMMA StepGood ==
  ASSUME TasksGood, WorldOK, [Next]_vars
  PROVE  TasksGood' /\ WorldOK'
<1>1. CASE UNCHANGED vars
  <2>1. Stored' = Stored
    BY <1>1 DEF Stored, vars
  <2> QED
    BY <1>1, <2>1 DEF vars, TasksGood, T, WorldOK
<1>2. ASSUME NEW t \in T, Work(t) PROVE TasksGood' /\ WorldOK'
  BY <1>2, LoopGood, CountCurrentGood, MeasureGood, SpikeGood, EnqueueGood, CleanupGood, SummaryGood, MailGood,
     InterruptGood DEF Work
<1> QED
  BY <1>1, <1>2, BeatGood, WorldGood, InterruptGood DEF Next

LEMMA GoodHolds == Spec => [](TasksGood /\ WorldOK)
BY InitGood, StepGood, PTL DEF Spec

(***************************************************************************)
(* Theorems.                                                               *)
(***************************************************************************)

\* The clock, the tables and what each task remembers keep their types, through any
\* interruption (monitoring/tasks.py, analytics/tasks.py, notifications/tasks.py).
THEOREM JobsTyped == Spec => []TypeOK
<1>1. ASSUME TasksGood, WorldOK PROVE TypeOK
  <2>1. \A t \in T : /\ tasks[t] \in Task
                     /\ GoodTask(tasks[t], clock, triggers, Stored, DOMAIN mails)
    BY <1>1 DEF TasksGood, T
  <2>2. triggers \subseteq Notices /\ NoNotice \notin Notices
    BY <1>1, JobsAssumption DEF WorldOK, NoNotice, Notices
  <2>3. \A t \in T :
          /\ tasks[t].kind \in Kinds \cup {"email"}
          /\ tasks[t].now \in 0..clock /\ tasks[t].retries \in 0..MaxRetries
          /\ tasks[t].left \subseteq Projects
          /\ tasks[t].held \subseteq Posted
    <3> TAKE t \in T
    <3>1. tasks[t].now \in Nat /\ tasks[t].now <= clock /\ clock \in Nat
      BY <1>1, <2>1, TaskAt DEF Task, GoodTask
    <3> QED
      BY <2>1, <3>1 DEF Task
  <2>4. \A t \in T :
          /\ tasks[t].project \in Projects <=> tasks[t].pc \in {"measure", "create", "hook", "save"}
          /\ tasks[t].notice \in triggers <=> (tasks[t].kind = "email" \/ tasks[t].pc = "hook")
    BY <2>1, <2>2 DEF GoodTask, Owns
  <2> QED
    BY <1>1, <2>3, <2>4 DEF TypeOK, WorldOK
<1> QED
  BY <1>1, GoodHolds, PTL

LEMMA SpacedStep ==
  ASSUME TasksGood, WorldOK, SpikesAreSpaced, [Next]_vars
  PROVE  SpikesAreSpaced'
<1>1. CASE UNCHANGED <<triggers, cooldown>>
  BY <1>1 DEF SpikesAreSpaced, SameBucket
<1>2. ASSUME NEW t \in T, triggers' = triggers \cup {Fresh(t)}, UNCHANGED cooldown,
             ~Marked(tasks[t].project, tasks[t].now),
             ~CoolingDown(tasks[t].project, tasks[t].now)
      PROVE  SpikesAreSpaced'
  <2> DEFINE n == Fresh(t)
  <2>1. n.project = tasks[t].project /\ n.at = tasks[t].now /\ n.at \in Nat
    BY TaskAt DEF Fresh, Task
  <2>2. cooldown \in Nat /\ cooldown' = cooldown /\ \A tr \in triggers : tr.at \in Nat
    BY <1>2, JobsAssumption DEF WorldOK, Notices
  <2> HIDE DEF n
  <2>3. ASSUME NEW tr \in triggers, tr.project = n.project
        PROVE  /\ ~SameBucket(tr.at, n.at) /\ ~SameBucket(n.at, tr.at)
               /\ cooldown > 0 => n.at - tr.at > cooldown
    <3>1. ~SameBucket(tr.at, n.at)
      BY <1>2, <2>1, <2>3 DEF Marked
    <3>2. ~SameBucket(n.at, tr.at)
      BY <3>1 DEF SameBucket
    <3>3. cooldown > 0 => ~(tr.at >= n.at - cooldown)
      BY <1>2, <2>1, <2>3 DEF CoolingDown
    <3> QED
      BY <2>1, <2>2, <3>1, <3>2, <3>3
  <2>4. ASSUME NEW a \in triggers', NEW b \in triggers', a.project = b.project, a # b
        PROVE  /\ ~SameBucket(a.at, b.at)
               /\ cooldown > 0 => a.at - b.at > cooldown \/ b.at - a.at > cooldown
    <3>1. \/ a \in triggers /\ b \in triggers
          \/ a \in triggers /\ b = n
          \/ a = n /\ b \in triggers
      BY <1>2, <2>4 DEF n
    <3> QED
      BY <2>3, <2>4, <3>1 DEF SpikesAreSpaced
  <2> QED
    BY <2>2, <2>4 DEF SpikesAreSpaced, SameBucket
<1>3. ASSUME NEW t \in T, CreateSpike(t) PROVE SpikesAreSpaced'
  <2>1. UNCHANGED cooldown
    BY <1>3 DEF CreateSpike
  <2> QED
    BY <1>1, <1>2, <1>3, <2>1, SpikeCases
<1>4. ASSUME NEW t \in T, Work(t) PROVE CreateSpike(t) \/ UNCHANGED <<triggers, cooldown>>
  BY <1>4 DEF Work, StartLoop, EndLoop, EnqueueEmail, CountCurrent, Measure, CountDay, StartCleanup,
              SelectBatch, DeleteBatch, SaveSummary, Report, LoadNotice, SendMail, Acknowledge,
              Retry
<1>5. ASSUME NEW t \in T, WorkerLost(t) \/ Retry(t) \/ TimeLimit(t)
      PROVE  UNCHANGED <<triggers, cooldown>>
  BY <1>5 DEF WorkerLost, Retry, TimeLimit
<1>6. CASE (\E kind \in Kinds : Beat(kind)) \/ Tick \/ (\E p \in Projects : DeleteProject(p))
             \/ UNCHANGED vars
  BY <1>1, <1>6 DEF Beat, Tick, DeleteProject, vars
<1> QED
  BY <1>1, <1>3, <1>4, <1>5, <1>6 DEF Next

\* _create_spike_trigger (monitoring/tasks.py:166-215) spaces a project's triggers,
\* for any cooldown, any overlap of scans and any delay between clock and insert.
THEOREM SpikesSpaced == Spec => []SpikesAreSpaced
<1>1. Init => SpikesAreSpaced
  BY DEF Init, SpikesAreSpaced
<1> QED
  BY <1>1, SpacedStep, GoodHolds, PTL DEF Spec

\* cleanup_old_events (monitoring/tasks.py:255-281) deletes what has expired, and all
\* of it, in any number of overlapping and interrupted runs.
THEOREM CleanupIsExact == Spec => []CleanupExact
<1>1. ASSUME TasksGood, WorldOK PROVE CleanupExact
  BY <1>1 DEF TasksGood, WorldOK, GoodTask, CleanupExact, At
<1> QED
  BY <1>1, GoodHolds, PTL

\* A measured spike is not dropped by the marker, the cooldown or another scan.
THEOREM SpikesReported == Spec => SpikesAreReported
<1>1. ASSUME TasksGood, WorldOK, [Next]_vars
      PROVE  [\A t \in T : At(t, "spikes", "create") /\ tasks'[t].pc # "create" =>
                \/ \E tr \in triggers' :
                     /\ tr.project = tasks[t].project
                     /\ SameBucket(tr.at, tasks[t].now) \/ tr.at >= tasks[t].now - cooldown
                \/ tasks[t].project \notin projects
                \/ tasks'[t].cut]_vars
  <2> SUFFICES ASSUME Next, NEW t \in T, At(t, "spikes", "create"), tasks'[t].pc # "create",
                      tasks[t].project \in projects, ~tasks'[t].cut
               PROVE  \E tr \in triggers' :
                        /\ tr.project = tasks[t].project
                        /\ SameBucket(tr.at, tasks[t].now) \/ tr.at >= tasks[t].now - cooldown
    BY <1>1
  <2>0. tasks \in Seq(Task) /\ T = 1..Len(tasks)
    BY <1>1 DEF TasksGood, T
  <2>1. ASSUME NEW u \in T, u # t, NEW r, Set(u, r) PROVE FALSE
    BY <2>0, <2>1 DEF Set, At
  <2>2. CASE CreateSpike(t)
    <3>1. CASE Marked(tasks[t].project, tasks[t].now) /\ UNCHANGED triggers
      BY <3>1 DEF Marked
    <3>2. CASE CoolingDown(tasks[t].project, tasks[t].now) /\ UNCHANGED triggers
      BY <3>2 DEF CoolingDown
    <3>3. CASE triggers' = triggers \cup {Fresh(t)}
      <4>1. Fresh(t).project = tasks[t].project /\ Fresh(t).at = tasks[t].now
        BY DEF Fresh
      <4>2. SameBucket(Fresh(t).at, tasks[t].now)
        BY <4>1 DEF SameBucket
      <4> QED
        BY <3>3, <4>1, <4>2
    <3> QED
      BY <2>2, <3>1, <3>2, <3>3, SpikeCases
  <2>3. CASE WorkerLost(t) \/ Retry(t) \/ TimeLimit(t)
    <3>1. \A n : Again(t, n).cut = TRUE /\ Ended(t).cut = TRUE
      BY DEF Again, Ended, NewTask
    <3>2. \A r : Set(t, r) => tasks'[t] = r
      BY <2>0 DEF Set
    <3>3. CASE WorkerLost(t) \/ TimeLimit(t)
      BY <3>1, <3>2, <3>3 DEF WorkerLost, TimeLimit
    <3>4. CASE Retry(t)
      <4>1. \E n : Set(t, Again(t, n)) \/ Set(t, Ended(t))
        BY <3>4 DEF Retry
      <4> QED
        BY <3>1, <3>2, <4>1
    <3> QED
      BY <2>3, <3>3, <3>4
  <2>4. ASSUME NEW u \in T, EnqueueEmail(u) PROVE FALSE
    BY <1>1, <2>4, HandOver DEF At, EnqueueEmail
  <2>5. ASSUME NEW u \in T, Work(u) PROVE EnqueueEmail(u) \/ \E r : Set(u, r)
    BY <2>5 DEF Work, StartLoop, EndLoop, CountCurrent, Measure, CountDay, StartCleanup, CreateSpike,
                SelectBatch, DeleteBatch, SaveSummary, Report, LoadNotice, SendMail,
                Acknowledge, Retry
  <2>6. Work(t) => CreateSpike(t)
    BY DEF Work, At, StartLoop, EndLoop, EnqueueEmail, CountCurrent, Measure, CountDay, StartCleanup,
           SelectBatch, DeleteBatch, SaveSummary, Report, LoadNotice, SendMail, Acknowledge
  <2>7. ASSUME NEW u \in T, WorkerLost(u) \/ Retry(u) \/ TimeLimit(u) PROVE \E r : Set(u, r)
    BY <2>7 DEF WorkerLost, Retry, TimeLimit
  <2>8. ASSUME (\E kind \in Kinds : Beat(kind)) \/ Tick \/ \E p \in Projects : DeleteProject(p)
        PROVE  FALSE
    <3>1. \A kind \in Kinds : Beat(kind) => tasks'[t] = tasks[t]
      BY <1>1, BeatGood
    <3> QED
      BY <2>8, <3>1 DEF Tick, DeleteProject, At
  <2> QED
    BY <2>1, <2>2, <2>3, <2>4, <2>5, <2>6, <2>7, <2>8 DEF Next
<1> QED
  BY <1>1, GoodHolds, PTL DEF Spec, SpikesAreReported

(***************************************************************************)
(* Emails.  A notice has one owner, and once it is sent its owner sends it *)
(* again only by starting over after the server had accepted it.           *)
(***************************************************************************)
Over(pc) == pc \in {"sent", "done", "failed"}

OneOwner ==
  \A u, v \in T : (tasks[u].notice = tasks[v].notice /\ tasks[u].notice # NoNotice) => u = v

SentOnce ==
  \A n \in DOMAIN mails : n \notin lost =>
    mails[n] = 1 /\ \A u \in T : tasks[u].notice = n => Over(tasks[u].pc)

MailInv == OneOwner /\ SentOnce

LEMMA NoNoticeUnsent == WorldOK => NoNotice \notin triggers /\ NoNotice \notin DOMAIN mails
BY JobsAssumption DEF WorldOK, NoNotice, Notices

LEMMA MailSet ==
  ASSUME TasksGood, WorldOK, MailInv, NEW t \in T, NEW r, Set(t, r),
         r.notice \in {tasks[t].notice, NoNotice}, UNCHANGED mails, lost \subseteq lost',
         (r.notice # NoNotice /\ Over(tasks[t].pc) /\ r.notice \notin lost') => Over(r.pc)
  PROVE  MailInv'
<1>1. /\ Len(tasks') = Len(tasks) /\ T' = T
      /\ \A u \in T : tasks'[u] = IF u = t THEN r ELSE tasks[u]
  BY DEF TasksGood, T, Set
<1>2. OneOwner'
  BY <1>1 DEF MailInv, OneOwner
<1>3. SentOnce'
  <2> SUFFICES ASSUME NEW n \in DOMAIN mails, n \notin lost'
               PROVE  mails[n] = 1 /\ \A u \in T : tasks'[u].notice = n => Over(tasks'[u].pc)
    BY <1>1 DEF SentOnce
  <2>1. mails[n] = 1 /\ \A u \in T : tasks[u].notice = n => Over(tasks[u].pc)
    BY DEF MailInv, SentOnce
  <2>2. n # NoNotice
    BY NoNoticeUnsent
  <2> QED
    BY <1>1, <2>1, <2>2
<1> QED
  BY <1>2, <1>3 DEF MailInv

LEMMA MailWork ==
  ASSUME TasksGood, WorldOK, MailInv, NEW t \in T, Work(t)
  PROVE  MailInv'
<1>0. /\ tasks[t] \in Task /\ GoodTask(tasks[t], clock, triggers, Stored, DOMAIN mails)
      /\ tasks \in Seq(Task) /\ NoNotice \notin triggers
  BY TaskAt, NoNoticeUnsent DEF TasksGood
<1>1. CASE \/ StartLoop(t) \/ EndLoop(t) \/ Report(t) \/ StartCleanup(t) \/ SelectBatch(t)
           \/ DeleteBatch(t) \/ SaveSummary(t) \/ LoadNotice(t) \/ Acknowledge(t)
           \/ Measure(t) \/ \E p \in tasks[t].left : CountCurrent(t, p) \/ CountDay(t, p)
  <2>1. UNCHANGED <<mails, lost>>
    BY <1>1 DEF StartLoop, EndLoop, Report, StartCleanup, SelectBatch, DeleteBatch, SaveSummary,
                LoadNotice, Acknowledge, CountCurrent, Measure, CountDay
  <2>2. PICK r : Set(t, r) /\ r.notice = tasks[t].notice /\ (Over(tasks[t].pc) => Over(r.pc))
    <3>1. CASE StartLoop(t) \/ EndLoop(t) \/ Report(t) \/ StartCleanup(t)
      BY <1>0, <3>1 DEF StartLoop, EndLoop, Report, StartCleanup, At, Task, Over
    <3>2. CASE SelectBatch(t) \/ DeleteBatch(t)
      BY <1>0, <3>2 DEF SelectBatch, DeleteBatch, At, Task, Over
    <3>3. CASE SaveSummary(t) \/ LoadNotice(t) \/ Acknowledge(t)
      <4>1. CASE SaveSummary(t)
        BY <1>0, <4>1 DEF SaveSummary, At, Task, Over
      <4>2. ASSUME NEW pc, Set(t, [tasks[t] EXCEPT !.pc = pc]), Over(tasks[t].pc) => Over(pc)
            PROVE  \E r : /\ Set(t, r) /\ r.notice = tasks[t].notice
                          /\ Over(tasks[t].pc) => Over(r.pc)
        BY <1>0, <4>2 DEF Task
      <4> QED
        BY <3>3, <4>1, <4>2 DEF LoadNotice, Acknowledge, At, Over
    <3>4. ASSUME Measure(t)
          PROVE  \E r : Set(t, r) /\ r.notice = tasks[t].notice /\ (Over(tasks[t].pc) => Over(r.pc))
      <4>1. Set(t, Quiet(t)) \/ Set(t, Found(t))
        BY <3>4 DEF Measure, Quiet, Found
      <4>2. Quiet(t).notice = tasks[t].notice /\ Found(t).notice = tasks[t].notice
        BY <1>0 DEF Task, Quiet, Found
      <4>3. ~Over(tasks[t].pc)
        BY <3>4 DEF Measure, At, Over
      <4> QED
        BY <4>1, <4>2, <4>3
    <3>5. ASSUME NEW p \in tasks[t].left, CountCurrent(t, p) \/ CountDay(t, p)
          PROVE  \E r : Set(t, r) /\ r.notice = tasks[t].notice /\ (Over(tasks[t].pc) => Over(r.pc))
      BY <1>0, <3>5 DEF CountCurrent, CountDay, At, Task, Over
    <3> QED
      BY <1>1, <3>1, <3>2, <3>3, <3>4, <3>5
  <2> QED
    BY <2>1, <2>2, MailSet
<1>2. CASE CreateSpike(t)
  <2>1. UNCHANGED <<mails, lost>> /\ ~Over(tasks[t].pc)
    BY <1>2 DEF CreateSpike, At, Over
  <2>2. ASSUME NEW pc, Set(t, [tasks[t] EXCEPT !.pc = pc, !.project = NoProject]) PROVE MailInv'
    <3> DEFINE r == [tasks[t] EXCEPT !.pc = pc, !.project = NoProject]
    <3>1. r.notice = tasks[t].notice
      BY <1>0 DEF Task
    <3> QED
      BY <2>1, <2>2, <3>1, MailSet
  <2>3. ASSUME tasks[t].project \in projects, ~Marked(tasks[t].project, tasks[t].now),
               Set(t, [tasks[t] EXCEPT !.pc = "hook", !.notice = Fresh(t)])
        PROVE  MailInv'
    <3> DEFINE n == Fresh(t)
    <3>1. n \notin triggers
      BY <2>3 DEF Marked, SameBucket, Fresh
    <3>2. /\ T' = T /\ tasks'[t].notice = n
          /\ \A u \in T : u # t => tasks'[u] = tasks[u]
      BY <1>0, <2>3 DEF T, Set, Task
    <3>3. n # NoNotice
      <4>1. tasks[t].project # NoProject
        BY <2>3, JobsAssumption DEF WorldOK
      <4> QED
        BY <4>1 DEF Fresh, NoNotice
    <3>4. \A u \in T : tasks[u].notice \in triggers \/ tasks[u].notice = NoNotice
      BY DEF TasksGood, GoodTask
    <3> HIDE DEF n
    <3>5. OneOwner'
      BY <3>1, <3>2, <3>3, <3>4 DEF MailInv, OneOwner
    <3>6. n \notin DOMAIN mails
      BY <3>1 DEF WorldOK
    <3>7. SentOnce'
      BY <2>1, <3>2, <3>6 DEF MailInv, SentOnce
    <3> QED
      BY <3>5, <3>7 DEF MailInv
  <2> QED
    BY <1>2, <2>2, <2>3, SpikeCases
<1>3. CASE EnqueueEmail(t)
  <2>1. UNCHANGED <<mails, lost>> /\ tasks[t].pc = "hook"
    BY <1>3 DEF EnqueueEmail, At
  <2> DEFINE n == tasks[t].notice
             new == Len(tasks) + 1
  <2>2. /\ n \in triggers /\ n # NoNotice /\ new \notin T
        /\ T' = T \/ (T' = T \cup {new} /\ tasks'[new].notice = n)
        /\ \A u \in T : tasks'[u] = IF u = t THEN Handed(t) ELSE tasks[u]
    <3>1. NewTask("email", n).notice = n
      BY DEF NewTask
    <3> QED
      BY <1>0, <1>3, <3>1, HandOver DEF T
  <2>3. Handed(t).notice = NoNotice
    BY <1>0 DEF Handed, Task
  <2>4. n \in DOMAIN mails => n \in lost
    BY <2>1 DEF MailInv, SentOnce, Over
  <2> HIDE DEF n, new
  <2>5. \A u \in T : u # t => tasks[u].notice # n
    BY <2>2 DEF MailInv, OneOwner, n
  <2>6. OneOwner'
    BY <2>2, <2>3, <2>5 DEF MailInv, OneOwner
  <2>7. SentOnce'
    BY <2>1, <2>2, <2>3, <2>4, NoNoticeUnsent DEF MailInv, SentOnce
  <2> QED
    BY <2>6, <2>7 DEF MailInv
<1>4. CASE SendMail(t)
  <2> DEFINE n == tasks[t].notice
  <2>1. /\ n \in triggers /\ n # NoNotice /\ lost' = lost
        /\ mails' = [y \in DOMAIN mails \cup {n} |->
                       IF y = n THEN (IF n \in DOMAIN mails THEN mails[n] + 1 ELSE 1) ELSE mails[y]]
    BY <1>0, <1>4 DEF SendMail, At, GoodTask, Owns, Assign
  <2>2. n \in DOMAIN mails => n \in lost
    BY <1>4 DEF SendMail, At, MailInv, SentOnce, Over
  <2>3. /\ T' = T /\ tasks'[t].notice = n /\ tasks'[t].pc = "sent"
        /\ \A u \in T : u # t => tasks'[u] = tasks[u]
    BY <1>0, <1>4 DEF T, SendMail, Set, Task
  <2> HIDE DEF n
  <2>4. \A u \in T : u # t => tasks[u].notice # n
    BY <2>1 DEF MailInv, OneOwner, n
  <2>5. OneOwner'
    BY <2>3, <2>4 DEF MailInv, OneOwner
  <2>6. SentOnce'
    BY <2>1, <2>2, <2>3, <2>4 DEF MailInv, SentOnce, Over
  <2> QED
    BY <2>5, <2>6 DEF MailInv
<1>5. CASE Retry(t) /\ tasks[t].kind = "summaries"
  <2>1. PICK m : Set(t, Again(t, m)) \/ Set(t, Ended(t))
    BY <1>5 DEF Retry
  <2>2. Again(t, m).notice = NoNotice /\ Ended(t).notice = NoNotice
    BY <1>5 DEF Again, Ended, NewTask
  <2>3. UNCHANGED mails /\ lost \subseteq lost'
    BY <1>5 DEF Retry, Interrupted
  <2> QED
    BY <2>1, <2>2, <2>3, MailSet
<1> QED
  BY <1>1, <1>2, <1>3, <1>4, <1>5 DEF Work, At

LEMMA MailInterrupted ==
  ASSUME TasksGood, WorldOK, MailInv, NEW t \in T, WorkerLost(t) \/ Retry(t) \/ TimeLimit(t)
  PROVE  MailInv'
<1>1. UNCHANGED mails /\ lost \subseteq lost'
  BY DEF WorkerLost, Retry, TimeLimit, Interrupted
<1>2. PICK r : /\ Set(t, r) /\ r.notice \in {tasks[t].notice, NoNotice}
  <2>1. \A m : /\ Again(t, m).notice \in {tasks[t].notice, NoNotice}
               /\ Ended(t).notice \in {tasks[t].notice, NoNotice}
    BY DEF Again, Ended, NewTask
  <2>2. \E m : Set(t, Again(t, m)) \/ Set(t, Ended(t))
    BY DEF WorkerLost, Retry, TimeLimit
  <2> QED
    BY <2>1, <2>2
<1>3. (Over(tasks[t].pc) /\ r.notice # NoNotice) => r.notice \in lost'
  BY <1>2 DEF WorkerLost, Retry, TimeLimit, Interrupted, Running, Over
<1> QED
  BY <1>1, <1>2, <1>3, MailSet

LEMMA MailStep ==
  ASSUME TasksGood, WorldOK, MailInv, [Next]_vars
  PROVE  MailInv'
<1>1. CASE UNCHANGED <<tasks, mails, lost>>
  BY <1>1 DEF MailInv, OneOwner, SentOnce, T
<1>2. CASE Tick \/ (\E p \in Projects : DeleteProject(p)) \/ UNCHANGED vars
  BY <1>1, <1>2 DEF Tick, DeleteProject, vars
<1>3. ASSUME NEW kind \in Kinds, Beat(kind) PROVE MailInv'
  <2> DEFINE new == Len(tasks) + 1
  <2>1. UNCHANGED <<mails, lost>>
    BY <1>3 DEF Beat
  <2>2. NewTask(kind, NoNotice).notice = NoNotice
    BY DEF NewTask
  <2>3. /\ T' = T \cup {new} /\ new \notin T /\ tasks'[new].notice = NoNotice
        /\ \A u \in T : tasks'[u] = tasks[u]
    BY <1>3, <2>2, BeatGood DEF T, TasksGood
  <2> HIDE DEF new
  <2>4. OneOwner'
    BY <2>3 DEF MailInv, OneOwner
  <2>5. SentOnce'
    BY <2>1, <2>3, NoNoticeUnsent DEF MailInv, SentOnce
  <2> QED
    BY <2>4, <2>5 DEF MailInv
<1> QED
  BY <1>2, <1>3, MailWork, MailInterrupted DEF Next

\* send_notification_email repeats an email only when it was interrupted after the SMTP
\* server had accepted it, for any number of workers lost, retries and time limits.
THEOREM MailRepeats == Spec => []MailRepeatsOnlyWhenLost
<1>1. Init => MailInv
  BY DEF Init, MailInv, OneOwner, SentOnce, T
<1>2. MailInv => MailRepeatsOnlyWhenLost
  BY DEF MailInv, SentOnce, MailRepeatsOnlyWhenLost
<1> QED
  BY <1>1, <1>2, MailStep, GoodHolds, PTL DEF Spec

(***************************************************************************)
(* Daily summaries.  A day is counted after it ended and, within           *)
(* task_time_limit, before its first event can have expired.               *)
(***************************************************************************)
DayOf(p, d) == {e \in Posted : e.project = p /\ e.at \div Day = d}

Counting(k, c, P) ==
  k.kind = "summaries" =>
    /\ k.pc \in {"loop", "save"} => c <= k.now + Longest
    /\ (k.pc = "save" /\ k.project \in P) => k.held = DayOf(k.project, ReportDate(k.now))

CountInv ==
  /\ \A t \in T : Counting(tasks[t], clock, projects)
  /\ SummariesMatchTheirDay

LEMMA DivUnique ==
  ASSUME NEW a \in Nat, NEW q \in Int
  PROVE  (q * Day <= a /\ a < (q + 1) * Day) <=> a \div Day = q
<1>1. ASSUME NEW d \in Nat \ {0}, q * d <= a, a < (q + 1) * d PROVE a \div d = q
  BY <1>1
<1>2. ASSUME NEW d \in Nat \ {0}, a \div d = q PROVE q * d <= a /\ a < (q + 1) * d
  BY <1>2
<1> QED
  BY <1>1, <1>2, JobsAssumption

LEMMA DayIsWhole ==
  ASSUME WorldOK, NEW p \in projects, NEW now \in Nat, now <= clock, clock <= now + Longest
  PROVE  OfDay(Stored, p, ReportDate(now)) = DayOf(p, ReportDate(now))
<1> DEFINE d == ReportDate(now)
           m == now \div Day
<1>1. m \in Int /\ d = m - 1 /\ d \in Int /\ Day \in Nat /\ Longest \in Nat /\ clock \in Nat
  BY JobsAssumption DEF ReportDate, WorldOK
<1>2. m * Day <= now /\ now < (m + 1) * Day
  BY <1>1, DivUnique
<1>3. \A e \in Posted : e.at \in Nat
  BY JobsAssumption
<1> HIDE DEF d, m
<1>4. (d + 1) * Day = m * Day /\ (m + 1) * Day = d * Day + 2 * Day
  BY <1>1
<1>5. d * Day \in Int /\ m * Day \in Int
  BY <1>1
<1>6. \A e \in Posted : (d * Day <= e.at /\ e.at < (d + 1) * Day) <=> e.at \div Day = d
  BY <1>1, <1>3, DivUnique
<1>7. ASSUME NEW e \in Posted, e.project = p, d * Day <= e.at, e.at < (d + 1) * Day
      PROVE  e \in Stored
  <2>1. e.at <= clock
    BY <1>1, <1>2, <1>3, <1>4, <1>5, <1>7
  <2>2. e \notin deleted
    <3>1. ASSUME e \in deleted PROVE FALSE
      <4>1. e.at + Retention < clock /\ Retention \in Nat /\ Retention >= 2 * Day + Longest
        BY <3>1, JobsAssumption DEF WorldOK
      <4>2. now < d * Day + 2 * Day
        BY <1>2, <1>4
      <4> QED
        BY <1>1, <1>3, <1>5, <1>7, <4>1, <4>2
    <3> QED
      BY <3>1
  <2> QED
    BY <1>7, <2>1, <2>2 DEF Stored
<1>8. OfDay(Stored, p, d)
        = {e \in Posted : e.project = p /\ d * Day <= e.at /\ e.at < (d + 1) * Day}
  BY <1>7 DEF OfDay, Stored
<1> QED
  BY <1>6, <1>8 DEF DayOf, d

LEMMA CountSet ==
  ASSUME TasksGood, CountInv, NEW t \in T, NEW r, Set(t, r), Counting(r, clock, projects),
         UNCHANGED <<clock, projects, summary>>
  PROVE  CountInv'
<1>1. /\ T' = T /\ \A u \in T : tasks'[u] = IF u = t THEN r ELSE tasks[u]
  BY DEF TasksGood, T, Set
<1>2. \A u \in T : Counting(tasks'[u], clock', projects')
  BY <1>1 DEF CountInv
<1> QED
  BY <1>1, <1>2 DEF CountInv, SummariesMatchTheirDay

LEMMA CountWork ==
  ASSUME TasksGood, WorldOK, CountInv, NEW t \in T, Work(t)
  PROVE  CountInv'
<1>0. /\ tasks[t] \in Task /\ GoodTask(tasks[t], clock, triggers, Stored, DOMAIN mails)
      /\ tasks \in Seq(Task) /\ clock \in Nat /\ projects \subseteq Projects
      /\ NoProject \notin Projects /\ Longest \in Nat
      /\ Counting(tasks[t], clock, projects)
  BY TaskAt, JobsAssumption DEF TasksGood, CountInv
<1>1. CASE StartLoop(t)
  <2>0. PICK left \in SUBSET projects :
               Set(t, [tasks[t] EXCEPT !.pc = "loop", !.now = clock, !.left = left])
    BY <1>1 DEF StartLoop
  <2> DEFINE r == [tasks[t] EXCEPT !.pc = "loop", !.now = clock, !.left = left]
  <2>1. Counting(r, clock, projects)
    BY <1>0 DEF Counting, Task
  <2> QED
    BY <1>1, <2>0, <2>1, CountSet DEF StartLoop
<1>2. ASSUME NEW p \in tasks[t].left, CountDay(t, p) PROVE CountInv'
  <2> DEFINE held == OfDay(Stored, p, ReportDate(tasks[t].now))
             r == [tasks[t] EXCEPT !.pc = "save", !.left = @ \ {p}, !.project = p, !.held = held]
  <2>1. /\ r.kind = tasks[t].kind /\ r.pc = "save" /\ r.project = p /\ r.held = held
        /\ r.now = tasks[t].now /\ tasks[t].now \in Nat
    BY <1>0 DEF Task
  <2>2. clock <= tasks[t].now + Longest /\ tasks[t].now <= clock
    BY <1>0, <1>2 DEF CountDay, At, Counting, GoodTask
  <2>3. p \in projects => held = DayOf(p, ReportDate(tasks[t].now))
    BY <2>1, <2>2, DayIsWhole
  <2>4. Set(t, r) /\ UNCHANGED <<clock, projects, summary>>
    BY <1>2 DEF CountDay
  <2> HIDE DEF held, r
  <2>5. Counting(r, clock, projects)
    BY <2>1, <2>2, <2>3 DEF Counting
  <2> QED
    BY <2>4, <2>5, CountSet
<1>3. CASE SaveSummary(t)
  <2> DEFINE r == [tasks[t] EXCEPT !.pc = "loop", !.project = NoProject, !.held = {}]
             key == <<tasks[t].project, ReportDate(tasks[t].now)>>
  <2>1. Counting(r, clock, projects)
    BY <1>0, <1>3 DEF Counting, Task, SaveSummary, At
  <2>2. /\ T' = T /\ \A u \in T : tasks'[u] = IF u = t THEN r ELSE tasks[u]
    BY <1>0, <1>3 DEF T, Set, SaveSummary
  <2>3. tasks[t].held = DayOf(key[1], key[2])
    BY <1>0, <1>3 DEF SaveSummary, At, Counting
  <2>4. summary' = [y \in DOMAIN summary \cup {key} |->
                     IF y = key THEN tasks[t].held ELSE summary[y]]
    BY <1>3 DEF SaveSummary, Assign
  <2> HIDE DEF r, key
  <2>5. SummariesMatchTheirDay'
    BY <2>3, <2>4 DEF CountInv, SummariesMatchTheirDay, DayOf
  <2>6. UNCHANGED <<clock, projects>>
    BY <1>3 DEF SaveSummary
  <2> QED
    BY <2>1, <2>2, <2>5, <2>6 DEF CountInv
<1>4. CASE EnqueueEmail(t)
  <2>1. tasks[t].kind = "spikes" /\ UNCHANGED <<clock, projects, summary>>
    BY <1>4 DEF EnqueueEmail, At
  <2>2. Handed(t).kind = "spikes" /\ NewTask("email", tasks[t].notice).kind = "email"
    BY <1>0, <2>1 DEF Handed, NewTask, Task
  <2>3. \A u \in T' : u \in T \/ u = Len(tasks) + 1
    BY <1>4, HandOver DEF T
  <2>4. ASSUME NEW u \in T' PROVE Counting(tasks'[u], clock, projects)
    <3>1. CASE u \in T
      BY <1>4, <2>2, <3>1, HandOver DEF CountInv, Counting
    <3>2. CASE u = Len(tasks) + 1
      <4>1. tasks'[u].kind = "email"
        BY <1>4, <2>2, <3>2, HandOver DEF T
      <4> QED
        BY <4>1 DEF Counting
    <3> QED
      BY <2>3, <3>1, <3>2
  <2> QED
    BY <2>1, <2>4 DEF CountInv, SummariesMatchTheirDay
<1>5. CASE Retry(t) /\ At(t, "summaries", "save")
  <2>1. \A n : Again(t, n).pc = "queued" /\ Ended(t).pc = "failed"
    BY DEF Again, Ended, NewTask
  <2>2. \E n : Set(t, Again(t, n)) \/ Set(t, Ended(t))
    BY <1>5 DEF Retry
  <2>3. UNCHANGED <<clock, projects, summary>>
    BY <1>5 DEF Retry
  <2> QED
    BY <2>1, <2>2, <2>3, CountSet DEF Counting
<1>6. CASE EndLoop(t)
  <2>1. Counting([tasks[t] EXCEPT !.pc = "done"], clock, projects)
    BY <1>0 DEF Counting, Task
  <2> QED
    BY <1>6, <2>1, CountSet DEF EndLoop
<1>7. ASSUME NEW r, Set(t, r), r.kind = tasks[t].kind, tasks[t].kind # "summaries",
             UNCHANGED <<clock, projects, summary>>
      PROVE  CountInv'
  BY <1>7, CountSet DEF Counting
<1>8. ASSUME Measure(t) \/ \E p \in tasks[t].left : CountCurrent(t, p) PROVE CountInv'
  <2>1. CASE Measure(t)
    <3>1. Set(t, Quiet(t)) \/ Set(t, Found(t))
      BY <2>1 DEF Measure, Quiet, Found
    <3>2. Quiet(t).kind = tasks[t].kind /\ Found(t).kind = tasks[t].kind
      BY <1>0 DEF Task, Quiet, Found
    <3> QED
      BY <1>7, <2>1, <3>1, <3>2 DEF Measure, At
  <2>2. ASSUME NEW p \in tasks[t].left, CountCurrent(t, p) PROVE CountInv'
    BY <1>0, <1>7, <2>2 DEF CountCurrent, At, Task
  <2> QED
    BY <1>8, <2>1, <2>2
<1>9. CASE CreateSpike(t)
  <2> DEFINE gone == [tasks[t] EXCEPT !.pc = "failed", !.project = NoProject]
             next == [tasks[t] EXCEPT !.pc = "loop", !.project = NoProject]
             found == [tasks[t] EXCEPT !.pc = "hook", !.notice = Fresh(t)]
  <2>1. UNCHANGED <<clock, projects, summary>> /\ tasks[t].kind = "spikes"
    BY <1>9 DEF CreateSpike, At
  <2>2. gone.kind = tasks[t].kind /\ next.kind = tasks[t].kind /\ found.kind = tasks[t].kind
    BY <1>0 DEF Task
  <2>3. Set(t, gone) \/ Set(t, next) \/ Set(t, found)
    BY <1>9, SpikeCases
  <2> HIDE DEF gone, next, found
  <2> QED
    BY <1>7, <2>1, <2>2, <2>3
<1>10. CASE StartCleanup(t) \/ SelectBatch(t) \/ DeleteBatch(t)
  <2> DEFINE start == [tasks[t] EXCEPT !.pc = "loop", !.now = clock]
             done  == [tasks[t] EXCEPT !.pc = "done"]
             batch == [tasks[t] EXCEPT !.pc = "delete",
                         !.held = Batch(Older(Stored, tasks[t].now - Retention))]
             next  == [tasks[t] EXCEPT !.pc = "loop", !.held = {}]
  <2>1. UNCHANGED <<clock, projects, summary>> /\ tasks[t].kind = "cleanup"
    BY <1>10 DEF StartCleanup, SelectBatch, DeleteBatch, At
  <2>2. /\ start.kind = tasks[t].kind /\ done.kind = tasks[t].kind
        /\ batch.kind = tasks[t].kind /\ next.kind = tasks[t].kind
    BY <1>0 DEF Task
  <2>3. Set(t, start) \/ Set(t, done) \/ Set(t, batch) \/ Set(t, next)
    BY <1>10 DEF StartCleanup, SelectBatch, DeleteBatch
  <2> HIDE DEF start, done, batch, next
  <2> QED
    BY <1>7, <2>1, <2>2, <2>3
<1>11. CASE Report(t) \/ LoadNotice(t) \/ SendMail(t) \/ Acknowledge(t)
  <2>1. UNCHANGED <<clock, projects, summary>> /\ tasks[t].kind # "summaries"
    BY <1>11 DEF Report, LoadNotice, SendMail, Acknowledge, At
  <2>2. PICK pc : Set(t, [tasks[t] EXCEPT !.pc = pc])
    BY <1>11 DEF Report, LoadNotice, SendMail, Acknowledge
  <2>3. [tasks[t] EXCEPT !.pc = pc].kind = tasks[t].kind
    BY <1>0 DEF Task
  <2> QED
    BY <1>7, <2>1, <2>2, <2>3
<1> QED
  BY <1>1, <1>2, <1>3, <1>4, <1>5, <1>6, <1>8, <1>9, <1>10, <1>11 DEF Work

LEMMA CountStep ==
  ASSUME TasksGood, WorldOK, CountInv, [Next]_vars
  PROVE  CountInv'
<1>1. ASSUME NEW t \in T, WorkerLost(t) \/ Retry(t) \/ TimeLimit(t) PROVE CountInv'
  <2>1. \A n : Again(t, n).pc = "queued" /\ Ended(t).pc = "failed"
    BY DEF Again, Ended, NewTask
  <2>2. \E n : Set(t, Again(t, n)) \/ Set(t, Ended(t))
    BY <1>1 DEF WorkerLost, Retry, TimeLimit
  <2>3. UNCHANGED <<clock, projects, summary>>
    BY <1>1 DEF WorkerLost, Retry, TimeLimit
  <2> QED
    BY <2>1, <2>2, <2>3, CountSet DEF Counting
<1>2. ASSUME NEW kind \in Kinds, Beat(kind) PROVE CountInv'
  <2>1. UNCHANGED <<clock, projects, summary>>
    BY <1>2 DEF Beat
  <2>2. NewTask(kind, NoNotice).pc = "queued"
    BY DEF NewTask
  <2>3. \A u \in T' : u \in T \/ u = Len(tasks) + 1
    BY <1>2, BeatGood DEF T, TasksGood
  <2>4. \A u \in T' : Counting(tasks'[u], clock, projects)
    BY <1>2, <2>2, <2>3, BeatGood DEF CountInv, Counting
  <2> QED
    BY <2>1, <2>4 DEF CountInv, SummariesMatchTheirDay
<1>3. CASE Tick
  <2>1. \A u \in T : Counting(tasks[u], clock', projects)
    <3> SUFFICES ASSUME NEW u \in T, tasks[u].kind = "summaries",
                        tasks[u].pc \in {"loop", "save"}
                 PROVE  clock' <= tasks[u].now + Longest
      BY DEF CountInv, Counting
    <3>1. clock - tasks[u].now < Longest /\ clock' = clock + 1
      BY <1>3 DEF Tick, Running
    <3>2. clock \in Nat /\ Longest \in Nat /\ tasks[u].now \in Nat
      BY TaskAt, JobsAssumption DEF Task
    <3> QED
      BY <3>1, <3>2
  <2> QED
    BY <1>3, <2>1 DEF Tick, CountInv, SummariesMatchTheirDay, T
<1>4. ASSUME NEW p \in Projects, DeleteProject(p) PROVE CountInv'
  <2>1. \A u \in T : Counting(tasks[u], clock, projects')
    BY <1>4 DEF DeleteProject, CountInv, Counting
  <2>2. SummariesMatchTheirDay'
    BY <1>4 DEF DeleteProject, CountInv, SummariesMatchTheirDay
  <2> QED
    BY <1>4, <2>1, <2>2 DEF DeleteProject, CountInv, T
<1>5. CASE UNCHANGED vars
  BY <1>5 DEF vars, CountInv, SummariesMatchTheirDay, T
<1> QED
  BY <1>1, <1>2, <1>3, <1>4, <1>5, CountWork DEF Next

\* summarize_project (analytics/services.py:728-761) counts its whole day, for any delay
\* after midnight, any cleanups before it and any repetition of the task.
THEOREM SummariesMatch == Spec => []SummariesMatchTheirDay
<1>1. Init => CountInv
  BY DEF Init, CountInv, SummariesMatchTheirDay, T
<1>2. CountInv => SummariesMatchTheirDay
  BY DEF CountInv
<1> QED
  BY <1>1, <1>2, CountStep, GoodHolds, PTL DEF Spec
=============================================================================
