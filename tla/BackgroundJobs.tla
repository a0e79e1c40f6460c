--------------------------- MODULE BackgroundJobs ---------------------------
(***************************************************************************)
(* The scheduled tasks and the email task: detect_abnormal_error_spikes    *)
(* and cleanup_old_events (monitoring.tasks), the daily summaries and      *)
(* reports (analytics.tasks) and send_notification_email                   *)
(* (notifications.tasks), run by Celery workers under config.celery.       *)
(*                                                                         *)
(* A task is delivered again when its worker is lost (task_acks_late,      *)
(* task_reject_on_worker_lost), starts over when it raises an exception of *)
(* autoretry_for, and is cut off by its time limit.  Tasks interleave, two *)
(* of one kind too: a late one overlaps the next, and nothing orders them. *)
(*                                                                         *)
(* Events are a fixed schedule of what clients post: an event is stored    *)
(* from its created_at on, until it is deleted.                            *)
(***************************************************************************)
EXTENDS Integers, FiniteSets, Sequences

CONSTANTS
  Projects,
  Posted,       \* the events: [id, project, at, error]
  Emailed,      \* the projects whose owner has an email address
  Bucket,       \* five minutes: the spike window, and the bucket of its marker
  Day,          \* a UTC day
  Retention,    \* EVENT_RETENTION_DAYS
  Longest,      \* task_time_limit
  Threshold, Multiplier,  \* ERROR_SPIKE_THRESHOLD, ERROR_SPIKE_MULTIPLIER
  Cooldowns,    \* values of ERROR_SPIKE_COOLDOWN_MINUTES
  BatchSize,    \* of cleanup_old_events
  MaxRetries,   \* of every task (3 and 5 in the code)
  Start, MaxTime, MaxBeats, MaxTasks, MaxFaults,  \* bounds: clock, scheduled tasks, tasks, faults
  NoProject

ASSUME JobsAssumption ==
  /\ Bucket \in Nat \ {0} /\ Day \in Nat \ {0} /\ BatchSize \in Nat \ {0}
  /\ Threshold \in Nat /\ Multiplier \in Nat /\ MaxRetries \in Nat
  /\ Cooldowns \subseteq Nat /\ NoProject \notin Projects
  /\ Posted \subseteq [id : Nat, project : Projects, at : Nat, error : BOOLEAN]
  /\ Start \in Nat /\ MaxTime \in Nat /\ Start <= MaxTime
  /\ MaxBeats \in Nat /\ MaxFaults \in Nat
  /\ Longest \in Nat \ {0} /\ Retention \in Nat
  \* The day a summary counts is kept until it is counted (90 days by default).
  /\ Retention >= 2 * Day + Longest

VARIABLES
  clock,
  cooldown,  \* the setting
  projects,  \* the projects that exist
  deleted,   \* events deleted by cleanup_old_events
  triggers,  \* spike triggers ever created: [id, project, at]
  summary,   \* summary[<<p, d>>]: the events the row of project p and date d counts
  tasks,     \* the tasks, in the order they were enqueued
  mails,     \* mails[n]: emails the SMTP server accepted for notification n
  lost,      \* notifications whose email task was interrupted after that (ghost)
  beats, faults

vars == <<clock, cooldown, projects, deleted, triggers, summary, tasks, mails, lost,
          beats, faults>>

Kinds == {"spikes", "cleanup", "summaries", "reports"}

(***************************************************************************)
(* now is the time the task read; left the projects of its loop; project   *)
(* the one it is at; held the events it has read: a batch to delete, the   *)
(* day of a summary or the errors of five minutes; notice the trigger      *)
(* whose email it sends.                                                   *)
(*                                                                         *)
(* pc: "queued"; "loop" - at the head of the loop; "measure" - the first   *)
(* count of two is known; "create" - a spike was measured; "hook" - its    *)
(* trigger is committed, the email not enqueued; "delete", "save" - what   *)
(* is held is to be deleted, saved; "send" - the notification is loaded;   *)
(* "sent" - SMTP has it; "done"; "failed".                                 *)
(***************************************************************************)
NewTask(kind, notice) ==
  [kind |-> kind, pc |-> "queued", now |-> 0, left |-> {}, project |-> NoProject,
   held |-> {}, notice |-> notice, retries |-> 0, cut |-> FALSE]

NoNotice == [id |-> 0, project |-> NoProject, at |-> 0]

Notices == [id : Nat, project : Projects, at : Nat]

T == 1..Len(tasks)

TypeOK ==
  /\ clock \in Start..MaxTime /\ cooldown \in Cooldowns
  /\ projects \subseteq Projects
  /\ deleted \subseteq Posted
  /\ triggers \subseteq Notices
  /\ \A s \in DOMAIN summary : s[1] \in Projects /\ s[2] \in Int /\ summary[s] \subseteq Posted
  /\ \A t \in T :
       /\ tasks[t].kind \in Kinds \cup {"email"}
       /\ tasks[t].now \in 0..clock /\ tasks[t].retries \in 0..MaxRetries
       /\ tasks[t].left \subseteq Projects
       /\ tasks[t].project \in Projects <=> tasks[t].pc \in {"measure", "create", "hook", "save"}
       /\ tasks[t].held \subseteq Posted
       /\ tasks[t].notice \in triggers <=> (tasks[t].kind = "email" \/ tasks[t].pc = "hook")
  /\ DOMAIN mails \subseteq triggers /\ lost \subseteq DOMAIN mails
  /\ beats \in 0..MaxBeats /\ faults \in 0..MaxFaults

Init ==
  /\ clock = Start /\ cooldown \in Cooldowns
  /\ projects = Projects /\ deleted = {} /\ triggers = {}
  /\ summary = [s \in {} |-> {}] /\ mails = [n \in {} |-> 0]
  /\ tasks = <<>> /\ lost = {} /\ beats = 0 /\ faults = 0

\* What the events table holds: the events of a project go with it.
Stored == {e \in Posted : e.at <= clock /\ e \notin deleted /\ e.project \in projects}

Set(t, r) == tasks' = [tasks EXCEPT ![t] = r]

Running(t) == tasks[t].pc \notin {"queued", "done", "failed"}

At(t, kind, pc) == tasks[t].kind = kind /\ tasks[t].pc = pc

Fault == faults < MaxFaults /\ faults' = faults + 1

Assign(f, x, v) == [y \in DOMAIN f \cup {x} |-> IF y = x THEN v ELSE f[y]]
-----------------------------------------------------------------------------
(***************************************************************************)
(* Beat, the clock and the owner.                                          *)
(***************************************************************************)
\* A task does nothing before a worker takes it, and reads the time then: a backlog
\* of scheduled tasks behaves like tasks that are scheduled one by one, later.
Beat(kind) ==
  /\ beats < MaxBeats /\ beats' = beats + 1
  /\ \A t \in T : tasks[t].kind \in Kinds /\ tasks[t].pc = "queued" => tasks[t].cut
  /\ tasks' = Append(tasks, NewTask(kind, NoNotice))
  /\ UNCHANGED <<clock, cooldown, projects, deleted, triggers, summary, mails, lost, faults>>

\* No task outlives task_time_limit.
Tick ==
  /\ clock < MaxTime /\ clock' = clock + 1
  /\ \A t \in T : Running(t) /\ tasks[t].kind # "email" => clock - tasks[t].now < Longest
  /\ UNCHANGED <<cooldown, projects, deleted, triggers, summary, tasks, mails, lost, beats, faults>>

\* Rows that refer to the project go with it, but for its notifications.
DeleteProject(p) ==
  /\ Fault
  /\ p \in projects /\ projects' = projects \ {p}
  /\ summary' = [s \in {s \in DOMAIN summary : s[1] # p} |-> summary[s]]
  /\ UNCHANGED <<clock, cooldown, deleted, triggers, tasks, mails, lost, beats>>
-----------------------------------------------------------------------------
(***************************************************************************)
(* detect_abnormal_error_spikes.                                           *)
(***************************************************************************)
Errors(p, from, to) == {e \in Stored : e.project = p /\ e.error /\ from <= e.at /\ e.at < to}

Spike(current, previous) ==
  current >= Threshold /\ current > previous /\ current >= previous * Multiplier

\* Each loop reads its projects once, when it starts: a scan those that are active,
\* as their owner chooses, the summaries all.
StartLoop(t) ==
  /\ tasks[t].pc = "queued"
  /\ \E left \in SUBSET projects :
       /\ \/ tasks[t].kind = "spikes"
          \/ tasks[t].kind = "summaries" /\ left = projects
       /\ Set(t, [tasks[t] EXCEPT !.pc = "loop", !.now = clock, !.left = left])
  /\ UNCHANGED <<clock, cooldown, projects, deleted, triggers, summary, mails, lost, beats, faults>>

\* The errors of the last five minutes are counted ...
CountCurrent(t, p) ==
  /\ At(t, "spikes", "loop") /\ p \in tasks[t].left
  /\ LET now == tasks[t].now
     IN  Set(t, [tasks[t] EXCEPT !.pc = "measure", !.left = @ \ {p}, !.project = p,
                                 !.held = Errors(p, now - Bucket, now)])
  /\ UNCHANGED <<clock, cooldown, projects, deleted, triggers, summary, mails, lost, beats, faults>>

\* ... and then those of the five before.
Measure(t) ==
  /\ At(t, "spikes", "measure")
  /\ LET now      == tasks[t].now
         previous == Errors(tasks[t].project, now - 2 * Bucket, now - Bucket)
     IN  Set(t, IF Spike(Cardinality(tasks[t].held), Cardinality(previous))
                THEN [tasks[t] EXCEPT !.pc = "create", !.held = {}]
                ELSE [tasks[t] EXCEPT !.pc = "loop", !.held = {}, !.project = NoProject])
  /\ UNCHANGED <<clock, cooldown, projects, deleted, triggers, summary, mails, lost, beats, faults>>

SameBucket(a, b) == a \div Bucket = b \div Bucket

Marked(p, now) == \E tr \in triggers : tr.project = p /\ SameBucket(tr.at, now)

\* Mutants: a strict comparison; the triggers of every project.
CoolingDown_Exclusive(p, now) ==
  cooldown > 0 /\ \E tr \in triggers : tr.project = p /\ tr.at > now - cooldown

CoolingDown_AnyProject(p, now) ==
  cooldown > 0 /\ \E tr \in triggers : tr.at >= now - cooldown

CoolingDown(p, now) ==
  cooldown > 0 /\ \E tr \in triggers : tr.project = p /\ tr.at >= now - cooldown

\* _create_spike_trigger: the project's row lock is held from the first check to
\* the commit.  DoesNotExist is not among the exceptions that are retried.
CreateSpike(t) ==
  /\ At(t, "spikes", "create")
  /\ LET p == tasks[t].project
         n == [id |-> Cardinality(triggers) + 1, project |-> p, at |-> tasks[t].now]
     IN  CASE p \notin projects ->
                Set(t, [tasks[t] EXCEPT !.pc = "failed", !.project = NoProject])
                  /\ UNCHANGED triggers
           [] p \in projects /\ (Marked(p, n.at) \/ CoolingDown(p, n.at)) ->
                Set(t, [tasks[t] EXCEPT !.pc = "loop", !.project = NoProject])
                  /\ UNCHANGED triggers
           [] OTHER ->
                Set(t, [tasks[t] EXCEPT !.pc = "hook", !.notice = n])
                  /\ triggers' = triggers \cup {n}
  /\ UNCHANGED <<clock, cooldown, projects, deleted, summary, mails, lost, beats, faults>>

\* Mutant: the email is enqueued by the helper and by its caller.
EnqueueEmail_Twice(t) ==
  /\ At(t, "spikes", "hook")
  /\ LET back == [tasks EXCEPT ![t] = [@ EXCEPT !.pc = "loop", !.project = NoProject,
                                                !.notice = NoNotice]]
         email == NewTask("email", tasks[t].notice)
     IN  \/ tasks' = back \o <<email, email>> /\ UNCHANGED faults
         \/ Fault /\ tasks' = back
  /\ UNCHANGED <<clock, cooldown, projects, deleted, triggers, summary, mails, lost, beats>>

\* _enqueue_email; it swallows the broker's error.
EnqueueEmail(t) ==
  /\ At(t, "spikes", "hook")
  /\ LET back == [tasks EXCEPT ![t] = [@ EXCEPT !.pc = "loop", !.project = NoProject,
                                                !.notice = NoNotice]]
     IN  \/ tasks' = Append(back, NewTask("email", tasks[t].notice)) /\ UNCHANGED faults
         \/ Fault /\ tasks' = back
  /\ UNCHANGED <<clock, cooldown, projects, deleted, triggers, summary, mails, lost, beats>>

EndLoop(t) ==
  /\ tasks[t].kind \in {"spikes", "summaries"} /\ tasks[t].pc = "loop" /\ tasks[t].left = {}
  /\ Set(t, [tasks[t] EXCEPT !.pc = "done"])
  /\ UNCHANGED <<clock, cooldown, projects, deleted, triggers, summary, mails, lost, beats, faults>>
-----------------------------------------------------------------------------
(***************************************************************************)
(* cleanup_old_events: now is its cutoff's time.                           *)
(***************************************************************************)
StartCleanup(t) ==
  /\ At(t, "cleanup", "queued")
  /\ Set(t, [tasks[t] EXCEPT !.pc = "loop", !.now = clock])
  /\ UNCHANGED <<clock, cooldown, projects, deleted, triggers, summary, mails, lost, beats, faults>>

\* Mutant: the cutoff itself has expired.
Older_Inclusive(S, cutoff) == {e \in S : e.at <= cutoff}

Older(S, cutoff) == {e \in S : e.at < cutoff}

Batch(S) == {e \in S : Cardinality({x \in S : x.id < e.id}) < BatchSize}

SelectBatch(t) ==
  /\ At(t, "cleanup", "loop")
  /\ LET old == Older(Stored, tasks[t].now - Retention)
     IN  Set(t, IF old = {} THEN [tasks[t] EXCEPT !.pc = "done"]
                ELSE [tasks[t] EXCEPT !.pc = "delete", !.held = Batch(old)])
  /\ UNCHANGED <<clock, cooldown, projects, deleted, triggers, summary, mails, lost, beats, faults>>

\* Mutant: the batch is read again and again.
DeleteBatch_Forgets(t) ==
  /\ At(t, "cleanup", "delete")
  /\ UNCHANGED deleted
  /\ Set(t, [tasks[t] EXCEPT !.pc = "loop", !.held = {}])
  /\ UNCHANGED <<clock, cooldown, projects, triggers, summary, mails, lost, beats, faults>>

DeleteBatch(t) ==
  /\ At(t, "cleanup", "delete")
  /\ deleted' = deleted \cup (tasks[t].held \cap Stored)
  /\ Set(t, [tasks[t] EXCEPT !.pc = "loop", !.held = {}])
  /\ UNCHANGED <<clock, cooldown, projects, triggers, summary, mails, lost, beats, faults>>
-----------------------------------------------------------------------------
(***************************************************************************)
(* generate_daily_analytics_summaries: summarize_project counts the day    *)
(* before now and then updates or creates its row.                         *)
(***************************************************************************)
ReportDate(now) == now \div Day - 1

\* Mutant: both midnights belong to the day.
OfDay_BothEnds(S, p, d) == {e \in S : e.project = p /\ d * Day <= e.at /\ e.at <= (d + 1) * Day}

OfDay(S, p, d) == {e \in S : e.project = p /\ d * Day <= e.at /\ e.at < (d + 1) * Day}

CountDay(t, p) ==
  /\ At(t, "summaries", "loop") /\ p \in tasks[t].left
  /\ Set(t, [tasks[t] EXCEPT !.pc = "save", !.left = @ \ {p}, !.project = p,
                             !.held = OfDay(Stored, p, ReportDate(tasks[t].now))])
  /\ UNCHANGED <<clock, cooldown, projects, deleted, triggers, summary, mails, lost, beats, faults>>

\* The foreign key of a deleted project raises IntegrityError, which is retried.
SaveSummary(t) ==
  /\ At(t, "summaries", "save") /\ tasks[t].project \in projects
  /\ summary' = Assign(summary, <<tasks[t].project, ReportDate(tasks[t].now)>>, tasks[t].held)
  /\ Set(t, [tasks[t] EXCEPT !.pc = "loop", !.project = NoProject, !.held = {}])
  /\ UNCHANGED <<clock, cooldown, projects, deleted, triggers, mails, lost, beats, faults>>

\* generate_daily_monitoring_reports: the user model has no daily_report_enabled,
\* so _daily_report_users returns a list, and a list has no iterator().
Report(t) ==
  /\ At(t, "reports", "queued")
  /\ Set(t, [tasks[t] EXCEPT !.pc = "failed"])
  /\ UNCHANGED <<clock, cooldown, projects, deleted, triggers, summary, mails, lost, beats, faults>>
-----------------------------------------------------------------------------
(***************************************************************************)
(* send_notification_email.  The notification outlives its project.        *)
(***************************************************************************)
LoadNotice(t) ==
  /\ At(t, "email", "queued")
  /\ \/ tasks[t].notice.project \in Emailed
          /\ Set(t, [tasks[t] EXCEPT !.pc = "send"]) /\ UNCHANGED faults
     \/ tasks[t].notice.project \notin Emailed
          /\ Set(t, [tasks[t] EXCEPT !.pc = "done"]) /\ UNCHANGED faults
     \/ Fault /\ Set(t, [tasks[t] EXCEPT !.pc = "done"])  \* the admin deleted it
  /\ UNCHANGED <<clock, cooldown, projects, deleted, triggers, summary, mails, lost, beats>>

SendMail(t) ==
  /\ At(t, "email", "send")
  /\ LET n == tasks[t].notice
     IN  mails' = Assign(mails, n, IF n \in DOMAIN mails THEN mails[n] + 1 ELSE 1)
  /\ Set(t, [tasks[t] EXCEPT !.pc = "sent"])
  /\ UNCHANGED <<clock, cooldown, projects, deleted, triggers, summary, lost, beats, faults>>

Acknowledge(t) ==
  /\ At(t, "email", "sent")
  /\ Set(t, [tasks[t] EXCEPT !.pc = "done"])
  /\ UNCHANGED <<clock, cooldown, projects, deleted, triggers, summary, mails, lost, beats, faults>>
-----------------------------------------------------------------------------
(***************************************************************************)
(* What interrupts a task.  cut remembers that something did (ghost).      *)
(***************************************************************************)
Again(t, retries) ==
  [NewTask(tasks[t].kind, IF tasks[t].kind = "email" THEN tasks[t].notice ELSE NoNotice)
     EXCEPT !.retries = retries, !.cut = TRUE]

Ended(t) == [Again(t, tasks[t].retries) EXCEPT !.pc = "failed"]

Interrupted(t) == lost' = IF tasks[t].pc = "sent" THEN lost \cup {tasks[t].notice} ELSE lost

WorkerLost(t) ==
  /\ Fault /\ Running(t)
  /\ Set(t, Again(t, tasks[t].retries)) /\ Interrupted(t)
  /\ UNCHANGED <<clock, cooldown, projects, deleted, triggers, summary, mails, beats>>

\* autoretry_for: the exception of a deleted project's summary, or a fault of the
\* database or of the SMTP server, which may have accepted the email.
Retry(t) ==
  /\ Running(t)
  /\ \/ At(t, "summaries", "save") /\ tasks[t].project \notin projects /\ UNCHANGED faults
     \/ Fault
  /\ Set(t, IF tasks[t].retries < MaxRetries THEN Again(t, tasks[t].retries + 1)
            ELSE Ended(t))
  /\ Interrupted(t)
  /\ UNCHANGED <<clock, cooldown, projects, deleted, triggers, summary, mails, beats>>

TimeLimit(t) ==
  /\ Fault /\ Running(t)
  /\ Set(t, Ended(t))
  /\ Interrupted(t)
  /\ UNCHANGED <<clock, cooldown, projects, deleted, triggers, summary, mails, beats>>
-----------------------------------------------------------------------------
Work(t) ==
  \/ StartLoop(t) \/ EndLoop(t) \/ CreateSpike(t) \/ EnqueueEmail(t)
  \/ \E p \in tasks[t].left : CountCurrent(t, p) \/ CountDay(t, p)
  \/ Measure(t)
  \/ StartCleanup(t) \/ SelectBatch(t) \/ DeleteBatch(t)
  \/ SaveSummary(t) \/ Report(t)
  \/ LoadNotice(t) \/ SendMail(t) \/ Acknowledge(t)
  \/ At(t, "summaries", "save") /\ tasks[t].project \notin projects /\ Retry(t)

Next ==
  \/ \E kind \in Kinds : Beat(kind)
  \/ Tick
  \/ \E p \in Projects : DeleteProject(p)
  \/ \E t \in T : Work(t) \/ WorkerLost(t) \/ Retry(t) \/ TimeLimit(t)

Spec == Init /\ [][Next]_vars

\* Workers keep running and consume the queue.
FairSpec == Spec /\ \A t \in 1..MaxTasks : WF_vars(t \in T /\ Work(t))
-----------------------------------------------------------------------------
(***************************************************************************)
(* Properties.                                                             *)
(***************************************************************************)

\* However scans overlap, run late or start over, a project has at most one spike
\* trigger in a five-minute bucket, and, with a cooldown, any two are further
\* apart than the cooldown, whichever was inserted first (tasks.py:173-201).
SpikesAreSpaced ==
  \A a, b \in triggers :
    a.project = b.project /\ a # b =>
      /\ ~SameBucket(a.at, b.at)
      /\ cooldown > 0 => a.at - b.at > cooldown \/ b.at - a.at > cooldown

\* Overlapping and interrupted runs delete expired events only, and a run that
\* ends well leaves none that were expired when it started (tasks.py:261-281).
CleanupExact ==
  /\ \A e \in deleted : e.at + Retention < clock
  /\ \A t \in T : At(t, "cleanup", "done") =>
       \A e \in Stored : e.at + Retention >= tasks[t].now

\* A daily summary counts what was posted on its day, no more and no less, in
\* whichever order summaries, their repetitions and cleanups run, and however long
\* after midnight (analytics/services.py:735-761).
SummariesMatchTheirDay ==
  \A s \in DOMAIN summary :
    summary[s] = {e \in Posted : e.project = s[1] /\ e.at \div Day = s[2]}

\* An email is sent twice only when its task was interrupted after the server had
\* accepted it (notifications/tasks.py:28): no other fault repeats one, neither a
\* scan that starts over after its trigger nor one that overlaps another.
MailRepeatsOnlyWhenLost == \A n \in DOMAIN mails : mails[n] > 1 => n \in lost

\* Every task comes to an end, done or failed, as long as faults do: no batch loop
\* runs for ever, nothing is retried for ever.
JobsEnd == <>[](\A t \in T : tasks[t].pc \in {"done", "failed"})

\* A scan that measured a spike goes on only when its project has a trigger in the
\* same bucket or within the cooldown, unless the project went or the scan was
\* interrupted: one that starts over measures later windows, and may see no spike.
SpikesAreReported ==
  [][\A t \in T : At(t, "spikes", "create") /\ tasks'[t].pc # "create" =>
       \/ \E tr \in triggers' :
            /\ tr.project = tasks[t].project
            /\ SameBucket(tr.at, tasks[t].now) \/ tr.at >= tasks[t].now - cooldown
       \/ tasks[t].project \notin projects
       \/ tasks'[t].cut]_vars
=============================================================================
