---------------------------- MODULE EventReports ----------------------------
(***************************************************************************)
(* One request for a report or a list of events while events are posted    *)
(* and expire: the pages of analytics.views, dashboard.views and           *)
(* monitoring.views, GET /api/analytics/ and GET /api/events/.             *)
(*                                                                         *)
(* A response is the work of many queries, each of which sees the database *)
(* as it is at that moment: nothing wraps a request in a transaction, and  *)
(* under READ COMMITTED nothing would be gained by it.  A step is one      *)
(* query; events come, expire and time passes between any two.             *)
(*                                                                         *)
(* A dashboard_data that hits the cache returns a response built this way  *)
(* earlier: AnalyticsCache models that, here every call is a miss.         *)
(***************************************************************************)
EXTENDS EventQueries, Sequences

CONSTANTS
  History,     \* the events stored at first
  Bodies,      \* what clients may post: events but for their id and time
  Requests,    \* what users ask for
  Owned,       \* the projects of the user who asks
  NoProject,   \* a request about all of them
  Recent,      \* rows of the recent-events tables (8 or 10)
  Retention,   \* EVENT_RETENTION_DAYS, in ticks
  Start,       \* the time at first
  MaxChanges   \* bound on posts, deletions and ticks

Reports == {"api", "overview", "home", "project", "errors", "slow"}
Lists   == {"api_list", "page_list"}
Kinds   == Reports \cup Lists \cup {"export"}

VARIABLES
  events,   \* the stored events
  clock,    \* the time
  nextId,   \* the next primary key
  changes,  \* posts, deletions and ticks so far
  req,      \* the request: its kind, project, filters and what became of it
  todo,     \* the queries it still makes
  now,      \* the time read by its latest timezone.now()
  answer,   \* answer[q]: the events query q has read
  base,     \* the events stored when the request came (ghost)
  posted,   \* the events posted since (ghost)
  deleted   \* the events deleted since (ghost)

vars == <<events, clock, nextId, changes, req, todo, now, answer, base, posted, deleted>>

database == <<events, clock, nextId, changes, posted, deleted>>

Overview == <<"total", "errors", "successes", "today", "week", "month",
              "values", "p50", "p95", "p99">>

Groups == <<"event_types", "services", "environments", "status_codes">>

Dashboard == Overview \o <<"timeline">> \o Groups

\* A list page counts its rows before it reads them.
ListPages == <<"count1", "page1", "count2", "page2", "count3", "page3">>

PageNumber == [page1 |-> 1, page2 |-> 2, page3 |-> 3]

Queries(kind) ==
  CASE kind \in {"api", "overview"} -> Dashboard
    [] kind = "home"    -> Dashboard \o <<"recent", "recent_errors">>
    [] kind = "project" -> Dashboard \o <<"slow_events", "recent">>
    [] kind = "errors"  -> Overview \o <<"timeline", "services", "recent", "environments">>
    [] kind = "slow"    -> Overview \o <<"timeline", "services", "recent">>
    [] kind \in Lists   -> ListPages
    [] kind = "export"  -> <<"rows">>

QueryNames == {"rows", "slow_events", "recent", "recent_errors"}
                \cup {Dashboard[i] : i \in 1..Len(Dashboard)}
                \cup {ListPages[i] : i \in 1..Len(ListPages)}

NoAnswer == [q \in {} |-> {}]

NoRequest == [kind |-> "none", project |-> NoProject, filters |-> NoFilters,
              bound |-> FALSE, status |-> "none"]

ever == base \cup posted

(***************************************************************************)
(* Events are stored with increasing keys and are not of the future; a     *)
(* request's dates are dates or, of the API only, instants, and the        *)
(* project page has no filters.                                            *)
(***************************************************************************)
ASSUME ReportsAssumption ==
  /\ Start \in Nat /\ MaxChanges \in Nat /\ Retention \in Nat
  /\ IsFiniteSet(History)
  /\ \A e \in History : /\ e.id \in 1..Cardinality(History)
                        /\ e.at \in 0..Start /\ e.status \in Nat
                        /\ e.response \in Nat \cup {NoResponse}
  /\ \A d, e \in History : d.id = e.id => d = e
  /\ \A r \in Requests :
       /\ r.kind \in Kinds
       /\ r.filters.date_from \in Bounds /\ r.filters.date_to \in Bounds
       /\ r.kind = "project" => r.filters = NoFilters

TypeOK ==
  /\ events = ever \ deleted
  /\ clock \in Nat /\ now \in 0..clock /\ changes \in 0..MaxChanges
  /\ \A e \in events : e.at <= clock
  /\ req = NoRequest \/
       /\ req.kind \in Kinds
       /\ req.status \in {"asked", "answered", "invalid", "refused", "failed"}
  /\ DOMAIN answer \subseteq QueryNames
  /\ \A q \in DOMAIN answer : answer[q] \subseteq ever
  /\ (req.status = "answered") => (todo = <<>>)

Init ==
  /\ events = History /\ base = History /\ posted = {} /\ deleted = {}
  /\ nextId = Cardinality(History) + 1
  /\ clock = Start /\ now = 0 /\ changes = 0
  /\ req = NoRequest /\ todo = <<>> /\ answer = NoAnswer
-----------------------------------------------------------------------------
(***************************************************************************)
(* The database while the request runs.                                    *)
(***************************************************************************)
StatusCodes == 100..599

\* In milliseconds: an hour.
MaxResponseTime == 3600000

ResponseTime(r) == r = NoResponse \/ r \in 0..MaxResponseTime

\* EventSerializer.validate and its fields; Event.clean says the same.
Acceptable(b) ==
  /\ b.named <=> b.type = "CUSTOM"
  /\ b.status \in StatusCodes /\ ResponseTime(b.response)

Post(b) ==
  /\ changes < MaxChanges /\ changes' = changes + 1
  /\ Acceptable(b)
  /\ LET e == [id |-> nextId, at |-> clock, project |-> b.project,
               type |-> b.type, status |-> b.status, response |-> b.response,
               service |-> b.service]
     IN  /\ events' = events \cup {e} /\ posted' = posted \cup {e}
  /\ nextId' = nextId + 1
  /\ UNCHANGED <<clock, deleted, base, req, todo, now, answer>>

Expired == {e \in events : e.at < clock - Retention}

\* A batch of cleanup_old_events: the expired rows of the lowest ids.
Cleanup ==
  /\ changes < MaxChanges /\ changes' = changes + 1
  /\ \E n \in 1..Cardinality(Expired) :
       LET batch == {e \in Expired : Cardinality({x \in Expired : x.id < e.id}) < n}
       IN  events' = events \ batch /\ deleted' = deleted \cup batch
  /\ UNCHANGED <<clock, nextId, posted, base, req, todo, now, answer>>

Tick ==
  /\ changes < MaxChanges /\ changes' = changes + 1
  /\ clock' = clock + 1
  /\ UNCHANGED <<events, nextId, posted, deleted, base, req, todo, now, answer>>
-----------------------------------------------------------------------------
(***************************************************************************)
(* The request: its filters as the view leaves them.  A page whose form is *)
(* invalid shows the unfiltered data; bound says that the form was sent.   *)
(***************************************************************************)
FormPages == {"overview", "home", "errors", "slow"}

Valid(r) == RangeInOrder(r.filters)
              /\ (r.kind \in FormPages => r.project \in Owned \cup {NoProject})

\* 403 from _resolve_project, 404 from the project pages.
Refused(r) == r.kind \in {"api", "project", "page_list", "export"}
                /\ r.project \notin Owned \cup (IF r.kind = "api" THEN {NoProject} ELSE {})

\* One now stands for the clock readings of a request: no query lies between them.
Begin(r) ==
  /\ req.kind = "none"
  /\ LET invalid == r.kind \in {"api", "api_list"} /\ ~Valid(r)
         reset   == r.kind \in FormPages /\ ~Valid(r)
         status  == IF invalid THEN "invalid" ELSE IF Refused(r) THEN "refused" ELSE "asked"
     IN  /\ req' = [kind |-> r.kind, status |-> status,
                    project |-> IF reset THEN NoProject ELSE r.project,
                    filters |-> IF reset THEN NoFilters ELSE r.filters,
                    bound   |-> r.bound /\ ~reset]
         /\ todo' = IF status = "asked" THEN Queries(r.kind) ELSE <<>>
  /\ now' = clock
  /\ base' = events /\ posted' = {} /\ deleted' = {}
  /\ UNCHANGED <<events, clock, nextId, changes, answer>>
-----------------------------------------------------------------------------
(***************************************************************************)
(* The queries.                                                            *)
(***************************************************************************)
owner_events(S) ==
  {e \in S : e.project \in Owned /\ (req.project = NoProject \/ e.project = req.project)}

Selection(S) ==
  CASE req.kind \in {"page_list", "export"} -> page_filter_events(owner_events(S), req.filters)
    [] req.kind = "errors" -> {e \in filter_events(owner_events(S), req.filters) : error_q(e)}
    [] req.kind = "slow"   -> {e \in filter_events(owner_events(S), req.filters) : slow_q(e)}
    [] OTHER -> filter_events(owner_events(S), req.filters)

\* dashboard_data reads the time before the overview, the other two pages after it.
TimelineNow == IF req.kind \in {"errors", "slow"} THEN clock ELSE now

TimelineStart == IF req.filters.date_from.kind = "none" THEN TimelineNow - Week
                 ELSE Midnight(req.filters.date_from)

TimelineEnd == IF req.filters.date_to.kind = "none"
               THEN [kind |-> "time", value |-> TimelineNow] ELSE req.filters.date_to

\* The cleaned data of a form hold date_to even when it is None, so the default
\* of filters.get("date_to", now) is not used; timeline raises ValueError.
TimelineRaises ==
  \/ req.kind \in {"errors", "slow"} /\ req.bound /\ req.filters.date_to.kind = "none"
  \/ TimelineStart > Midnight(TimelineEnd)

InTimeline(e) == e.at >= TimelineStart /\ NotAfter(e, TimelineEnd)

RecentRows(S) == IF req.kind \in {"errors", "slow"} THEN S ELSE newest(S, Recent)

Read(q, S) ==
  CASE q = "errors"        -> {e \in S : error_q(e)}
    [] q = "successes"     -> {e \in S : success_q(e)}
    [] q = "today"         -> {e \in S : e.at >= DayStart(now)}
    [] q = "week"          -> {e \in S : e.at >= now - Week}
    [] q = "month"         -> {e \in S : e.at >= now - Month}
    [] q \in {"values", "p50", "p95", "p99"} -> Values(S)
    [] q = "timeline"      -> {e \in S : InTimeline(e)}
    [] q = "slow_events"   -> {e \in S : is_slow(e)}
    [] q = "recent"        -> RecentRows(S)
    [] q = "recent_errors" -> newest({e \in S : error_q(e)}, Recent)
    [] OTHER               -> S

IsPage(q) == q \in DOMAIN PageNumber

CountOf == [page1 |-> "count1", page2 |-> "count2", page3 |-> "count3"]

\* Whether the list ends with query q, which read S: the page is the last one by
\* its count, or it is not there any more (404).
ListEnds(q, S) ==
  \/ IsPage(q) /\ Cardinality(answer[CountOf[q]]) <= PageNumber[q] * PageSize
  \/ q = "count2" /\ Cardinality(S) <= PageSize
  \/ q = "count3" /\ Cardinality(S) <= 2 * PageSize

\* _response_stats asks for no percentile when there are no values.
Remaining(q, S) ==
  IF q = "values" /\ Values(S) = {} THEN SubSeq(todo, 5, Len(todo))
  ELSE IF ListEnds(q, S) THEN <<>> ELSE Tail(todo)

Query ==
  /\ todo # <<>>
  /\ LET q == Head(todo)
         S == Selection(events)
     IN  /\ ~(q = "timeline" /\ TimelineRaises)
         /\ answer' = [x \in DOMAIN answer \cup {q} |->
                         IF x = q THEN Read(q, S) ELSE answer[x]]
         /\ todo' = Remaining(q, S)
         /\ req' = IF Remaining(q, S) = <<>> THEN [req EXCEPT !.status = "answered"] ELSE req
  /\ UNCHANGED <<database, now, base>>

\* The exception reaches no handler of ValueError: the response is a 500.
TimelineError ==
  /\ todo # <<>> /\ Head(todo) = "timeline" /\ TimelineRaises
  /\ req' = [req EXCEPT !.status = "failed"]
  /\ todo' = <<>>
  /\ UNCHANGED <<database, now, answer, base>>
-----------------------------------------------------------------------------
Next ==
  \/ \E b \in Bodies : Post(b)
  \/ Cleanup
  \/ Tick
  \/ \E r \in Requests : Begin(r)
  \/ Query
  \/ TimelineError

Spec == Init /\ [][Next]_vars
-----------------------------------------------------------------------------
(***************************************************************************)
(* Properties.                                                             *)
(***************************************************************************)
Answered == req.status = "answered"

Asked(Q) == Q \cap DOMAIN answer

GroupNames == {Groups[i] : i \in 1..Len(Groups)}

\* The parts of a report are counted by separate queries (analytics/services.py:
\* 395-422, 710-717).  Whatever comes or expires meanwhile, two parts of which one
\* should lie within the other differ only by those changes: errors, successes, the
\* last month, the values, the timeline and the groups lie within the total but
\* for events posted after the total was taken; today within the week, the week
\* within the month and the total within each group but for events that expired;
\* nothing is both an error and a success; and with both ends of a range given the
\* timeline, cut by other code than the filter, covers the total.
ReportAgrees ==
  Answered /\ req.kind \in Reports =>
    /\ \A q \in Asked({"errors", "successes", "month", "values", "timeline", "recent"}
                        \cup GroupNames) :
         answer[q] \ answer["total"] \subseteq posted
    /\ \A q \in Asked({"recent_errors"}) : answer[q] \ answer["errors"] \subseteq posted
    /\ answer["today"] \ answer["week"] \subseteq deleted
    /\ answer["week"] \ answer["month"] \subseteq deleted
    /\ \A q \in Asked(GroupNames) : answer["total"] \ answer[q] \subseteq deleted
    /\ answer["errors"] \cap answer["successes"] = {}
    /\ {e \in answer["total"] : e.status >= 200}
         \subseteq answer["errors"] \cup answer["successes"] \cup deleted
    /\ (req.filters.date_from.kind # "none" /\ req.filters.date_to.kind # "none")
         => \A q \in Asked({"timeline"}) : answer["total"] \ answer[q] \subseteq deleted

\* Each percentile reads the response times again (analytics/services.py:374-392);
\* when the four queries read the same events, min <= p50 <= p95 <= p99 <= max.
PercentilesOrdered ==
  LET V   == answer["values"]
      p50 == response_percentile(answer["p50"], 50)
      p95 == response_percentile(answer["p95"], 95)
      p99 == response_percentile(answer["p99"], 99)
  IN  Answered /\ "p99" \in DOMAIN answer
        /\ V = answer["p50"] /\ V = answer["p95"] /\ V = answer["p99"]
      => /\ \A e \in V : p99 <= 100 * e.response \/ \E x \in V : x.response > e.response
         /\ \A e \in V : 100 * e.response <= p50 \/ \E x \in V : x.response < e.response
         /\ p50 <= p95 /\ p95 <= p99

\* A range of dates means whole UTC days, both inclusive, and the API, the event
\* page and the export mean the same by it, though one compares instants and the
\* others compare dates (README.md:498, 526).
DatesAreWholeDays ==
  Answered /\ req.kind \in Lists \cup {"export"} /\ ~req.filters.slow
    /\ "time" \notin {req.filters.date_from.kind, req.filters.date_to.kind}
  => \A e \in owner_events(base \ deleted) :
       e \in answer[IF req.kind = "export" THEN "rows" ELSE "page1"] <=>
         /\ MatchesFields(e, req.filters)
         /\ req.filters.date_from.kind = "date" => (e.at \div Day) >= req.filters.date_from.value
         /\ req.filters.date_to.kind = "date" => (e.at \div Day) <= req.filters.date_to.value

\* A request with a valid range of two ends, or of none, is answered: the views
\* check dates, the services compare instants, and they agree on the order.  (With
\* one end the default of the other may be on the wrong side, and the error and
\* slow-request pages raise for any sent form without an end date.)
WholeRangesAreAnswered ==
  req.status = "failed" =>
    \/ (req.filters.date_from.kind = "none") # (req.filters.date_to.kind = "none")
    \/ req.kind \in {"errors", "slow"} /\ req.bound

\* Reading the list page by page to its end, newest first, misses no event that was
\* there at the start and has not expired, however many are posted and expire
\* meanwhile: except on a page for which one is posted between its count and its
\* rows.  (A reader here stops after three pages, of a longer list too.)
PagesMissNothing ==
  Answered /\ req.kind \in Lists =>
    LET pages == {q \in DOMAIN answer : IsPage(q)}
        rows(q) == page(answer[q], PageNumber[q], Cardinality(answer[CountOf[q]]))
        ended == "page3" \in pages => Cardinality(answer["count3"]) <= 3 * PageSize
    IN  ended /\ (\A q \in pages : answer[q] \subseteq answer[CountOf[q]]) =>
          {e \in Selection(base) : e.at >= clock - Retention}
            \subseteq UNION {rows(q) : q \in pages}

\* The timeline is hourly: one row for an hour (README.md:522,
\* templates/analytics/overview.html:48).
TimelineIsHourly ==
  Answered /\ "timeline" \in DOMAIN answer =>
    \A x, y \in timeline_rows(answer["timeline"]) : x.bucket = y.bucket => x = y
=============================================================================
