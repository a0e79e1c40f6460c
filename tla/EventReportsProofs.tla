------------------------- MODULE EventReportsProofs -------------------------
(***************************************************************************)
(* Proofs about EventReports, for any events, requests, durations and any  *)
(* number of posts, deletions and ticks between the queries.               *)
(***************************************************************************)
EXTENDS EventReports, FiniteSetTheorems, SequenceTheorems, TLAPS

(***************************************************************************)
(* The database: what it stores is what was ever there but for what was    *)
(* deleted, a new event is new, and only expired events are deleted.       *)
(***************************************************************************)
World ==
  /\ events = ever \ deleted /\ deleted \subseteq ever
  /\ clock \in Nat /\ now \in 0..clock /\ changes \in 0..MaxChanges /\ nextId \in Nat
  /\ \A e \in ever : e.at \in 0..clock /\ e.status \in Nat /\ e.id \in Nat /\ e.id < nextId
  /\ \A e \in ever : e.response \in Nat \cup {NoResponse}
  /\ IsFiniteSet(ever)
  /\ \A d, e \in ever : d.id = e.id => d = e
  /\ \A e \in deleted : e.at < clock - Retention

LEMMA InitWorld == Init => World
<1> SUFFICES ASSUME Init PROVE World
  OBVIOUS
<1>1. Cardinality(History) \in Nat
  BY ReportsAssumption, FS_CardinalityType
<1> QED
  BY <1>1, ReportsAssumption DEF Init, World, ever

LEMMA PostWorld ==
  ASSUME World, NEW b, Post(b)
  PROVE  World' /\ (base' = base /\ posted \subseteq posted' /\ deleted \subseteq deleted')
<1>0. b.status \in StatusCodes /\ b.response \in Nat \cup {NoResponse}
  <2>1. b.status \in StatusCodes /\ ResponseTime(b.response)
    BY DEF Post, Acceptable
  <2>2. MaxResponseTime \in Nat
    BY DEF MaxResponseTime
  <2> QED
    BY <2>1, <2>2 DEF ResponseTime
<1> DEFINE e == [id |-> nextId, at |-> clock, project |-> b.project,
                 type |-> b.type, status |-> b.status, response |-> b.response,
                 service |-> b.service]
<1>1. /\ changes' = changes + 1 /\ changes < MaxChanges
      /\ events' = events \cup {e} /\ posted' = posted \cup {e}
      /\ nextId' = nextId + 1
      /\ UNCHANGED <<clock, deleted, base, now>>
  BY DEF Post
<1>2. /\ e.at = clock /\ e.status \in Nat /\ e.id = nextId
      /\ e.response \in Nat \cup {NoResponse}
  BY <1>0, <1>1 DEF StatusCodes
<1>3. e \notin ever
  BY <1>2 DEF World
<1> HIDE DEF e
<1>4. ever' = ever \cup {e}
  BY <1>1 DEF ever
<1>5. changes' \in 0..MaxChanges
  BY <1>1, ReportsAssumption DEF World
<1>6. \A x \in ever' : x.at \in 0..clock' /\ x.status \in Nat /\ x.id \in Nat /\ x.id < nextId'
  BY <1>1, <1>2, <1>4 DEF World
<1>7. events' = ever' \ deleted' /\ deleted' \subseteq ever'
  BY <1>1, <1>3, <1>4 DEF World
<1>8. IsFiniteSet(ever') /\ \A x \in ever' : x.response \in Nat \cup {NoResponse}
  BY <1>2, <1>4, FS_AddElement DEF World
<1>9. \A x \in deleted' : x.at < clock' - Retention
  BY <1>1 DEF World
<1>10. \A x, y \in ever' : x.id = y.id => x = y
  BY <1>2, <1>4 DEF World
<1> QED
  BY <1>1, <1>5, <1>6, <1>7, <1>8, <1>9, <1>10 DEF World

LEMMA CleanupWorld ==
  ASSUME World, Cleanup
  PROVE  World' /\ (base' = base /\ posted \subseteq posted' /\ deleted \subseteq deleted')
<1>1. PICK batch \in SUBSET Expired : events' = events \ batch /\ deleted' = deleted \cup batch
  BY DEF Cleanup
<1>2. /\ changes' = changes + 1 /\ changes < MaxChanges
      /\ UNCHANGED <<clock, nextId, posted, base, now>>
  BY DEF Cleanup
<1>3. changes' \in 0..MaxChanges
  BY <1>2, ReportsAssumption DEF World
<1>4. ever' = ever /\ batch \subseteq events
  BY <1>1, <1>2 DEF ever, Expired
<1>5. \A x \in deleted' : x.at < clock' - Retention
  BY <1>1, <1>2 DEF World, Expired
<1> QED
  BY <1>1, <1>2, <1>3, <1>4, <1>5 DEF World

LEMMA TickWorld ==
  ASSUME World, Tick
  PROVE  World' /\ (base' = base /\ posted \subseteq posted' /\ deleted \subseteq deleted')
<1>1. changes' \in 0..MaxChanges
  BY ReportsAssumption DEF World, Tick
<1>2. ever' = ever
  BY DEF Tick, ever
<1>3. \A x \in deleted' : x.at < clock' - Retention
  <2>1. \A x \in deleted : x.at \in Int /\ x.at < clock - Retention /\ clock \in Nat
    BY DEF World
  <2> QED
    BY <2>1, ReportsAssumption DEF Tick
<1> QED
  BY <1>1, <1>2, <1>3 DEF World, Tick

LEMMA BeginWorld ==
  ASSUME World, NEW r \in Requests, Begin(r)
  PROVE  World'
<1>1. ever' = events /\ events' = events /\ deleted' = {} /\ now' = clock
      /\ UNCHANGED <<clock, nextId, changes>>
  BY DEF Begin, ever
<1>2. ever' \in SUBSET ever /\ IsFiniteSet(ever')
  BY <1>1, FS_Subset DEF World
<1> QED
  BY <1>1, <1>2 DEF World
-----------------------------------------------------------------------------
(***************************************************************************)
(* What a query reads: the events the request chooses, or some of them.    *)
(***************************************************************************)
Matches(e) ==
  /\ NotBefore(e, req.filters.date_from) /\ NotAfter(e, req.filters.date_to)
  /\ MatchesFields(e, req.filters)
  /\ req.filters.slow => slow_q(e)

PageMatches(e) ==
  /\ req.filters.date_from.kind = "none" \/ (e.at \div Day) >= req.filters.date_from.value
  /\ req.filters.date_to.kind = "none" \/ (e.at \div Day) <= req.filters.date_to.value
  /\ MatchesFields(e, req.filters)

Chosen(e) ==
  /\ e.project \in Owned /\ (req.project = NoProject \/ e.project = req.project)
  /\ req.kind \in {"page_list", "export"} => PageMatches(e)
  /\ req.kind \notin {"page_list", "export"} => Matches(e)
  /\ req.kind = "errors" => error_q(e)
  /\ req.kind = "slow" => slow_q(e)

LEMMA SelectionChooses == \A S : Selection(S) = {e \in S : Chosen(e)}
<1> TAKE S
<1>1. owner_events(S)
        = {e \in S : e.project \in Owned /\ (req.project = NoProject \/ e.project = req.project)}
  BY DEF owner_events
<1>2. CASE req.kind \in {"page_list", "export"}
  <2>1. Selection(S) = page_filter_events(owner_events(S), req.filters)
    BY <1>2 DEF Selection
  <2> QED
    BY <1>1, <1>2, <2>1 DEF page_filter_events, Chosen, PageMatches
<1>3. CASE req.kind = "errors"
  <2>1. Selection(S) = {e \in filter_events(owner_events(S), req.filters) : error_q(e)}
    BY <1>3 DEF Selection
  <2> QED
    BY <1>1, <1>3, <2>1 DEF filter_events, Chosen, Matches
<1>4. CASE req.kind = "slow"
  <2>1. Selection(S) = {e \in filter_events(owner_events(S), req.filters) : slow_q(e)}
    BY <1>4 DEF Selection
  <2> QED
    BY <1>1, <1>4, <2>1 DEF filter_events, Chosen, Matches
<1>5. CASE req.kind \notin {"page_list", "export", "errors", "slow"}
  <2>1. Selection(S) = filter_events(owner_events(S), req.filters)
    BY <1>5 DEF Selection
  <2> QED
    BY <1>1, <1>5, <2>1 DEF filter_events, Chosen, Matches
<1> QED
  BY <1>2, <1>3, <1>4, <1>5

\* The place of a query among those of a list.
Place == [count1 |-> 1, page1 |-> 2, count2 |-> 3, page2 |-> 4, count3 |-> 5, page3 |-> 6]

Whole == {"total", "rows"} \cup DOMAIN Place \cup GroupNames

LEMMA GroupsAre == GroupNames = {"event_types", "services", "environments", "status_codes"}
BY DEF GroupNames, Groups

LEMMA ReadsOf ==
  ASSUME NEW q, NEW S
  PROVE  /\ Read(q, S) \subseteq S
         /\ q \in Whole => Read(q, S) = S
         /\ q = "errors" => Read(q, S) = {e \in S : error_q(e)}
         /\ q = "successes" => Read(q, S) = {e \in S : success_q(e)}
         /\ q = "today" => Read(q, S) = {e \in S : e.at >= DayStart(now)}
         /\ q = "week" => Read(q, S) = {e \in S : e.at >= now - Week}
         /\ q = "month" => Read(q, S) = {e \in S : e.at >= now - Month}
         /\ q = "timeline" => Read(q, S) = {e \in S : InTimeline(e)}
         /\ q = "recent_errors" => \A e \in Read(q, S) : error_q(e)
<1>1. q = "errors" => Read(q, S) = {e \in S : error_q(e)}
  BY DEF Read
<1>2. q = "successes" => Read(q, S) = {e \in S : success_q(e)}
  BY DEF Read
<1>3. q = "today" => Read(q, S) = {e \in S : e.at >= DayStart(now)}
  BY DEF Read
<1>4. q = "week" => Read(q, S) = {e \in S : e.at >= now - Week}
  BY DEF Read
<1>5. q = "month" => Read(q, S) = {e \in S : e.at >= now - Month}
  BY DEF Read
<1>6. q = "timeline" => Read(q, S) = {e \in S : InTimeline(e)}
  BY DEF Read
<1>7. q \in {"values", "p50", "p95", "p99"} => Read(q, S) = Values(S)
  BY DEF Read
<1>8. q = "slow_events" => Read(q, S) = {e \in S : is_slow(e)}
  BY DEF Read
<1>9. q = "recent" => Read(q, S) = RecentRows(S)
  BY DEF Read
<1>10. q = "recent_errors" => Read(q, S) = newest({e \in S : error_q(e)}, Recent)
  BY DEF Read
<1>11. q \notin {"errors", "successes", "today", "week", "month", "values", "p50", "p95", "p99",
                 "timeline", "slow_events", "recent", "recent_errors"} => Read(q, S) = S
  BY DEF Read
<1>12. Read(q, S) \subseteq S
  <2>1. Values(S) \subseteq S /\ RecentRows(S) \subseteq S
    BY DEF Values, RecentRows, newest
  <2>2. newest({e \in S : error_q(e)}, Recent) \subseteq {e \in S : error_q(e)}
    BY DEF newest
  <2> QED
    BY <1>1, <1>2, <1>3, <1>4, <1>5, <1>6, <1>7, <1>8, <1>9, <1>10, <1>11, <2>1, <2>2
<1>13. q = "recent_errors" => \A e \in Read(q, S) : error_q(e)
  BY <1>10 DEF newest
<1>14. q \in Whole => Read(q, S) = S
  BY <1>11, GroupsAre DEF Whole, Place
<1> QED
  BY <1>1, <1>2, <1>3, <1>4, <1>5, <1>6, <1>12, <1>13, <1>14
-----------------------------------------------------------------------------
(***************************************************************************)
(* The queries of a request and their order.                               *)
(***************************************************************************)
LEMMA DashboardIs ==
  /\ Dashboard \in Seq(QueryNames) /\ Len(Dashboard) = 15
  /\ Dashboard[1] = "total" /\ Dashboard[2] = "errors" /\ Dashboard[3] = "successes"
  /\ Dashboard[4] = "today" /\ Dashboard[5] = "week" /\ Dashboard[6] = "month"
  /\ Dashboard[7] = "values" /\ Dashboard[8] = "p50" /\ Dashboard[9] = "p95"
  /\ Dashboard[10] = "p99" /\ Dashboard[11] = "timeline"
  /\ Dashboard[12] = "event_types" /\ Dashboard[13] = "services"
  /\ Dashboard[14] = "environments" /\ Dashboard[15] = "status_codes"
<1>1. Dashboard = Overview \o <<"timeline">> \o Groups
  BY DEF Dashboard
<1>2. Len(Overview) = 10 /\ Len(<<"timeline">>) = 1 /\ Len(Groups) = 4
  BY DEF Overview, Groups
<1> QED
  BY <1>1, <1>2 DEF Overview, Groups, QueryNames

Basic == {"total", "errors", "successes", "today", "week", "month", "values", "p50", "p95", "p99"}

Further == {"timeline", "slow_events", "recent", "recent_errors"} \cup GroupNames

Extends(s, D, a, b) == s = D \o <<a, b>>

LEMMA AppendPair ==
  ASSUME NEW S, NEW D \in Seq(S), NEW a \in S, NEW b \in S, NEW s, Extends(s, D, a, b)
  PROVE  /\ s \in Seq(S) /\ Len(s) = Len(D) + 2
         /\ \A i \in 1..Len(D) : s[i] = D[i]
         /\ s[Len(D) + 1] = a /\ s[Len(D) + 2] = b
<1>1. PICK p : p = <<a, b>>
  OBVIOUS
<1>2. p \in Seq(S) /\ Len(p) = 2 /\ p[1] = a /\ p[2] = b
  BY <1>1
<1>3. s = D \o p /\ Len(D) \in Nat
  BY <1>1 DEF Extends
<1>4. /\ D \o p \in Seq(S) /\ Len(D \o p) = Len(D) + Len(p)
      /\ \A i \in 1..(Len(D) + Len(p)) : (D \o p)[i] = IF i <= Len(D) THEN D[i] ELSE p[i - Len(D)]
  BY <1>2, ConcatProperties
<1>5. \A i \in 1..(Len(D) + 2) : s[i] = IF i <= Len(D) THEN D[i] ELSE p[i - Len(D)]
  BY <1>2, <1>3, <1>4
<1>6. s[Len(D) + 1] = p[1] /\ s[Len(D) + 2] = p[2]
  <2>1. ASSUME NEW n \in Nat PROVE /\ n + 1 \in 1..(n + 2) /\ ~(n + 1 <= n) /\ (n + 1) - n = 1
                                   /\ n + 2 \in 1..(n + 2) /\ ~(n + 2 <= n) /\ (n + 2) - n = 2
    OBVIOUS
  <2>2. s[Len(D) + 1] = p[(Len(D) + 1) - Len(D)] /\ s[Len(D) + 2] = p[(Len(D) + 2) - Len(D)]
    BY <1>3, <1>5, <2>1
  <2> QED
    BY <1>3, <2>1, <2>2
<1> QED
  BY <1>2, <1>3, <1>4, <1>5, <1>6

\* A report begins with the overview.
Overviewed(Q) ==
  /\ Q \in Seq(QueryNames) /\ Len(Q) >= 11
  /\ Q[1] = "total" /\ Q[2] = "errors" /\ Q[3] = "successes"
  /\ Q[4] = "today" /\ Q[5] = "week" /\ Q[6] = "month"
  /\ Q[7] = "values" /\ Q[8] = "p50" /\ Q[9] = "p95" /\ Q[10] = "p99"
  /\ \A i \in 11..Len(Q) : Q[i] \in Further

LEMMA DashboardOverviewed == Overviewed(Dashboard)
<1>1. \A i \in 11..15 : i = 11 \/ i = 12 \/ i = 13 \/ i = 14 \/ i = 15
  OBVIOUS
<1>2. \A i \in 11..15 : Dashboard[i] \in Further
  BY <1>1, DashboardIs, GroupsAre DEF Further
<1> QED
  BY <1>2, DashboardIs DEF Overviewed

LEMMA OverviewedPair ==
  ASSUME NEW a \in Further \cap QueryNames, NEW b \in Further \cap QueryNames,
         NEW s, Extends(s, Dashboard, a, b)
  PROVE  Overviewed(s)
<1>1. Dashboard \in Seq(QueryNames) /\ Len(Dashboard) = 15
  BY DashboardIs
<1>2. /\ s \in Seq(QueryNames) /\ Len(s) = 17
      /\ \A i \in 1..15 : s[i] = Dashboard[i]
      /\ s[16] = a /\ s[17] = b
  <2> DEFINE n == Len(Dashboard)
  <2>1. /\ s \in Seq(QueryNames) /\ Len(s) = n + 2
        /\ \A i \in 1..n : s[i] = Dashboard[i]
        /\ s[n + 1] = a /\ s[n + 2] = b
    <3>1. a \in QueryNames /\ b \in QueryNames /\ Dashboard \in Seq(QueryNames)
      BY <1>1
    <3> QED
      BY <3>1, AppendPair
  <2>2. n = 15 /\ n + 1 = 16 /\ n + 2 = 17
    BY <1>1
  <2> HIDE DEF n
  <2> QED
    BY <2>1, <2>2
<1>3. \A i \in 11..17 : s[i] \in Further
  BY <1>1, <1>2, DashboardOverviewed DEF Overviewed
<1> QED
  BY <1>1, <1>2, <1>3, DashboardOverviewed DEF Overviewed

LEMMA NamesOfQueries ==
  /\ "rows" \in QueryNames /\ "slow_events" \in QueryNames /\ "recent" \in QueryNames
  /\ "recent_errors" \in QueryNames
  /\ Basic \cup {"timeline", "services", "environments"} \subseteq QueryNames
<1>1. \A i \in 1..15 : Dashboard[i] \in QueryNames
  <2>1. Dashboard \in Seq(QueryNames) /\ Len(Dashboard) = 15
    BY DashboardIs
  <2> QED
    BY <2>1, ElementOfSeq
<1>2. Basic \cup {"timeline", "services", "environments"} \subseteq QueryNames
  BY <1>1, DashboardIs DEF Basic
<1> QED
  BY <1>2 DEF QueryNames

LEMMA ReportQueries ==
  ASSUME NEW k \in Reports
  PROVE  Overviewed(Queries(k))
<1>1. CASE k \in {"api", "overview"}
  <2>1. Queries(k) = Dashboard
    BY <1>1 DEF Queries, Lists
  <2> QED
    BY <2>1, DashboardOverviewed
<1>2. CASE k = "home"
  <2>1. Extends(Queries(k), Dashboard, "recent", "recent_errors")
    BY <1>2 DEF Queries, Lists, Extends
  <2>2. "recent" \in Further \cap QueryNames /\ "recent_errors" \in Further \cap QueryNames
    BY NamesOfQueries DEF Further
  <2> QED
    BY <2>1, <2>2, OverviewedPair
<1>3. CASE k = "project"
  <2>1. Extends(Queries(k), Dashboard, "slow_events", "recent")
    BY <1>3 DEF Queries, Lists, Extends
  <2>2. "recent" \in Further \cap QueryNames /\ "slow_events" \in Further \cap QueryNames
    BY NamesOfQueries DEF Further
  <2> QED
    BY <2>1, <2>2, OverviewedPair
<1>4. CASE k = "errors"
  <2>1. Queries(k) = Overview \o <<"timeline", "services", "recent", "environments">>
    BY <1>4 DEF Queries, Lists
  <2>2. /\ Len(Queries(k)) = 14 /\ Queries(k)[11] = "timeline" /\ Queries(k)[12] = "services"
        /\ Queries(k)[13] = "recent" /\ Queries(k)[14] = "environments"
        /\ Queries(k) \in Seq(QueryNames)
    BY <2>1, NamesOfQueries DEF Overview, Basic
  <2>3. \A i \in 11..14 : Queries(k)[i] \in Further
    <3>1. \A i \in 11..14 : i = 11 \/ i = 12 \/ i = 13 \/ i = 14
      OBVIOUS
    <3> QED
      BY <3>1, <2>2, GroupsAre DEF Further
  <2> QED
    BY <2>1, <2>2, <2>3 DEF Overview, Overviewed
<1>5. CASE k = "slow"
  <2>1. Queries(k) = Overview \o <<"timeline", "services", "recent">>
    BY <1>5 DEF Queries, Lists
  <2>2. /\ Len(Queries(k)) = 13 /\ Queries(k)[11] = "timeline" /\ Queries(k)[12] = "services"
        /\ Queries(k)[13] = "recent"
        /\ Queries(k) \in Seq(QueryNames)
    BY <2>1, NamesOfQueries DEF Overview, Basic
  <2>3. \A i \in 11..13 : Queries(k)[i] \in Further
    <3>1. \A i \in 11..13 : i = 11 \/ i = 12 \/ i = 13
      OBVIOUS
    <3> QED
      BY <3>1, <2>2, GroupsAre DEF Further
  <2> QED
    BY <2>1, <2>2, <2>3 DEF Overview, Overviewed
<1> QED
  BY <1>1, <1>2, <1>3, <1>4, <1>5 DEF Reports

LEMMA OtherQueries ==
  /\ \A k \in Lists : Queries(k) = ListPages
  /\ ListPages \in Seq(QueryNames) /\ Len(ListPages) = 6
  /\ ListPages[1] = "count1" /\ ListPages[2] = "page1" /\ ListPages[3] = "count2"
  /\ ListPages[4] = "page2" /\ ListPages[5] = "count3" /\ ListPages[6] = "page3"
  /\ Queries("export") = <<"rows">> /\ "rows" \in QueryNames
<1>1. \A k \in Lists : Queries(k) = ListPages
  BY DEF Queries, Lists
<1>2. Queries("export") = <<"rows">>
  BY DEF Queries, Lists
<1> QED
  BY <1>1, <1>2 DEF ListPages, QueryNames
-----------------------------------------------------------------------------
(***************************************************************************)
(* The request: what it still has to ask is the end of its list, and what  *)
(* comes before has been answered.                                         *)
(***************************************************************************)
Percentiles == {"p50", "p95", "p99"}

AtQuery(k) ==
  LET Q == Queries(req.kind)
  IN  /\ todo \in Seq(QueryNames) /\ Len(todo) = Len(Q) - k + 1
      /\ \A i \in 1..Len(todo) : todo[i] = Q[k + i - 1]
      /\ \A i \in 1..(k - 1) : Q[i] \in DOMAIN answer \/ Q[i] \in Percentiles
      /\ \A q \in DOMAIN answer : \E i \in 1..(k - 1) : q = Q[i]

Finished ==
  /\ req.kind \in Reports =>
       {"total", "errors", "successes", "today", "week", "month", "values"} \subseteq DOMAIN answer
  /\ req.kind \in Lists => "page1" \in DOMAIN answer
  /\ req.kind = "export" => "rows" \in DOMAIN answer

IsRecord == req \in [kind : {req.kind}, status : {req.status}, project : {req.project},
                     filters : {req.filters}, bound : {req.bound}]

Request ==
  /\ IsRecord
  /\ req.kind = "none" => req = NoRequest /\ todo = <<>> /\ answer = NoAnswer
  /\ req.kind # "none" =>
       /\ req.kind \in Kinds
       /\ req.status \in {"asked", "answered", "invalid", "refused", "failed"}
       /\ req.filters.date_from \in Bounds /\ req.filters.date_to \in Bounds
       /\ (req.kind \in Reports /\ req.status \in {"asked", "answered", "failed"})
            => RangeInOrder(req.filters)
  /\ req.status = "asked" => \E k \in 1..Len(Queries(req.kind)) : AtQuery(k)
  /\ req.status # "asked" => todo = <<>>
  /\ req.status = "answered" => Finished
  /\ DOMAIN answer \subseteq QueryNames

LEMMA KindsDiffer ==
  /\ "none" \notin Kinds /\ "export" \notin Reports \cup Lists /\ Reports \cap Lists = {}
  /\ Kinds = Reports \cup Lists \cup {"export"}
BY DEF Kinds, Reports, Lists

LEMMA QueriesNotEmpty ==
  ASSUME NEW k \in Kinds
  PROVE  Queries(k) \in Seq(QueryNames) /\ Len(Queries(k)) >= 1
<1>0. k \in Reports \/ k \in Lists \/ k = "export"
  BY KindsDiffer
<1>1. CASE k \in Reports
  BY <1>1, ReportQueries DEF Overviewed
<1>2. CASE k \in Lists
  BY <1>2, OtherQueries
<1>3. CASE k = "export"
  <2>1. Queries(k) = <<"rows">>
    BY <1>3 DEF Queries, Lists
  <2> QED
    BY <2>1, NamesOfQueries
<1> QED
  BY <1>0, <1>1, <1>2, <1>3

LEMMA InitRequest == Init => Request
BY DEF Init, Request, IsRecord, NoRequest, NoAnswer

LEMMA BeginRequest ==
  ASSUME Request, NEW r \in Requests, Begin(r)
  PROVE  Request'
<1> DEFINE invalid == r.kind \in {"api", "api_list"} /\ ~Valid(r)
           reset   == r.kind \in FormPages /\ ~Valid(r)
           status  == IF invalid THEN "invalid" ELSE IF Refused(r) THEN "refused" ELSE "asked"
           f       == IF reset THEN NoFilters ELSE r.filters
<1>1. /\ req' = [kind |-> r.kind, status |-> status,
                 project |-> IF reset THEN NoProject ELSE r.project, filters |-> f,
                 bound |-> r.bound /\ ~reset]
      /\ todo' = IF status = "asked" THEN Queries(r.kind) ELSE <<>>
      /\ answer' = answer /\ req.kind = "none"
  BY DEF Begin
<1>2. r.kind \in Kinds /\ r.filters.date_from \in Bounds /\ r.filters.date_to \in Bounds
  BY ReportsAssumption
<1>3. NoFilters.date_from \in Bounds /\ NoFilters.date_to \in Bounds /\ RangeInOrder(NoFilters)
  BY DEF NoFilters, NoBound, Bounds, RangeInOrder
<1>4. f.date_from \in Bounds /\ f.date_to \in Bounds
  BY <1>2, <1>3
<1>5. (r.kind \in Reports /\ status = "asked") => RangeInOrder(f)
  <2>1. r.kind = "project" => r.filters = NoFilters
    BY ReportsAssumption
  <2>2. Valid(r) => RangeInOrder(r.filters)
    BY DEF Valid
  <2> QED
    BY <1>3, <2>1, <2>2 DEF Reports, FormPages
<1>6. answer' = NoAnswer /\ DOMAIN answer' = {}
  BY <1>1 DEF Request, NoAnswer
<1>7. status = "asked" => AtQuery(1)'
  BY <1>1, <1>2, <1>6, QueriesNotEmpty DEF AtQuery
<1>8. status \in {"asked", "invalid", "refused"}
  OBVIOUS
<1>9. /\ req'.kind = r.kind /\ req'.status = status /\ req'.filters = f
      /\ req'.kind # "none"
  BY <1>1, <1>2, KindsDiffer
<1>10. req'.status = "asked" => \E k \in 1..Len(Queries(req'.kind)) : AtQuery(k)'
  BY <1>2, <1>7, <1>9, QueriesNotEmpty
<1>11. IsRecord'
  BY <1>1 DEF IsRecord
<1> HIDE DEF f, status
<1> QED
  BY <1>1, <1>2, <1>4, <1>5, <1>6, <1>8, <1>9, <1>10, <1>11 DEF Request

LEMMA FromQuery ==
  ASSUME Request, NEW k \in 1..Len(Queries(req.kind)), AtQuery(k), req.kind \in Kinds
  PROVE  /\ todo # <<>> /\ todo \in Seq(QueryNames) /\ Head(todo) = Queries(req.kind)[k]
         /\ Len(todo) = Len(Queries(req.kind)) - k + 1
         /\ Tail(todo) \in Seq(QueryNames) /\ Len(Tail(todo)) = Len(Queries(req.kind)) - k
         /\ \A i \in 1..Len(Tail(todo)) : Tail(todo)[i] = Queries(req.kind)[k + i]
<1> DEFINE Q == Queries(req.kind)
<1>1. Len(Q) \in Nat /\ k \in 1..Len(Q)
  BY QueriesNotEmpty
<1>2. /\ todo \in Seq(QueryNames) /\ Len(todo) = Len(Q) - k + 1
      /\ \A i \in 1..Len(todo) : todo[i] = Q[k + i - 1]
  BY DEF AtQuery
<1> HIDE DEF Q
<1>3. Len(todo) \in Nat /\ Len(todo) >= 1 /\ todo # <<>>
  BY <1>1, <1>2
<1>4. Head(todo) = todo[1] /\ todo[1] = Q[k]
  BY <1>1, <1>2, <1>3
<1>5. /\ Tail(todo) \in Seq(QueryNames) /\ Len(Tail(todo)) = Len(todo) - 1
      /\ \A i \in 1..(Len(todo) - 1) : Tail(todo)[i] = todo[i + 1]
  BY <1>2, <1>3
<1>6. ASSUME NEW i \in 1..(Len(todo) - 1) PROVE Tail(todo)[i] = Q[k + i]
  <2>1. i + 1 \in 1..Len(todo) /\ k + (i + 1) - 1 = k + i
    BY <1>1, <1>3
  <2> QED
    BY <1>2, <1>5, <2>1
<1>7. Len(Tail(todo)) = Len(Q) - k
  BY <1>1, <1>2, <1>5
<1> QED
  BY <1>2, <1>3, <1>4, <1>5, <1>6, <1>7 DEF Q

\* Where the queries of a report are.
LEMMA ReportPositions ==
  ASSUME NEW Q, Overviewed(Q), NEW k \in 1..Len(Q)
  PROVE  /\ Q[k] \in Basic \cup Further
         /\ Q[k] = "values" => k = 7
         /\ k >= 11 <=> Q[k] \in Further
         /\ Q[k] = "errors" => k = 2
         /\ Q[k] = "successes" => k = 3
         /\ Q[k] = "today" => k = 4
         /\ Q[k] = "week" => k = 5
         /\ Q[k] = "month" => k = 6
         /\ Q[k] = "total" => k = 1
<1>1. Basic \cap Further = {}
  BY GroupsAre DEF Basic, Further
<1>2. CASE k <= 10
  <2>1. \/ k = 1 \/ k = 2 \/ k = 3 \/ k = 4 \/ k = 5 \/ k = 6 \/ k = 7 \/ k = 8 \/ k = 9 \/ k = 10
    BY <1>2 DEF Overviewed
  <2> QED
    BY <1>1, <2>1 DEF Overviewed, Basic
<1>3. CASE k >= 11
  <2>1. Q[k] \in Further
    BY <1>3 DEF Overviewed
  <2> QED
    BY <1>1, <1>3, <2>1 DEF Basic
<1>4. k \in Int
  OBVIOUS
<1> QED
  BY <1>2, <1>3, <1>4

LEMMA ListNames ==
  \A q \in Basic \cup Further \cup {"rows"} :
    ~IsPage(q) /\ q \notin {"count1", "count2", "count3", "page1", "page2", "page3"}
BY GroupsAre DEF Basic, Further, IsPage, PageNumber

\* Every query before the k-th has been answered.
LEMMA Before ==
  ASSUME NEW k, AtQuery(k), NEW q, NEW i \in 1..(k - 1), Queries(req.kind)[i] = q,
         q \notin Percentiles
  PROVE  q \in DOMAIN answer
BY DEF AtQuery

LEMMA SameRequest ==
  ASSUME IsRecord, Query \/ TimelineError
  PROVE  /\ IsRecord' /\ req'.kind = req.kind /\ req'.project = req.project
         /\ req'.filters = req.filters /\ req'.bound = req.bound
         /\ req'.status \in {req.status, "answered", "failed"}
<1>1. \E v \in {req.status, "answered", "failed"} : req' = [req EXCEPT !.status = v]
  <2>1. req = [req EXCEPT !.status = req.status]
    BY DEF IsRecord
  <2>2. CASE Query
    BY <2>1, <2>2 DEF Query
  <2>3. CASE TimelineError
    BY <2>3 DEF TimelineError
  <2> QED
    BY <2>2, <2>3
<1> QED
  BY <1>1 DEF IsRecord

\* A step of a request: it asks for the k-th of its queries.
LEMMA Asking ==
  ASSUME Request, todo # <<>>
  PROVE  /\ req.status = "asked" /\ req.kind \in Kinds
         /\ \E k \in 1..Len(Queries(req.kind)) : AtQuery(k)
BY DEF Request

LEMMA NextQuery ==
  ASSUME Request, Query, NEW k \in 1..Len(Queries(req.kind)), AtQuery(k),
         NEW n \in Nat, n > k, n <= Len(Queries(req.kind)) + 1,
         todo' \in Seq(QueryNames), Len(todo') = Len(Queries(req.kind)) - n + 1,
         \A i \in 1..Len(todo') : todo'[i] = Queries(req.kind)[n + i - 1],
         \A i \in (k + 1)..(n - 1) : Queries(req.kind)[i] \in Percentiles
  PROVE  AtQuery(n)'
<1> DEFINE Q == Queries(req.kind)
<1>1. req'.kind = req.kind
  BY SameRequest DEF Request
<1>2. req.kind \in Kinds /\ todo # <<>>
  BY DEF Request, Query
<1>3. Head(todo) = Q[k] /\ Len(Q) \in Nat
  BY <1>2, FromQuery, QueriesNotEmpty
<1>4. DOMAIN answer' = DOMAIN answer \cup {Q[k]}
  BY <1>3 DEF Query
<1>5. /\ \A i \in 1..(k - 1) : Q[i] \in DOMAIN answer \/ Q[i] \in Percentiles
      /\ \A q \in DOMAIN answer : \E i \in 1..(k - 1) : q = Q[i]
  BY DEF AtQuery
<1> HIDE DEF Q
<1>6. k \in Nat /\ k >= 1
  BY <1>3 DEF Q
<1>7. ASSUME NEW i \in 1..(n - 1) PROVE Q[i] \in DOMAIN answer' \/ Q[i] \in Percentiles
  <2>1. i \in 1..(k - 1) \/ i = k \/ i \in (k + 1)..(n - 1)
    BY <1>6
  <2> QED
    BY <1>4, <1>5, <2>1 DEF Q
<1>8. ASSUME NEW q \in DOMAIN answer' PROVE \E i \in 1..(n - 1) : q = Q[i]
  <2>1. CASE q \in DOMAIN answer
    <3>1. PICK i \in 1..(k - 1) : q = Q[i]
      BY <1>5, <2>1
    <3>2. i \in 1..(n - 1)
      BY <1>6
    <3> QED
      BY <3>1, <3>2
  <2>2. CASE q = Q[k]
    <3>1. k \in 1..(n - 1)
      BY <1>6
    <3> QED
      BY <2>2, <3>1
  <2> QED
    BY <1>4, <2>1, <2>2
<1> QED
  BY <1>1, <1>7, <1>8 DEF AtQuery, Q

LEMMA QueryRequest ==
  ASSUME Request, Query
  PROVE  Request'
<1> DEFINE Q == Queries(req.kind)
           q == Head(todo)
           S == Selection(events)
<1>1. /\ todo # <<>> /\ todo' = Remaining(q, S)
      /\ DOMAIN answer' = DOMAIN answer \cup {q}
      /\ req' = IF todo' = <<>> THEN [req EXCEPT !.status = "answered"] ELSE req
  BY DEF Query
<1>2. req.status = "asked" /\ req.kind \in Kinds /\ req.kind # "none"
  BY <1>1, KindsDiffer DEF Request
<1>3. PICK k \in 1..Len(Q) : AtQuery(k)
  BY <1>2 DEF Request
<1>4. /\ q = Q[k] /\ todo \in Seq(QueryNames) /\ Len(todo) = Len(Q) - k + 1
      /\ Tail(todo) \in Seq(QueryNames) /\ Len(Tail(todo)) = Len(Q) - k
      /\ \A i \in 1..Len(Tail(todo)) : Tail(todo)[i] = Q[k + i]
  BY <1>2, <1>3, FromQuery
<1>5. Q \in Seq(QueryNames) /\ Len(Q) \in Nat /\ Q[k] \in QueryNames
  BY <1>2, <1>3, QueriesNotEmpty, ElementOfSeq
<1>6. /\ IsRecord' /\ req'.kind = req.kind /\ req'.filters = req.filters
      /\ req'.status = IF todo' = <<>> THEN "answered" ELSE "asked"
  BY <1>1, <1>2, SameRequest DEF Request, IsRecord
<1>7. DOMAIN answer' \subseteq QueryNames
  BY <1>1, <1>4, <1>5 DEF Request
<1>8. ASSUME todo' # <<>>, todo' = Tail(todo)
      PROVE  \E n \in 1..Len(Q) : AtQuery(n)'
  <2> HIDE DEF Q, q, S
  <2>0. Tail(todo) \in Seq(QueryNames) /\ Tail(todo) # <<>>
    BY <1>4, <1>8
  <2>1. Len(Tail(todo)) # 0
    BY <2>0, EmptySeq
  <2>2. k + 1 \in 1..Len(Q) /\ k + 1 \in Nat /\ k + 1 > k /\ Len(Tail(todo)) = Len(Q) - (k + 1) + 1
    <3>1. ASSUME NEW n \in Nat, NEW i \in 1..n, n - i # 0
          PROVE  i + 1 \in 1..n /\ i + 1 \in Nat /\ i + 1 > i /\ n - i = n - (i + 1) + 1
      BY <3>1
    <3>2. Len(Q) - k # 0
      BY <1>4, <2>1
    <3> QED
      BY <1>3, <1>4, <1>5, <3>1, <3>2
  <2>3. \A i \in 1..Len(todo') : todo'[i] = Q[(k + 1) + i - 1]
    <3> SUFFICES ASSUME NEW i \in 1..Len(todo') PROVE todo'[i] = Q[(k + 1) + i - 1]
      OBVIOUS
    <3>1. todo'[i] = Q[k + i]
      BY <1>4, <1>8
    <3>2. ASSUME NEW m \in Nat, NEW j \in Int PROVE m + j = (m + 1) + j - 1
      OBVIOUS
    <3>3. k + i = (k + 1) + i - 1
      BY <1>3, <1>5, <3>2
    <3> QED
      BY <3>1, <3>3
  <2>4. \A i \in (k + 1)..((k + 1) - 1) : Q[i] \in Percentiles
    BY <1>3, <1>5
  <2>5. AtQuery(k + 1)'
    <3>1. /\ todo' \in Seq(QueryNames) /\ Len(todo') = Len(Q) - (k + 1) + 1
          /\ k + 1 \in Nat /\ k + 1 > k /\ k + 1 <= Len(Q) + 1
      BY <1>4, <1>5, <1>8, <2>2
    <3> QED
      BY <1>3, <2>3, <2>4, <3>1, NextQuery DEF Q
  <2> QED
    BY <2>2, <2>5
<1>9. CASE req.kind \in Reports
  <2>1. Overviewed(Q)
    BY <1>9, ReportQueries
  <2>2. ~ListEnds(q, S)
    <3>1. q \in Basic \cup Further
      BY <1>3, <1>4, <2>1, ReportPositions
    <3> QED
      BY <3>1, ListNames DEF ListEnds
  <2>3. CASE q = "values" /\ Values(S) = {}
    <3>1. k = 7
      BY <1>3, <1>4, <2>1, <2>3, ReportPositions
    <3>2. todo' = SubSeq(todo, 5, Len(todo))
      BY <1>1, <2>3 DEF Remaining
    <3>3. Len(todo) \in Nat /\ Len(todo) = Len(Q) - 6 /\ Len(todo) >= 5
      BY <1>4, <1>5, <2>1, <3>1 DEF Overviewed
    <3>4. /\ todo' \in Seq(QueryNames) /\ Len(todo') = Len(todo) - 4
          /\ \A i \in 1..(Len(todo) - 4) : todo'[i] = todo[i + 4]
      BY <1>4, <3>2, <3>3
    <3>5. \A i \in 1..Len(todo') : todo'[i] = Q[11 + i - 1]
      <4> SUFFICES ASSUME NEW i \in 1..Len(todo') PROVE todo'[i] = Q[11 + i - 1]
        OBVIOUS
      <4>1. i + 4 \in 1..Len(todo) /\ 7 + (i + 4) - 1 = 11 + i - 1
        BY <3>3, <3>4
      <4>2. todo[i + 4] = Q[7 + (i + 4) - 1]
        BY <1>3, <3>1, <4>1 DEF AtQuery
      <4> QED
        BY <3>3, <3>4, <4>1, <4>2
    <3>6. \A i \in (7 + 1)..(11 - 1) : Q[i] \in Percentiles
      <4>1. \A i \in (7 + 1)..(11 - 1) : i = 8 \/ i = 9 \/ i = 10
        OBVIOUS
      <4> QED
        BY <2>1, <4>1 DEF Overviewed, Percentiles
    <3>7. /\ 11 \in Nat /\ 11 > 7 /\ 11 <= Len(Q) + 1 /\ 11 \in 1..Len(Q)
          /\ Len(todo') = Len(Q) - 11 + 1
      BY <1>5, <3>3, <3>4
    <3>8. AtQuery(11)'
      BY <1>3, <3>1, <3>4, <3>5, <3>6, <3>7, NextQuery
    <3>9. todo' # <<>>
      BY <3>3, <3>4
    <3> QED
      BY <1>2, <1>6, <1>7, <1>9, <3>7, <3>8, <3>9 DEF Request
  <2>4. CASE ~(q = "values" /\ Values(S) = {})
    <3>1. todo' = Tail(todo)
      BY <1>1, <2>2, <2>4 DEF Remaining
    <3>2. CASE todo' # <<>>
      BY <1>2, <1>6, <1>7, <1>8, <1>9, <3>1, <3>2 DEF Request
    <3>3. CASE todo' = <<>>
      <4>1. k = Len(Q) /\ k >= 11
        <5> HIDE DEF Q, q, S
        <5>1. Len(Tail(todo)) = 0
          BY <3>1, <3>3, EmptySeq
        <5>2. ASSUME NEW n \in Nat, NEW i \in 1..n, n - i = 0, n >= 11 PROVE i = n /\ i >= 11
          BY <5>2
        <5>3. Len(Q) - k = 0 /\ Len(Q) >= 11
          BY <1>4, <2>1, <5>1 DEF Overviewed
        <5> QED
          BY <1>3, <1>5, <5>2, <5>3
      <4>2. \A i \in 1..7 : Q[i] \in DOMAIN answer
        <5>1. \A i \in 1..7 : i \in 1..(k - 1)
                 /\ (i = 1 \/ i = 2 \/ i = 3 \/ i = 4 \/ i = 5 \/ i = 6 \/ i = 7)
          BY <4>1, <1>5
        <5>2. \A i \in 1..7 : Q[i] \notin Percentiles
          BY <2>1, <5>1 DEF Overviewed, Percentiles
        <5> QED
          BY <1>3, <5>1, <5>2, Before
      <4>3. {"total", "errors", "successes", "today", "week", "month", "values"}
              \subseteq DOMAIN answer
        BY <2>1, <4>2 DEF Overviewed
      <4>4. Finished'
        BY <1>1, <1>6, <1>9, <4>3, KindsDiffer DEF Finished
      <4> QED
        BY <1>2, <1>6, <1>7, <1>9, <3>3, <4>4 DEF Request
    <3> QED
      BY <3>2, <3>3
  <2> QED
    BY <2>3, <2>4
<1>10. ASSUME req.kind \notin Reports, q # "values" PROVE todo' \in {<<>>, Tail(todo)}
  BY <1>1, <1>10 DEF Remaining
<1>11. CASE req.kind \in Lists
  <2>1. Q = ListPages
    BY <1>11, OtherQueries
  <2>2. /\ Len(Q) = 6 /\ Q[1] = "count1" /\ Q[2] = "page1" /\ Q[3] = "count2"
        /\ Q[4] = "page2" /\ Q[5] = "count3" /\ Q[6] = "page3"
    BY <2>1, OtherQueries
  <2>3. k = 1 \/ k = 2 \/ k = 3 \/ k = 4 \/ k = 5 \/ k = 6
    BY <1>3, <2>2
  <2>4. q # "values"
    BY <1>4, <2>2, <2>3
  <2>5. CASE todo' # <<>>
    BY <1>2, <1>6, <1>7, <1>8, <1>10, <1>11, <2>4, <2>5, KindsDiffer DEF Request
  <2>6. CASE todo' = <<>>
    <3>1. k # 1
      <4> SUFFICES ASSUME k = 1 PROVE FALSE
        OBVIOUS
      <4>1. q = "count1" /\ Len(Tail(todo)) = 5
        BY <1>4, <2>2
      <4>2. ~ListEnds(q, S)
        BY <4>1 DEF ListEnds, IsPage, PageNumber
      <4> QED
        BY <1>1, <2>6, <4>1, <4>2 DEF Remaining
    <3>2. "page1" \in DOMAIN answer'
      <4>1. CASE k = 2
        BY <1>1, <1>4, <2>2, <4>1
      <4>2. CASE k >= 3
        <5>1. 2 \in 1..(k - 1) /\ "page1" \notin Percentiles
          BY <1>5, <4>2 DEF Percentiles
        <5> QED
          BY <1>1, <1>3, <2>2, <5>1, Before
      <4> QED
        BY <2>3, <3>1, <4>1, <4>2
    <3>3. Finished'
      BY <1>6, <1>11, <3>2, KindsDiffer DEF Finished
    <3> QED
      BY <1>2, <1>6, <1>7, <1>11, <2>6, <3>3, KindsDiffer DEF Request
  <2> QED
    BY <2>5, <2>6
<1>12. CASE req.kind = "export"
  <2>1. Q = <<"rows">>
    BY <1>12 DEF Queries, Lists
  <2>2. k = 1 /\ q = "rows" /\ Len(Tail(todo)) = 0
    BY <1>3, <1>4, <2>1
  <2>3. todo' = <<>>
    BY <1>4, <1>10, <1>12, <2>2, KindsDiffer, EmptySeq
  <2>4. Finished'
    BY <1>1, <1>6, <1>12, <2>2, KindsDiffer DEF Finished
  <2> QED
    BY <1>2, <1>6, <1>7, <1>12, <2>3, <2>4, KindsDiffer DEF Request
<1> QED
  BY <1>2, <1>9, <1>11, <1>12, KindsDiffer

LEMMA ErrorRequest ==
  ASSUME Request, TimelineError
  PROVE  Request' /\ req.kind \in Reports
<1>1. /\ todo # <<>> /\ Head(todo) = "timeline" /\ todo' = <<>> /\ answer' = answer
      /\ req' = [req EXCEPT !.status = "failed"]
  BY DEF TimelineError
<1>2. req.status = "asked" /\ req.kind \in Kinds /\ req.kind # "none"
  BY <1>1, KindsDiffer DEF Request
<1>3. req'.kind = req.kind /\ req'.filters = req.filters /\ req'.status = "failed" /\ IsRecord'
  BY <1>1, SameRequest DEF Request, IsRecord
<1>4. PICK k \in 1..Len(Queries(req.kind)) : AtQuery(k)
  BY <1>2 DEF Request
<1>5. Queries(req.kind)[k] = "timeline"
  BY <1>1, <1>2, <1>4, FromQuery
<1>6. req.kind \notin Lists
  <2> SUFFICES ASSUME req.kind \in Lists PROVE FALSE
    OBVIOUS
  <2>1. Queries(req.kind) = ListPages
    BY OtherQueries
  <2>2. k = 1 \/ k = 2 \/ k = 3 \/ k = 4 \/ k = 5 \/ k = 6
    BY <1>4, <2>1, OtherQueries
  <2> QED
    BY <1>5, <2>1, <2>2, OtherQueries
<1>7. req.kind # "export"
  <2> SUFFICES ASSUME req.kind = "export" PROVE FALSE
    OBVIOUS
  <2>1. Queries(req.kind) = <<"rows">>
    BY DEF Queries, Lists
  <2> QED
    BY <1>4, <1>5, <2>1
<1>8. req.kind \in Reports
  BY <1>2, <1>6, <1>7, KindsDiffer
<1> QED
  BY <1>1, <1>2, <1>3, <1>8 DEF Request

\* A step of the database leaves the request alone.
LEMMA RequestStep == Request /\ [Next]_vars => Request'
<1> SUFFICES ASSUME Request, [Next]_vars PROVE Request'
  OBVIOUS
<1>1. ASSUME UNCHANGED <<req, todo, answer>> PROVE Request'
  BY <1>1 DEF Request, IsRecord, AtQuery, Finished
<1>2. ASSUME NEW b \in Bodies, Post(b) PROVE Request'
  BY <1>1, <1>2 DEF Post
<1>3. CASE Cleanup
  BY <1>1, <1>3 DEF Cleanup
<1>4. CASE Tick
  BY <1>1, <1>4 DEF Tick
<1>5. CASE UNCHANGED vars
  BY <1>1, <1>5 DEF vars
<1> QED
  BY <1>2, <1>3, <1>4, <1>5, BeginRequest, QueryRequest, ErrorRequest DEF Next
-----------------------------------------------------------------------------
(***************************************************************************)
(* What has been answered.                                                 *)
(***************************************************************************)
LEMMA ChosenKept ==
  ASSUME req'.kind = req.kind, req'.project = req.project, req'.filters = req.filters
  PROVE  \A e : Chosen(e)' <=> Chosen(e)
BY DEF Chosen, Matches, PageMatches

BothEnds == req.filters.date_from.kind # "none" /\ req.filters.date_to.kind # "none"

\* The parts of a report, as far as they have been asked for.
Parts ==
  /\ \A q \in DOMAIN answer : answer[q] \ answer["total"] \subseteq posted
  /\ "recent_errors" \in DOMAIN answer =>
       "errors" \in DOMAIN answer /\ answer["recent_errors"] \ answer["errors"] \subseteq posted
  /\ "today" \in DOMAIN answer => \A e \in answer["today"] : e.at >= DayStart(now)
  /\ "week" \in DOMAIN answer => /\ "today" \in DOMAIN answer
                                 /\ \A e \in answer["week"] : e.at >= now - Week
                                 /\ answer["today"] \ answer["week"] \subseteq deleted
  /\ "month" \in DOMAIN answer =>
       "week" \in DOMAIN answer /\ answer["week"] \ answer["month"] \subseteq deleted
  /\ \A q \in DOMAIN answer \cap GroupNames : answer["total"] \ answer[q] \subseteq deleted
  /\ "errors" \in DOMAIN answer =>
       /\ \A e \in answer["errors"] : error_q(e)
       /\ \A e \in answer["total"] : error_q(e) => e \in answer["errors"] \/ e \in deleted
  /\ "successes" \in DOMAIN answer =>
       /\ \A e \in answer["successes"] : success_q(e)
       /\ \A e \in answer["total"] : success_q(e) => e \in answer["successes"] \/ e \in deleted
  /\ ("timeline" \in DOMAIN answer /\ BothEnds) =>
       answer["total"] \ answer["timeline"] \subseteq deleted

Answers ==
  /\ \A q \in DOMAIN answer : \A e \in answer[q] : e \in ever /\ Chosen(e)
  /\ \A q \in DOMAIN answer \cap Whole : \A e \in base \ deleted : Chosen(e) => e \in answer[q]
  /\ req.kind \in Reports => Parts

\* What is asked for has been preceded by what it is compared with.
LEMMA Order ==
  ASSUME Request, todo # <<>>, req.kind \in Reports
  PROVE  LET q == Head(todo)
             D == DOMAIN answer
         IN  /\ q = "total" => D = {}
             /\ q # "total" => "total" \in D
             /\ q = "errors" => "recent_errors" \notin D
             /\ q = "recent_errors" => "errors" \in D
             /\ q = "today" => "week" \notin D
             /\ q = "week" => "today" \in D /\ "month" \notin D
             /\ q = "month" => "week" \in D
<1> DEFINE Q == Queries(req.kind)
           q == Head(todo)
           D == DOMAIN answer
<1>1. Overviewed(Q)
  BY ReportQueries
<1>2. PICK k \in 1..Len(Q) : AtQuery(k)
  BY Asking
<1>3. q = Q[k]
  BY <1>2, Asking, FromQuery
<1> HIDE DEF q
<1>4. \A x \in D : \E i \in 1..(k - 1) : x = Q[i]
  BY <1>2 DEF AtQuery
<1>5. \A i \in 1..(k - 1) : Q[i] \in Percentiles \/ Q[i] \in D
  BY <1>2 DEF AtQuery
<1> HIDE DEF Q, D
<1>6. k \in Nat /\ k >= 1 /\ Len(Q) \in Nat /\ Len(Q) >= 11
  BY <1>1, <1>2 DEF Overviewed
<1>7. ASSUME NEW i \in 1..(k - 1) PROVE i \in 1..Len(Q) /\ i < k
  BY <1>6, <1>2
<1>8. q = "total" => D = {}
  <2>1. q = "total" => k = 1
    BY <1>1, <1>2, <1>3, ReportPositions
  <2> QED
    BY <1>4, <2>1
<1>9. q # "total" => "total" \in D
  <2>1. q # "total" => 1 \in 1..(k - 1)
    BY <1>1, <1>3, <1>6 DEF Overviewed
  <2> QED
    BY <1>1, <1>5, <2>1 DEF Overviewed, Percentiles
<1>10. ASSUME NEW i \in 1..(k - 1)
       PROVE  /\ Q[i] \in Further => i >= 11
              /\ Q[i] = "week" => i = 5
              /\ Q[i] = "month" => i = 6
  BY <1>1, <1>7, ReportPositions
<1>11. q = "errors" => "recent_errors" \notin D
  <2>1. q = "errors" => k = 2
    BY <1>1, <1>2, <1>3, ReportPositions
  <2>2. \A i \in 1..(k - 1) : Q[i] = "recent_errors" => i >= 11 /\ i < k
    BY <1>7, <1>10 DEF Further
  <2> QED
    BY <1>4, <2>1, <2>2
<1>12. q = "recent_errors" => "errors" \in D
  <2>1. q = "recent_errors" => k >= 11
    BY <1>1, <1>2, <1>3, ReportPositions DEF Further
  <2>2. q = "recent_errors" => 2 \in 1..(k - 1)
    BY <1>6, <2>1
  <2> QED
    BY <1>1, <1>5, <2>2 DEF Overviewed, Percentiles
<1>13. q = "today" => "week" \notin D
  <2>1. q = "today" => k = 4
    BY <1>1, <1>2, <1>3, ReportPositions
  <2> QED
    BY <1>4, <1>7, <1>10, <2>1
<1>14. q = "week" => "today" \in D /\ "month" \notin D
  <2>1. q = "week" => k = 5
    BY <1>1, <1>2, <1>3, ReportPositions
  <2>2. q = "week" => 4 \in 1..(k - 1)
    BY <2>1
  <2>3. q = "week" => "month" \notin D
    BY <1>4, <1>7, <1>10, <2>1
  <2> QED
    BY <1>1, <1>5, <2>2, <2>3 DEF Overviewed, Percentiles
<1>15. q = "month" => "week" \in D
  <2>1. q = "month" => k = 6
    BY <1>1, <1>2, <1>3, ReportPositions
  <2>2. q = "month" => 5 \in 1..(k - 1)
    BY <2>1
  <2> QED
    BY <1>1, <1>5, <2>2 DEF Overviewed, Percentiles
<1> QED
  BY <1>8, <1>9, <1>11, <1>12, <1>13, <1>14, <1>15 DEF D, q

\* Posts, deletions and time leave what was answered as good as it was.
LEMMA WorldAnswers ==
  ASSUME Answers, UNCHANGED <<req, todo, now, answer>>,
         base' = base, posted \subseteq posted', deleted \subseteq deleted'
  PROVE  Answers'
<1>1. \A e : Chosen(e)' <=> Chosen(e)
  BY ChosenKept
<1>2. ever \subseteq ever'
  BY DEF ever
<1>3. \A q \in DOMAIN answer' : \A e \in answer'[q] : e \in ever' /\ Chosen(e)'
  BY <1>1, <1>2 DEF Answers
<1>4. \A q \in DOMAIN answer' \cap Whole : \A e \in base' \ deleted' : Chosen(e)' => e \in answer'[q]
  BY <1>1 DEF Answers
<1>5. ASSUME Parts PROVE Parts'
  <2>1. /\ \A q \in DOMAIN answer' : answer'[q] \ answer'["total"] \subseteq posted'
        /\ "recent_errors" \in DOMAIN answer' =>
             "errors" \in DOMAIN answer' /\ answer'["recent_errors"] \ answer'["errors"] \subseteq posted'
    BY <1>5 DEF Parts
  <2>2. /\ "today" \in DOMAIN answer' => \A e \in answer'["today"] : e.at >= DayStart(now')
        /\ "week" \in DOMAIN answer' => /\ "today" \in DOMAIN answer'
                                        /\ \A e \in answer'["week"] : e.at >= now' - Week
                                        /\ answer'["today"] \ answer'["week"] \subseteq deleted'
        /\ "month" \in DOMAIN answer' =>
             "week" \in DOMAIN answer' /\ answer'["week"] \ answer'["month"] \subseteq deleted'
    BY <1>5 DEF Parts
  <2>3. \A q \in DOMAIN answer' \cap GroupNames : answer'["total"] \ answer'[q] \subseteq deleted'
    BY <1>5 DEF Parts
  <2>4. /\ "errors" \in DOMAIN answer' =>
             /\ \A e \in answer'["errors"] : error_q(e)
             /\ \A e \in answer'["total"] : error_q(e) => e \in answer'["errors"] \/ e \in deleted'
        /\ "successes" \in DOMAIN answer' =>
             /\ \A e \in answer'["successes"] : success_q(e)
             /\ \A e \in answer'["total"] : success_q(e) => e \in answer'["successes"] \/ e \in deleted'
    BY <1>5 DEF Parts
  <2>5. ("timeline" \in DOMAIN answer' /\ BothEnds') =>
          answer'["total"] \ answer'["timeline"] \subseteq deleted'
    BY <1>5 DEF Parts, BothEnds
  <2> QED
    BY <2>1, <2>2, <2>3, <2>4, <2>5 DEF Parts
<1> QED
  BY <1>3, <1>4, <1>5 DEF Answers

LEMMA DayStartRecent ==
  ASSUME NEW t \in Nat
  PROVE  DayStart(t) \in Int /\ DayStart(t) >= t - Week
<1>1. Day \in Nat \ {0} /\ Week \in Nat /\ Day <= Week
  BY DurationsAssumption
<1>2. ASSUME NEW d \in Nat \ {0} PROVE d * (t \div d) \in Int /\ d * (t \div d) >= t - d
  OBVIOUS
<1>3. DayStart(t) \in Int /\ DayStart(t) >= t - Day
  BY <1>1, <1>2 DEF DayStart
<1> QED
  BY <1>1, <1>3

LEMMA QueryAnswers ==
  ASSUME World, Request, Answers, Query
  PROVE  Answers'
<1> DEFINE q == Head(todo)
           S == Selection(events)
           A == Read(q, S)
           D == DOMAIN answer
<1>1. /\ todo # <<>> /\ answer' = [x \in D \cup {q} |-> IF x = q THEN A ELSE answer[x]]
      /\ UNCHANGED <<events, clock, posted, deleted, now, base>>
  BY DEF Query, database
<1>2. S = {e \in events : Chosen(e)}
  BY SelectionChooses
<1>3. /\ A \subseteq S
      /\ q \in Whole => A = S
      /\ q = "errors" => A = {e \in S : error_q(e)}
      /\ q = "successes" => A = {e \in S : success_q(e)}
      /\ q = "today" => A = {e \in S : e.at >= DayStart(now)}
      /\ q = "week" => A = {e \in S : e.at >= now - Week}
      /\ q = "month" => A = {e \in S : e.at >= now - Month}
      /\ q = "timeline" => A = {e \in S : InTimeline(e)}
      /\ q = "recent_errors" => \A e \in A : error_q(e)
  BY ReadsOf
<1>4. /\ DOMAIN answer' = D \cup {q} /\ answer'[q] = A
      /\ \A x \in D : x # q => answer'[x] = answer[x]
  BY <1>1
<1>5. /\ req'.kind = req.kind /\ req'.filters = req.filters /\ req'.project = req.project
      /\ \A e : Chosen(e)' <=> Chosen(e)
  BY SameRequest, ChosenKept DEF Request
<1>6. ever' = ever /\ events = ever \ deleted /\ base \subseteq ever /\ ever \ base \subseteq posted
  BY <1>1 DEF World, ever
<1>7. (req.kind \in Reports) =>
        /\ q = "total" => D = {}
        /\ q # "total" => "total" \in D
        /\ q = "errors" => "recent_errors" \notin D
        /\ q = "recent_errors" => "errors" \in D
        /\ q = "today" => "week" \notin D
        /\ q = "week" => "today" \in D /\ "month" \notin D
        /\ q = "month" => "week" \in D
  BY <1>1, Order
<1> HIDE DEF q, S, A
<1>8. \A x \in D : \A e \in answer[x] : e \in ever /\ Chosen(e)
  BY DEF Answers, D
<1>9. \A x \in D \cap Whole : \A e \in base \ deleted : Chosen(e) => e \in answer[x]
  BY DEF Answers, D
<1>10. \A e \in A : e \in ever /\ e \notin deleted /\ Chosen(e)
  BY <1>2, <1>3, <1>6
<1>11. \A x \in D : \A e \in answer[x] : e \in S \/ e \in deleted
  BY <1>2, <1>6, <1>8
<1> HIDE DEF D
<1>12. \A x \in DOMAIN answer' : \A e \in answer'[x] : e \in ever' /\ Chosen(e)'
  BY <1>4, <1>5, <1>6, <1>8, <1>10
<1>13. \A x \in DOMAIN answer' \cap Whole : \A e \in base' \ deleted' : Chosen(e)' => e \in answer'[x]
  <2>1. q \in Whole => \A e \in base \ deleted : Chosen(e) => e \in A
    BY <1>2, <1>3, <1>6
  <2> QED
    BY <1>1, <1>4, <1>5, <1>9, <2>1
<1>14. ASSUME req.kind \in Reports PROVE Parts'
  <2>0. Parts
    BY <1>14 DEF Answers
  <2>1. "total" \in D => answer'["total"] = answer["total"] /\ q # "total"
    BY <1>4, <1>7, <1>14
  <2>2. \A x \in DOMAIN answer' : answer'[x] \ answer'["total"] \subseteq posted'
    <3>1. CASE q = "total"
      BY <1>4, <1>7, <1>14, <3>1
    <3>2. CASE q # "total"
      <4>1. "total" \in D /\ "total" \in Whole
        BY <1>7, <1>14, <3>2 DEF Whole
      <4>2. A \ answer["total"] \subseteq posted
        BY <1>6, <1>9, <1>10, <4>1
      <4>3. \A x \in D : answer[x] \ answer["total"] \subseteq posted
        BY <2>0 DEF Parts, D
      <4> QED
        BY <1>1, <1>4, <2>1, <4>1, <4>2, <4>3
    <3> QED
      BY <3>1, <3>2
  <2>3. "recent_errors" \in DOMAIN answer' =>
          "errors" \in DOMAIN answer' /\ answer'["recent_errors"] \ answer'["errors"] \subseteq posted'
    <3>1. CASE q = "recent_errors"
      <4>1. "errors" \in D /\ "total" \in D /\ "total" \in Whole
        BY <1>7, <1>14, <3>1 DEF Whole
      <4>2. A \ answer["total"] \subseteq posted
        BY <1>6, <1>9, <1>10, <4>1
      <4>3. \A e \in answer["total"] : error_q(e) => e \in answer["errors"] \/ e \in deleted
        BY <2>0, <4>1 DEF Parts, D
      <4>4. A \ answer["errors"] \subseteq posted
        BY <1>3, <1>10, <3>1, <4>2, <4>3
      <4> QED
        BY <1>1, <1>4, <3>1, <4>1, <4>4
    <3>2. CASE q # "recent_errors"
      <4>1. "recent_errors" \in D =>
              "errors" \in D /\ q # "errors" /\ answer["recent_errors"] \ answer["errors"] \subseteq posted
        BY <2>0, <1>7, <1>14 DEF Parts, D
      <4> QED
        BY <1>1, <1>4, <3>2, <4>1
    <3> QED
      BY <3>1, <3>2
  <2>4. "today" \in DOMAIN answer' => \A e \in answer'["today"] : e.at >= DayStart(now')
    <3>1. "today" \in D => \A e \in answer["today"] : e.at >= DayStart(now)
      BY <2>0 DEF Parts, D
    <3> QED
      BY <1>1, <1>3, <1>4, <3>1
  <2>5. "week" \in DOMAIN answer' => /\ "today" \in DOMAIN answer'
                                     /\ \A e \in answer'["week"] : e.at >= now' - Week
                                     /\ answer'["today"] \ answer'["week"] \subseteq deleted'
    <3>1. CASE q = "week"
      <4>1. "today" \in D /\ \A e \in answer["today"] : e.at >= DayStart(now)
        BY <1>7, <1>14, <2>0, <3>1 DEF Parts, D
      <4>2. \A e \in answer["today"] : e.at >= now - Week
        <5>1. now \in Nat /\ \A e \in answer["today"] : e.at \in Int
          BY <1>8, <4>1 DEF World
        <5>2. DayStart(now) \in Int /\ DayStart(now) >= now - Week /\ Week \in Nat
          BY <5>1, DayStartRecent, DurationsAssumption
        <5> QED
          BY <4>1, <5>1, <5>2
      <4>3. answer["today"] \ A \subseteq deleted
        BY <1>3, <1>11, <3>1, <4>1, <4>2
      <4> QED
        BY <1>1, <1>3, <1>4, <3>1, <4>1, <4>3
    <3>2. CASE q # "week"
      <4>1. "week" \in D => /\ "today" \in D /\ q # "today"
                            /\ \A e \in answer["week"] : e.at >= now - Week
                            /\ answer["today"] \ answer["week"] \subseteq deleted
        BY <1>7, <1>14, <2>0 DEF Parts, D
      <4> QED
        BY <1>1, <1>4, <3>2, <4>1
    <3> QED
      BY <3>1, <3>2
  <2>6. "month" \in DOMAIN answer' =>
          "week" \in DOMAIN answer' /\ answer'["week"] \ answer'["month"] \subseteq deleted'
    <3>1. CASE q = "month"
      <4>1. "week" \in D /\ \A e \in answer["week"] : e.at >= now - Week
        BY <1>7, <1>14, <2>0, <3>1 DEF Parts, D
      <4>2. \A e \in answer["week"] : e.at >= now - Month
        <5>1. now \in Nat /\ \A e \in answer["week"] : e.at \in Int
          BY <1>8, <4>1 DEF World
        <5> QED
          BY <4>1, <5>1, DurationsAssumption
      <4>3. answer["week"] \ A \subseteq deleted
        BY <1>3, <1>11, <3>1, <4>1, <4>2
      <4> QED
        BY <1>1, <1>4, <3>1, <4>1, <4>3
    <3>2. CASE q # "month"
      <4>1. "month" \in D => /\ "week" \in D /\ q # "week"
                             /\ answer["week"] \ answer["month"] \subseteq deleted
        BY <1>7, <1>14, <2>0 DEF Parts, D
      <4> QED
        BY <1>1, <1>4, <3>2, <4>1
    <3> QED
      BY <3>1, <3>2
  <2>7. \A x \in DOMAIN answer' \cap GroupNames : answer'["total"] \ answer'[x] \subseteq deleted'
    <3>1. CASE q = "total"
      BY <1>4, <1>7, <1>14, <3>1
    <3>2. CASE q # "total"
      <4>1. "total" \in D
        BY <1>7, <1>14, <3>2
      <4>2. q \in GroupNames => answer["total"] \ A \subseteq deleted
        BY <1>3, <1>11, <4>1 DEF Whole
      <4>3. \A x \in D \cap GroupNames : answer["total"] \ answer[x] \subseteq deleted
        BY <2>0 DEF Parts, D
      <4> QED
        BY <1>1, <1>4, <3>2, <4>1, <4>2, <4>3
    <3> QED
      BY <3>1, <3>2
  <2>8. "errors" \in DOMAIN answer' =>
          /\ \A e \in answer'["errors"] : error_q(e)
          /\ \A e \in answer'["total"] : error_q(e) => e \in answer'["errors"] \/ e \in deleted'
    <3>1. CASE q = "errors"
      <4>1. "total" \in D /\ q # "total"
        BY <1>7, <1>14, <3>1
      <4>2. \A e \in answer["total"] : error_q(e) => e \in A \/ e \in deleted
        BY <1>3, <1>11, <3>1, <4>1
      <4> QED
        BY <1>1, <1>3, <1>4, <3>1, <4>1, <4>2
    <3>2. CASE q # "errors"
      <4>1. "errors" \in D =>
              /\ "total" \in D /\ q # "total"
              /\ \A e \in answer["errors"] : error_q(e)
              /\ \A e \in answer["total"] : error_q(e) => e \in answer["errors"] \/ e \in deleted
        BY <1>7, <1>14, <2>0 DEF Parts, D
      <4> QED
        BY <1>1, <1>4, <3>2, <4>1
    <3> QED
      BY <3>1, <3>2
  <2>9. "successes" \in DOMAIN answer' =>
          /\ \A e \in answer'["successes"] : success_q(e)
          /\ \A e \in answer'["total"] : success_q(e) => e \in answer'["successes"] \/ e \in deleted'
    <3>1. CASE q = "successes"
      <4>1. "total" \in D /\ q # "total"
        BY <1>7, <1>14, <3>1
      <4>2. \A e \in answer["total"] : success_q(e) => e \in A \/ e \in deleted
        BY <1>3, <1>11, <3>1, <4>1
      <4> QED
        BY <1>1, <1>3, <1>4, <3>1, <4>1, <4>2
    <3>2. CASE q # "successes"
      <4>1. "successes" \in D =>
              /\ "total" \in D /\ q # "total"
              /\ \A e \in answer["successes"] : success_q(e)
              /\ \A e \in answer["total"] : success_q(e) => e \in answer["successes"] \/ e \in deleted
        BY <1>7, <1>14, <2>0 DEF Parts, D
      <4> QED
        BY <1>1, <1>4, <3>2, <4>1
    <3> QED
      BY <3>1, <3>2
  <2>10. ("timeline" \in DOMAIN answer' /\ BothEnds') =>
           answer'["total"] \ answer'["timeline"] \subseteq deleted'
    <3>0. BothEnds' <=> BothEnds
      BY <1>5 DEF BothEnds
    <3>1. CASE q = "timeline"
      <4>1. "total" \in D /\ q # "total"
        BY <1>7, <1>14, <3>1
      <4>2. ASSUME BothEnds, NEW e \in answer["total"] PROVE InTimeline(e)
        <5>1. Chosen(e)
          BY <1>8, <4>1
        <5>2. NotBefore(e, req.filters.date_from) /\ NotAfter(e, req.filters.date_to)
          BY <1>14, <5>1 DEF Chosen, Matches, Reports
        <5>3. TimelineStart = Midnight(req.filters.date_from) /\ TimelineEnd = req.filters.date_to
          BY <4>2 DEF BothEnds, TimelineStart, TimelineEnd
        <5> QED
          BY <4>2, <5>2, <5>3 DEF InTimeline, NotBefore, BothEnds
      <4>3. BothEnds => answer["total"] \ A \subseteq deleted
        BY <1>3, <1>11, <3>1, <4>1, <4>2
      <4> QED
        BY <1>1, <1>4, <3>0, <3>1, <4>1, <4>3
    <3>2. CASE q # "timeline"
      <4>1. ("timeline" \in D /\ BothEnds) =>
              "total" \in D /\ q # "total" /\ answer["total"] \ answer["timeline"] \subseteq deleted
        BY <1>7, <1>14, <2>0 DEF Parts, D
      <4> QED
        BY <1>1, <1>4, <3>0, <3>2, <4>1
    <3> QED
      BY <3>1, <3>2
  <2> QED
    BY <2>2, <2>3, <2>4, <2>5, <2>6, <2>7, <2>8, <2>9, <2>10 DEF Parts
<1> QED
  BY <1>5, <1>12, <1>13, <1>14 DEF Answers
-----------------------------------------------------------------------------
(***************************************************************************)
(* The invariant and the theorems.                                         *)
(***************************************************************************)
\* A request that failed found its range upside down.
Failed == WholeRangesAreAnswered

IInv == World /\ Request /\ Answers /\ Failed

LEMMA InitIInv == Init => IInv
<1> SUFFICES ASSUME Init PROVE IInv
  OBVIOUS
<1>1. Answers
  BY DEF Init, Answers, NoAnswer, NoRequest, Reports
<1>2. Failed
  BY DEF Init, Failed, WholeRangesAreAnswered, NoRequest
<1> QED
  BY <1>1, <1>2, InitWorld, InitRequest DEF IInv

\* With two ends, or none, timeline() finds its range in order.
LEMMA ErrorFails ==
  ASSUME World, Request, TimelineError
  PROVE  WholeRangesAreAnswered'
<1>1. req'.kind = req.kind /\ req'.filters = req.filters /\ req'.bound = req.bound
  BY SameRequest DEF Request
<1>2. /\ TimelineRaises /\ req.status = "asked"
      /\ req.kind \in Reports /\ req.kind # "none"
  BY ErrorRequest, KindsDiffer DEF TimelineError, Request
<1> DEFINE from == req.filters.date_from
           to   == req.filters.date_to
<1>3. from \in Bounds /\ to \in Bounds /\ RangeInOrder(req.filters)
  BY <1>2 DEF Request
<1> SUFFICES ASSUME (from.kind = "none") <=> (to.kind = "none"),
                    ~(req.kind \in {"errors", "slow"} /\ req.bound)
             PROVE  FALSE
  BY <1>1 DEF WholeRangesAreAnswered
<1>4. TimelineStart > Midnight(TimelineEnd)
  BY <1>2 DEF TimelineRaises
<1>5. CASE from.kind = "none"
  <2>1. TimelineNow \in Nat /\ Week \in Nat
    BY DurationsAssumption DEF World, TimelineNow
  <2>2. TimelineStart = TimelineNow - Week /\ Midnight(TimelineEnd) = TimelineNow
    BY <1>5 DEF TimelineStart, TimelineEnd, Midnight
  <2> QED
    BY <1>4, <2>1, <2>2
<1>6. CASE from.kind # "none"
  <2>1. TimelineStart = Midnight(from) /\ TimelineEnd = to
    BY <1>6 DEF TimelineStart, TimelineEnd
  <2>2. Midnight(from) <= Midnight(to)
    BY <1>3, <1>6 DEF RangeInOrder
  <2>3. Midnight(from) \in Nat /\ Midnight(to) \in Nat
    <3>1. Day \in Nat /\ from.value \in Nat /\ to.value \in Nat
      BY <1>3, DurationsAssumption DEF Bounds
    <3>2. ASSUME NEW d \in Nat, NEW v \in Nat PROVE d * v \in Nat
      OBVIOUS
    <3> QED
      BY <3>1, <3>2 DEF Midnight
  <2> QED
    BY <1>4, <2>1, <2>2, <2>3
<1> QED
  BY <1>5, <1>6

LEMMA StepFailed ==
  ASSUME World, Request, Failed, [Next]_vars
  PROVE  Failed'
<1>1. ASSUME UNCHANGED req PROVE Failed'
  BY <1>1 DEF Failed, WholeRangesAreAnswered
<1>2. ASSUME NEW b \in Bodies, Post(b) PROVE Failed'
  BY <1>1, <1>2 DEF Post
<1>3. CASE Cleanup
  BY <1>1, <1>3 DEF Cleanup
<1>4. CASE Tick
  BY <1>1, <1>4 DEF Tick
<1>5. ASSUME NEW r \in Requests, Begin(r) PROVE Failed'
  <2>1. req'.status # "failed"
    BY <1>5 DEF Begin
  <2> QED
    BY <2>1 DEF Failed, WholeRangesAreAnswered
<1>6. CASE Query
  <2>1. req.status = "asked"
    BY <1>6, Asking DEF Query
  <2>2. req' = req \/ req' = [req EXCEPT !.status = "answered"]
    BY <1>6 DEF Query
  <2>3. req'.status # "failed"
    BY <2>1, <2>2 DEF Request, IsRecord
  <2> QED
    BY <2>3 DEF Failed, WholeRangesAreAnswered
<1>7. CASE TimelineError
  BY <1>7, ErrorFails DEF Failed
<1>8. CASE UNCHANGED vars
  BY <1>1, <1>8 DEF vars
<1> QED
  BY <1>2, <1>3, <1>4, <1>5, <1>6, <1>7, <1>8 DEF Next

LEMMA BeginAnswers ==
  ASSUME Request, NEW r \in Requests, Begin(r)
  PROVE  Answers'
<1>1. DOMAIN answer' = {}
  BY DEF Begin, Request, NoAnswer
<1> QED
  BY <1>1 DEF Answers, Parts

LEMMA ErrorAnswers ==
  ASSUME Request, Answers, TimelineError
  PROVE  Answers'
<1>1. /\ req'.kind = req.kind /\ req'.filters = req.filters /\ req'.project = req.project
      /\ \A e : Chosen(e)' <=> Chosen(e)
  BY SameRequest, ChosenKept DEF Request
<1>2. UNCHANGED <<posted, deleted, now, answer, base>> /\ ever' = ever
  BY DEF TimelineError, database, ever
<1>3. ASSUME Parts PROVE Parts'
  BY <1>1, <1>2, <1>3 DEF Parts, BothEnds
<1> QED
  BY <1>1, <1>2, <1>3 DEF Answers

LEMMA StepIInv == IInv /\ [Next]_vars => IInv'
<1> SUFFICES ASSUME IInv, [Next]_vars PROVE IInv'
  OBVIOUS
<1>0. World /\ Request /\ Answers /\ Failed
  BY DEF IInv
<1>1. Request' /\ Failed'
  BY <1>0, RequestStep, StepFailed
<1>2. ASSUME NEW b \in Bodies, Post(b) PROVE World' /\ Answers'
  <2>1. UNCHANGED <<req, todo, now, answer>>
    BY <1>2 DEF Post
  <2> QED
    BY <1>0, <1>2, <2>1, PostWorld, WorldAnswers
<1>3. CASE Cleanup
  <2>1. UNCHANGED <<req, todo, now, answer>>
    BY <1>3 DEF Cleanup
  <2> QED
    BY <1>0, <1>1, <1>3, <2>1, CleanupWorld, WorldAnswers DEF IInv
<1>4. CASE Tick
  <2>1. UNCHANGED <<req, todo, now, answer>>
    BY <1>4 DEF Tick
  <2> QED
    BY <1>0, <1>1, <1>4, <2>1, TickWorld, WorldAnswers DEF IInv
<1>5. ASSUME NEW r \in Requests, Begin(r) PROVE World' /\ Answers'
  BY <1>0, <1>5, BeginWorld, BeginAnswers
<1>6. CASE Query
  <2>1. World'
    BY <1>0, <1>6 DEF Query, database, World, ever
  <2> QED
    BY <1>0, <1>1, <1>6, <2>1, QueryAnswers DEF IInv
<1>7. CASE TimelineError
  <2>1. World'
    BY <1>0, <1>7 DEF TimelineError, database, World, ever
  <2> QED
    BY <1>0, <1>1, <1>7, <2>1, ErrorAnswers DEF IInv
<1>8. CASE UNCHANGED vars
  <2>1. World'
    BY <1>0, <1>8 DEF vars, World, ever
  <2>2. Answers'
    BY <1>0, <1>8, WorldAnswers DEF vars
  <2> QED
    BY <1>1, <2>1, <2>2 DEF IInv
<1> QED
  BY <1>1, <1>2, <1>3, <1>4, <1>5, <1>6, <1>7, <1>8 DEF Next, IInv

LEMMA InvariantHolds == Spec => []IInv
BY InitIInv, StepIInv, PTL DEF Spec

\* Every state of the database and of a request is well typed, and a response
\* is only ever made of events that were stored.
THEOREM ReportsTyped == Spec => []TypeOK
<1>1. IInv => TypeOK
  <2> SUFFICES ASSUME IInv PROVE TypeOK
    OBVIOUS
  <2>1. /\ events = ever \ deleted
        /\ clock \in Nat /\ now \in 0..clock /\ changes \in 0..MaxChanges
        /\ \A e \in events : e.at <= clock
    BY DEF IInv, World
  <2>2. req = NoRequest \/
          /\ req.kind \in Kinds
          /\ req.status \in {"asked", "answered", "invalid", "refused", "failed"}
    BY DEF IInv, Request
  <2>3. DOMAIN answer \subseteq QueryNames /\ ((req.status = "answered") => (todo = <<>>))
    BY DEF IInv, Request
  <2>4. \A q \in DOMAIN answer : answer[q] \subseteq ever
    BY DEF IInv, Answers
  <2> QED
    BY <2>1, <2>2, <2>3, <2>4 DEF TypeOK
<1> QED
  BY <1>1, InvariantHolds, PTL

\* A request whose range has two ends, or none, is answered: what the forms and the
\* serializers check of dates is what timeline() checks of instants.
THEOREM RangesAnswered == Spec => []WholeRangesAreAnswered
<1>1. IInv => WholeRangesAreAnswered
  BY DEF IInv, Failed
<1> QED
  BY <1>1, InvariantHolds, PTL

\* The parts of a report agree: what separate queries counted differs only by what
\* was posted or expired between them, for any events, filters and interleavings.
THEOREM PartsAgree == Spec => []ReportAgrees
<1>1. IInv => ReportAgrees
  <2> SUFFICES ASSUME IInv, Answered, req.kind \in Reports PROVE ReportAgrees
    BY DEF ReportAgrees
  <2> DEFINE D == DOMAIN answer
  <2>1. World /\ Parts /\ \A q \in D : \A e \in answer[q] : e \in ever
    BY DEF IInv, Answers
  <2>2. {"total", "errors", "successes", "today", "week", "month", "values"} \subseteq D
    BY DEF IInv, Request, Answered, Finished
  <2>3. \A q \in D : answer[q] \ answer["total"] \subseteq posted
    BY <2>1 DEF Parts
  <2>4. "recent_errors" \in D => answer["recent_errors"] \ answer["errors"] \subseteq posted
    BY <2>1 DEF Parts
  <2>5. /\ answer["today"] \ answer["week"] \subseteq deleted
        /\ answer["week"] \ answer["month"] \subseteq deleted
    BY <2>1, <2>2 DEF Parts
  <2>6. \A q \in D \cap GroupNames : answer["total"] \ answer[q] \subseteq deleted
    BY <2>1 DEF Parts
  <2>7. /\ \A e \in answer["errors"] : error_q(e)
        /\ \A e \in answer["successes"] : success_q(e)
        /\ \A e \in answer["total"] : error_q(e) => e \in answer["errors"] \/ e \in deleted
        /\ \A e \in answer["total"] : success_q(e) => e \in answer["successes"] \/ e \in deleted
    BY <2>1, <2>2 DEF Parts
  <2>8. ("timeline" \in D /\ BothEnds) => answer["total"] \ answer["timeline"] \subseteq deleted
    BY <2>1 DEF Parts
  <2>9. \A q \in {"total", "errors"} : \A e \in answer[q] : e.status \in Nat
    BY <2>1, <2>2 DEF World
  <2>10. answer["errors"] \cap answer["successes"] = {}
    BY <2>7, <2>9 DEF error_q, success_q
  <2>11. {e \in answer["total"] : e.status >= 200}
           \subseteq answer["errors"] \cup answer["successes"] \cup deleted
    <3>1. \A e \in answer["total"] : e.status >= 200 => error_q(e) \/ success_q(e)
      BY <2>9 DEF error_q, success_q
    <3> QED
      BY <2>7, <3>1
  <2> QED
    BY <2>3, <2>4, <2>5, <2>6, <2>8, <2>10, <2>11 DEF ReportAgrees, Asked, BothEnds
<1> QED
  BY <1>1, InvariantHolds, PTL

LEMMA DateBounds ==
  ASSUME NEW b \in Bounds, b.kind = "date", NEW a \in Nat
  PROVE  /\ a >= Midnight(b) <=> (a \div Day) >= b.value
         /\ a < Midnight(b) + Day <=> (a \div Day) <= b.value
<1>1. ASSUME NEW d \in Nat \ {0}, NEW v \in Nat
      PROVE  /\ a >= d * v <=> (a \div d) >= v
             /\ a < d * v + d <=> (a \div d) <= v
  <2>1. /\ (a \div d) \in Nat /\ d * (a \div d) <= a /\ a < d * (a \div d) + d
    OBVIOUS
  <2>2. \A x, y \in Nat : x <= y => d * x <= d * y
    OBVIOUS
  <2>3. \A x, y \in Nat : x < y => d * x + d <= d * y
    <3> SUFFICES ASSUME NEW x \in Nat, NEW y \in Nat, x < y PROVE d * x + d <= d * y
      OBVIOUS
    <3>1. d * (x + 1) <= d * y /\ d * (x + 1) = d * x + d
      BY <2>2
    <3> QED
      BY <3>1
  <2>4. PICK q \in Nat : q = a \div d
    BY <2>1
  <2>5. d * q <= a /\ a < d * q + d
    BY <2>1, <2>4
  <2>6. q >= v => a >= d * v
    BY <2>2, <2>5
  <2>7. q < v => a < d * v
    BY <2>3, <2>5
  <2>8. q <= v => a < d * v + d
    BY <2>2, <2>5
  <2>9. q > v => a >= d * v + d
    BY <2>3, <2>5
  <2>10. d * v \in Nat
    OBVIOUS
  <2> QED
    BY <2>4, <2>6, <2>7, <2>8, <2>9, <2>10
<1>2. Day \in Nat \ {0} /\ b.value \in Nat
  BY DurationsAssumption DEF Bounds
<1> QED
  BY <1>1, <1>2 DEF Midnight

\* A range of dates means whole days, both inclusive, and the list of the API, which
\* compares instants, and the list and the export of the pages, which compare dates,
\* read the same events for it.
THEOREM WholeDays == Spec => []DatesAreWholeDays
<1>1. IInv => DatesAreWholeDays
  <2> DEFINE from == req.filters.date_from
             to   == req.filters.date_to
             row  == IF req.kind = "export" THEN "rows" ELSE "page1"
             Days(e) ==
               /\ MatchesFields(e, req.filters)
               /\ from.kind = "date" => (e.at \div Day) >= from.value
               /\ to.kind = "date" => (e.at \div Day) <= to.value
  <2> SUFFICES ASSUME IInv, Answered, req.kind \in Lists \cup {"export"}, ~req.filters.slow,
                      "time" \notin {from.kind, to.kind},
                      NEW e \in owner_events(base \ deleted)
               PROVE  e \in answer[row] <=> Days(e)
    BY DEF DatesAreWholeDays
  <2>1. World /\ Request /\ Answers
    BY DEF IInv
  <2>2. from \in Bounds /\ to \in Bounds
    BY <2>1, KindsDiffer DEF Request
  <2>3. row \in DOMAIN answer /\ row \in Whole
    BY <2>1, KindsDiffer DEF Request, Finished, Answered, Whole, Place
  <2>4. /\ e \in base \ deleted /\ e \in ever
        /\ e.project \in Owned /\ (req.project = NoProject \/ e.project = req.project)
    BY DEF owner_events, ever
  <2>5. e \in answer[row] <=> Chosen(e)
    BY <2>1, <2>3, <2>4 DEF Answers
  <2>6. e.at \in Nat
    BY <2>1, <2>4 DEF World
  <2>7. from.kind \in {"none", "date"} /\ to.kind \in {"none", "date"}
    BY <2>2 DEF Bounds
  <2>8. CASE req.kind \in {"page_list", "export"}
    <3>1. Chosen(e) <=> PageMatches(e)
      BY <2>4, <2>8 DEF Chosen
    <3>2. PageMatches(e) <=> Days(e)
      BY <2>7 DEF PageMatches
    <3> QED
      BY <2>5, <3>1, <3>2
  <2>9. CASE req.kind = "api_list"
    <3>1. Chosen(e) <=> Matches(e)
      BY <2>4, <2>9 DEF Chosen
    <3>2. NotBefore(e, from) <=> (from.kind = "date" => (e.at \div Day) >= from.value)
      BY <2>2, <2>6, <2>7, DateBounds DEF NotBefore
    <3>3. NotAfter(e, to) <=> (to.kind = "date" => (e.at \div Day) <= to.value)
      BY <2>2, <2>6, <2>7, DateBounds DEF NotAfter
    <3>4. Matches(e) <=> Days(e)
      BY <3>2, <3>3 DEF Matches
    <3> QED
      BY <2>5, <3>1, <3>4
  <2> QED
    BY <2>8, <2>9 DEF Lists
<1> QED
  BY <1>1, InvariantHolds, PTL
-----------------------------------------------------------------------------
(***************************************************************************)
(* What response_percentile computes: the k-th of finitely many response   *)
(* times exists and is one, and the percentile lies between neighbours.    *)
(***************************************************************************)
\* Of finitely many events some has the longest response time.
LEMMA Longest ==
  ASSUME NEW S, IsFiniteSet(S), S # {}, \A e \in S : e.response \in Int
  PROVE  \E x \in S : \A e \in S : e.response <= x.response
<1> DEFINE From(x) == {e \in S : e.response >= x.response}
           F == {From(x) : x \in S}
<1>1. IsWellFoundedOn(StrictSubsetOrdering(S), FiniteSubsetsOf(S))
  BY FS_StrictSubsetOrderingWellFounded
<1>2. FiniteSubsetsOf(S) = SUBSET S /\ F \subseteq SUBSET S /\ F # {}
  <2>1. FiniteSubsetsOf(S) = SUBSET S
    BY FS_FiniteSubsetsOfFinite
  <2>2. F \subseteq SUBSET S
    OBVIOUS
  <2>3. F # {}
    OBVIOUS
  <2> QED
    BY <2>1, <2>2, <2>3
<1>3. PICK U \in F : \A V \in F : ~(<<V, U>> \in StrictSubsetOrdering(S))
  <2> HIDE DEF F
  <2> QED
    BY <1>1, <1>2, WFMin
<1>4. PICK x \in S : U = From(x)
  OBVIOUS
<1>5. ASSUME NEW e \in S, ~(e.response <= x.response) PROVE FALSE
  <2>1. From(e) \subseteq U /\ x \in U /\ x \notin From(e)
    BY <1>4, <1>5
  <2>2. <<From(e), U>> \in StrictSubsetOrdering(S)
    BY <1>4, <2>1 DEF StrictSubsetOrdering
  <2> QED
    BY <1>3, <2>2
<1> QED
  BY <1>5

AtMost(S, r) == {e \in S : e.response <= r}

Below(S, r) == {e \in S : e.response < r}

\* Whether r is the k-th response time of S in ascending order, from 0.
IsKth(S, k, r) ==
  /\ \E e \in S : r = e.response
  /\ Cardinality(Below(S, r)) <= k /\ k < Cardinality(AtMost(S, r))

LEMMA CountsAreFinite ==
  ASSUME NEW S, IsFiniteSet(S), NEW r
  PROVE  /\ IsFiniteSet(AtMost(S, r)) /\ IsFiniteSet(Below(S, r))
         /\ Cardinality(AtMost(S, r)) \in Nat /\ Cardinality(Below(S, r)) \in Nat
<1>1. AtMost(S, r) \in SUBSET S /\ Below(S, r) \in SUBSET S
  BY DEF AtMost, Below
<1>2. IsFiniteSet(AtMost(S, r)) /\ IsFiniteSet(Below(S, r))
  BY <1>1, FS_Subset
<1> QED
  BY <1>2, FS_CardinalityType

\* There is one for every k below the number of events ...
LEMMA KthExists ==
  ASSUME NEW S, IsFiniteSet(S), \A e \in S : e.response \in Int,
         NEW k \in Nat, k < Cardinality(S)
  PROVE  \E r : IsKth(S, k, r)
<1> DEFINE F == {AtMost(S, x.response) : x \in {y \in S : k < Cardinality(AtMost(S, y.response))}}
<1>1. IsWellFoundedOn(StrictSubsetOrdering(S), FiniteSubsetsOf(S))
  BY FS_StrictSubsetOrderingWellFounded
<1>2. FiniteSubsetsOf(S) = SUBSET S /\ F \subseteq SUBSET S
  BY FS_FiniteSubsetsOfFinite DEF AtMost
<1>3. F # {}
  <2>1. S # {} /\ Cardinality(S) \in Nat
    BY FS_EmptySet, FS_CardinalityType
  <2>2. PICK x \in S : \A e \in S : e.response <= x.response
    BY <2>1, Longest
  <2>3. AtMost(S, x.response) = S
    BY <2>2 DEF AtMost
  <2> QED
    BY <2>3
<1>4. PICK U \in F : \A V \in F : ~(<<V, U>> \in StrictSubsetOrdering(S))
  <2> HIDE DEF F
  <2> QED
    BY <1>1, <1>2, <1>3, WFMin
<1>5. PICK x \in S : U = AtMost(S, x.response) /\ k < Cardinality(AtMost(S, x.response))
  OBVIOUS
<1>6. Cardinality(Below(S, x.response)) <= k
  <2> SUFFICES ASSUME k < Cardinality(Below(S, x.response)) PROVE FALSE
    BY CountsAreFinite
  <2> DEFINE B == Below(S, x.response)
  <2>1. IsFiniteSet(B) /\ B # {} /\ \A e \in B : e.response \in Int
    <3>1. \A e \in B : e.response \in Int
      BY DEF Below
    <3>2. IsFiniteSet(B)
      BY CountsAreFinite
    <3>3. Cardinality(B) # 0
      BY CountsAreFinite
    <3> HIDE DEF B
    <3> QED
      BY <3>1, <3>2, <3>3, FS_EmptySet
  <2>2. PICK y \in B : \A e \in B : e.response <= y.response
    <3> HIDE DEF B
    <3> QED
      BY <2>1, Longest
  <2>3. y \in S /\ AtMost(S, y.response) = B
    BY <2>2 DEF AtMost, Below
  <2>4. B \in F /\ B \subseteq U /\ x \in U /\ x \notin B
    <3>1. B \in F
      BY <2>3
    <3>2. B \subseteq U /\ x \in U /\ x \notin B
      BY <1>5 DEF AtMost, Below
    <3> QED
      BY <3>1, <3>2
  <2>5. <<B, U>> \in StrictSubsetOrdering(S)
    BY <1>2, <2>4 DEF StrictSubsetOrdering
  <2> QED
    BY <1>4, <2>4, <2>5
<1> QED
  BY <1>5, <1>6 DEF IsKth

\* ... and one only; a later one is not shorter.
LEMMA KthOrdered ==
  ASSUME NEW S, IsFiniteSet(S), \A e \in S : e.response \in Int,
         NEW j \in Nat, NEW k \in Nat, j <= k,
         NEW q, NEW r, IsKth(S, j, q), IsKth(S, k, r)
  PROVE  q <= r
<1>1. q \in Int /\ r \in Int
  BY DEF IsKth
<1> SUFFICES ASSUME r < q PROVE FALSE
  BY <1>1
<1>2. AtMost(S, r) \in SUBSET Below(S, q)
  BY <1>1 DEF AtMost, Below
<1>3. Cardinality(AtMost(S, r)) <= Cardinality(Below(S, q))
  BY <1>2, CountsAreFinite, FS_Subset
<1> QED
  BY <1>3, CountsAreFinite DEF IsKth

LEMMA KthIs ==
  ASSUME NEW S, IsFiniteSet(S), \A e \in S : e.response \in Int,
         NEW k \in Nat, k < Cardinality(S)
  PROVE  IsKth(S, k, Kth(S, k)) /\ Kth(S, k) \in Int
<1>1. Kth(S, k) = CHOOSE r \in {e.response : e \in S} : IsKth(S, k, r)
  <2>1. ASSUME NEW r \in {e.response : e \in S}
        PROVE  IsKth(S, k, r) <=>
                 /\ Cardinality({e \in S : e.response < r}) <= k
                 /\ k < Cardinality({e \in S : e.response <= r})
    BY DEF IsKth, Below, AtMost
  <2> QED
    BY <2>1 DEF Kth
<1>2. PICK r : IsKth(S, k, r)
  BY KthExists
<1>3. r \in {e.response : e \in S}
  BY <1>2 DEF IsKth
<1>4. IsKth(S, k, Kth(S, k))
  BY <1>1, <1>2, <1>3
<1> QED
  BY <1>4 DEF IsKth

\* Between two neighbours, at weight hundredths of the way.
Between(a, b, weight) == 100 * a + (b - a) * weight

LEMMA BetweenBounds ==
  ASSUME NEW a \in Int, NEW b \in Int, a <= b, NEW v \in 0..100, NEW w \in 0..100, v <= w
  PROVE  /\ Between(a, b, w) \in Int
         /\ 100 * a <= Between(a, b, w) /\ Between(a, b, w) <= 100 * b
         /\ Between(a, b, v) <= Between(a, b, w)
<1>1. PICK d \in Nat : d = b - a
  OBVIOUS
<1>2. \A x, y \in Nat : x <= y => d * x <= d * y
  OBVIOUS
<1>3. v \in Nat /\ w \in Nat /\ 0 <= v /\ w <= 100
  OBVIOUS
<1>4. d * 0 <= d * w /\ d * v <= d * w /\ d * w <= d * 100
  BY <1>2, <1>3
<1>5. d * v \in Int /\ d * w \in Int
  BY <1>3
<1>6. Between(a, b, w) = 100 * a + d * w /\ Between(a, b, v) = 100 * a + d * v
  BY <1>1 DEF Between
<1>7. d * 0 = 0 /\ d * 100 = 100 * b - 100 * a
  BY <1>1
<1>8. \A x \in Int, y \in Int : /\ 0 <= x => 100 * a <= 100 * a + x
                                /\ x <= 100 * b - 100 * a => 100 * a + x <= 100 * b
                                /\ x <= y => 100 * a + x <= 100 * a + y
  OBVIOUS
<1> QED
  BY <1>4, <1>5, <1>6, <1>7, <1>8

\* The neighbours of a percentile p of n + 1 values, and its weight.
Lower(n, p) == (n * p) \div 100

Upper(n, p) == IF Lower(n, p) < n THEN Lower(n, p) + 1 ELSE n

Weight(n, p) == (n * p) % 100

LEMMA Neighbours ==
  ASSUME NEW n \in Nat, NEW p \in 0..100
  PROVE  /\ Lower(n, p) \in 0..n /\ Upper(n, p) \in 0..n
         /\ Lower(n, p) <= Upper(n, p) /\ Weight(n, p) \in 0..99
<1>1. \A x, y \in Nat : x <= y => n * x <= n * y
  OBVIOUS
<1>2. n * p \in Nat /\ n * p <= n * 100
  BY <1>1
<1>3. ASSUME NEW x \in Nat, x <= n * 100
      PROVE  (x \div 100) \in 0..n /\ (x % 100) \in 0..99
  BY <1>3
<1>4. Lower(n, p) \in 0..n /\ Weight(n, p) \in 0..99
  BY <1>2, <1>3 DEF Lower, Weight
<1> QED
  BY <1>4 DEF Upper

LEMMA NeighboursGrow ==
  ASSUME NEW n \in Nat, NEW p \in 0..100, NEW q \in 0..100, p <= q
  PROVE  \/ Lower(n, p) = Lower(n, q) /\ Upper(n, p) = Upper(n, q) /\ Weight(n, p) <= Weight(n, q)
         \/ Upper(n, p) <= Lower(n, q)
<1>1. \A x, y \in Nat : x <= y => n * x <= n * y
  OBVIOUS
<1>2. n * p \in Nat /\ n * q \in Nat /\ n * p <= n * q
  BY <1>1
<1>3. ASSUME NEW x \in Nat, NEW y \in Nat, x <= y
      PROVE  \/ (x \div 100) = (y \div 100) /\ (x % 100) <= (y % 100)
             \/ (x \div 100) < (y \div 100)
  BY <1>3
<1>4. \/ Lower(n, p) = Lower(n, q) /\ Weight(n, p) <= Weight(n, q)
      \/ Lower(n, p) < Lower(n, q)
  BY <1>2, <1>3 DEF Lower, Weight
<1>5. CASE Lower(n, p) = Lower(n, q) /\ Weight(n, p) <= Weight(n, q)
  BY <1>5 DEF Upper
<1>6. CASE Lower(n, p) < Lower(n, q)
  <2>0. Lower(n, p) \in 0..n /\ Lower(n, q) \in 0..n
    BY Neighbours
  <2>1. Lower(n, p) \in Int /\ Lower(n, q) \in Int /\ Lower(n, q) <= n
    BY <2>0
  <2> QED
    BY <1>6, <2>1 DEF Upper
<1> QED
  BY <1>4, <1>5, <1>6

\* What response_percentile computes, of events that all have a response time.
Timed(S) == IsFiniteSet(S) /\ S # {} /\ \A e \in S : e.response \in Nat

LEMMA PercentileIs ==
  ASSUME NEW S, Timed(S), NEW p \in 0..100, NEW n \in Nat, n = Cardinality(S) - 1
  PROVE  /\ response_percentile(S, p)
              = Between(Kth(S, Lower(n, p)), Kth(S, Upper(n, p)), Weight(n, p))
         /\ Kth(S, Lower(n, p)) \in Int /\ Kth(S, Upper(n, p)) \in Int
         /\ Kth(S, Lower(n, p)) <= Kth(S, Upper(n, p))
<1>1. Values(S) = S
  BY DEF Values, Timed, NoResponse
<1>2. Cardinality(S) - 1 = n /\ Values(S) # {}
  BY <1>1 DEF Timed
<1>3. Cardinality(S) \in Nat /\ \A k \in 0..n : k \in Nat /\ k < Cardinality(S)
  <2>1. Cardinality(S) \in Nat
    BY FS_CardinalityType DEF Timed
  <2> QED
    BY <2>1
<1>4. IsFiniteSet(S) /\ \A e \in S : e.response \in Int
  BY DEF Timed
<1>5. /\ Lower(n, p) \in 0..n /\ Upper(n, p) \in 0..n /\ Lower(n, p) <= Upper(n, p)
  BY Neighbours
<1>6. /\ IsKth(S, Lower(n, p), Kth(S, Lower(n, p))) /\ IsKth(S, Upper(n, p), Kth(S, Upper(n, p)))
      /\ Kth(S, Lower(n, p)) \in Int /\ Kth(S, Upper(n, p)) \in Int
  BY <1>3, <1>4, <1>5, KthIs
<1>7. Kth(S, Lower(n, p)) <= Kth(S, Upper(n, p))
  BY <1>3, <1>4, <1>5, <1>6, KthOrdered
<1>8. response_percentile(S, p)
        = 100 * Kth(S, Lower(n, p))
            + (Kth(S, Upper(n, p)) - Kth(S, Lower(n, p))) * Weight(n, p)
  BY <1>1, <1>2 DEF response_percentile, Lower, Upper, Weight
<1> QED
  BY <1>6, <1>7, <1>8 DEF Between

\* A percentile lies between the shortest and the longest response time ...
THEOREM PercentileInRange ==
  ASSUME NEW S, Timed(S), NEW p \in 0..100
  PROVE  /\ response_percentile(S, p) \in Int
         /\ \E x \in S : 100 * x.response <= response_percentile(S, p)
         /\ \E x \in S : response_percentile(S, p) <= 100 * x.response
<1>1. PICK n \in Nat : n = Cardinality(S) - 1
  <2>1. Cardinality(S) \in Nat /\ Cardinality(S) # 0
    BY FS_CardinalityType, FS_EmptySet DEF Timed
  <2> QED
    BY <2>1
<1> DEFINE a == Kth(S, Lower(n, p))
           b == Kth(S, Upper(n, p))
           v == response_percentile(S, p)
<1>2. v = Between(a, b, Weight(n, p)) /\ a \in Int /\ b \in Int /\ a <= b
  BY <1>1, PercentileIs
<1>3. Weight(n, p) \in 0..99 /\ Lower(n, p) \in 0..n /\ Upper(n, p) \in 0..n
  BY Neighbours
<1>4. v \in Int /\ 100 * a <= v /\ v <= 100 * b
  <2>1. Weight(n, p) \in 0..100 /\ Weight(n, p) <= Weight(n, p)
    BY <1>3
  <2> HIDE DEF a, b, v
  <2> QED
    BY <1>2, <2>1, BetweenBounds
<1>5. \A k \in 0..n : \E x \in S : x.response = Kth(S, k)
  <2> SUFFICES ASSUME NEW k \in 0..n PROVE \E x \in S : x.response = Kth(S, k)
    OBVIOUS
  <2>1. Cardinality(S) \in Nat /\ k \in Nat /\ k < Cardinality(S)
    BY <1>1, FS_CardinalityType DEF Timed
  <2>2. IsKth(S, k, Kth(S, k))
    BY <2>1, KthIs DEF Timed
  <2> QED
    BY <2>2 DEF IsKth
<1> QED
  BY <1>3, <1>4, <1>5

\* ... and grows with p.
THEOREM PercentilesGrow ==
  ASSUME NEW S, Timed(S), NEW p \in 0..100, NEW q \in 0..100, p <= q
  PROVE  response_percentile(S, p) <= response_percentile(S, q)
<1>1. PICK n \in Nat : n = Cardinality(S) - 1
  <2>1. Cardinality(S) \in Nat /\ Cardinality(S) # 0
    BY FS_CardinalityType, FS_EmptySet DEF Timed
  <2> QED
    BY <2>1
<1> DEFINE a == Kth(S, Lower(n, p))
           b == Kth(S, Upper(n, p))
           c == Kth(S, Lower(n, q))
           d == Kth(S, Upper(n, q))
<1>2. /\ response_percentile(S, p) = Between(a, b, Weight(n, p))
      /\ a \in Int /\ b \in Int /\ a <= b
  BY <1>1, PercentileIs
<1>3. /\ response_percentile(S, q) = Between(c, d, Weight(n, q))
      /\ c \in Int /\ d \in Int /\ c <= d
  BY <1>1, PercentileIs
<1>4. /\ Weight(n, p) \in 0..100 /\ Weight(n, q) \in 0..100
      /\ Weight(n, p) <= Weight(n, p) /\ Weight(n, q) <= Weight(n, q)
      /\ Upper(n, p) \in 0..n /\ Lower(n, q) \in 0..n
  <2>1. /\ Weight(n, p) \in 0..99 /\ Weight(n, q) \in 0..99
        /\ Upper(n, p) \in 0..n /\ Lower(n, q) \in 0..n
    BY Neighbours
  <2> QED
    BY <2>1
<1>5. CASE Lower(n, p) = Lower(n, q) /\ Upper(n, p) = Upper(n, q)
             /\ Weight(n, p) <= Weight(n, q)
  <2>1. a = c /\ b = d
    BY <1>5
  <2> HIDE DEF a, b, c, d
  <2>2. response_percentile(S, q) = Between(a, b, Weight(n, q))
    BY <1>3, <2>1
  <2>3. Between(a, b, Weight(n, p)) <= Between(a, b, Weight(n, q))
    BY <1>2, <1>4, <1>5, BetweenBounds
  <2> QED
    BY <1>2, <2>2, <2>3
<1>6. CASE Upper(n, p) <= Lower(n, q)
  <2>1. b <= c
    <3>1. Cardinality(S) \in Nat /\ \A k \in 0..n : k \in Nat /\ k < Cardinality(S)
      BY <1>1, FS_CardinalityType DEF Timed
    <3>2. IsFiniteSet(S) /\ \A e \in S : e.response \in Int
      BY DEF Timed
    <3>3. IsKth(S, Upper(n, p), b) /\ IsKth(S, Lower(n, q), c)
      BY <1>4, <3>1, <3>2, KthIs
    <3> QED
      BY <1>4, <1>6, <3>1, <3>2, <3>3, KthOrdered
  <2> HIDE DEF a, b, c, d
  <2>2. Between(a, b, Weight(n, p)) \in Int /\ Between(a, b, Weight(n, p)) <= 100 * b
    BY <1>2, <1>4, BetweenBounds
  <2>3. Between(c, d, Weight(n, q)) \in Int /\ 100 * c <= Between(c, d, Weight(n, q))
    BY <1>3, <1>4, BetweenBounds
  <2>4. 100 * b <= 100 * c
    BY <1>2, <1>3, <2>1
  <2> QED
    BY <1>2, <1>3, <2>2, <2>3, <2>4
<1> QED
  BY <1>5, <1>6, NeighboursGrow
-----------------------------------------------------------------------------
(***************************************************************************)
(* The percentiles of a report.                                            *)
(***************************************************************************)
Measured ==
  /\ "p99" \in DOMAIN answer => req.kind \in Reports
  /\ "values" \in DOMAIN answer => \A e \in answer["values"] : e.response # NoResponse

\* Only a report asks for percentiles.
LEMMA PercentilesOfReports ==
  ASSUME Request, todo # <<>>, Head(todo) = "p99"
  PROVE  req.kind \in Reports
<1>1. PICK k \in 1..Len(Queries(req.kind)) : AtQuery(k)
  BY Asking
<1>2. Queries(req.kind)[k] = "p99" /\ req.kind \in Kinds
  BY <1>1, Asking, FromQuery
<1>3. req.kind \notin Lists
  <2> SUFFICES ASSUME req.kind \in Lists PROVE FALSE
    OBVIOUS
  <2>1. Queries(req.kind) = ListPages
    BY OtherQueries
  <2>2. k = 1 \/ k = 2 \/ k = 3 \/ k = 4 \/ k = 5 \/ k = 6
    BY <1>1, <2>1, OtherQueries
  <2> QED
    BY <1>2, <2>1, <2>2, OtherQueries
<1>4. req.kind # "export"
  <2> SUFFICES ASSUME req.kind = "export" PROVE FALSE
    OBVIOUS
  <2>1. Queries(req.kind) = <<"rows">>
    BY DEF Queries, Lists
  <2> QED
    BY <1>1, <1>2, <2>1
<1> QED
  BY <1>2, <1>3, <1>4, KindsDiffer

LEMMA StepMeasured ==
  ASSUME Request, Measured, [Next]_vars
  PROVE  Measured'
<1>1. ASSUME UNCHANGED answer, req'.kind = req.kind PROVE Measured'
  BY <1>1 DEF Measured
<1>2. ASSUME NEW b \in Bodies, Post(b) PROVE Measured'
  BY <1>1, <1>2 DEF Post
<1>3. CASE Cleanup
  BY <1>1, <1>3 DEF Cleanup
<1>4. CASE Tick
  BY <1>1, <1>4 DEF Tick
<1>5. ASSUME NEW r \in Requests, Begin(r) PROVE Measured'
  <2>1. DOMAIN answer' = {}
    BY <1>5 DEF Begin, Request, NoAnswer
  <2> QED
    BY <2>1 DEF Measured
<1>6. CASE Query
  <2> DEFINE q == Head(todo)
             S == Selection(events)
  <2>1. /\ todo # <<>>
        /\ answer' = [x \in DOMAIN answer \cup {q} |-> IF x = q THEN Read(q, S) ELSE answer[x]]
    BY <1>6 DEF Query
  <2>2. req'.kind = req.kind
    BY <1>6, SameRequest DEF Request
  <2>3. q = "values" => \A e \in Read(q, S) : e.response # NoResponse
    BY DEF Read, Values
  <2>4. q = "p99" => req.kind \in Reports
    BY <2>1, PercentilesOfReports
  <2> HIDE DEF q, S
  <2> QED
    BY <2>1, <2>2, <2>3, <2>4 DEF Measured
<1>7. CASE TimelineError
  <2>1. req'.kind = req.kind
    BY <1>7, SameRequest DEF Request
  <2> QED
    BY <1>1, <1>7, <2>1 DEF TimelineError
<1>8. CASE UNCHANGED vars
  BY <1>1, <1>8 DEF vars
<1> QED
  BY <1>2, <1>3, <1>4, <1>5, <1>6, <1>7, <1>8 DEF Next

LEMMA MeasuredHolds == Spec => []Measured
<1>1. Init => Measured
  BY DEF Init, Measured, NoAnswer
<1>2. IInv /\ Measured /\ [Next]_vars => Measured'
  BY StepMeasured DEF IInv
<1> QED
  BY <1>1, <1>2, InvariantHolds, PTL DEF Spec

\* When the four queries of a report's response times read the same events,
\* min <= p50 <= p95 <= p99 <= max, however many there are.
THEOREM PercentilesInOrder == Spec => []PercentilesOrdered
<1>1. IInv /\ Measured => PercentilesOrdered
  <2> DEFINE V == answer["values"]
  <2> SUFFICES ASSUME IInv, Measured, Answered, "p99" \in DOMAIN answer,
                      V = answer["p50"], V = answer["p95"], V = answer["p99"]
               PROVE  /\ \A e \in V : \/ response_percentile(V, 99) <= 100 * e.response
                                      \/ \E x \in V : x.response > e.response
                      /\ \A e \in V : \/ 100 * e.response <= response_percentile(V, 50)
                                      \/ \E x \in V : x.response < e.response
                      /\ response_percentile(V, 50) <= response_percentile(V, 95)
                      /\ response_percentile(V, 95) <= response_percentile(V, 99)
    BY DEF PercentilesOrdered
  <2>1. req.kind \in Reports /\ "values" \in DOMAIN answer
    BY DEF IInv, Request, Finished, Answered, Measured
  <2>2. V \in SUBSET ever /\ IsFiniteSet(ever)
    BY <2>1 DEF IInv, Answers, World
  <2>3. \A e \in V : e.response \in Nat
    BY <2>1, <2>2 DEF IInv, World, Measured
  <2>4. IsFiniteSet(V)
    BY <2>2, FS_Subset
  <2> HIDE DEF V
  <2>5. CASE V = {}
    <3>1. \A p : response_percentile(V, p) = NoResponse
      BY <2>5 DEF response_percentile, Values
    <3> QED
      BY <2>5, <3>1 DEF NoResponse
  <2>6. CASE V # {}
    <3>1. Timed(V)
      BY <2>3, <2>4, <2>6 DEF Timed
    <3>2. 50 \in 0..100 /\ 95 \in 0..100 /\ 99 \in 0..100 /\ 50 <= 95 /\ 95 <= 99
      OBVIOUS
    <3>3. /\ response_percentile(V, 50) \in Int /\ response_percentile(V, 99) \in Int
          /\ \E x \in V : 100 * x.response <= response_percentile(V, 50)
          /\ \E x \in V : response_percentile(V, 99) <= 100 * x.response
      BY <3>1, <3>2, PercentileInRange
    <3>4. \A e \in V : \/ response_percentile(V, 99) <= 100 * e.response
                       \/ \E x \in V : x.response > e.response
      BY <2>3, <3>3
    <3>5. \A e \in V : \/ 100 * e.response <= response_percentile(V, 50)
                       \/ \E x \in V : x.response < e.response
      BY <2>3, <3>3
    <3>6. /\ response_percentile(V, 50) <= response_percentile(V, 95)
          /\ response_percentile(V, 95) <= response_percentile(V, 99)
      BY <3>1, <3>2, PercentilesGrow
    <3> QED
      BY <3>4, <3>5, <3>6
  <2> QED
    BY <2>5, <2>6
<1> QED
  BY <1>1, InvariantHolds, MeasuredHolds, PTL
-----------------------------------------------------------------------------
(***************************************************************************)
(* The pages of a list.                                                    *)
(***************************************************************************)
UpTo(k) == {q \in DOMAIN Place : Place[q] <= k}

\* What a query of a list read and a later one did not was deleted between them, and
\* the reader stops where the count of a page says that the list ends.
Paged ==
  req.kind \in Lists =>
    /\ DOMAIN answer \subseteq DOMAIN Place
    /\ \A p, q \in DOMAIN answer : Place[p] < Place[q] => answer[p] \ answer[q] \subseteq deleted
    /\ Answered =>
         \/ DOMAIN answer = UpTo(2) /\ Cardinality(answer["count1"]) <= PageSize
         \/ DOMAIN answer = UpTo(3) /\ Cardinality(answer["count2"]) <= PageSize
         \/ DOMAIN answer = UpTo(4) /\ Cardinality(answer["count2"]) <= 2 * PageSize
         \/ DOMAIN answer = UpTo(5) /\ Cardinality(answer["count3"]) <= 2 * PageSize
         \/ DOMAIN answer = UpTo(6)

LEMMA PlaceIs ==
  /\ DOMAIN Place = {"count1", "page1", "count2", "page2", "count3", "page3"}
  /\ Place["count1"] = 1 /\ Place["page1"] = 2 /\ Place["count2"] = 3
  /\ Place["page2"] = 4 /\ Place["count3"] = 5 /\ Place["page3"] = 6
  /\ \A q \in DOMAIN Place : Place[q] \in 1..6 /\ ListPages[Place[q]] = q
  /\ \A i \in 1..6 : ListPages[i] \in DOMAIN Place /\ Place[ListPages[i]] = i
<1>1. /\ DOMAIN Place = {"count1", "page1", "count2", "page2", "count3", "page3"}
      /\ Place["count1"] = 1 /\ Place["page1"] = 2 /\ Place["count2"] = 3
      /\ Place["page2"] = 4 /\ Place["count3"] = 5 /\ Place["page3"] = 6
  BY DEF Place
<1>2. \A i \in 1..6 : i = 1 \/ i = 2 \/ i = 3 \/ i = 4 \/ i = 5 \/ i = 6
  OBVIOUS
<1>3. \A q \in DOMAIN Place : Place[q] \in 1..6 /\ ListPages[Place[q]] = q
  BY <1>1, OtherQueries
<1>4. \A i \in 1..6 : ListPages[i] \in DOMAIN Place /\ Place[ListPages[i]] = i
  BY <1>1, <1>2, OtherQueries
<1> QED
  BY <1>1, <1>3, <1>4

\* A query of a list comes after those before it in the list, and after no other.
LEMMA InPlace ==
  ASSUME Request, todo # <<>>, req.kind \in Lists
  PROVE  /\ Head(todo) \in DOMAIN Place
         /\ DOMAIN answer = {q \in DOMAIN Place : Place[q] < Place[Head(todo)]}
<1>1. PICK k \in 1..Len(Queries(req.kind)) : AtQuery(k)
  BY Asking
<1>2. Queries(req.kind) = ListPages /\ Len(ListPages) = 6 /\ k \in 1..6
  BY <1>1, OtherQueries
<1>3. Head(todo) = ListPages[k]
  BY <1>1, <1>2, Asking, FromQuery
<1>4. /\ \A i \in 1..(k - 1) : ListPages[i] \in DOMAIN answer \/ ListPages[i] \in Percentiles
      /\ \A q \in DOMAIN answer : \E i \in 1..(k - 1) : q = ListPages[i]
  BY <1>1, <1>2 DEF AtQuery
<1>5. Head(todo) \in DOMAIN Place /\ Place[Head(todo)] = k
  BY <1>2, <1>3, PlaceIs
<1>6. \A i \in 1..(k - 1) : i \in 1..6 /\ i < k
  BY <1>2
<1>7. ASSUME NEW q \in DOMAIN answer PROVE q \in DOMAIN Place /\ Place[q] < k
  BY <1>4, <1>6, PlaceIs
<1>8. ASSUME NEW q \in DOMAIN Place, Place[q] < k PROVE q \in DOMAIN answer
  <2>1. Place[q] \in 1..(k - 1) /\ ListPages[Place[q]] = q
    BY <1>2, <1>8, PlaceIs
  <2>2. q \notin Percentiles
    BY PlaceIs DEF Percentiles
  <2> QED
    BY <1>4, <2>1, <2>2
<1> QED
  BY <1>5, <1>7, <1>8

LEMMA QueryPaged ==
  ASSUME World, Request, Answers, Paged, Query
  PROVE  Paged'
<1> DEFINE q == Head(todo)
           S == Selection(events)
           D == DOMAIN answer
<1>1. /\ todo # <<>> /\ todo' = Remaining(q, S)
      /\ answer' = [x \in D \cup {q} |-> IF x = q THEN Read(q, S) ELSE answer[x]]
      /\ req' = IF Remaining(q, S) = <<>> THEN [req EXCEPT !.status = "answered"] ELSE req
      /\ deleted' = deleted /\ posted' = posted /\ base' = base
  BY DEF Query, database
<1>2. req'.kind = req.kind
  BY SameRequest DEF Request
<1> SUFFICES ASSUME req.kind \in Lists PROVE Paged'
  BY <1>2 DEF Paged
<1>3. q \in DOMAIN Place /\ D = {x \in DOMAIN Place : Place[x] < Place[q]}
  BY <1>1, InPlace
<1>4. Read(q, S) = S /\ S = {e \in events : Chosen(e)} /\ q # "values"
  BY <1>3, ReadsOf, SelectionChooses, PlaceIs DEF Whole
<1>5. \A x \in D : answer[x] \ S \subseteq deleted
  BY <1>4 DEF Answers, World
<1>6. \A x \in DOMAIN Place : Place[x] \in Int
  BY PlaceIs
<1>7. Answered' => Tail(todo) = <<>> \/ ListEnds(q, S)
  <2>1. todo' = IF ListEnds(q, S) THEN <<>> ELSE Tail(todo)
    BY <1>1, <1>4 DEF Remaining
  <2>2. Answered' => Remaining(q, S) = <<>>
    BY <1>1, Asking DEF Answered
  <2> QED
    BY <1>1, <2>1, <2>2
<1>8. Tail(todo) = <<>> => q = "page3"
  <2> SUFFICES ASSUME Tail(todo) = <<>> PROVE q = "page3"
    OBVIOUS
  <2>1. PICK k \in 1..Len(Queries(req.kind)) : AtQuery(k)
    BY <1>1, Asking
  <2>2. Queries(req.kind) = ListPages /\ Len(ListPages) = 6 /\ ListPages[6] = "page3"
    BY OtherQueries
  <2>3. q = ListPages[k] /\ Len(Tail(todo)) = 6 - k
    BY <1>1, <2>1, <2>2, Asking, FromQuery
  <2> HIDE DEF q
  <2>4. k = 6
    <3>1. 6 - k = 0 /\ k \in 1..6
      BY <2>1, <2>2, <2>3, EmptySeq
    <3>2. \A i \in 1..6 : 6 - i = 0 => i = 6
      OBVIOUS
    <3> QED
      BY <3>1, <3>2
  <2> QED
    BY <2>2, <2>3, <2>4
<1> HIDE DEF q, S, D
<1>9. DOMAIN answer' = UpTo(Place[q])
  <2>1. DOMAIN answer' = D \cup {q}
    BY <1>1
  <2>2. \A x \in DOMAIN Place : Place[x] <= Place[q] <=> (Place[x] < Place[q] \/ x = q)
    <3>1. \A x \in DOMAIN Place : Place[x] = Place[q] => x = q
      BY <1>3, PlaceIs
    <3> QED
      BY <1>3, <1>6, <3>1
  <2> QED
    BY <1>3, <2>1, <2>2 DEF UpTo
<1>10. answer'[q] = S /\ \A x \in D : answer'[x] = answer[x]
  BY <1>1, <1>3, <1>4, <1>6
<1>11. DOMAIN answer' \subseteq DOMAIN Place
  BY <1>9 DEF UpTo
<1>12. ASSUME NEW x \in DOMAIN answer', NEW y \in DOMAIN answer', Place[x] < Place[y]
       PROVE  answer'[x] \ answer'[y] \subseteq deleted'
  <2>1. x \in DOMAIN Place /\ y \in DOMAIN Place /\ Place[y] <= Place[q]
    BY <1>9, <1>12 DEF UpTo
  <2>2. x \in D /\ (y = q \/ y \in D)
    BY <1>1, <1>3, <1>6, <1>12, <2>1
  <2>3. CASE y = q
    BY <1>1, <1>5, <1>10, <2>2, <2>3
  <2>4. CASE y \in D
    BY <1>1, <1>10, <1>12, <2>2, <2>4 DEF Paged, D
  <2> QED
    BY <2>2, <2>3, <2>4
<1>13. ASSUME Answered'
       PROVE  \/ DOMAIN answer' = UpTo(2) /\ Cardinality(answer'["count1"]) <= PageSize
              \/ DOMAIN answer' = UpTo(3) /\ Cardinality(answer'["count2"]) <= PageSize
              \/ DOMAIN answer' = UpTo(4) /\ Cardinality(answer'["count2"]) <= 2 * PageSize
              \/ DOMAIN answer' = UpTo(5) /\ Cardinality(answer'["count3"]) <= 2 * PageSize
              \/ DOMAIN answer' = UpTo(6)
  <2>1. CASE q = "page3"
    BY <1>9, <2>1, PlaceIs
  <2>2. CASE q # "page3"
    <3>1. ListEnds(q, S)
      BY <1>7, <1>8, <1>13, <2>2
    <3>2. CASE q = "page1"
      <4>1. "count1" \in D
        BY <1>3, <3>2, PlaceIs
      <4>2. Cardinality(answer["count1"]) <= 1 * PageSize
        BY <3>1, <3>2 DEF ListEnds, IsPage, PageNumber, CountOf
      <4> QED
        BY <1>9, <1>10, <3>2, <4>1, <4>2, PlaceIs, DurationsAssumption
    <3>3. CASE q = "page2"
      <4>1. "count2" \in D
        BY <1>3, <3>3, PlaceIs
      <4>2. Cardinality(answer["count2"]) <= 2 * PageSize
        BY <3>1, <3>3 DEF ListEnds, IsPage, PageNumber, CountOf
      <4> QED
        BY <1>9, <1>10, <3>3, <4>1, <4>2, PlaceIs
    <3>4. CASE q \notin {"page1", "page2"}
      <4>1. \/ q = "count2" /\ Cardinality(S) <= PageSize
            \/ q = "count3" /\ Cardinality(S) <= 2 * PageSize
        BY <2>2, <3>1, <3>4 DEF ListEnds, IsPage, PageNumber
      <4> QED
        BY <1>9, <1>10, <4>1, PlaceIs
    <3> QED
      BY <3>2, <3>3, <3>4
  <2> QED
    BY <2>1, <2>2
<1> QED
  BY <1>11, <1>12, <1>13 DEF Paged

LEMMA StepPaged ==
  ASSUME World, Request, Answers, Paged, [Next]_vars
  PROVE  Paged'
<1>1. ASSUME UNCHANGED <<answer, req>>, deleted \subseteq deleted' PROVE Paged'
  BY <1>1 DEF Paged, Answered
<1>2. ASSUME NEW b \in Bodies, Post(b) PROVE Paged'
  BY <1>1, <1>2 DEF Post
<1>3. CASE Cleanup
  BY <1>1, <1>3 DEF Cleanup
<1>4. CASE Tick
  BY <1>1, <1>4 DEF Tick
<1>5. ASSUME NEW r \in Requests, Begin(r) PROVE Paged'
  <2>1. DOMAIN answer' = {} /\ req'.status # "answered"
    BY <1>5 DEF Begin, Request, NoAnswer
  <2> QED
    BY <2>1 DEF Paged, Answered
<1>6. CASE TimelineError
  <2>1. req'.kind = req.kind /\ req.kind \in Reports
    BY <1>6, SameRequest, ErrorRequest DEF Request
  <2> QED
    BY <2>1, KindsDiffer DEF Paged
<1>7. CASE UNCHANGED vars
  BY <1>1, <1>7 DEF vars
<1> QED
  BY <1>2, <1>3, <1>4, <1>5, <1>6, <1>7, QueryPaged DEF Next

LEMMA PagedHolds == Spec => []Paged
<1>1. Init => Paged
  BY KindsDiffer DEF Init, Paged, NoRequest, Kinds
<1>2. IInv /\ Paged /\ [Next]_vars => Paged'
  BY StepPaged DEF IInv
<1> QED
  BY <1>1, <1>2, InvariantHolds, PTL DEF Spec

LEMMA RankOf ==
  ASSUME NEW S, IsFiniteSet(S), NEW e \in S, e.at \in Int, e.id \in Int
  PROVE  Rank(e, S) \in Nat /\ Cardinality(S) \in Nat /\ Rank(e, S) < Cardinality(S)
<1> DEFINE A == {x \in S : Newer(x, e)}
<1>1. A \in SUBSET S /\ e \notin A
  BY DEF Newer
<1>2. IsFiniteSet(A) /\ Cardinality(A) <= Cardinality(S) /\ (Cardinality(A) = Cardinality(S) => A = S)
  BY <1>1, FS_Subset
<1>3. Cardinality(A) \in Nat /\ Cardinality(S) \in Nat
  BY <1>2, FS_CardinalityType
<1>4. A # S
  BY <1>1
<1> QED
  BY <1>2, <1>3, <1>4 DEF Rank

\* Before an event that is not expired no event goes, so it only moves down the list.
LEMMA RankGrows ==
  ASSUME NEW S, IsFiniteSet(S), NEW T, IsFiniteSet(T), NEW limit \in Int,
         NEW e, e.at \in Int, e.at >= limit,
         \A x \in S : x.at \in Int /\ (x \notin T => x.at < limit)
  PROVE  Rank(e, S) <= Rank(e, T)
<1> DEFINE A == {x \in S : Newer(x, e)}
           B == {x \in T : Newer(x, e)}
<1>1. \A x \in S : Newer(x, e) => x \in T
  BY DEF Newer
<1>2. B \in SUBSET T /\ A \in SUBSET B
  BY <1>1
<1>3. IsFiniteSet(B) /\ Cardinality(A) <= Cardinality(B)
  BY <1>2, FS_Subset
<1> QED
  BY <1>3 DEF Rank

\* Read page by page to its end, a list misses no event that was there at the start
\* and has not expired, except on a page for which one came between its count and
\* its rows: for any page size, and however many events come and expire meanwhile.
THEOREM PagesComplete == Spec => []PagesMissNothing
<1>1. IInv /\ Paged => PagesMissNothing
  <2> DEFINE D     == DOMAIN answer
             pages == {q \in D : IsPage(q)}
             rows(q) == page(answer[q], PageNumber[q], Cardinality(answer[CountOf[q]]))
             ended == "page3" \in pages => Cardinality(answer["count3"]) <= 3 * PageSize
  <2> SUFFICES ASSUME IInv, Paged, Answered, req.kind \in Lists,
                      ended, \A q \in pages : answer[q] \subseteq answer[CountOf[q]],
                      NEW e \in Selection(base), e.at >= clock - Retention
               PROVE  \E q \in pages : e \in rows(q)
    BY DEF PagesMissNothing
  <2> DEFINE C(q) == Cardinality(answer[q])
             R(q) == Rank(e, answer[q])
  <2>1. World /\ Answers /\ D \subseteq DOMAIN Place
    BY DEF IInv, Paged
  <2>2. e \in base /\ Chosen(e) /\ e \notin deleted /\ e \in ever
    <3>1. Selection(base) = {x \in base : Chosen(x)}
      BY SelectionChooses
    <3>2. ~(e.at < clock - Retention)
      BY <2>1, <3>1, ReportsAssumption DEF World, ever
    <3> QED
      BY <2>1, <3>1, <3>2 DEF World, ever
  <2>3. clock - Retention \in Int /\ \A x \in ever : x.at \in Int /\ x.id \in Int
    BY <2>1, ReportsAssumption DEF World
  <2>4. \A q \in D : e \in answer[q] /\ answer[q] \in SUBSET ever /\ IsFiniteSet(answer[q])
    BY <2>1, <2>2, FS_Subset DEF Answers, Whole, World
  <2>5. \A q \in D : R(q) \in Nat /\ C(q) \in Nat /\ R(q) < C(q)
    BY <2>2, <2>3, <2>4, RankOf
  <2>6. ASSUME NEW p \in D, NEW q \in D, Place[p] < Place[q] PROVE R(p) <= R(q)
    <3>1. \A x \in answer[p] : x.at \in Int /\ (x \notin answer[q] => x.at < clock - Retention)
      BY <2>1, <2>3, <2>4, <2>6 DEF Paged, World
    <3> QED
      BY <2>2, <2>3, <2>4, <3>1, RankGrows
  <2>7. \A q \in pages : CountOf[q] \in D => R(q) < C(CountOf[q])
    <3> SUFFICES ASSUME NEW q \in pages, CountOf[q] \in D PROVE R(q) < C(CountOf[q])
      OBVIOUS
    <3>1. C(q) <= C(CountOf[q])
      BY <2>4, FS_Subset
    <3> QED
      BY <2>5, <3>1
  <2>8. PageSize \in Nat \ {0}
    BY DurationsAssumption
  <2>9. \A q \in pages : (e \in rows(q)) <=> /\ (PageNumber[q] - 1) * PageSize <= R(q)
                                             /\ R(q) < PageNumber[q] * PageSize
                                             /\ R(q) < C(CountOf[q])
    BY <2>4 DEF page
  <2>10. /\ \/ D = UpTo(2) /\ C("count1") <= PageSize
            \/ D = UpTo(3) /\ C("count2") <= PageSize
            \/ D = UpTo(4) /\ C("count2") <= 2 * PageSize
            \/ D = UpTo(5) /\ C("count3") <= 2 * PageSize
            \/ D = UpTo(6)
    BY DEF Paged
  <2>11. /\ IsPage("page1") /\ IsPage("page2") /\ IsPage("page3")
         /\ PageNumber["page1"] = 1 /\ PageNumber["page2"] = 2 /\ PageNumber["page3"] = 3
         /\ CountOf["page1"] = "count1" /\ CountOf["page2"] = "count2"
         /\ CountOf["page3"] = "count3"
    BY DEF IsPage, PageNumber, CountOf
  <2> HIDE DEF C, R, rows
  <2>12. {"count1", "page1"} \subseteq D
    BY <2>10, PlaceIs DEF UpTo
  <2>13. CASE R("page1") < PageSize
    <3>1. R("page1") < C("count1") /\ (1 - 1) * PageSize <= R("page1") /\ 1 * PageSize = PageSize
      BY <2>5, <2>7, <2>8, <2>11, <2>12
    <3> QED
      BY <2>9, <2>11, <2>12, <2>13, <3>1
  <2>14. CASE R("page1") >= PageSize
    <3>1. D # UpTo(2) \/ C("count1") > PageSize
      BY <2>5, <2>7, <2>8, <2>11, <2>12, <2>14
    <3>2. "count2" \in D
      BY <2>5, <2>8, <2>10, <2>12, <3>1, PlaceIs DEF UpTo
    <3>3. R("page1") <= R("count2") /\ R("count2") < C("count2")
      BY <2>5, <2>6, <2>12, <3>2, PlaceIs
    <3>4. C("count2") > PageSize
      BY <2>5, <2>8, <2>12, <2>14, <3>2, <3>3
    <3>5. "page2" \in D
      BY <2>5, <2>8, <2>10, <2>12, <3>1, <3>2, <3>4, PlaceIs DEF UpTo
    <3>6. R("page1") <= R("page2") /\ R("page2") < C("count2") /\ R("page2") \in Nat
      BY <2>5, <2>6, <2>7, <2>11, <2>12, <3>2, <3>5, PlaceIs
    <3>7. PageSize <= R("page2")
      BY <2>5, <2>8, <2>12, <2>14, <3>6
    <3>8. CASE R("page2") < 2 * PageSize
      <4>1. (2 - 1) * PageSize = PageSize
        BY <2>8
      <4> QED
        BY <2>9, <2>11, <3>5, <3>6, <3>7, <3>8, <4>1
    <3>9. CASE R("page2") >= 2 * PageSize
      <4>1. C("count2") > 2 * PageSize
        BY <2>5, <2>8, <3>2, <3>6, <3>9
      <4>2. "count3" \in D
        BY <2>5, <2>8, <2>10, <2>12, <3>1, <3>2, <3>4, <4>1, PlaceIs DEF UpTo
      <4>3. R("page2") <= R("count3") /\ R("count3") < C("count3") /\ C("count3") > 2 * PageSize
        BY <2>5, <2>6, <2>8, <3>5, <3>6, <3>9, <4>2, PlaceIs
      <4>4. "page3" \in D
        BY <2>5, <2>8, <2>10, <2>12, <3>1, <3>2, <3>4, <4>1, <4>2, <4>3, PlaceIs DEF UpTo
      <4>5. R("page2") <= R("page3") /\ R("page3") < C("count3") /\ C("count3") <= 3 * PageSize
        BY <2>5, <2>6, <2>7, <2>11, <3>5, <4>2, <4>4, PlaceIs DEF C
      <4>6. (3 - 1) * PageSize <= R("page3") /\ R("page3") < 3 * PageSize
        BY <2>5, <2>8, <3>6, <3>9, <4>2, <4>4, <4>5
      <4> QED
        BY <2>9, <2>11, <4>4, <4>5, <4>6
    <3> QED
      BY <2>8, <3>6, <3>8, <3>9
  <2> QED
    BY <2>5, <2>8, <2>12, <2>13, <2>14
<1> QED
  BY <1>1, InvariantHolds, PagedHolds, PTL
-----------------------------------------------------------------------------
(***************************************************************************)
(* What a page of a list and the newest of a set are, of events that have  *)
(* keys of their own.                                                      *)
(***************************************************************************)
Listed(S) ==
  /\ IsFiniteSet(S)
  /\ \A e \in S : e.at \in Int /\ e.id \in Int
  /\ \A d, e \in S : d.id = e.id => d = e

\* The events that were ever there are such.
LEMMA EverListed == Spec => [](\A S \in SUBSET ever : Listed(S))
<1>1. IInv => \A S \in SUBSET ever : Listed(S)
  <2> SUFFICES ASSUME World, NEW S \in SUBSET ever PROVE Listed(S)
    BY DEF IInv
  <2>1. IsFiniteSet(S)
    BY FS_Subset DEF World
  <2> QED
    BY <2>1 DEF World, Listed
<1> QED
  BY <1>1, InvariantHolds, PTL

LEMMA NewerOrders ==
  ASSUME NEW S, Listed(S), NEW d \in S, NEW e \in S, d # e
  PROVE  Newer(d, e) \/ Newer(e, d)
BY DEF Listed, Newer

LEMMA RankStrict ==
  ASSUME NEW S, Listed(S), NEW d \in S, NEW e \in S, Newer(d, e)
  PROVE  Rank(d, S) \in Nat /\ Rank(e, S) \in Nat /\ Rank(d, S) < Rank(e, S)
<1> DEFINE A == {x \in S : Newer(x, d)}
           B == {x \in S : Newer(x, e)}
<1>1. \A x \in S : Newer(x, d) => Newer(x, e)
  BY DEF Listed, Newer
<1>2. B \in SUBSET S /\ A \in SUBSET B /\ d \in B /\ d \notin A
  BY <1>1 DEF Listed, Newer
<1>3. IsFiniteSet(B)
  BY <1>2, FS_Subset DEF Listed
<1>4. /\ Cardinality(A) <= Cardinality(B) /\ (Cardinality(B) = Cardinality(A) => B = A)
      /\ IsFiniteSet(A)
  BY <1>2, <1>3, FS_Subset
<1>5. Cardinality(A) \in Nat /\ Cardinality(B) \in Nat
  BY <1>3, <1>4, FS_CardinalityType
<1>6. A # B
  BY <1>2
<1> QED
  BY <1>4, <1>5, <1>6 DEF Rank

\* Ranks number the events of a list from 0 up.
LEMMA RanksNumber ==
  ASSUME NEW S, Listed(S)
  PROVE  /\ Cardinality(S) \in Nat
         /\ \A e \in S : Rank(e, S) \in 0..(Cardinality(S) - 1)
         /\ \A d, e \in S : Rank(d, S) = Rank(e, S) => d = e
         /\ \A k \in 0..(Cardinality(S) - 1) : \E e \in S : Rank(e, S) = k
<1> DEFINE N == 0..(Cardinality(S) - 1)
           f == [e \in S |-> Rank(e, S)]
<1>1. Cardinality(S) \in Nat
  BY FS_CardinalityType DEF Listed
<1>2. \A e \in S : Rank(e, S) \in N
  <2>1. \A e \in S : Rank(e, S) \in Nat /\ Rank(e, S) < Cardinality(S)
    BY RankOf DEF Listed
  <2> QED
    BY <1>1, <2>1
<1>3. \A d, e \in S : Rank(d, S) = Rank(e, S) => d = e
  <2> SUFFICES ASSUME NEW d \in S, NEW e \in S, Rank(d, S) = Rank(e, S), d # e PROVE FALSE
    OBVIOUS
  <2>1. CASE Newer(d, e)
    BY <2>1, RankStrict
  <2>2. CASE Newer(e, d)
    BY <2>2, RankStrict
  <2> QED
    BY <2>1, <2>2, NewerOrders
<1>4. f \in Injection(S, N)
  <2>1. f \in [S -> N]
    BY <1>2
  <2>2. \A a, b \in S : f[a] = f[b] => a = b
    BY <1>3
  <2> QED
    BY <2>1, <2>2 DEF Injection, IsInjective
<1>5. IsFiniteSet(N) /\ Cardinality(N) = Cardinality(S)
  BY <1>1, FS_Interval
<1>6. f \in Surjection(S, N)
  <2> HIDE DEF f, N
  <2> QED
    BY <1>4, <1>5, FS_Injection
<1>7. \A k \in N : \E e \in S : Rank(e, S) = k
  BY <1>6 DEF Surjection
<1> QED
  BY <1>1, <1>2, <1>3, <1>7

\* At most n events have their ranks among n numbers.
LEMMA FewRanks ==
  ASSUME NEW S, Listed(S), NEW T \in SUBSET S, NEW a \in Int, NEW n \in Nat,
         \A e \in T : a <= Rank(e, S) /\ Rank(e, S) < a + n
  PROVE  Cardinality(T) <= n
<1> DEFINE N == a..(a + n - 1)
           f == [e \in T |-> Rank(e, S)]
<1>1. \A e \in T : f[e] \in N
  <2>1. \A e \in T : Rank(e, S) \in Int
    BY RanksNumber
  <2> QED
    BY <2>1
<1>2. f \in Injection(T, N)
  <2>1. f \in [T -> N]
    BY <1>1
  <2>2. \A x, y \in T : f[x] = f[y] => x = y
    BY RanksNumber
  <2> QED
    BY <2>1, <2>2 DEF Injection, IsInjective
<1>3. IsFiniteSet(N) /\ Cardinality(N) = n
  BY FS_Interval
<1> HIDE DEF f, N
<1> QED
  BY <1>2, <1>3, FS_Injection

\* The pages of a list that does not change under its reader: each event is on one
\* page, a page has at most PageSize of them, and an earlier page has newer ones.
THEOREM PagesPartition ==
  ASSUME NEW S, Listed(S)
  PROVE  LET rows(n) == page(S, n, Cardinality(S))
         IN  /\ \A e \in S : \E n \in Nat \ {0} : e \in rows(n)
             /\ \A n \in Nat \ {0} : Cardinality(rows(n)) <= PageSize
             /\ \A m, n \in Nat \ {0} : m < n =>
                  \A d \in rows(m), e \in rows(n) : Newer(d, e) /\ d # e
<1> DEFINE rows(n) == page(S, n, Cardinality(S))
<1>0. PageSize \in Nat \ {0}
  BY DurationsAssumption
<1>1. ASSUME NEW n \in Nat \ {0}, NEW e
      PROVE  e \in rows(n) <=> /\ e \in S /\ (n - 1) * PageSize <= Rank(e, S)
                               /\ Rank(e, S) < n * PageSize
  BY RanksNumber DEF page
<1>2. ASSUME NEW n \in Nat \ {0}
      PROVE  (n - 1) * PageSize \in Nat /\ n * PageSize = (n - 1) * PageSize + PageSize
  BY <1>0
<1> HIDE DEF rows
<1>3. ASSUME NEW e \in S PROVE \E n \in Nat \ {0} : e \in rows(n)
  <2>1. Rank(e, S) \in Nat
    BY RanksNumber
  <2>2. PICK k \in Nat : k = Rank(e, S) \div PageSize
    BY <1>0, <2>1
  <2>3. k * PageSize <= Rank(e, S) /\ Rank(e, S) < k * PageSize + PageSize
    BY <1>0, <2>1, <2>2
  <2>4. k + 1 \in Nat \ {0} /\ (k + 1) - 1 = k
    OBVIOUS
  <2>5. (k + 1) * PageSize = k * PageSize + PageSize
    BY <1>2, <2>4
  <2> QED
    BY <1>1, <2>3, <2>4, <2>5
<1>4. ASSUME NEW n \in Nat \ {0} PROVE Cardinality(rows(n)) <= PageSize
  <2>1. rows(n) \in SUBSET S
    BY <1>1
  <2>2. (n - 1) * PageSize \in Int /\ PageSize \in Nat
    BY <1>0, <1>2
  <2>3. \A e \in rows(n) : /\ (n - 1) * PageSize <= Rank(e, S)
                           /\ Rank(e, S) < (n - 1) * PageSize + PageSize
    BY <1>1, <1>2
  <2> QED
    BY <2>1, <2>2, <2>3, FewRanks
<1>5. ASSUME NEW m \in Nat \ {0}, NEW n \in Nat \ {0}, m < n,
             NEW d \in rows(m), NEW e \in rows(n)
      PROVE  Newer(d, e) /\ d # e
  <2>1. d \in S /\ e \in S /\ Rank(d, S) < m * PageSize /\ (n - 1) * PageSize <= Rank(e, S)
    BY <1>1
  <2>2. m * PageSize <= (n - 1) * PageSize
    <3>1. \A i, j \in Nat : i <= j => i * PageSize <= j * PageSize
      BY <1>0
    <3> QED
      BY <1>5, <3>1
  <2>3. Rank(d, S) \in Int /\ Rank(e, S) \in Int /\ m * PageSize \in Int
        /\ (n - 1) * PageSize \in Int
    BY <1>0, <2>1, RanksNumber
  <2>4. Rank(d, S) < Rank(e, S)
    BY <2>1, <2>2, <2>3
  <2>5. d # e /\ ~Newer(e, d)
    BY <2>1, <2>3, <2>4, RankStrict
  <2> QED
    BY <2>1, <2>5, NewerOrders
<1> QED
  BY <1>3, <1>4, <1>5 DEF rows

\* The n newest of a set are n of them, or all, and newer than the others.
THEOREM NewestAreNewest ==
  ASSUME NEW S, Listed(S), NEW n \in Nat
  PROVE  /\ newest(S, n) \subseteq S
         /\ \A d \in newest(S, n), e \in S \ newest(S, n) : Newer(d, e)
         /\ Cardinality(newest(S, n)) = IF Cardinality(S) <= n THEN Cardinality(S) ELSE n
<1>1. newest(S, n) \in SUBSET S /\ \A e \in S : e \in newest(S, n) <=> Rank(e, S) < n
  BY DEF newest
<1>2. ASSUME NEW d \in newest(S, n), NEW e \in S \ newest(S, n) PROVE Newer(d, e)
  <2>1. Rank(d, S) \in Nat /\ Rank(e, S) \in Nat /\ Rank(d, S) < Rank(e, S) /\ d \in S /\ d # e
    BY <1>1, RanksNumber
  <2>2. ~Newer(e, d)
    BY <2>1, RankStrict
  <2> QED
    BY <2>1, <2>2, NewerOrders
<1>3. CASE Cardinality(S) <= n
  <2>1. \A e \in S : Rank(e, S) < n
    BY <1>3, RanksNumber
  <2>2. newest(S, n) = S
    BY <1>1, <2>1
  <2> QED
    BY <1>1, <1>2, <1>3, <2>2
<1>4. CASE ~(Cardinality(S) <= n)
  <2> DEFINE T == newest(S, n)
             N == 0..(n - 1)
             f == [e \in T |-> Rank(e, S)]
  <2>1. Cardinality(S) \in Nat /\ n < Cardinality(S)
    BY <1>4, RanksNumber
  <2>2. IsFiniteSet(T)
    BY <1>1, FS_Subset DEF Listed
  <2>3. Cardinality(T) <= n
    <3>1. \A e \in T : 0 <= Rank(e, S) /\ Rank(e, S) < 0 + n
      BY <1>1, RanksNumber
    <3> QED
      BY <1>1, <3>1, FewRanks
  <2>4. f \in Surjection(T, N)
    <3>1. f \in [T -> N]
      BY <1>1, RanksNumber
    <3>2. \A k \in N : \E e \in T : f[e] = k
      <4> SUFFICES ASSUME NEW k \in N PROVE \E e \in T : f[e] = k
        OBVIOUS
      <4>1. k \in 0..(Cardinality(S) - 1) /\ k < n
        BY <2>1
      <4>2. PICK e \in S : Rank(e, S) = k
        BY <4>1, RanksNumber
      <4> QED
        BY <1>1, <4>1, <4>2
    <3> QED
      BY <3>1, <3>2 DEF Surjection
  <2>5. IsFiniteSet(N) /\ Cardinality(N) = n
    BY FS_Interval
  <2>6. n <= Cardinality(T)
    <3> HIDE DEF f, N, T
    <3> QED
      BY <2>2, <2>4, <2>5, FS_Surjection
  <2>7. Cardinality(T) = n
    BY <2>2, <2>3, <2>6, FS_CardinalityType
  <2> QED
    BY <1>1, <1>2, <1>4, <2>7
<1> QED
  BY <1>3, <1>4
=============================================================================
