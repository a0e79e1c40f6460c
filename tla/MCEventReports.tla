--------------------------- MODULE MCEventReports ---------------------------
EXTENDS EventReports

Event(id, at, project, type, status, response) ==
  [id |-> id, at |-> at, project |-> project, type |-> type, status |-> status,
   response |-> response, service |-> "web"]

Body(project, type, status, response, named) ==
  [project |-> project, type |-> type, status |-> status, response |-> response,
   service |-> "web", named |-> named]

\* A day has four ticks; midnights are 0, 4, 8, 12, 16.
MCHistory == {
  Event(1, 3, "p", "APPLICATION_ERROR", 200, NoResponse),
  Event(2, 7, "p", "API_REQUEST", 404, 10),
  Event(3, 8, "q", "API_REQUEST", 200, 7),
  Event(4, 12, "p", "API_REQUEST", 204, 2),
  Event(5, 12, "p", "CUSTOM", 301, 9)}

MCBodies == {
  Body("p", "DATABASE_ERROR", 503, 5, FALSE),
  Body("p", "CUSTOM", 302, 12, TRUE),
  Body("p", "CUSTOM", 200, 12, FALSE)}

Date(n) == [kind |-> "date", value |-> n]
Time(n) == [kind |-> "time", value |-> n]

Range(from, to) == [NoFilters EXCEPT !.date_from = from, !.date_to = to]

DateRanges ==
  {Range(from, to) : from \in {NoBound, Date(1), Date(3), Date(4)},
                     to   \in {NoBound, Date(0), Date(2), Date(3)}}

TimeRanges == {Range(Time(7), Time(12)), Range(Time(8), Date(2)), Range(Time(9), Date(2)),
               Range(Date(3), Time(12)), Range(Time(13), Time(12))}

Ask(kinds, projects, filters, bound) ==
  [kind : kinds, project : projects, filters : filters, bound : bound]

MCRequests ==
       Ask({"api", "api_list"}, {"p"}, DateRanges \cup TimeRanges, {TRUE})
  \cup Ask({"page_list", "export", "errors", "slow"}, {"p"}, DateRanges, {TRUE})
  \cup Ask({"overview", "home"}, {NoProject}, {Range(Date(1), Date(3)), Range(Date(3), Date(1))}, {TRUE})
  \cup Ask({"errors", "slow", "home"}, {NoProject}, {NoFilters}, {FALSE})
  \cup Ask({"api", "project", "page_list", "home"}, {"q"}, {NoFilters}, {TRUE})
  \cup Ask({"project"}, {"p"}, {NoFilters}, {FALSE})
  \cup Ask({"api", "api_list"}, {"p"},
           {[NoFilters EXCEPT !.slow = TRUE], [NoFilters EXCEPT !.status = {404, 204}]}, {TRUE})
=============================================================================
