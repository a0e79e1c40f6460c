---------------------------- MODULE EventQueries ----------------------------
(***************************************************************************)
(* The questions the program asks of its stored events: what an error is,  *)
(* which events a filter selects, and what the counts, percentiles,        *)
(* timeline rows and list pages of a selection are (analytics.services,    *)
(* monitoring.views, api.serializers, api.pagination).                     *)
(*                                                                         *)
(* An instant is a number of ticks since the start of a UTC day; an event  *)
(* is a record.  A query answers with the set of events it reads, from     *)
(* which the numbers of the response are computed.                         *)
(***************************************************************************)
EXTENDS Integers, FiniteSets

CONSTANTS
  Hour, Day, Week, Month,  \* durations in ticks
  SlowThreshold,           \* settings.SLOW_REQUEST_THRESHOLD
  PageSize                 \* StandardResultsSetPagination.page_size

ASSUME DurationsAssumption ==
  /\ Hour \in Nat \ {0} /\ Day \in Nat /\ Week \in Nat /\ Month \in Nat
  /\ Hour <= Day /\ Day % Hour = 0 /\ Day <= Week /\ Week <= Month
  /\ PageSize \in Nat \ {0}

(***************************************************************************)
(* Classification.  NoResponse is a null response_time.                    *)
(***************************************************************************)
NoResponse == -1

ERROR_EVENT_TYPES == {"APPLICATION_ERROR", "DATABASE_ERROR"}

error_q(e) == e.status >= 400 \/ e.type \in ERROR_EVENT_TYPES

\* Mutant: the event type is forgotten.
success_q_StatusOnly(e) == e.status >= 200 /\ e.status < 400

success_q(e) ==
  e.status >= 200 /\ e.status < 400 /\ e.type \notin ERROR_EVENT_TYPES

\* The API filter and the slow-requests page include the threshold ...
slow_q(e) == e.response # NoResponse /\ e.response >= SlowThreshold

\* ... the project page and Event.is_slow do not.
is_slow(e) == e.response # NoResponse /\ e.response > SlowThreshold

(***************************************************************************)
(* A bound of a range is absent, a date or an instant.                     *)
(***************************************************************************)
NoBound == [kind |-> "none", value |-> 0]

Bounds == [kind : {"none", "date", "time"}, value : Nat]

DayStart(t) == Day * (t \div Day)

\* FlexibleDateTimeField and _coerce_datetime: a date is its midnight.
Midnight(b) == IF b.kind = "date" THEN Day * b.value ELSE b.value

\* Mutant: the order of the two dates is not validated.
RangeInOrder_Unchecked(f) == TRUE

RangeInOrder(f) ==
  f.date_from.kind = "none" \/ f.date_to.kind = "none"
    \/ Midnight(f.date_from) <= Midnight(f.date_to)

NotBefore(e, b) == b.kind = "none" \/ e.at >= Midnight(b)

\* date_to as a date ends, exclusively, a day after its midnight.
NotAfter(e, b) ==
  \/ b.kind = "none"
  \/ b.kind = "date" /\ e.at < Midnight(b) + Day
  \/ b.kind = "time" /\ e.at <= b.value

\* The exact-match filters: f[k] holds the accepted values, {} accepts all.
\* service and services are joined in one set.
MatchesFields(e, f) ==
  \A k \in {"type", "service", "status"} : f[k] = {} \/ e[k] \in f[k]

Filters(Types, Services, Statuses) ==
  [date_from : Bounds, date_to : Bounds, slow : BOOLEAN,
   type : SUBSET Types, service : SUBSET Services, status : SUBSET Statuses]

NoFilters == [date_from |-> NoBound, date_to |-> NoBound, slow |-> FALSE,
              type |-> {}, service |-> {}, status |-> {}]

\* Mutant: __lte for a date-only end too.
filter_events_EndInclusive(S, f) ==
  {e \in S : /\ NotBefore(e, f.date_from)
             /\ \/ NotAfter(e, f.date_to)
                \/ f.date_to.kind = "date" /\ e.at = Midnight(f.date_to) + Day
             /\ MatchesFields(e, f)
             /\ f.slow => slow_q(e)}

\* analytics.services.filter_events.
filter_events(S, f) ==
  {e \in S : /\ NotBefore(e, f.date_from) /\ NotAfter(e, f.date_to)
             /\ MatchesFields(e, f)
             /\ f.slow => slow_q(e)}

\* monitoring.views._filter_events: the lookups compare the UTC date of created_at.
page_filter_events(S, f) ==
  {e \in S : /\ f.date_from.kind = "none" \/ (e.at \div Day) >= f.date_from.value
             /\ f.date_to.kind = "none" \/ (e.at \div Day) <= f.date_to.value
             /\ MatchesFields(e, f)}

(***************************************************************************)
(* response_percentile, in hundredths of a millisecond.                    *)
(***************************************************************************)
Values(S) == {e \in S : e.response # NoResponse}

\* The k-th (from 0) of the response times of S in ascending order.
Kth(S, k) ==
  CHOOSE r \in {e.response : e \in S} :
    /\ Cardinality({e \in S : e.response < r}) <= k
    /\ k < Cardinality({e \in S : e.response <= r})

\* Mutant: the weight of the upper neighbour taken from the percentile.
response_percentile_OwnWeight(S, p) ==
  LET last  == Cardinality(Values(S)) - 1
      lower == (last * p) \div 100
      upper == IF lower < last THEN lower + 1 ELSE last
  IN  IF Values(S) = {} THEN NoResponse
      ELSE 100 * Kth(Values(S), lower)
             + (Kth(Values(S), upper) - Kth(Values(S), lower)) * (100 - p)

response_percentile(S, p) ==
  LET last   == Cardinality(Values(S)) - 1
      lower  == (last * p) \div 100
      upper  == IF lower < last THEN lower + 1 ELSE last
      weight == (last * p) % 100
  IN  IF Values(S) = {} THEN NoResponse
      ELSE 100 * Kth(Values(S), lower)
             + (Kth(Values(S), upper) - Kth(Values(S), lower)) * weight

(***************************************************************************)
(* timeline: annotate() comes before values(), so the rows are grouped by  *)
(* every column of an event, its primary key included.                     *)
(***************************************************************************)
timeline_rows(S) ==
  {[bucket |-> e.at - (e.at % Hour), events |-> {e}] : e \in S}

(***************************************************************************)
(* Page n of a list in the order ("-created_at", "-id").                   *)
(***************************************************************************)
\* Mutant: oldest first.
Newer_OldestFirst(a, b) == a.at < b.at \/ (a.at = b.at /\ a.id < b.id)

Newer(a, b) == a.at > b.at \/ (a.at = b.at /\ a.id > b.id)

Rank(e, S) == Cardinality({x \in S : Newer(x, e)})

\* The paginator ends a page at the count it took before.
page(S, n, count) ==
  {e \in S : /\ (n - 1) * PageSize <= Rank(e, S)
             /\ Rank(e, S) < n * PageSize /\ Rank(e, S) < count}

newest(S, n) == {e \in S : Rank(e, S) < n}
=============================================================================
