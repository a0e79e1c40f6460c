--------------------------- MODULE LiveDashboard ---------------------------
(***************************************************************************)
(* A page that keeps itself up to date: its RealtimeConnection composed    *)
(* with the consumer at the other end, the group_send that follows a       *)
(* commit, and the numbers and table rows the page counts up by itself     *)
(* (monitoring.consumers, notifications.consumers, static/js/realtime.js,  *)
(* static/js/dashboard.js, notifications.views).                           *)
(*                                                                         *)
(* A page has a connection to its project's stream and one to the user's   *)
(* notifications; kind says which one this is.  Messages lists what is     *)
(* stored meanwhile, events or notifications, in the order of their keys.  *)
(* The page has no filter: dashboard.js counts every event of the stream,  *)
(* filtered or not.                                                        *)
(*                                                                         *)
(* Abstracted: authentication (a refused handshake is Lost), the cells of  *)
(* a row, the toast, the dropdown, which lists what is in received.        *)
(***************************************************************************)
EXTENDS RealtimeConnection, Integers, Sequences

CONSTANTS
  Messages,         \* the events or notifications of the run: type and status
  Early,            \* how many of them are stored before the page at most
  ServerRows,       \* rows the view renders
  LiveRows,         \* rows updateLiveRows keeps
  BadgeMax,         \* the largest number setUnreadCount writes out (99)
  ChannelCapacity,  \* messages the channel layer holds for a consumer
  MaxFailures       \* bound on group_sends that raise

ASSUME LiveAssumption == /\ Messages \in Seq([type : STRING, status : Nat])
                         /\ Early \in 0..Len(Messages)
                         /\ ServerRows \in Nat /\ LiveRows \in Nat \ {0}
                         /\ BadgeMax \in Nat /\ ChannelCapacity \in Nat \ {0}
                         /\ MaxFailures \in Nat

\* What the server calls an error and a success; its durations play no part.
Server == INSTANCE EventQueries
            WITH Hour <- 1, Day <- 1, Week <- 1, Month <- 1, SlowThreshold <- 0, PageSize <- 1

Ids == 1..Len(Messages)

\* The text "99+".
Over == -1

VARIABLES
  kind,      \* "project" or "notification"
  stored,    \* the messages 1..stored are committed
  pending,   \* those whose group_send is still to come
  failures,  \* group_sends that raised
  read,      \* the notifications marked read since the page was rendered
  joined,    \* the sockets whose consumer is in the group
  inbox,     \* inbox[s]: what the group sent to socket s and the page has not handled
  numbers,   \* data-value of the key metrics: total, errors, successes
  badge,     \* text of the unread counter: a number or Over
  rows,      \* data-event-id of the rows of the live table, from the top
  counted,   \* what the numbers of the rendered page count (ghost)
  late,      \* of these, the ones whose group_send came after the rendering (ghost)
  received   \* what the page has handled, in order (ghost)

page   == <<numbers, badge, rows, received>>
server == <<stored, pending, failures, read>>
group  == <<joined, inbox>>
live   == <<kind, server, group, page, counted, late>>

liveVars == <<vars, live>>

ToSet(q) == {q[i] : i \in 1..Len(q)}

Front(q, n) == SubSeq(q, 1, IF Len(q) < n THEN Len(q) ELSE n)

Count(S, Test(_)) == Cardinality({m \in S : Test(Messages[m])})

(***************************************************************************)
(* dashboard.js.                                                           *)
(***************************************************************************)
isErrorEvent(m) == m.type \in {"APPLICATION_ERROR", "DATABASE_ERROR"} \/ m.status >= 400

\* Mutant: the status alone makes a success.
isSuccessEvent_StatusOnly(m) == m.status >= 200 /\ m.status < 400

isSuccessEvent(m) == ~isErrorEvent(m) /\ m.status >= 200 /\ m.status < 400

updateKpis(m) ==
  numbers' = [total     |-> numbers.total + 1,
              errors    |-> numbers.errors + (IF isErrorEvent(m) THEN 1 ELSE 0),
              successes |-> numbers.successes + (IF isSuccessEvent(m) THEN 1 ELSE 0)]

\* Mutant: a row is added for every message.
updateLiveRows_NoLookup(id) ==
  rows' = IF rows = <<>> THEN rows ELSE Front(<<id>> \o rows, LiveRows)

\* A page rendered without events has no table body; an event that has a row
\* gets no other.
updateLiveRows(id) ==
  rows' = IF rows = <<>> \/ id \in ToSet(rows) THEN rows ELSE Front(<<id>> \o rows, LiveRows)

\* getUnreadCount and setUnreadCount of realtime.js: "99+" is not a number.
Parsed == IF badge = Over THEN 0 ELSE badge

\* Mutant: the limit itself is not written out.
setUnreadCount_Sooner(n) == badge' = IF n >= BadgeMax THEN Over ELSE n

setUnreadCount(n) == badge' = IF n > BadgeMax THEN Over ELSE n

handleEvent(id) == updateKpis(Messages[id]) /\ updateLiveRows(id) /\ UNCHANGED badge

\* What is pushed is unread; that another page read it since is not heard of.
handleNotification == setUnreadCount(Parsed + 1) /\ UNCHANGED <<numbers, rows>>
-----------------------------------------------------------------------------
Newest(n) == [i \in 1..(IF n < ServerRows THEN n ELSE ServerRows) |-> n + 1 - i]

\* The view has rendered the page, its numbers from a cached answer that may
\* lack the latest events or, the badge, from a count that may have failed.
LiveInit ==
  /\ Init
  /\ kind \in {"project", "notification"}
  /\ stored \in 0..Early
  /\ pending \in SUBSET (1..stored)
  /\ failures = 0
  /\ read = {}
  /\ joined = {}
  /\ inbox = [s \in Sockets |-> <<>>]
  /\ \E n \in 0..stored :
       /\ kind = "notification" => n \in {0, stored}
       /\ counted = 1..n
       /\ numbers = IF kind = "notification" THEN [total |-> 0, errors |-> 0, successes |-> 0]
                    ELSE [total |-> n, errors |-> Count(counted, Server!error_q),
                          successes |-> Count(counted, Server!success_q)]
       /\ badge = IF kind = "project" THEN 0 ELSE n
  /\ late = pending \cap counted
  /\ rows = IF kind = "project" THEN Newest(stored) ELSE <<>>
  /\ received = <<>>

\* Mutant: the group_send does not wait for the commit.
Store_Broadcasts ==
  /\ stored < Len(Messages)
  /\ pending' = pending \cup {stored + 1}
  /\ UNCHANGED <<vars, kind, stored, failures, read, group, page, counted, late>>

\* An event or a notification is committed.
Store ==
  /\ stored < Len(Messages)
  /\ stored' = stored + 1
  /\ pending' = pending \cup {stored + 1}
  /\ UNCHANGED <<vars, kind, failures, read, group, page, counted, late>>

\* To every consumer in the group whose channel is not full.
group_send(m) ==
  inbox' = [s \in Sockets |-> IF s \in joined /\ Len(inbox[s]) < ChannelCapacity
                              THEN Append(inbox[s], m) ELSE inbox[s]]

\* The on_commit hook of an event or a notification.  When the channel layer is not
\* there, or the event is not any more, nothing is sent and nothing sends it later.
Broadcast(m) ==
  /\ m \in pending
  /\ pending' = pending \ {m}
  /\ \/ group_send(m) /\ UNCHANGED failures
     \/ /\ failures < MaxFailures
        /\ failures' = failures + 1
        /\ UNCHANGED inbox
  /\ UNCHANGED <<vars, kind, stored, read, joined, page, counted, late>>

\* Another page of the user marks a notification read.
mark_notification_read(n) ==
  /\ kind = "notification"
  /\ n \in 1..stored
  /\ n \notin read
  /\ read' = read \cup {n}
  /\ UNCHANGED <<vars, kind, stored, pending, failures, group, page, counted, late>>

mark_all_notifications_read ==
  /\ kind = "notification"
  /\ read' = 1..stored
  /\ UNCHANGED <<vars, kind, stored, pending, failures, group, page, counted, late>>

\* Mutant: the consumer greets the page with the latest message.
Join_Replays(s) ==
  /\ socket[s] = "connecting"
  /\ s \notin joined
  /\ joined' = joined \cup {s}
  /\ inbox' = IF stored > 0 THEN [inbox EXCEPT ![s] = <<stored>>] ELSE inbox
  /\ UNCHANGED <<vars, kind, server, page, counted, late>>

\* The consumer's connect(): it joins the group, then accepts.
Join(s) ==
  /\ socket[s] = "connecting"
  /\ s \notin joined
  /\ joined' = joined \cup {s}
  /\ UNCHANGED <<vars, kind, server, inbox, page, counted, late>>

\* Mutant: the handshake is accepted before the group is joined.
Accept_First(s) == Connected(s) /\ UNCHANGED live

Accept(s) == s \in joined /\ Connected(s) /\ UNCHANGED live

\* The page handles a message, which only an open socket still brings.
OnMessage(s) ==
  /\ socket[s] = "open"
  /\ inbox[s] # <<>>
  /\ inbox' = [inbox EXCEPT ![s] = Tail(@)]
  /\ received' = Append(received, Head(inbox[s]))
  /\ \/ kind = "project" /\ handleEvent(Head(inbox[s]))
     \/ kind = "notification" /\ handleNotification
  /\ UNCHANGED <<vars, kind, server, joined, counted, late>>

\* A callback of the browser.  What is on its way to a socket that it ends is
\* lost, and the consumer's disconnect() leaves the group (sooner or later: until
\* then what the group sends it goes nowhere).
Browser(A) ==
  /\ A
  /\ joined' = {s \in joined : socket'[s] \in {"connecting", "open"}}
  /\ inbox' = [s \in Sockets |-> IF s \in joined' THEN inbox[s] ELSE <<>>]
  /\ UNCHANGED <<kind, server, page, counted, late>>

LiveNext ==
  \/ Store
  \/ \E m \in Ids : Broadcast(m) \/ mark_notification_read(m)
  \/ mark_all_notifications_read
  \/ \E s \in Sockets : Join(s) \/ Accept(s) \/ OnMessage(s)
  \/ Browser(Hide) \/ Browser(Show) \/ Browser(LeaveAndStay)
  \/ Browser(Timer) \/ Browser(StrayTimer)
  \/ \E s \in Sockets : Browser(Lost(s)) \/ Browser(Closed(s))

LiveSpec == LiveInit /\ [][LiveNext]_liveVars

\* Timers fire, the consumer answers a handshake, and a socket told to close
\* does; nothing is assumed of the group or of the messages.
LiveFairSpec ==
  /\ LiveSpec
  /\ WF_liveVars(Browser(Timer))
  /\ WF_liveVars(Browser(StrayTimer))
  /\ \A s \in Sockets : /\ WF_liveVars(Join(s)) /\ WF_liveVars(Accept(s))
                        /\ WF_liveVars(Browser(Closed(s)))
-----------------------------------------------------------------------------
(* Properties.                                                             *)

LiveTypeOK ==
  /\ TypeOK
  /\ kind \in {"project", "notification"}
  /\ stored \in 0..Len(Messages)
  /\ pending \subseteq 1..stored
  /\ failures \in 0..MaxFailures
  /\ read \subseteq 1..stored
  /\ joined \subseteq Sockets
  /\ inbox \in [Sockets -> Seq(1..stored)]
  /\ numbers \in [total : Nat, errors : Nat, successes : Nat]
  /\ badge \in Nat \cup {Over}
  /\ rows \in Seq(1..stored)
  /\ counted \subseteq 1..stored
  /\ late \subseteq counted
  /\ received \in Seq(1..stored)

(***************************************************************************)
(* A page handles a message once, through any reconnections, unless a      *)
(* start() overtook a close: two sockets of one page are both in the group *)
(* and each of them counts up the same numbers.                            *)
(***************************************************************************)
HandledOnce == ~overtaken => Len(received) = Cardinality(ToSet(received))

(***************************************************************************)
(* A project page that has heard of every event shows the numbers a reload *)
(* would show, classified by the server's error_q and success_q, plus the  *)
(* events that its rendering and its stream both counted.                  *)
(***************************************************************************)
NumbersMatchAReload ==
  (kind = "project" /\ ~overtaken /\ counted \cup ToSet(received) = 1..stored) =>
    LET twice == counted \cap ToSet(received)
    IN  /\ numbers.total = stored + Cardinality(twice)
        /\ numbers.errors = Count(1..stored, Server!error_q) + Count(twice, Server!error_q)
        /\ numbers.successes =
             Count(1..stored, Server!success_q) + Count(twice, Server!success_q)

(***************************************************************************)
(* What the rendering and the stream both counted was committed before the *)
(* page was rendered and broadcast after: nothing else is counted twice.   *)
(***************************************************************************)
OnlyLateCountedTwice == counted \cap ToSet(received) \subseteq late

(***************************************************************************)
(* The unread counter of a page leaves out no unread notification the page *)
(* has heard of, until it counts past 99: after "99+" it starts at 1.  It  *)
(* may show more, what was read elsewhere or counted twice.                *)
(***************************************************************************)
BadgeCoversUnread ==
  (kind = "notification" /\ Cardinality(counted) + Len(received) <= BadgeMax) =>
    badge >= Cardinality((counted \cup ToSet(received)) \ read)

(***************************************************************************)
(* The live table never shows an event twice, although the rendering and   *)
(* the stream, or two sockets, may both bring it.                          *)
(***************************************************************************)
RowsDistinct == Len(rows) = Cardinality(ToSet(rows))

(***************************************************************************)
(* An open socket misses nothing: what is broadcast while it is open gets  *)
(* to it, unless the group_send raises or its channel is full.             *)
(***************************************************************************)
OpenMissesNothing ==
  [][\A s \in Sockets, m \in pending \ pending' :
       (socket[s] = "open" /\ failures' = failures /\ Len(inbox[s]) < ChannelCapacity)
         => m \in ToSet(inbox'[s])]_liveVars
=============================================================================
