------------------------ MODULE LiveDashboardProofs ------------------------
(***************************************************************************)
(* Proofs about LiveDashboard, for any messages, sockets and bounds.       *)
(***************************************************************************)
EXTENDS LiveDashboard, RealtimeConnectionProofs

\* The page's connection behaves as RealtimeConnection says.
LEMMA ConnectionStep == [LiveNext]_liveVars => [Next]_vars
<1> SUFFICES ASSUME [LiveNext]_liveVars PROVE [Next]_vars
  OBVIOUS
<1>1. CASE UNCHANGED liveVars
  BY <1>1 DEF liveVars
<1>2. CASE Store \/ mark_all_notifications_read
  BY <1>2 DEF Store, mark_all_notifications_read
<1>3. ASSUME NEW m \in Ids, Broadcast(m) \/ mark_notification_read(m) PROVE UNCHANGED vars
  BY <1>3 DEF Broadcast, mark_notification_read
<1>4. ASSUME NEW s \in Sockets, Join(s) \/ Accept(s) \/ OnMessage(s) PROVE [Next]_vars
  BY <1>4 DEF Join, Accept, OnMessage, Next
<1>5. CASE Browser(Hide) \/ Browser(Show) \/ Browser(LeaveAndStay)
             \/ Browser(Timer) \/ Browser(StrayTimer)
  BY <1>5 DEF Browser, Next
<1>6. ASSUME NEW s \in Sockets, Browser(Lost(s)) \/ Browser(Closed(s)) PROVE Next
  BY <1>6 DEF Browser, Next
<1> QED
  BY <1>1, <1>2, <1>3, <1>4, <1>5, <1>6 DEF LiveNext

(***************************************************************************)
(* Sequences without repetition.                                           *)
(***************************************************************************)
Distinct(q) == \A i, j \in 1..Len(q) : q[i] = q[j] => i = j

LEMMA AppendSet ==
  ASSUME NEW S, NEW q \in Seq(S), NEW x \in S
  PROVE  ToSet(Append(q, x)) = ToSet(q) \cup {x}
<1>1. Len(Append(q, x)) = Len(q) + 1 /\ Append(q, x)[Len(q) + 1] = x
        /\ \A i \in 1..Len(q) : Append(q, x)[i] = q[i]
  OBVIOUS
<1>2. ToSet(Append(q, x)) \subseteq ToSet(q) \cup {x}
  BY <1>1 DEF ToSet
<1>3. ToSet(q) \cup {x} \subseteq ToSet(Append(q, x))
  BY <1>1 DEF ToSet
<1> QED
  BY <1>2, <1>3

LEMMA AppendDistinct ==
  ASSUME NEW S, NEW q \in Seq(S), NEW x \in S, Distinct(q), x \notin ToSet(q)
  PROVE  Distinct(Append(q, x))
<1>1. Len(Append(q, x)) = Len(q) + 1 /\ Append(q, x)[Len(q) + 1] = x
        /\ \A i \in 1..Len(q) : Append(q, x)[i] = q[i]
  OBVIOUS
<1> QED
  BY <1>1 DEF Distinct, ToSet

LEMMA TailSet ==
  ASSUME NEW S, NEW q \in Seq(S), q # <<>>
  PROVE  /\ ToSet(Tail(q)) \subseteq ToSet(q)
         /\ Head(q) \in ToSet(q)
         /\ Distinct(q) => Distinct(Tail(q)) /\ Head(q) \notin ToSet(Tail(q))
<1>1. Len(Tail(q)) = Len(q) - 1 /\ Head(q) = q[1] /\ Len(q) \in Nat \ {0}
        /\ \A i \in 1..(Len(q) - 1) : Tail(q)[i] = q[i + 1]
  OBVIOUS
<1>2. ToSet(Tail(q)) \subseteq ToSet(q)
  BY <1>1 DEF ToSet
<1>3. Head(q) \in ToSet(q)
  BY <1>1 DEF ToSet
<1>4. ASSUME Distinct(q) PROVE Distinct(Tail(q))
  <2> SUFFICES ASSUME NEW i \in 1..Len(Tail(q)), NEW j \in 1..Len(Tail(q)), Tail(q)[i] = Tail(q)[j]
               PROVE  i = j
    BY DEF Distinct
  <2>1. i + 1 \in 1..Len(q) /\ j + 1 \in 1..Len(q) /\ q[i + 1] = q[j + 1]
    BY <1>1
  <2> QED
    BY <1>4, <2>1 DEF Distinct
<1>5. ASSUME Distinct(q) PROVE Head(q) \notin ToSet(Tail(q))
  <2> SUFFICES ASSUME NEW i \in 1..Len(Tail(q)), Tail(q)[i] = q[1] PROVE FALSE
    BY <1>1 DEF ToSet
  <2>1. i + 1 \in 1..Len(q) /\ 1 \in 1..Len(q) /\ q[i + 1] = q[1] /\ i + 1 # 1
    BY <1>1
  <2> QED
    BY <1>5, <2>1 DEF Distinct
<1> QED
  BY <1>2, <1>3, <1>4, <1>5

LEMMA DistinctCardinality ==
  ASSUME NEW S, NEW q \in Seq(S), Distinct(q)
  PROVE  Cardinality(ToSet(q)) = Len(q)
<1> DEFINE f == [i \in 1..Len(q) |-> q[i]]
<1>1. f \in Bijection(1..Len(q), ToSet(q))
  BY DEF ToSet, Distinct, Bijection, Injection, Surjection, IsInjective
<1>2. ExistsBijection(1..Len(q), ToSet(q))
  BY <1>1 DEF ExistsBijection
<1> QED
  BY <1>2, FS_CountingElements

LEMMA HeadTail ==
  ASSUME NEW S, NEW q \in Seq(S), q # <<>>
  PROVE  Head(q) \in S /\ Tail(q) \in Seq(S)
OBVIOUS

LEMMA ElementType ==
  ASSUME NEW S, NEW q \in Seq(S), NEW i \in 1..Len(q)
  PROVE  q[i] \in S
OBVIOUS

LEMMA SeqGrows ==
  ASSUME NEW a \in Nat, NEW b \in Nat, a <= b, NEW q \in Seq(1..a)
  PROVE  q \in Seq(1..b)
OBVIOUS

LEMMA FrontSeq ==
  ASSUME NEW S, NEW q \in Seq(S), NEW n \in Nat
  PROVE  /\ Front(q, n) \in Seq(S)
         /\ Len(Front(q, n)) \in Nat /\ Len(Front(q, n)) <= Len(q)
         /\ \A i \in 1..Len(Front(q, n)) : Front(q, n)[i] = q[i]
BY DEF Front

LEMMA PushSeq ==
  ASSUME NEW S, NEW q \in Seq(S), NEW x \in S
  PROVE  /\ <<x>> \o q \in Seq(S)
         /\ Len(<<x>> \o q) = Len(q) + 1
         /\ (<<x>> \o q)[1] = x
         /\ \A i \in 2..(Len(q) + 1) : (<<x>> \o q)[i] = q[i - 1]
OBVIOUS

\* Adding a row that is not there, and dropping the oldest.
LEMMA PushDistinct ==
  ASSUME NEW S, NEW q \in Seq(S), NEW x \in S, NEW n \in Nat, Distinct(q), x \notin ToSet(q)
  PROVE  Distinct(Front(<<x>> \o q, n))
<1> DEFINE p == <<x>> \o q
<1>1. /\ p \in Seq(S) /\ Len(p) = Len(q) + 1 /\ p[1] = x
      /\ \A i \in 2..(Len(q) + 1) : p[i] = q[i - 1]
  BY PushSeq
<1> HIDE DEF p
<1>2. /\ Len(Front(p, n)) \in Nat /\ Len(Front(p, n)) <= Len(p)
      /\ \A i \in 1..Len(Front(p, n)) : Front(p, n)[i] = p[i]
  BY <1>1, FrontSeq
<1>3. \A i, j \in 1..Len(p) : p[i] = p[j] => i = j
  <2> SUFFICES ASSUME NEW i \in 1..Len(p), NEW j \in 1..Len(p), p[i] = p[j], i < j
               PROVE  FALSE
    BY <1>1
  <2>1. j - 1 \in 1..Len(q) /\ p[j] = q[j - 1]
    BY <1>1
  <2>2. CASE i = 1
    BY <1>1, <2>1, <2>2 DEF ToSet
  <2>3. CASE i # 1
    <3>1. i - 1 \in 1..Len(q) /\ p[i] = q[i - 1]
      BY <1>1, <2>3
    <3> QED
      BY <2>1, <3>1 DEF Distinct
  <2> QED
    BY <2>2, <2>3
<1>4. Distinct(Front(p, n))
  BY <1>1, <1>2, <1>3 DEF Distinct
<1> QED
  BY <1>4 DEF p

LEMMA SetBound ==
  ASSUME NEW S, NEW q \in Seq(S)
  PROVE  IsFiniteSet(ToSet(q)) /\ Cardinality(ToSet(q)) <= Len(q)
<1> DEFINE f == [i \in 1..Len(q) |-> q[i]]
<1>1. f \in Surjection(1..Len(q), ToSet(q))
  BY DEF ToSet, Surjection
<1>2. Len(q) \in Nat /\ IsFiniteSet(1..Len(q)) /\ Cardinality(1..Len(q)) = Len(q)
  <2>1. Len(q) \in Nat
    OBVIOUS
  <2> QED
    BY <2>1, FS_Interval
<1> HIDE DEF f
<1> QED
  BY <1>1, <1>2, FS_Surjection

(***************************************************************************)
(* Types.                                                                  *)
(***************************************************************************)
LEMMA NewestSeq ==
  ASSUME NEW n \in Nat
  PROVE  Newest(n) \in Seq(1..n) /\ Distinct(Newest(n))
<1> DEFINE k == IF n < ServerRows THEN n ELSE ServerRows
<1>1. k \in Nat /\ k <= n
  BY LiveAssumption
<1>2. Newest(n) = [i \in 1..k |-> n + 1 - i]
  BY DEF Newest
<1> HIDE DEF k
<1>3. \A i \in 1..k : n + 1 - i \in 1..n
  BY <1>1
<1>4. Newest(n) \in Seq(1..n) /\ Len(Newest(n)) = k
  BY <1>1, <1>2, <1>3
<1>5. Distinct(Newest(n))
  BY <1>1, <1>2, <1>4 DEF Distinct
<1> QED
  BY <1>4, <1>5

LEMMA LiveTypeInit == LiveInit => LiveTypeOK
<1> SUFFICES ASSUME LiveInit PROVE LiveTypeOK
  OBVIOUS
<1>1. TypeOK
  BY InitIInv DEF LiveInit, IInv
<1>2. stored \in 0..Len(Messages) /\ stored \in Nat /\ Len(Messages) \in Nat
  BY LiveAssumption DEF LiveInit
<1>3. PICK n \in 0..stored :
        /\ counted = 1..n
        /\ numbers = IF kind = "notification" THEN [total |-> 0, errors |-> 0, successes |-> 0]
                     ELSE [total |-> n, errors |-> Count(counted, Server!error_q),
                           successes |-> Count(counted, Server!success_q)]
        /\ badge = IF kind = "project" THEN 0 ELSE n
  BY DEF LiveInit
<1>4. n \in Nat /\ counted \subseteq 1..stored
  BY <1>2, <1>3
<1>5. Count(1..n, Server!error_q) \in Nat
  <2>1. IsFiniteSet({m \in 1..n : Server!error_q(Messages[m])})
    BY <1>4, FS_Interval, FS_Subset
  <2> QED
    BY <2>1, FS_CardinalityType DEF Count
<1>6. Count(1..n, Server!success_q) \in Nat
  <2>1. IsFiniteSet({m \in 1..n : Server!success_q(Messages[m])})
    BY <1>4, FS_Interval, FS_Subset
  <2> QED
    BY <2>1, FS_CardinalityType DEF Count
<1>7. numbers \in [total : Nat, errors : Nat, successes : Nat] /\ badge \in Nat
  BY <1>3, <1>4, <1>5, <1>6
<1>8. rows \in Seq(1..stored)
  <2>1. Newest(stored) \in Seq(1..stored)
    BY <1>2, NewestSeq
  <2>2. rows = Newest(stored) \/ rows = <<>>
    BY DEF LiveInit
  <2>3. CASE rows = <<>>
    BY <2>3
  <2> QED
    BY <2>1, <2>2, <2>3
<1>9. failures \in 0..MaxFailures /\ inbox \in [Sockets -> Seq(1..stored)]
  BY LiveAssumption DEF LiveInit
<1> QED
  BY <1>1, <1>2, <1>4, <1>7, <1>8, <1>9 DEF LiveInit, LiveTypeOK

LEMMA HandleType ==
  ASSUME LiveTypeOK, NEW id \in 1..stored, id \in Ids,
         \/ kind = "project" /\ handleEvent(id)
         \/ kind = "notification" /\ handleNotification
  PROVE  /\ numbers' \in [total : Nat, errors : Nat, successes : Nat]
         /\ badge' \in Nat \cup {Over}
         /\ rows' \in Seq(1..stored)
<1>1. numbers.total \in Nat /\ numbers.errors \in Nat /\ numbers.successes \in Nat
  BY DEF LiveTypeOK
<1>2. CASE handleEvent(id)
  <2>1. numbers' \in [total : Nat, errors : Nat, successes : Nat]
    BY <1>1, <1>2 DEF handleEvent, updateKpis
  <2>2. rows' \in Seq(1..stored)
    <3>1. <<id>> \o rows \in Seq(1..stored)
      BY PushSeq DEF LiveTypeOK
    <3>2. Front(<<id>> \o rows, LiveRows) \in Seq(1..stored)
      BY <3>1, FrontSeq, LiveAssumption
    <3> QED
      BY <1>2, <3>2 DEF handleEvent, updateLiveRows, LiveTypeOK
  <2> QED
    BY <1>2, <2>1, <2>2 DEF handleEvent, LiveTypeOK
<1>3. CASE handleNotification
  <2>1. Parsed \in Nat
    BY DEF Parsed, LiveTypeOK
  <2> QED
    BY <1>3, <2>1 DEF handleNotification, setUnreadCount, LiveTypeOK
<1> QED
  BY <1>2, <1>3

LEMMA LiveTypeStep == LiveTypeOK /\ IInv /\ [LiveNext]_liveVars => LiveTypeOK'
<1> SUFFICES ASSUME LiveTypeOK, IInv, [LiveNext]_liveVars PROVE LiveTypeOK'
  OBVIOUS
<1>0. TypeOK'
  BY ConnectionStep, StepIInv DEF IInv
<1>a. stored \in Nat /\ Len(Messages) \in Nat
  BY LiveAssumption DEF LiveTypeOK
<1>1. CASE UNCHANGED liveVars
  BY <1>0, <1>1 DEF liveVars, live, server, group, page, LiveTypeOK
<1>2. CASE Store
  <2>1. stored' \in 0..Len(Messages) /\ stored' = stored + 1 /\ stored' \in Nat
    BY <1>2, <1>a DEF Store
  <2>2. 1..stored \subseteq 1..stored'
    BY <1>a, <2>1
  <2>3. inbox' \in [Sockets -> Seq(1..stored')]
    BY <1>2, <1>a, <2>1, SeqGrows DEF Store, group, LiveTypeOK
  <2>4. rows' \in Seq(1..stored') /\ received' \in Seq(1..stored')
    BY <1>2, <1>a, <2>1, SeqGrows DEF Store, page, LiveTypeOK
  <2>5. pending' \subseteq 1..stored'
    BY <1>2, <1>a, <2>1, <2>2 DEF Store, LiveTypeOK
  <2> QED
    BY <1>0, <1>2, <2>1, <2>2, <2>3, <2>4, <2>5 DEF Store, group, page, LiveTypeOK
<1>3. ASSUME NEW m \in Ids, Broadcast(m) PROVE LiveTypeOK'
  <2>1. inbox' \in [Sockets -> Seq(1..stored)]
    <3>1. ASSUME NEW s \in Sockets PROVE Append(inbox[s], m) \in Seq(1..stored)
      BY <1>3 DEF Broadcast, LiveTypeOK
    <3> QED
      BY <1>3, <3>1 DEF Broadcast, group_send, LiveTypeOK
  <2>2. failures' \in 0..MaxFailures
    BY <1>3, LiveAssumption DEF Broadcast, LiveTypeOK
  <2> QED
    BY <1>0, <1>3, <2>1, <2>2 DEF Broadcast, page, LiveTypeOK
<1>4. ASSUME NEW m \in Ids, mark_notification_read(m) PROVE LiveTypeOK'
  BY <1>0, <1>4 DEF mark_notification_read, group, page, LiveTypeOK
<1>5. CASE mark_all_notifications_read
  BY <1>0, <1>5 DEF mark_all_notifications_read, group, page, LiveTypeOK
<1>6. ASSUME NEW s \in Sockets, Join(s) PROVE LiveTypeOK'
  BY <1>0, <1>6 DEF Join, server, page, LiveTypeOK
<1>7. ASSUME NEW s \in Sockets, Accept(s) PROVE LiveTypeOK'
  BY <1>0, <1>7 DEF Accept, live, server, group, page, LiveTypeOK
<1>8. ASSUME NEW s \in Sockets, OnMessage(s) PROVE LiveTypeOK'
  <2>1. inbox[s] \in Seq(1..stored) /\ inbox[s] # <<>>
    BY <1>8 DEF OnMessage, LiveTypeOK
  <2>2. Head(inbox[s]) \in 1..stored /\ Tail(inbox[s]) \in Seq(1..stored)
    BY <2>1, HeadTail
  <2>3. Head(inbox[s]) \in Ids
    BY <2>2, <1>a DEF Ids, LiveTypeOK
  <2>4. /\ numbers' \in [total : Nat, errors : Nat, successes : Nat]
        /\ badge' \in Nat \cup {Over}
        /\ rows' \in Seq(1..stored)
    BY <1>8, <2>2, <2>3, HandleType DEF OnMessage
  <2>5. inbox' \in [Sockets -> Seq(1..stored)] /\ received' \in Seq(1..stored)
    BY <1>8, <2>2 DEF OnMessage, LiveTypeOK
  <2> QED
    BY <1>0, <1>8, <2>4, <2>5 DEF OnMessage, server, LiveTypeOK
<1>9. ASSUME joined' = {s \in joined : socket'[s] \in {"connecting", "open"}},
             inbox' = [s \in Sockets |-> IF s \in joined' THEN inbox[s] ELSE <<>>],
             UNCHANGED <<kind, server, page, counted, late>>
      PROVE  LiveTypeOK'
  <2>1. inbox' \in [Sockets -> Seq(1..stored)]
    <3>1. ASSUME NEW s \in Sockets
          PROVE  (IF s \in joined' THEN inbox[s] ELSE <<>>) \in Seq(1..stored)
      <4>1. inbox[s] \in Seq(1..stored) /\ <<>> \in Seq(1..stored)
        BY DEF LiveTypeOK
      <4> QED
        BY <4>1
    <3> QED
      BY <1>9, <3>1
  <2> QED
    BY <1>0, <1>9, <2>1 DEF server, page, LiveTypeOK
<1> QED
  BY <1>1, <1>2, <1>3, <1>4, <1>5, <1>6, <1>7, <1>8, <1>9 DEF LiveNext, Browser

\* What a callback of the browser does to the stream: the group loses the sockets
\* that ended and gains none.
Callback ==
  /\ joined' = {s \in joined : socket'[s] \in {"connecting", "open"}}
  /\ inbox' = [s \in Sockets |-> IF s \in joined' THEN inbox[s] ELSE <<>>]
  /\ \A s \in Sockets : socket'[s] = "open" => socket[s] = "open"
  /\ overtaken => overtaken'
  /\ UNCHANGED <<kind, server, page, counted, late>>

LEMMA NoneOpens ==
  ASSUME TypeOK, Stop \/ OpenSocket \/ (\E r \in Sockets : OnClose(r)),
         NEW s \in Sockets, socket'[s] = "open"
  PROVE  socket[s] = "open"
BY DEF TypeOK, Stop, OpenSocket, NewSocket, OnClose

LEMMA BrowserCallback ==
  ASSUME TypeOK,
         \/ Browser(Hide) \/ Browser(Show) \/ Browser(LeaveAndStay)
         \/ Browser(Timer) \/ Browser(StrayTimer)
         \/ \E s \in Sockets : Browser(Lost(s)) \/ Browser(Closed(s))
  PROVE  Callback
<1>1. CASE Browser(Hide) \/ Browser(LeaveAndStay)
  BY <1>1, NoneOpens DEF Browser, Hide, LeaveAndStay, Callback
<1>2. CASE Browser(Show) \/ Browser(Timer) \/ Browser(StrayTimer)
  <2>1. ASSUME NEW s \in Sockets, socket'[s] = "open" PROVE socket[s] = "open"
    BY <1>2, <2>1, NoneOpens DEF Browser, Show, Timer, StrayTimer
  <2>2. overtaken => overtaken'
    BY <1>2 DEF Browser, Show, Timer, StrayTimer
  <2> QED
    BY <1>2, <2>1, <2>2 DEF Browser, Callback
<1>3. ASSUME NEW r \in Sockets, Browser(Lost(r)) \/ Browser(Closed(r)) PROVE Callback
  BY <1>3, NoneOpens DEF Browser, Lost, Closed, Callback
<1> QED
  BY <1>1, <1>2, <1>3

(***************************************************************************)
(* The group holds every open socket, no socket that has ended, and sends  *)
(* to nobody else; what the rendering counted comes to the page again only *)
(* when it was broadcast after the rendering; no event has two rows.       *)
(***************************************************************************)
Members ==
  \A s \in Sockets : /\ s \in joined => Live(s)
                     /\ socket[s] = "open" => s \in joined
                     /\ inbox[s] # <<>> => s \in joined

OnlyLate ==
  \A m \in counted :
    (m \in pending \/ m \in ToSet(received) \/ \E s \in Sockets : m \in ToSet(inbox[s]))
      => m \in late

StreamInv == Members /\ OnlyLate /\ Distinct(rows)

LEMMA EmptySeq == ToSet(<<>>) = {} /\ Distinct(<<>>)
BY DEF ToSet, Distinct

LEMMA InitStream == LiveInit => StreamInv
<1> SUFFICES ASSUME LiveInit PROVE StreamInv
  OBVIOUS
<1>1. Members
  BY DEF LiveInit, Init, Members
<1>2. OnlyLate
  BY EmptySeq DEF LiveInit, OnlyLate
<1>3. Distinct(rows)
  <2>1. Distinct(Newest(stored))
    BY NewestSeq, LiveAssumption DEF LiveInit
  <2> QED
    BY <2>1, EmptySeq DEF LiveInit
<1> QED
  BY <1>1, <1>2, <1>3 DEF StreamInv

\* What group_send adds to what a socket is still to bring.
LEMMA Sent ==
  ASSUME LiveTypeOK, NEW m \in 1..stored, group_send(m), NEW s \in Sockets
  PROVE  ToSet(inbox'[s]) \subseteq ToSet(inbox[s]) \cup {m}
<1>1. inbox[s] \in Seq(1..stored) /\ m \in 1..stored
  BY DEF LiveTypeOK
<1>2. ToSet(Append(inbox[s], m)) = ToSet(inbox[s]) \cup {m}
  <2> DEFINE S == 1..stored
  <2>1. inbox[s] \in Seq(S) /\ m \in S
    BY <1>1
  <2> HIDE DEF S
  <2> QED
    BY <2>1, AppendSet
<1> QED
  BY <1>2 DEF group_send

LEMMA StepStream == LiveTypeOK /\ StreamInv /\ [LiveNext]_liveVars => StreamInv'
<1> SUFFICES ASSUME LiveTypeOK, StreamInv, [LiveNext]_liveVars PROVE StreamInv'
  OBVIOUS
<1>a. TypeOK /\ Members /\ OnlyLate /\ Distinct(rows)
  BY DEF LiveTypeOK, StreamInv
<1>1. CASE UNCHANGED liveVars
  BY <1>a, <1>1 DEF liveVars, vars, live, server, group, page, StreamInv, Members, OnlyLate, Live
<1>2. CASE Store
  <2>1. OnlyLate'
    <3>1. stored + 1 \notin counted
      BY LiveAssumption DEF LiveTypeOK
    <3> QED
      BY <1>a, <1>2, <3>1 DEF Store, group, page, OnlyLate
  <2> QED
    BY <1>a, <1>2, <2>1 DEF Store, vars, group, page, StreamInv, Members, Live
<1>3. ASSUME NEW m \in Ids, Broadcast(m) PROVE StreamInv'
  <2>0. m \in 1..stored
    BY <1>3 DEF Broadcast, LiveTypeOK
  <2>1. Members'
    BY <1>a, <1>3 DEF Broadcast, group_send, vars, Members, Live
  <2>2. OnlyLate'
    <3>1. ASSUME NEW s \in Sockets PROVE ToSet(inbox'[s]) \subseteq ToSet(inbox[s]) \cup {m}
      BY <1>3, <2>0, Sent DEF Broadcast
    <3> QED
      BY <1>a, <1>3, <3>1 DEF Broadcast, page, OnlyLate
  <2> QED
    BY <1>a, <1>3, <2>1, <2>2 DEF Broadcast, page, StreamInv
<1>4. CASE mark_all_notifications_read \/ \E m \in Ids : mark_notification_read(m)
  BY <1>a, <1>4 DEF mark_notification_read, mark_all_notifications_read, vars, group, page,
                    StreamInv, Members, OnlyLate, Live
<1>5. ASSUME NEW s \in Sockets, Join(s) PROVE StreamInv'
  BY <1>a, <1>5 DEF Join, vars, server, page, StreamInv, Members, OnlyLate, Live
<1>6. ASSUME NEW s \in Sockets, Accept(s) PROVE StreamInv'
  BY <1>a, <1>6 DEF Accept, Connected, TypeOK, live, server, group, page, StreamInv, Members,
                    OnlyLate, Live
<1>7. ASSUME NEW s \in Sockets, OnMessage(s) PROVE StreamInv'
  <2> DEFINE m == Head(inbox[s])
  <2>0. inbox[s] \in Seq(1..stored) /\ inbox[s] # <<>> /\ received \in Seq(1..stored)
    BY <1>7 DEF OnMessage, LiveTypeOK
  <2>1. /\ ToSet(Tail(inbox[s])) \subseteq ToSet(inbox[s])
        /\ m \in ToSet(inbox[s]) /\ m \in 1..stored
    BY <2>0, TailSet, HeadTail
  <2>2. ToSet(received') = ToSet(received) \cup {m}
    BY <1>7, <2>0, <2>1, AppendSet DEF OnMessage
  <2>3. \A r \in Sockets : inbox'[r] = IF r = s THEN Tail(inbox[s]) ELSE inbox[r]
    BY <1>7 DEF OnMessage, LiveTypeOK
  <2> HIDE DEF m
  <2>4. Members'
    BY <1>a, <1>7, <2>0, <2>3 DEF OnMessage, vars, Members, Live
  <2>5. OnlyLate'
    BY <1>a, <1>7, <2>1, <2>2, <2>3 DEF OnMessage, server, OnlyLate
  <2>6. Distinct(rows')
    <3>1. CASE handleEvent(m)
      <4>1. rows \in Seq(1..stored) /\ LiveRows \in Nat
        BY LiveAssumption DEF LiveTypeOK
      <4>2. m \notin ToSet(rows) => Distinct(Front(<<m>> \o rows, LiveRows))
        BY <1>a, <2>1, <4>1, PushDistinct
      <4> QED
        BY <1>a, <3>1, <4>2 DEF handleEvent, updateLiveRows
    <3>2. CASE handleNotification
      BY <1>a, <3>2 DEF handleNotification
    <3> QED
      BY <1>7, <3>1, <3>2 DEF OnMessage, m
  <2> QED
    BY <2>4, <2>5, <2>6 DEF StreamInv
<1>8. CASE Callback
  <2>1. Members'
    BY <1>a, <1>8 DEF Callback, Members, Live
  <2>2. OnlyLate'
    <3>1. ASSUME NEW r \in Sockets PROVE ToSet(inbox'[r]) \subseteq ToSet(inbox[r])
      BY <1>8, EmptySeq DEF Callback
    <3> QED
      BY <1>a, <1>8, <3>1 DEF Callback, server, page, OnlyLate
  <2> QED
    BY <1>a, <1>8, <2>1, <2>2 DEF Callback, page, StreamInv
<1> QED
  BY <1>a, <1>1, <1>2, <1>3, <1>4, <1>5, <1>6, <1>7, <1>8, BrowserCallback DEF LiveNext

(***************************************************************************)
(* Until a start() overtakes a close, a message is still to be broadcast,  *)
(* on its way to the one socket there is, or handled, and only one of the  *)
(* three.                                                                  *)
(***************************************************************************)
OneCopy ==
  /\ Distinct(received)
  /\ \A m \in pending : m \notin ToSet(received)
  /\ \A s \in Sockets : Distinct(inbox[s])
  /\ \A s \in Sockets : \A m \in ToSet(inbox[s]) : m \notin pending /\ m \notin ToSet(received)

OnceInv == ~overtaken => OneCopy

LEMMA InitOnce == LiveInit => OnceInv
BY EmptySeq DEF LiveInit, OnceInv, OneCopy

LEMMA OneReader ==
  ASSUME IInv, Members, ~overtaken, NEW r \in Sockets, NEW s \in Sockets,
         inbox[r] # <<>>, inbox[s] # <<>>
  PROVE  r = s
BY DEF IInv, NothingOvertaken, LiveIsCurrent, Members

LEMMA StepOnce ==
  LiveTypeOK /\ IInv /\ StreamInv /\ OnceInv /\ [LiveNext]_liveVars => OnceInv'
<1> SUFFICES ASSUME LiveTypeOK, IInv, StreamInv, OnceInv, [LiveNext]_liveVars, ~overtaken'
             PROVE  OneCopy'
  BY DEF OnceInv
<1>a. TypeOK /\ Members
  BY DEF LiveTypeOK, StreamInv
<1>b. ASSUME ~overtaken PROVE OneCopy
  BY <1>b DEF OnceInv
<1>1. CASE UNCHANGED liveVars
  BY <1>b, <1>1 DEF liveVars, vars, live, server, group, page, OneCopy
<1>2. CASE Store
  <2>1. OneCopy
    BY <1>b, <1>2 DEF Store, vars
  <2>2. stored \in Nat /\ received \in Seq(1..stored) /\ inbox \in [Sockets -> Seq(1..stored)]
    BY LiveAssumption DEF LiveTypeOK
  <2>3. stored + 1 \notin ToSet(received)
    BY <2>2 DEF ToSet
  <2>4. \A s \in Sockets : stored + 1 \notin ToSet(inbox[s])
    BY <2>2 DEF ToSet
  <2> QED
    BY <1>2, <2>1, <2>3, <2>4 DEF Store, group, page, OneCopy
<1>3. ASSUME NEW m \in Ids, Broadcast(m) PROVE OneCopy'
  <2>0. m \in 1..stored /\ m \in pending
    BY <1>3 DEF Broadcast, LiveTypeOK
  <2>1. OneCopy
    BY <1>b, <1>3 DEF Broadcast, vars
  <2>2. ASSUME NEW s \in Sockets
        PROVE  ToSet(inbox'[s]) \subseteq ToSet(inbox[s]) \cup {m} /\ Distinct(inbox'[s])
    <3>1. CASE group_send(m)
      <4> DEFINE S == 1..stored
      <4>1. inbox[s] \in Seq(S) /\ m \in S
        BY <2>0 DEF LiveTypeOK
      <4>2. m \notin ToSet(inbox[s]) /\ Distinct(inbox[s])
        BY <2>0, <2>1 DEF OneCopy
      <4> HIDE DEF S
      <4>3. Distinct(Append(inbox[s], m))
        BY <4>1, <4>2, AppendDistinct
      <4> QED
        BY <2>0, <3>1, <4>2, <4>3, Sent DEF group_send
    <3>2. CASE UNCHANGED inbox
      BY <2>1, <3>2 DEF OneCopy
    <3> QED
      BY <1>3, <3>1, <3>2 DEF Broadcast
  <2> QED
    BY <1>3, <2>0, <2>1, <2>2 DEF Broadcast, page, OneCopy
<1>4. CASE mark_all_notifications_read \/ \E m \in Ids : mark_notification_read(m)
  BY <1>b, <1>4 DEF mark_notification_read, mark_all_notifications_read, vars, group, page, OneCopy
<1>5. ASSUME NEW s \in Sockets, Join(s) \/ Accept(s) PROVE OneCopy'
  BY <1>b, <1>5 DEF Join, Accept, Connected, vars, live, server, group, page, OneCopy
<1>6. ASSUME NEW s \in Sockets, OnMessage(s) PROVE OneCopy'
  <2> DEFINE m == Head(inbox[s])
             S == 1..stored
  <2>0. inbox[s] \in Seq(S) /\ inbox[s] # <<>> /\ received \in Seq(S)
    BY <1>6 DEF OnMessage, LiveTypeOK
  <2>1. OneCopy /\ ~overtaken
    BY <1>b, <1>6 DEF OnMessage, vars
  <2> HIDE DEF S
  <2>2. /\ ToSet(Tail(inbox[s])) \subseteq ToSet(inbox[s])
        /\ m \in ToSet(inbox[s]) /\ m \in S
        /\ Distinct(Tail(inbox[s])) /\ m \notin ToSet(Tail(inbox[s]))
    BY <2>0, <2>1, TailSet, HeadTail DEF OneCopy
  <2>3. m \notin ToSet(received) /\ m \notin pending /\ Distinct(received)
    BY <2>1, <2>2 DEF OneCopy
  <2> HIDE DEF m
  <2>4. received' = Append(received, m) /\ pending' = pending
    BY <1>6 DEF OnMessage, server, m
  <2>5. ToSet(received') = ToSet(received) \cup {m} /\ Distinct(received')
    BY <2>0, <2>2, <2>3, <2>4, AppendSet, AppendDistinct
  <2>6. \A r \in Sockets : inbox'[r] = IF r = s THEN Tail(inbox[s]) ELSE inbox[r]
    BY <1>6 DEF OnMessage, LiveTypeOK
  <2>7. \A r \in Sockets : r # s => inbox[r] = <<>>
    BY <1>a, <2>0, <2>1, OneReader
  <2> QED
    BY <2>1, <2>2, <2>3, <2>4, <2>5, <2>6, <2>7, EmptySeq DEF OneCopy
<1>7. CASE Callback
  <2>1. OneCopy
    BY <1>b, <1>7 DEF Callback
  <2>2. ASSUME NEW r \in Sockets
        PROVE  ToSet(inbox'[r]) \subseteq ToSet(inbox[r]) /\ Distinct(inbox'[r])
    BY <1>7, <2>1, EmptySeq DEF Callback, OneCopy
  <2> QED
    BY <1>7, <2>1, <2>2 DEF Callback, server, page, OneCopy
<1> QED
  BY <1>a, <1>1, <1>2, <1>3, <1>4, <1>5, <1>6, <1>7, BrowserCallback DEF LiveNext

(***************************************************************************)
(* Numbers.                                                                *)
(***************************************************************************)

\* dashboard.js and analytics.services agree on what is an error and what a success.
LEMMA SameClasses ==
  ASSUME NEW m \in [type : STRING, status : Nat]
  PROVE  /\ isErrorEvent(m) <=> Server!error_q(m)
         /\ isSuccessEvent(m) <=> Server!success_q(m)
BY DEF isErrorEvent, isSuccessEvent, Server!error_q, Server!success_q, Server!ERROR_EVENT_TYPES

Errors == {m \in Ids : Server!error_q(Messages[m])}

Successes == {m \in Ids : Server!success_q(Messages[m])}

Handled == ToSet(received)

LEMMA CountAsErrors ==
  ASSUME NEW S \in SUBSET Ids
  PROVE  /\ Count(S, Server!error_q) = Cardinality(S \cap Errors)
         /\ Count(S, Server!success_q) = Cardinality(S \cap Successes)
<1>1. {m \in S : Server!error_q(Messages[m])} = S \cap Errors
  BY DEF Errors
<1>2. {m \in S : Server!success_q(Messages[m])} = S \cap Successes
  BY DEF Successes
<1> QED
  BY <1>1, <1>2 DEF Count

LEMMA AddOne ==
  ASSUME NEW S, IsFiniteSet(S), NEW K, NEW x, x \notin S
  PROVE  /\ x \in K => Cardinality((S \cup {x}) \cap K) = Cardinality(S \cap K) + 1
         /\ x \notin K => Cardinality((S \cup {x}) \cap K) = Cardinality(S \cap K)
<1>1. ASSUME x \in K
      PROVE  Cardinality((S \cup {x}) \cap K) = Cardinality(S \cap K) + 1
  <2> DEFINE T == S \cap K
  <2>1. (S \cup {x}) \cap K = T \cup {x}
    BY <1>1
  <2>2. x \notin T /\ IsFiniteSet(T)
    BY FS_Intersection
  <2> HIDE DEF T
  <2>3. Cardinality(T \cup {x}) = Cardinality(T) + 1
    BY <2>2, FS_AddElement
  <2> QED
    BY <2>1, <2>3, Zenon DEF T
<1>2. ASSUME x \notin K
      PROVE  (S \cup {x}) \cap K = S \cap K
  BY <1>2
<1> QED
  BY <1>1, <1>2, Zenon

\* How many of S are in K.
Within(S, K) == Cardinality(S \cap K)

LEMMA BothCounts ==
  ASSUME NEW A, IsFiniteSet(A), NEW B, IsFiniteSet(B), NEW K,
         NEW U, U = A \cup B, NEW D, D = A \cap B
  PROVE  Within(A, K) + Within(B, K) = Within(U, K) + Within(D, K)
<1> DEFINE AK == A \cap K
           BK == B \cap K
<1>1. IsFiniteSet(AK) /\ IsFiniteSet(BK)
  BY FS_Intersection
<1>2. AK \cup BK = U \cap K /\ AK \cap BK = D \cap K
  OBVIOUS
<1>3. Cardinality(AK) \in Nat /\ Cardinality(BK) \in Nat
  BY <1>1, FS_CardinalityType
<1>4. IsFiniteSet(AK \cap BK) /\ IsFiniteSet(AK \cup BK)
  BY <1>1, FS_Intersection, FS_Union
<1>5. Cardinality(AK \cap BK) \in Nat /\ Cardinality(AK \cup BK) \in Nat
  BY <1>4, FS_CardinalityType
<1>6. Cardinality(AK \cup BK) = Cardinality(AK) + Cardinality(BK) - Cardinality(AK \cap BK)
  BY <1>1, FS_Union
<1> HIDE DEF AK, BK
<1>7. Cardinality(AK) + Cardinality(BK) = Cardinality(AK \cup BK) + Cardinality(AK \cap BK)
  BY <1>3, <1>5, <1>6
<1> QED
  BY <1>2, <1>7, Zenon DEF AK, BK, Within

(***************************************************************************)
(* The numbers of a project page count the rendering's events and the      *)
(* handled ones; the badge counts notifications until it is past 99.       *)
(***************************************************************************)
NumbersAdd ==
  (kind = "project" /\ ~overtaken) =>
    /\ numbers.total = Cardinality(counted) + Cardinality(Handled)
    /\ numbers.errors = Cardinality(counted \cap Errors) + Cardinality(Handled \cap Errors)
    /\ numbers.successes
         = Cardinality(counted \cap Successes) + Cardinality(Handled \cap Successes)

BadgeCounts ==
  (kind = "notification" /\ Cardinality(counted) + Len(received) <= BadgeMax) =>
    badge = Cardinality(counted) + Len(received)

LEMMA FinitePage ==
  ASSUME LiveTypeOK
  PROVE  /\ stored \in Nat /\ 1..stored \subseteq Ids
         /\ IsFiniteSet(1..stored) /\ Cardinality(1..stored) = stored
         /\ IsFiniteSet(counted) /\ Cardinality(counted) \in Nat /\ counted \subseteq 1..stored
         /\ IsFiniteSet(Handled) /\ Cardinality(Handled) \in Nat /\ Handled \subseteq 1..stored
<1>1. stored \in Nat /\ 1..stored \subseteq Ids
  BY LiveAssumption DEF LiveTypeOK, Ids
<1>2. IsFiniteSet(1..stored) /\ Cardinality(1..stored) = stored
  BY <1>1, FS_Interval
<1>3. counted \subseteq 1..stored /\ Handled \subseteq 1..stored
  BY <1>1 DEF LiveTypeOK, Handled, ToSet
<1> QED
  BY <1>1, <1>2, <1>3, FS_Subset, FS_CardinalityType

LEMMA InitNumbers == LiveInit => NumbersAdd /\ BadgeCounts
<1> SUFFICES ASSUME LiveInit PROVE NumbersAdd /\ BadgeCounts
  OBVIOUS
<1>1. LiveTypeOK
  BY LiveTypeInit
<1>2. PICK n \in 0..stored :
        /\ counted = 1..n
        /\ numbers = IF kind = "notification" THEN [total |-> 0, errors |-> 0, successes |-> 0]
                     ELSE [total |-> n, errors |-> Count(counted, Server!error_q),
                           successes |-> Count(counted, Server!success_q)]
        /\ badge = IF kind = "project" THEN 0 ELSE n
  BY DEF LiveInit
<1>3. n \in Nat /\ Cardinality(counted) = n /\ counted \in SUBSET Ids
  <2>1. n \in Nat /\ counted \in SUBSET Ids
    BY <1>1, <1>2, FinitePage
  <2>2. Cardinality(1..n) = n
    BY <2>1, FS_Interval
  <2> QED
    BY <1>2, <2>1, <2>2
<1>4. received = <<>> /\ Handled = {} /\ Cardinality({}) = 0 /\ Len(received) = 0
  BY EmptySeq, FS_EmptySet DEF LiveInit, Handled
<1>5. /\ Count(counted, Server!error_q) = Cardinality(counted \cap Errors)
      /\ Count(counted, Server!success_q) = Cardinality(counted \cap Successes)
  BY <1>3, CountAsErrors
<1>6. /\ Cardinality(counted \cap Errors) \in Nat /\ Cardinality(counted \cap Successes) \in Nat
      /\ {} \cap Errors = {} /\ {} \cap Successes = {}
  BY <1>1, FinitePage, FS_Intersection, FS_CardinalityType
<1>7. NumbersAdd
  BY <1>2, <1>3, <1>4, <1>5, <1>6 DEF NumbersAdd
<1>8. BadgeCounts
  BY <1>2, <1>3, <1>4 DEF BadgeCounts
<1> QED
  BY <1>7, <1>8

LEMMA StepNumbers ==
  LiveTypeOK /\ OnceInv /\ NumbersAdd /\ BadgeCounts /\ [LiveNext]_liveVars
    => NumbersAdd' /\ BadgeCounts'
<1> SUFFICES ASSUME LiveTypeOK, OnceInv, NumbersAdd, BadgeCounts, [LiveNext]_liveVars
             PROVE  NumbersAdd' /\ BadgeCounts'
  OBVIOUS
<1>1. CASE UNCHANGED <<kind, counted, page>> /\ (overtaken => overtaken')
  BY <1>1 DEF page, Handled, NumbersAdd, BadgeCounts
<1>2. ASSUME NEW s \in Sockets, OnMessage(s) PROVE NumbersAdd' /\ BadgeCounts'
  <2> DEFINE m == Head(inbox[s])
             S == 1..stored
  <2>0. inbox[s] \in Seq(S) /\ inbox[s] # <<>> /\ received \in Seq(S)
    BY <1>2 DEF OnMessage, LiveTypeOK
  <2> HIDE DEF S
  <2>1. m \in S /\ m \in ToSet(inbox[s])
    BY <2>0, TailSet, HeadTail
  <2>2. m \in Ids /\ Messages[m] \in [type : STRING, status : Nat]
    <3>1. m \in Ids
      BY <2>1, FinitePage DEF S
    <3> QED
      BY <3>1, ElementType, LiveAssumption DEF Ids
  <2> HIDE DEF m
  <2>3. /\ received' = Append(received, m)
        /\ UNCHANGED <<overtaken, kind, counted>>
        /\ \/ kind = "project" /\ handleEvent(m)
           \/ kind = "notification" /\ handleNotification
    BY <1>2 DEF OnMessage, vars, m
  <2>4. Len(received') = Len(received) + 1 /\ Handled' = Handled \cup {m} /\ Len(received) \in Nat
    BY <2>0, <2>1, <2>3, AppendSet DEF Handled
  <2>5. ASSUME kind = "project", ~overtaken PROVE NumbersAdd'
    <3>1. m \notin Handled
      BY <2>1, <2>5 DEF OnceInv, OneCopy, Handled
    <3>2. /\ Cardinality(Handled') = Cardinality(Handled) + 1
          /\ Cardinality(Handled' \cap Errors)
               = Cardinality(Handled \cap Errors) + (IF m \in Errors THEN 1 ELSE 0)
          /\ Cardinality(Handled' \cap Successes)
               = Cardinality(Handled \cap Successes) + (IF m \in Successes THEN 1 ELSE 0)
      <4>1. IsFiniteSet(Handled)
        BY FinitePage
      <4>2. Cardinality(Handled \cup {m}) = Cardinality(Handled) + 1
        BY <3>1, <4>1, FS_AddElement
      <4>3. \A K : /\ m \in K => Cardinality((Handled \cup {m}) \cap K)
                                  = Cardinality(Handled \cap K) + 1
                   /\ m \notin K => Cardinality((Handled \cup {m}) \cap K)
                                     = Cardinality(Handled \cap K)
        BY <3>1, <4>1, AddOne
      <4>4. /\ Cardinality(Handled \cap Errors) \in Nat
            /\ Cardinality(Handled \cap Successes) \in Nat
        BY <4>1, FS_Intersection, FS_CardinalityType
      <4> QED
        BY <2>4, <4>2, <4>3, <4>4
    <3>3. /\ Cardinality(Handled \cap Errors) \in Nat /\ Cardinality(Handled \cap Successes) \in Nat
          /\ Cardinality(counted \cap Errors) \in Nat
          /\ Cardinality(counted \cap Successes) \in Nat
      BY FinitePage, FS_Intersection, FS_CardinalityType
    <3>4. /\ isErrorEvent(Messages[m]) <=> m \in Errors
          /\ isSuccessEvent(Messages[m]) <=> m \in Successes
      BY <2>2, SameClasses DEF Errors, Successes
    <3>5. /\ numbers'.total = numbers.total + 1
          /\ numbers'.errors = numbers.errors + (IF m \in Errors THEN 1 ELSE 0)
          /\ numbers'.successes = numbers.successes + (IF m \in Successes THEN 1 ELSE 0)
      BY <2>3, <2>5, <3>4 DEF handleEvent, updateKpis
    <3>6. /\ numbers.total = Cardinality(counted) + Cardinality(Handled)
          /\ numbers.errors = Cardinality(counted \cap Errors) + Cardinality(Handled \cap Errors)
          /\ numbers.successes
               = Cardinality(counted \cap Successes) + Cardinality(Handled \cap Successes)
      BY <2>5 DEF NumbersAdd
    <3>7. Cardinality(counted) \in Nat /\ Cardinality(Handled) \in Nat
      BY FinitePage
    <3>8. numbers'.total = Cardinality(counted') + Cardinality(Handled')
      BY <2>3, <3>2, <3>5, <3>6, <3>7
    <3>9. numbers'.errors = Cardinality(counted' \cap Errors) + Cardinality(Handled' \cap Errors)
      BY <2>3, <3>2, <3>3, <3>5, <3>6
    <3>10. numbers'.successes
             = Cardinality(counted' \cap Successes) + Cardinality(Handled' \cap Successes)
      BY <2>3, <3>2, <3>3, <3>5, <3>6
    <3> QED
      BY <3>8, <3>9, <3>10 DEF NumbersAdd, Errors, Successes, Ids
  <2>6. NumbersAdd'
    BY <2>3, <2>5 DEF NumbersAdd
  <2>7. ASSUME kind = "notification", Cardinality(counted) + Len(received') <= BadgeMax
        PROVE  badge' = Cardinality(counted) + Len(received')
    <3>1. Cardinality(counted) \in Nat /\ BadgeMax \in Nat
      BY FinitePage, LiveAssumption
    <3>2. badge = Cardinality(counted) + Len(received)
      BY <2>4, <2>7, <3>1 DEF BadgeCounts
    <3>3. Parsed = badge
      BY <2>4, <3>1, <3>2 DEF Parsed, Over
    <3> QED
      BY <2>3, <2>4, <2>7, <3>1, <3>2, <3>3 DEF handleNotification, setUnreadCount
  <2> QED
    BY <2>3, <2>6, <2>7 DEF BadgeCounts
<1>3. CASE Store \/ mark_all_notifications_read
             \/ \E m \in Ids : Broadcast(m) \/ mark_notification_read(m)
  BY <1>1, <1>3 DEF Store, mark_all_notifications_read, Broadcast, mark_notification_read, vars
<1>4. CASE \E s \in Sockets : Join(s) \/ Accept(s)
  BY <1>1, <1>4 DEF Join, Accept, Connected, vars, live
<1>5. CASE Callback
  BY <1>1, <1>5 DEF Callback
<1>6. CASE UNCHANGED liveVars
  BY <1>1, <1>6 DEF liveVars, vars, live
<1> QED
  BY <1>2, <1>3, <1>4, <1>5, <1>6, BrowserCallback DEF LiveNext, LiveTypeOK

(***************************************************************************)
(* Theorems.                                                               *)
(***************************************************************************)
LiveIInv == LiveTypeOK /\ IInv /\ StreamInv /\ OnceInv /\ NumbersAdd /\ BadgeCounts

LEMMA LiveInvariantHolds == LiveSpec => []LiveIInv
<1>1. LiveInit => LiveIInv
  BY LiveTypeInit, InitIInv, InitStream, InitOnce, InitNumbers DEF LiveInit, LiveIInv
<1>2. LiveIInv /\ [LiveNext]_liveVars => LiveIInv'
  BY LiveTypeStep, ConnectionStep, StepIInv, StepStream, StepOnce, StepNumbers DEF LiveIInv
<1> QED
  BY <1>1, <1>2, PTL DEF LiveSpec

\* The page with its stream, its consumer and its numbers implements the connection
\* of static/js/realtime.js: what holds of RealtimeConnection holds of the page.
THEOREM ConnectionImplemented == LiveSpec => Spec
<1>1. LiveInit => Init
  BY DEF LiveInit
<1> QED
  BY <1>1, ConnectionStep, PTL DEF LiveSpec, Spec

\* The variables of a live page keep their types.
THEOREM LiveTyped == LiveSpec => []LiveTypeOK
<1>1. LiveIInv => LiveTypeOK
  BY DEF LiveIInv
<1> QED
  BY <1>1, LiveInvariantHolds, PTL

\* updateLiveRows (static/js/dashboard.js) shows no event in two rows.
THEOREM RowsStayDistinct == LiveSpec => []RowsDistinct
<1>1. LiveIInv => RowsDistinct
  BY DistinctCardinality DEF LiveIInv, LiveTypeOK, StreamInv, RowsDistinct
<1> QED
  BY <1>1, LiveInvariantHolds, PTL

\* Only what was committed before the rendering and broadcast after it is counted by
\* both, with any delay between a commit and its group_send.
THEOREM TwiceOnlyWhenLate == LiveSpec => []OnlyLateCountedTwice
<1>1. LiveIInv => OnlyLateCountedTwice
  BY DEF LiveIInv, StreamInv, OnlyLate, OnlyLateCountedTwice
<1> QED
  BY <1>1, LiveInvariantHolds, PTL

\* The handlers of static/js/realtime.js see a message once while no start() has
\* overtaken a close.
THEOREM PageHandlesOnce == LiveSpec => []HandledOnce
<1>1. LiveIInv => HandledOnce
  <2> SUFFICES ASSUME LiveIInv, ~overtaken
               PROVE  Len(received) = Cardinality(ToSet(received))
    BY DEF HandledOnce
  <2>1. received \in Seq(1..stored) /\ Distinct(received)
    BY DEF LiveIInv, LiveTypeOK, OnceInv, OneCopy
  <2> QED
    BY <2>1, DistinctCardinality
<1> QED
  BY <1>1, LiveInvariantHolds, PTL

\* The numbers that updateKpis counts up are the ones the server would render, plus
\* what the rendering and the stream both counted, for any stream of events.
THEOREM NumbersAreAReloads == LiveSpec => []NumbersMatchAReload
<1>1. LiveIInv => NumbersMatchAReload
  <2> SUFFICES ASSUME LiveIInv, kind = "project", ~overtaken,
                      counted \cup Handled = 1..stored
               PROVE  /\ numbers.total = stored + Cardinality(counted \cap Handled)
                      /\ numbers.errors = Count(1..stored, Server!error_q)
                                            + Count(counted \cap Handled, Server!error_q)
                      /\ numbers.successes = Count(1..stored, Server!success_q)
                                            + Count(counted \cap Handled, Server!success_q)
    BY DEF NumbersMatchAReload, Handled
  <2>1. /\ stored \in Nat /\ 1..stored \subseteq Ids /\ Cardinality(1..stored) = stored
        /\ IsFiniteSet(counted) /\ IsFiniteSet(Handled) /\ counted \subseteq 1..stored
    BY FinitePage DEF LiveIInv
  <2>2. \A K : Within(counted, K) + Within(Handled, K)
                 = Within(1..stored, K) + Within(counted \cap Handled, K)
    BY <2>1, BothCounts
  <2>3. Cardinality(counted) + Cardinality(Handled) = stored + Cardinality(counted \cap Handled)
    <3>1. counted \cap (1..stored) = counted /\ Handled \cap (1..stored) = Handled
            /\ (1..stored) \cap (1..stored) = 1..stored
            /\ (counted \cap Handled) \cap (1..stored) = counted \cap Handled
      BY <2>1
    <3> QED
      BY <2>1, <2>2, <3>1 DEF Within
  <2>4. counted \cap Handled \in SUBSET Ids /\ 1..stored \in SUBSET Ids
    BY <2>1
  <2>5. /\ Count(1..stored, Server!error_q) = Within(1..stored, Errors)
        /\ Count(1..stored, Server!success_q) = Within(1..stored, Successes)
        /\ Count(counted \cap Handled, Server!error_q) = Within(counted \cap Handled, Errors)
        /\ Count(counted \cap Handled, Server!success_q)
             = Within(counted \cap Handled, Successes)
    BY <2>4, CountAsErrors DEF Within
  <2>6. /\ numbers.total = Cardinality(counted) + Cardinality(Handled)
        /\ numbers.errors = Within(counted, Errors) + Within(Handled, Errors)
        /\ numbers.successes = Within(counted, Successes) + Within(Handled, Successes)
    BY DEF LiveIInv, NumbersAdd, Within
  <2> QED
    BY <2>2, <2>3, <2>5, <2>6
<1> QED
  BY <1>1, LiveInvariantHolds, PTL

\* getUnreadCount and setUnreadCount lose no notification below the limit of the badge.
THEOREM BadgeCovers == LiveSpec => []BadgeCoversUnread
<1>1. LiveIInv => BadgeCoversUnread
  <2> SUFFICES ASSUME LiveIInv, kind = "notification",
                      Cardinality(counted) + Len(received) <= BadgeMax
               PROVE  badge >= Cardinality((counted \cup Handled) \ read)
    BY DEF BadgeCoversUnread, Handled
  <2>1. badge = Cardinality(counted) + Len(received)
    BY DEF LiveIInv, BadgeCounts
  <2>2. received \in Seq(1..stored)
    BY DEF LiveIInv, LiveTypeOK
  <2>3. IsFiniteSet(Handled) /\ Cardinality(Handled) <= Len(received)
    BY <2>2, SetBound DEF Handled
  <2>4. IsFiniteSet(counted) /\ Cardinality(counted) \in Nat /\ Cardinality(Handled) \in Nat
    BY FinitePage DEF LiveIInv
  <2>5. /\ IsFiniteSet(counted \cup Handled)
        /\ Cardinality(counted \cup Handled) <= Cardinality(counted) + Cardinality(Handled)
    <3>1. Cardinality(counted \cap Handled) \in Nat
      BY <2>4, FS_Intersection, FS_CardinalityType
    <3>2. /\ IsFiniteSet(counted \cup Handled)
          /\ Cardinality(counted \cup Handled)
               = Cardinality(counted) + Cardinality(Handled) - Cardinality(counted \cap Handled)
      BY <2>3, <2>4, FS_Union
    <3> QED
      BY <2>4, <3>1, <3>2
  <2>6. Cardinality((counted \cup Handled) \ read) <= Cardinality(counted \cup Handled)
    BY <2>5, FS_Subset
  <2>7. /\ Cardinality((counted \cup Handled) \ read) \in Nat
        /\ Cardinality(counted \cup Handled) \in Nat /\ Len(received) \in Nat
    BY <2>2, <2>5, FS_Subset, FS_CardinalityType
  <2> QED
    BY <2>1, <2>3, <2>4, <2>5, <2>6, <2>7
<1> QED
  BY <1>1, LiveInvariantHolds, PTL

\* connect() joins the group before it accepts (monitoring/consumers.py), so nothing
\* broadcast while the socket is open passes it by.
THEOREM OpenSocketMissesNothing == LiveSpec => OpenMissesNothing
<1>1. ASSUME LiveIInv, [LiveNext]_liveVars
      PROVE  [\A s \in Sockets, m \in pending \ pending' :
                (socket[s] = "open" /\ failures' = failures /\ Len(inbox[s]) < ChannelCapacity)
                  => m \in ToSet(inbox'[s])]_liveVars
  <2> SUFFICES ASSUME LiveNext, NEW s \in Sockets, NEW m \in pending, m \notin pending',
                      socket[s] = "open", failures' = failures,
                      Len(inbox[s]) < ChannelCapacity
               PROVE  m \in ToSet(inbox'[s])
    BY <1>1
  <2>1. Broadcast(m)
    <3>1. ASSUME NEW n \in Ids, Broadcast(n) PROVE n = m
      BY <3>1 DEF Broadcast
    <3>2. ~Callback
      BY DEF Callback, server
    <3> QED
      BY <1>1, <3>1, <3>2, BrowserCallback
      DEF LiveNext, LiveIInv, LiveTypeOK, Store, mark_notification_read,
          mark_all_notifications_read, Join, Accept, OnMessage, server, live
  <2>2. group_send(m)
    BY <1>1, <2>1, LiveAssumption DEF Broadcast, LiveIInv, LiveTypeOK
  <2>3. s \in joined
    BY <1>1 DEF LiveIInv, StreamInv, Members
  <2>4. inbox'[s] = Append(inbox[s], m)
    BY <2>2, <2>3 DEF group_send
  <2> DEFINE S == 1..stored
  <2>5. inbox[s] \in Seq(S) /\ m \in S
    BY <1>1 DEF LiveIInv, LiveTypeOK
  <2> HIDE DEF S
  <2> QED
    BY <2>4, <2>5, AppendSet
<1> QED
  BY <1>1, LiveInvariantHolds, PTL DEF LiveSpec, OpenMissesNothing

\* On the live page too: one socket until a start() overtakes a close, and none opened
\* while the connection is stopped.
THEOREM LiveOneSocket == LiveSpec => []OneSocketUnlessOvertaken /\ NoSocketIsBornStopped
BY ConnectionImplemented, OneSocket, BornRunning
=============================================================================
