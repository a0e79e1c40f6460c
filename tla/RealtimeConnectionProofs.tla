---------------------- MODULE RealtimeConnectionProofs ----------------------
(***************************************************************************)
(* Proofs about RealtimeConnection, for any number of sockets and of       *)
(* disturbances.                                                           *)
(***************************************************************************)
EXTENDS RealtimeConnection, FiniteSetTheorems, TLAPS

(***************************************************************************)
(* The current socket is live and belongs to a connection that runs.       *)
(* Until a start() overtakes a close, every live socket is the current one *)
(* and a timer waits only when there is none; a running connection then    *)
(* waits for no close event, which is why no timer is ever lost from sight.*)
(***************************************************************************)
CurrentIsLive == current # None => Live(current) /\ shouldRun

LiveIsCurrent == \A s \in Sockets : Live(s) => current = s

NothingOvertaken ==
  /\ LiveIsCurrent
  /\ shouldRun => \A s \in Sockets : socket[s] # "closing"
  /\ timer => shouldRun /\ current = None
  /\ stray = 0

IInv == TypeOK /\ CurrentIsLive /\ (~overtaken => NothingOvertaken)

LEMMA InitIInv == Init => IInv
<1> SUFFICES ASSUME Init PROVE IInv
  OBVIOUS
<1>1. 1 \in Sockets /\ 0 \in 0..MaxDisturbances
  BY RealtimeAssumption DEF Sockets
<1>2. TypeOK
  BY <1>1, RealtimeAssumption DEF Init, TypeOK
<1>3. CurrentIsLive
  BY <1>1 DEF Init, CurrentIsLive, Live
<1>4. NothingOvertaken
  BY <1>1 DEF Init, NothingOvertaken, LiveIsCurrent, Live
<1> QED
  BY <1>2, <1>3, <1>4 DEF IInv

\* A new socket becomes the current one; no other changes.
LEMMA NewSocketEffect ==
  ASSUME TypeOK, NewSocket
  PROVE  \E s \in Sockets :
           /\ socket[s] = "unborn"
           /\ socket'[s] = "connecting"
           /\ current' = s /\ s # None
           /\ \A r \in Sockets : r # s => socket'[r] = socket[r]
           /\ socket' \in [Sockets -> {"unborn", "connecting", "open", "closing", "closed"}]
BY DEF NewSocket, TypeOK, Sockets, None

LEMMA OpenIInv ==
  ASSUME IInv, OpenSocket, shouldRun', stray' \in Nat, visible' \in BOOLEAN,
         shouldRun' \in BOOLEAN, overtaken' \in BOOLEAN, disturbances' \in 0..MaxDisturbances,
         ~overtaken' => /\ ~overtaken /\ current = None /\ stray' = 0
                        /\ \A s \in Sockets : socket[s] # "closing"
  PROVE  IInv'
<1>1. PICK s \in Sockets :
           /\ socket[s] = "unborn"
           /\ socket'[s] = "connecting"
           /\ current' = s /\ s # None
           /\ \A r \in Sockets : r # s => socket'[r] = socket[r]
           /\ socket' \in [Sockets -> {"unborn", "connecting", "open", "closing", "closed"}]
  BY NewSocketEffect DEF OpenSocket, IInv
<1>2. TypeOK'
  BY <1>1 DEF TypeOK, OpenSocket
<1>3. CurrentIsLive'
  BY <1>1 DEF CurrentIsLive, Live
<1>4. ASSUME ~overtaken' PROVE NothingOvertaken'
  <2>1. NothingOvertaken /\ current = None /\ stray' = 0 /\ ~overtaken
    BY <1>4 DEF IInv
  <2>2. LiveIsCurrent'
    BY <1>1, <2>1 DEF NothingOvertaken, LiveIsCurrent, Live, Sockets, None
  <2>3. \A r \in Sockets : socket'[r] # "closing"
    BY <1>1, <1>4
  <2> QED
    BY <2>1, <2>2, <2>3 DEF NothingOvertaken, OpenSocket
<1> QED
  BY <1>2, <1>3, <1>4 DEF IInv

\* stop() leaves no live socket behind: the one it had begins to close.
LEMMA StopIInv ==
  ASSUME IInv, Stop, visible' \in BOOLEAN, disturbances' \in 0..MaxDisturbances,
         UNCHANGED <<stray, overtaken>>
  PROVE  IInv'
<1>1. TypeOK'
  BY DEF IInv, TypeOK, Stop, None
<1>2. CurrentIsLive'
  BY DEF Stop, CurrentIsLive, None
<1>3. ASSUME ~overtaken' PROVE NothingOvertaken'
  <2>1. NothingOvertaken
    BY <1>3 DEF IInv
  <2>2. \A s \in Sockets : ~Live(s)'
    <3> TAKE s \in Sockets
    <3>1. CASE current = None
      BY <2>1, <3>1 DEF NothingOvertaken, LiveIsCurrent, Live, Stop, Sockets, None
    <3>2. CASE current # None
      BY <2>1, <3>2 DEF IInv, TypeOK, NothingOvertaken, LiveIsCurrent, Live, Stop
    <3> QED
      BY <3>1, <3>2
  <2> QED
    BY <2>1, <2>2 DEF NothingOvertaken, LiveIsCurrent, Stop
<1> QED
  BY <1>1, <1>2, <1>3 DEF IInv

\* A close event, of a live socket or of one that was stopped.
LEMMA OnCloseIInv ==
  ASSUME IInv, NEW s \in Sockets, OnClose(s), Live(s) \/ socket[s] = "closing",
         UNCHANGED <<visible, shouldRun, overtaken>>, disturbances' \in 0..MaxDisturbances
  PROVE  IInv'
<1>1. TypeOK'
  <2>1. stray' \in Nat /\ timer' \in BOOLEAN
    <3>1. CASE shouldRun
      BY <3>1 DEF IInv, TypeOK, OnClose
    <3>2. CASE ~shouldRun
      BY <3>2 DEF IInv, TypeOK, OnClose
    <3> QED
      BY <3>1, <3>2
  <2>2. socket' \in [Sockets -> {"unborn", "connecting", "open", "closing", "closed"}]
    BY DEF IInv, TypeOK, OnClose
  <2> QED
    BY <2>1, <2>2 DEF IInv, TypeOK, OnClose
<1>2. CurrentIsLive'
  BY DEF OnClose, CurrentIsLive
<1>3. ASSUME ~overtaken' PROVE NothingOvertaken'
  <2>1. NothingOvertaken
    BY <1>3 DEF IInv
  <2>2. ~timer
    BY <2>1 DEF NothingOvertaken, LiveIsCurrent, Sockets, None
  <2>3. \A r \in Sockets : ~Live(r)'
    <3> TAKE r \in Sockets
    <3>1. CASE r = s
      BY <3>1 DEF IInv, TypeOK, OnClose, Live
    <3>2. CASE r # s /\ socket[s] = "closing"
      <4>1. ~shouldRun
        BY <2>1, <3>2 DEF NothingOvertaken
      <4>2. current = None
        BY <4>1 DEF IInv, CurrentIsLive
      <4> QED
        BY <2>1, <3>2, <4>2 DEF IInv, TypeOK, NothingOvertaken, LiveIsCurrent, OnClose, Live,
                                Sockets, None
    <3>3. CASE r # s /\ Live(s)
      BY <2>1, <3>3 DEF IInv, TypeOK, NothingOvertaken, LiveIsCurrent, OnClose, Live
    <3> QED
      BY <3>1, <3>2, <3>3
  <2>4. shouldRun => \A r \in Sockets : socket'[r] # "closing"
    BY <2>1 DEF IInv, TypeOK, NothingOvertaken, OnClose
  <2> QED
    BY <2>1, <2>2, <2>3, <2>4 DEF NothingOvertaken, LiveIsCurrent, OnClose
<1> QED
  BY <1>1, <1>2, <1>3 DEF IInv

LEMMA StepIInv == IInv /\ [Next]_vars => IInv'
<1> SUFFICES ASSUME IInv, [Next]_vars PROVE IInv'
  OBVIOUS
<1>0. TypeOK /\ 1 \in Nat
  BY DEF IInv
<1>1. CASE Hide
  <2>1. disturbances' \in 0..MaxDisturbances
    BY <1>0, <1>1, RealtimeAssumption DEF Hide, Disturb, TypeOK
  <2> QED
    BY <1>1, <2>1, StopIInv DEF Hide
<1>2. CASE Show
  <2>1. CASE (~shouldRun \/ current = None) /\ OpenSocket /\ shouldRun' = TRUE
               /\ overtaken' = (overtaken \/ \E s \in Sockets : socket[s] = "closing")
               /\ UNCHANGED <<stray, disturbances>> /\ visible' = TRUE
    <3>1. current = None
      BY <2>1 DEF IInv, CurrentIsLive
    <3>2. ~overtaken' => stray' = 0
      BY <2>1 DEF IInv, NothingOvertaken
    <3>3. overtaken' \in BOOLEAN /\ stray' \in Nat /\ disturbances' \in 0..MaxDisturbances
      BY <1>0, <2>1 DEF TypeOK
    <3> QED
      BY <2>1, <3>1, <3>2, <3>3, OpenIInv
  <2>2. CASE UNCHANGED <<shouldRun, current, socket, timer, overtaken, stray, disturbances>>
               /\ visible' = TRUE
    BY <2>2 DEF IInv, TypeOK, CurrentIsLive, NothingOvertaken, LiveIsCurrent, Live
  <2> QED
    BY <1>2, <2>1, <2>2 DEF Show
<1>3. CASE LeaveAndStay
  <2>1. disturbances' \in 0..MaxDisturbances
    BY <1>0, <1>3, RealtimeAssumption DEF LeaveAndStay, Disturb, TypeOK
  <2> QED
    BY <1>0, <1>3, <2>1, StopIInv DEF LeaveAndStay, TypeOK
<1>4. CASE Timer
  <2>1. CASE shouldRun
    <3>1. ~overtaken => current = None /\ stray = 0
                          /\ \A s \in Sockets : socket[s] # "closing"
      BY <1>4, <2>1 DEF IInv, NothingOvertaken, Timer
    <3> QED
      BY <1>0, <1>4, <2>1, <3>1, OpenIInv DEF Timer, TypeOK
  <2>2. CASE ~shouldRun
    BY <1>4, <2>2 DEF Timer, IInv, TypeOK, CurrentIsLive, NothingOvertaken, LiveIsCurrent, Live
  <2> QED
    BY <2>1, <2>2
<1>5. CASE StrayTimer
  <2>0. overtaken /\ stray' \in Nat
    BY <1>0, <1>5 DEF StrayTimer, IInv, NothingOvertaken, TypeOK
  <2>1. CASE shouldRun
    BY <1>0, <1>5, <2>0, <2>1, OpenIInv DEF StrayTimer, TypeOK
  <2>2. CASE ~shouldRun
    BY <1>5, <2>0, <2>2 DEF StrayTimer, IInv, TypeOK, CurrentIsLive, Live
  <2> QED
    BY <2>1, <2>2
<1>6. ASSUME NEW s \in Sockets, Connected(s) PROVE IInv'
  BY <1>6 DEF Connected, IInv, TypeOK, CurrentIsLive, NothingOvertaken, LiveIsCurrent, Live
<1>7. ASSUME NEW s \in Sockets, Lost(s) PROVE IInv'
  <2>1. disturbances' \in 0..MaxDisturbances
    BY <1>0, <1>7, RealtimeAssumption DEF Lost, Disturb, TypeOK
  <2> QED
    BY <1>7, <2>1, OnCloseIInv DEF Lost
<1>8. ASSUME NEW s \in Sockets, Closed(s) PROVE IInv'
  BY <1>0, <1>8, OnCloseIInv DEF Closed, TypeOK
<1>9. CASE UNCHANGED vars
  BY <1>9 DEF vars, IInv, TypeOK, CurrentIsLive, NothingOvertaken, LiveIsCurrent, Live
<1> QED
  BY <1>1, <1>2, <1>3, <1>4, <1>5, <1>6, <1>7, <1>8, <1>9 DEF Next

LEMMA InvariantHolds == Spec => []IInv
BY InitIInv, StepIInv, PTL DEF Spec

\* The variables of a connection keep their types (static/js/realtime.js:31-100).
THEOREM ConnectionTyped == Spec => []TypeOK
<1>1. IInv => TypeOK
  BY DEF IInv
<1> QED
  BY <1>1, InvariantHolds, PTL

LEMMA OneSocketLive == IInv => OneSocketUnlessOvertaken
<1> SUFFICES ASSUME IInv, ~overtaken
             PROVE  Cardinality({s \in Sockets : Live(s)}) <= 1
  BY DEF OneSocketUnlessOvertaken
<1>1. {s \in Sockets : Live(s)} \subseteq {current}
  BY DEF IInv, NothingOvertaken, LiveIsCurrent
<1>2. IsFiniteSet({current}) /\ Cardinality({current}) = 1
  BY FS_Singleton
<1> QED
  BY <1>1, <1>2, FS_Subset, FS_CardinalityType

\* A page has at most one live socket for a connection, whatever it loses, hides or
\* leaves, until it is shown before the close of its last socket is reported.
THEOREM OneSocket == Spec => []OneSocketUnlessOvertaken
BY OneSocketLive, InvariantHolds, PTL

\* Nothing opens a socket while the connection is stopped, for any number of timers
\* that stop() cannot clear.
THEOREM BornRunning == Spec => NoSocketIsBornStopped
<1>1. ASSUME IInv, [Next]_vars
      PROVE  [~shouldRun' => \A s \in Sockets :
                socket[s] = "unborn" => socket'[s] = "unborn"]_vars
  <2> SUFFICES ASSUME Next, ~shouldRun', NEW r \in Sockets, socket[r] = "unborn"
               PROVE  socket'[r] = "unborn"
    BY <1>1
  <2>1. CASE Stop
    BY <1>1, <2>1 DEF Stop, IInv, TypeOK, CurrentIsLive, Live
  <2>2. ASSUME NEW s \in Sockets, Connected(s) \/ Lost(s) \/ Closed(s)
        PROVE  socket'[r] = "unborn"
    BY <1>1, <2>2 DEF Connected, Lost, Closed, OnClose, Live, IInv, TypeOK
  <2>3. CASE Show \/ Timer \/ StrayTimer
    BY <2>3 DEF Show, Timer, StrayTimer
  <2> QED
    BY <2>1, <2>2, <2>3 DEF Next, Hide, LeaveAndStay
<1> QED
  BY <1>1, InvariantHolds, PTL DEF Spec, NoSocketIsBornStopped
=============================================================================
