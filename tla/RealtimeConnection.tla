------------------------- MODULE RealtimeConnection -------------------------
(***************************************************************************)
(* One RealtimeConnection of static/js/realtime.js in one page: the socket *)
(* it holds, the sockets it no longer holds but whose close event is still *)
(* to come, its reconnect timer, and the visibilitychange and beforeunload *)
(* listeners of startConnections.                                          *)
(*                                                                         *)
(* Every browser callback is one step.  A socket that close() was called   *)
(* on reports "close" later, after any other callback; clearTimeout only   *)
(* reaches the timer stored last, so earlier ones still fire.              *)
(*                                                                         *)
(* Abstracted: the length of a delay (attempt and its backoff), the status *)
(* text, what messages do to the page, and the catch of open(), as a       *)
(* constructor throws for an invalid or an insecure URL and                *)
(* resolveSocketURL makes neither.                                         *)
(***************************************************************************)
EXTENDS Naturals, FiniteSets

CONSTANTS
  Loaded,          \* the values of visible pages are loaded with
  MaxSockets,      \* bound on the sockets the page creates
  MaxDisturbances  \* bound on hides, page leaves and lost connections together

ASSUME RealtimeAssumption == /\ Loaded \subseteq BOOLEAN
                             /\ MaxSockets \in Nat \ {0}
                             /\ MaxDisturbances \in Nat

Sockets == 1..MaxSockets

None == 0

VARIABLES
  visible,      \* ~document.hidden
  shouldRun,    \* this.shouldRun
  current,      \* this.socket
  socket,       \* socket[s]: "unborn", "connecting", "open", "closing" or "closed"
  timer,        \* is the timer in this.reconnectTimer pending
  stray,        \* pending timers that this.reconnectTimer no longer names
  overtaken,    \* has a start() ever come before the close event of a stop() (ghost)
  disturbances  \* hides, leaves and losses so far

vars == <<visible, shouldRun, current, socket, timer, stray, overtaken, disturbances>>

Live(s) == socket[s] \in {"connecting", "open"}

TypeOK ==
  /\ visible \in BOOLEAN
  /\ shouldRun \in BOOLEAN
  /\ current \in Sockets \cup {None}
  /\ socket \in [Sockets -> {"unborn", "connecting", "open", "closing", "closed"}]
  /\ timer \in BOOLEAN
  /\ stray \in Nat
  /\ overtaken \in BOOLEAN
  /\ disturbances \in 0..MaxDisturbances

\* The page has called start() on the connection, hidden or not.
Init ==
  /\ visible \in Loaded
  /\ shouldRun = TRUE
  /\ current = 1
  /\ socket = [s \in Sockets |-> IF s = 1 THEN "connecting" ELSE "unborn"]
  /\ timer = FALSE
  /\ stray = 0
  /\ overtaken = FALSE
  /\ disturbances = 0

Disturb == disturbances < MaxDisturbances /\ disturbances' = disturbances + 1

\* The browser gives the page a new socket, the next of Sockets.
NewSocket ==
  \E s \in Sockets :
    /\ socket[s] = "unborn"
    /\ \A r \in 1..(s - 1) : socket[r] # "unborn"
    /\ socket' = [socket EXCEPT ![s] = "connecting"]
    /\ current' = s

\* open() past its guard: the stored timer is cleared.
OpenSocket == NewSocket /\ timer' = FALSE

\* Mutant: stop() drops its socket without closing it.
StopWithoutClose ==
  /\ shouldRun' = FALSE
  /\ timer' = FALSE
  /\ current' = None
  /\ UNCHANGED socket

\* stop().
Stop ==
  /\ shouldRun' = FALSE
  /\ timer' = FALSE
  /\ current' = None
  /\ socket' = IF current = None THEN socket ELSE [socket EXCEPT ![current] = "closing"]

\* The tab is hidden.
Hide ==
  /\ visible
  /\ Disturb
  /\ visible' = FALSE
  /\ Stop
  /\ UNCHANGED <<stray, overtaken>>

\* The tab is shown again: start(), unless the connection runs and has a socket.
Show ==
  /\ ~visible
  /\ visible' = TRUE
  /\ \/ /\ ~shouldRun \/ current = None
        /\ shouldRun' = TRUE
        /\ OpenSocket
        /\ overtaken' = (overtaken \/ \E s \in Sockets : socket[s] = "closing")
     \/ /\ shouldRun /\ current # None
        /\ UNCHANGED <<shouldRun, current, socket, timer, overtaken>>
  /\ UNCHANGED <<stray, disturbances>>

\* beforeunload, after which the page stays: the user declines to leave, or the
\* link was a download (the event export).
LeaveAndStay ==
  /\ Disturb
  /\ Stop
  /\ UNCHANGED <<visible, stray, overtaken>>

\* The handshake succeeds.
Connected(s) ==
  /\ socket[s] = "connecting"
  /\ socket' = [socket EXCEPT ![s] = "open"]
  /\ UNCHANGED <<visible, shouldRun, current, timer, stray, overtaken, disturbances>>

\* Mutant: the handler of "close" leaves reconnecting to the caller.
OnCloseForgets(s) ==
  /\ socket' = [socket EXCEPT ![s] = "closed"]
  /\ current' = None
  /\ UNCHANGED <<timer, stray>>

\* The handler of "close" of socket s, whichever socket is current: forget the
\* current socket and, if the connection should run, scheduleReconnect().
OnClose(s) ==
  /\ socket' = [socket EXCEPT ![s] = "closed"]
  /\ current' = None
  /\ IF shouldRun
     THEN timer' = TRUE /\ stray' = stray + (IF timer THEN 1 ELSE 0)
     ELSE UNCHANGED <<timer, stray>>

\* The server, the network or a failed handshake closes a live socket.
Lost(s) ==
  /\ Live(s)
  /\ Disturb
  /\ OnClose(s)
  /\ UNCHANGED <<visible, shouldRun, overtaken>>

\* The closing that stop() began is over.
Closed(s) ==
  /\ socket[s] = "closing"
  /\ OnClose(s)
  /\ UNCHANGED <<visible, shouldRun, overtaken, disturbances>>

\* Mutant: a timer fires although it was cleared.
StrayTimerAlways ==
  /\ stray' = stray - 1
  /\ IF shouldRun THEN OpenSocket ELSE UNCHANGED <<current, socket, timer>>
  /\ UNCHANGED <<visible, shouldRun, overtaken, disturbances>>

\* Mutant: the timer opens a socket without looking at shouldRun.
StrayTimerUnguarded ==
  /\ stray > 0
  /\ stray' = stray - 1
  /\ OpenSocket
  /\ UNCHANGED <<visible, shouldRun, overtaken, disturbances>>

\* A timer that is no longer stored fires: open() returns unless shouldRun.
StrayTimer ==
  /\ stray > 0
  /\ stray' = stray - 1
  /\ IF shouldRun THEN OpenSocket ELSE UNCHANGED <<current, socket, timer>>
  /\ UNCHANGED <<visible, shouldRun, overtaken, disturbances>>

\* The stored timer fires (stop() clears it, so it finds shouldRun set).
Timer ==
  /\ timer
  /\ IF shouldRun THEN OpenSocket ELSE timer' = FALSE /\ UNCHANGED <<current, socket>>
  /\ UNCHANGED <<visible, shouldRun, stray, overtaken, disturbances>>

Next ==
  \/ Hide \/ Show \/ LeaveAndStay \/ Timer \/ StrayTimer
  \/ \E s \in Sockets : Connected(s) \/ Lost(s) \/ Closed(s)

Spec == Init /\ [][Next]_vars

\* Timers fire, a handshake comes to an end, and a socket told to close does.
FairSpec ==
  /\ Spec
  /\ WF_vars(Timer)
  /\ WF_vars(StrayTimer)
  /\ \A s \in Sockets : WF_vars(Connected(s)) /\ WF_vars(Closed(s))
-----------------------------------------------------------------------------
(* Properties.                                                             *)

(***************************************************************************)
(* Once the connection was stopped, no socket is created before it is      *)
(* started again, although timers that stop() cannot reach keep firing.    *)
(***************************************************************************)
NoSocketIsBornStopped ==
  [][~shouldRun' => \A s \in Sockets : socket[s] = "unborn" => socket'[s] = "unborn"]_vars

(***************************************************************************)
(* The page has one live socket at most, through any losses, hides and     *)
(* leaves, unless the tab was shown again before the browser reported the  *)
(* close that hiding it had begun.                                         *)
(***************************************************************************)
OneSocketUnlessOvertaken ==
  ~overtaken => Cardinality({s \in Sockets : Live(s)}) <= 1

(***************************************************************************)
(* A connection that is to run for good ends up connected for good: no     *)
(* order of losses, timers and late close events leaves it with neither a  *)
(* socket nor a timer.                                                     *)
(***************************************************************************)
Reconnects == <>[]shouldRun => <>[](\E s \in Sockets : socket[s] = "open")

(***************************************************************************)
(* "Connections [...] are suspended while the tab is hidden" (README.md,   *)
(* Reconnect behavior): a hidden tab holds no live socket.                 *)
(***************************************************************************)
SuspendedWhileHidden == ~visible => \A s \in Sockets : ~Live(s)
=============================================================================
