-------------------------- MODULE ProjectKeysProofs --------------------------
(***************************************************************************)
(* The safety of ProjectKeys for any projects, keys and requests.          *)
(***************************************************************************)
EXTENDS ProjectKeys, TLAPS

RequestsOK ==
  /\ req \in [Requests -> Request]
  /\ \A r \in Requests :
       /\ req[r].pc # "idle" => req[r].project \in Projects
       /\ req[r].pc = "created" => req[r].key \in Keys

LEMMA InitType == Init => TypeOK
  BY DEF Init, TypeOK, Row, NoRow, Request, Idle

LEMMA BeginType ==
  ASSUME RequestsOK, NEW r \in Requests, NEW pc \in {"edit", "admin", "created", "page", "ingest"},
         NEW p \in Projects, NEW loaded \in Row, NEW key \in Keys \cup {NoKey},
         NEW allowed \in BOOLEAN, pc = "created" => key \in Keys,
         Begin(r, pc, p, loaded, key, allowed)
  PROVE  RequestsOK'
  BY DEF RequestsOK, Begin, Request

LEMMA EndType == ASSUME RequestsOK, NEW r \in Requests, End(r) PROVE RequestsOK'
  BY DEF RequestsOK, End, Idle, NoRow, Request, Row

LEMMA DecideType ==
  ASSUME meant \in [Projects -> Row], overtaken \subseteq Projects, NEW p \in Projects,
         NEW d \in Row, NEW editors, Decide(p, d, editors)
  PROVE  meant' \in [Projects -> Row] /\ overtaken' \subseteq Projects
  BY DEF Decide

LEMMA ProjectType ==
  ASSUME NEW p \in Projects
  PROVE  TypeOK /\ (\/ Delete(p)
                    \/ \E k \in Keys : Rotate(p, k) \/ \E r \in Requests : Create(r, p, k)
                    \/ \E r \in Requests : OpenPage(r, p) \/ Authenticate(r, p)
                                           \/ Load(r, "edit", p) \/ Load(r, "admin", p))
         => TypeOK'
<1> SUFFICES ASSUME TypeOK PROVE
      (\/ Delete(p)
       \/ \E k \in Keys : Rotate(p, k) \/ \E r \in Requests : Create(r, p, k)
       \/ \E r \in Requests : OpenPage(r, p) \/ Authenticate(r, p)
                              \/ Load(r, "edit", p) \/ Load(r, "admin", p)) => TypeOK'
  OBVIOUS
<1>0. /\ RequestsOK /\ meant \in [Projects -> Row] /\ overtaken \subseteq Projects
      /\ row[p] \in Row /\ NoRow \in Row /\ slot \in Keys \cup {NoKey}
      /\ row[p].key \in Keys \cup {NoKey} /\ row[p].is_active \in BOOLEAN
  BY DEF TypeOK, RequestsOK, Row, NoRow
<1>1. ASSUME Delete(p) PROVE TypeOK'
  <2> DEFINE gone == [exists |-> FALSE, key |-> row[p].key, is_active |-> FALSE]
  <2>1. gone \in Row
    BY <1>0 DEF Row
  <2>2. Decide(p, gone, Requests)
    BY <1>1 DEF Delete
  <2>3. meant' \in [Projects -> Row] /\ overtaken' \subseteq Projects
    BY <1>0, <2>1, <2>2, DecideType
  <2>4. row' \in [Projects -> Row]
    BY <1>1, <2>1 DEF Delete, TypeOK
  <2> QED
    BY <1>1, <2>3, <2>4 DEF Delete, TypeOK
<1>2. ASSUME NEW k \in Keys, Rotate(p, k) PROVE TypeOK'
  <2> DEFINE new == [exists |-> TRUE, key |-> k, is_active |-> row[p].is_active]
  <2>1. new \in Row
    BY <1>0 DEF Row
  <2>2. Decide(p, new, Requests)
    BY <1>2 DEF Rotate
  <2>3. meant' \in [Projects -> Row] /\ overtaken' \subseteq Projects
    BY <1>0, <2>1, <2>2, DecideType
  <2>4. row' \in [Projects -> Row] /\ issued' \subseteq Keys
    BY <1>2, <2>1 DEF Rotate, TypeOK
  <2> QED
    BY <1>2, <2>3, <2>4 DEF Rotate, TypeOK
<1>3. ASSUME NEW k \in Keys, NEW r \in Requests, Create(r, p, k) PROVE TypeOK'
  <2> DEFINE new == [exists |-> TRUE, key |-> k, is_active |-> TRUE]
  <2>1. new \in Row
    BY DEF Row
  <2>2. Decide(p, new, Requests)
    BY <1>3 DEF Create
  <2>3. meant' \in [Projects -> Row] /\ overtaken' \subseteq Projects
    BY <1>0, <2>1, <2>2, DecideType
  <2>4. row' \in [Projects -> Row] /\ issued' \subseteq Keys
    BY <1>3, <2>1 DEF Create, TypeOK
  <2>5. RequestsOK'
    <3>1. CASE Begin(r, "created", p, NoRow, k, FALSE)
      BY <1>0, <3>1, BeginType
    <3>2. CASE UNCHANGED req
      BY <1>0, <3>2 DEF RequestsOK
    <3> QED
      BY <1>3, <3>1, <3>2 DEF Create
  <2> QED
    BY <1>3, <2>3, <2>4, <2>5 DEF Create, TypeOK, RequestsOK
<1>4. ASSUME NEW r \in Requests, OpenPage(r, p) PROVE TypeOK'
  <2>1. RequestsOK'
    BY <1>0, <1>4, BeginType DEF OpenPage
  <2> QED
    BY <1>4, <2>1 DEF OpenPage, TypeOK, RequestsOK
<1>5. ASSUME NEW r \in Requests, Authenticate(r, p) PROVE TypeOK'
  <2>1. (row[p] = meant[p] /\ meant[p].is_active) \in BOOLEAN
    BY <1>0 DEF Row
  <2>2. RequestsOK'
    BY <1>0, <1>5, <2>1, BeginType DEF Authenticate
  <2> QED
    BY <1>5, <2>2 DEF Authenticate, TypeOK, RequestsOK
<1>6. ASSUME NEW r \in Requests, NEW pc \in {"edit", "admin"}, Load(r, pc, p) PROVE TypeOK'
  <2>1. RequestsOK'
    BY <1>0, <1>6, BeginType DEF Load
  <2> QED
    BY <1>6, <2>1 DEF Load, TypeOK, RequestsOK
<1> QED
  BY <1>1, <1>2, <1>3, <1>4, <1>5, <1>6

LEMMA RequestType ==
  ASSUME NEW r \in Requests
  PROVE  TypeOK /\ (\/ RememberKey(r) \/ EditSave(r) \/ ShowPage(r) \/ Store(r) \/ Abandon(r)
                    \/ \E is_active \in BOOLEAN : AdminSave(r, is_active))
         => TypeOK'
<1> SUFFICES ASSUME TypeOK PROVE
      (\/ RememberKey(r) \/ EditSave(r) \/ ShowPage(r) \/ Store(r) \/ Abandon(r)
       \/ \E is_active \in BOOLEAN : AdminSave(r, is_active)) => TypeOK'
  OBVIOUS
<1>0. /\ RequestsOK
      /\ req[r].pc # "idle" => req[r].project \in Projects
      /\ req[r].pc = "created" => req[r].key \in Keys
      /\ req[r].row \in Row /\ req[r].key \in Keys \cup {NoKey} /\ req[r].allowed \in BOOLEAN
  BY DEF TypeOK, RequestsOK, Request
<1>1. End(r) => RequestsOK'
  BY <1>0, EndType
<1>2. CASE RememberKey(r)
  BY <1>0, <1>1, <1>2 DEF RememberKey, TypeOK, RequestsOK
<1>3. CASE EditSave(r)
  BY <1>0, <1>1, <1>3 DEF EditSave, TypeOK, RequestsOK
<1>4. CASE ShowPage(r)
  <2>1. shown' \in [Keys -> Nat] /\ slot' \in Keys \cup {NoKey}
    BY <1>0, <1>4 DEF ShowPage, TypeOK
  <2> QED
    BY <1>1, <1>4, <2>1 DEF ShowPage, TypeOK, RequestsOK
<1>5. CASE Store(r)
  BY <1>0, <1>1, <1>5 DEF Store, TypeOK, RequestsOK
<1>6. CASE Abandon(r)
  BY <1>1, <1>6 DEF Abandon, TypeOK, RequestsOK
<1>7. ASSUME NEW a \in BOOLEAN, AdminSave(r, a) PROVE TypeOK'
  <2> DEFINE p == req[r].project
             d == [exists |-> meant[p].exists, key |-> meant[p].key, is_active |-> a]
  <2>1. p \in Projects
    BY <1>0, <1>7 DEF AdminSave
  <2>2. d \in Row
    BY <2>1 DEF TypeOK, Row
  <2>3. meant' \in [Projects -> Row] /\ overtaken' \subseteq Projects
    BY <1>7, <2>1, <2>2, DecideType DEF AdminSave, TypeOK
  <2>4. [exists |-> TRUE, key |-> req[r].row.key, is_active |-> a] \in Row
    BY <1>0 DEF Row
  <2>5. row' \in [Projects -> Row]
    BY <1>7, <2>4 DEF AdminSave, TypeOK
  <2> QED
    BY <1>1, <1>7, <2>3, <2>5 DEF AdminSave, TypeOK, RequestsOK
<1> QED
  BY <1>2, <1>3, <1>4, <1>5, <1>6, <1>7

LEMMA NextType == TypeOK /\ [Next]_vars => TypeOK'
<1>1. TypeOK /\ UNCHANGED vars => TypeOK'
  BY DEF vars, TypeOK
<1> QED
  BY <1>1, ProjectType, RequestType DEF Next

(***************************************************************************)
(* Every state is well typed.                                              *)
(***************************************************************************)
THEOREM TypeCorrect == Spec => []TypeOK
  BY InitType, NextType, PTL DEF Spec
-----------------------------------------------------------------------------
\* What a request has loaded and will save is what its project is meant to be, until
\* somebody decides otherwise.
LoadedIsMeant ==
  \A r \in Requests :
    req[r].pc \in {"edit", "admin"} /\ req[r].project \notin overtaken =>
      req[r].row = meant[req[r].project] /\ req[r].row.exists

\* An event let in came with the key that was meant, active.
IngestAllowed ==
  \A r \in Requests : req[r].pc = "ingest" => req[r].allowed \/ req[r].project \in overtaken

RowsInv ==
  TypeOK /\ RowsAreMeant /\ LoadedIsMeant /\ IngestAllowed /\ EventsWereAllowed

LEMMA InitRows == Init => RowsInv
<1> SUFFICES ASSUME Init PROVE RowsInv
  OBVIOUS
<1>1. TypeOK
  BY InitType
<1>2. RowsAreMeant /\ LoadedIsMeant /\ IngestAllowed /\ EventsWereAllowed
  BY DEF Init, Idle, RowsAreMeant, LoadedIsMeant, IngestAllowed, EventsWereAllowed
<1> QED
  BY <1>1, <1>2 DEF RowsInv

\* A decision spares nobody who holds the row as it was before.
LEMMA DecideLoaded ==
  ASSUME RowsInv, NEW p \in Projects, NEW d, NEW editors, Decide(p, d, editors),
         \A q \in Requests : req'[q].pc \in {"edit", "admin"} =>
           req'[q] = req[q] /\ (req[q].project = p => q \in editors)
  PROVE  /\ LoadedIsMeant'
         /\ meant' = [meant EXCEPT ![p] = d] /\ overtaken \subseteq overtaken'
<1>1. meant' = [meant EXCEPT ![p] = d] /\ overtaken \subseteq overtaken'
  BY DEF Decide
<1>2. ASSUME NEW q \in Requests, req'[q].pc \in {"edit", "admin"},
             req'[q].project \notin overtaken'
      PROVE  req'[q].row = meant'[req'[q].project] /\ req'[q].row.exists
  <2>1. req'[q] = req[q] /\ req[q].project \in Projects
    BY <1>2 DEF RowsInv, TypeOK
  <2>2. req[q].row = meant[req[q].project] /\ req[q].row.exists
    BY <1>1, <1>2, <2>1 DEF RowsInv, LoadedIsMeant
  <2>3. meant'[req[q].project] = meant[req[q].project]
    <3>1. CASE req[q].project = p
      <4>1. d = meant[p]
        BY <1>2, <2>1, <3>1 DEF Decide, Editing
      <4> QED
        BY <1>1, <3>1, <4>1 DEF RowsInv, TypeOK
    <3>2. CASE req[q].project # p
      BY <1>1, <2>1, <3>2 DEF RowsInv, TypeOK
    <3> QED
      BY <3>1, <3>2
  <2> QED
    BY <2>1, <2>2, <2>3
<1> QED
  BY <1>1, <1>2 DEF LoadedIsMeant

\* A row saved as it was decided is as it is meant.
LEMMA DecideRows ==
  ASSUME RowsInv, NEW p \in Projects, NEW d, NEW saved, NEW editors, Decide(p, d, editors),
         row' = [row EXCEPT ![p] = saved], p \notin overtaken' => saved = d
  PROVE  RowsAreMeant'
  BY DEF RowsInv, TypeOK, Decide, RowsAreMeant

LEMMA ProjectRows ==
  ASSUME RowsInv, NEW p \in Projects,
         \/ Delete(p)
         \/ \E k \in Keys : Rotate(p, k) \/ \E r \in Requests : Create(r, p, k)
         \/ \E r \in Requests : OpenPage(r, p) \/ Authenticate(r, p)
                                \/ Load(r, "edit", p) \/ Load(r, "admin", p)
  PROVE  RowsAreMeant' /\ LoadedIsMeant' /\ IngestAllowed' /\ EventsWereAllowed'
<1>0. TypeOK /\ RowsAreMeant /\ LoadedIsMeant /\ IngestAllowed /\ EventsWereAllowed
  BY DEF RowsInv
<1>1. CASE Delete(p)
  <2> DEFINE gone == [exists |-> FALSE, key |-> row[p].key, is_active |-> FALSE]
  <2>1. Decide(p, gone, Requests) /\ row' = [row EXCEPT ![p] = gone]
        /\ UNCHANGED <<req, events>>
    BY <1>1 DEF Delete
  <2> HIDE DEF gone
  <2>2. LoadedIsMeant' /\ overtaken \subseteq overtaken'
    BY <2>1, DecideLoaded
  <2>3. RowsAreMeant'
    BY <2>1, DecideRows
  <2> QED
    BY <1>0, <2>1, <2>2, <2>3 DEF IngestAllowed, EventsWereAllowed
<1>2. ASSUME NEW k \in Keys, Rotate(p, k)
      PROVE  RowsAreMeant' /\ LoadedIsMeant' /\ IngestAllowed' /\ EventsWereAllowed'
  <2> DEFINE new == [exists |-> TRUE, key |-> k, is_active |-> row[p].is_active]
  <2>1. Decide(p, new, Requests) /\ row' = [row EXCEPT ![p] = new]
        /\ UNCHANGED <<req, events>>
    BY <1>2 DEF Rotate
  <2> HIDE DEF new
  <2>2. LoadedIsMeant' /\ overtaken \subseteq overtaken'
    BY <2>1, DecideLoaded
  <2>3. RowsAreMeant'
    BY <2>1, DecideRows
  <2> QED
    BY <1>0, <2>1, <2>2, <2>3 DEF IngestAllowed, EventsWereAllowed
<1>3. ASSUME NEW k \in Keys, NEW r \in Requests, Create(r, p, k)
      PROVE  RowsAreMeant' /\ LoadedIsMeant' /\ IngestAllowed' /\ EventsWereAllowed'
  <2> DEFINE new == [exists |-> TRUE, key |-> k, is_active |-> TRUE]
  <2>1. Decide(p, new, Requests) /\ row' = [row EXCEPT ![p] = new] /\ UNCHANGED events
    BY <1>3 DEF Create
  <2>2. \A q \in Requests : req'[q].pc \in {"edit", "admin", "ingest"} => req'[q] = req[q]
    BY <1>0, <1>3 DEF Create, Begin, TypeOK
  <2> HIDE DEF new
  <2>3. LoadedIsMeant' /\ overtaken \subseteq overtaken'
    BY <2>1, <2>2, DecideLoaded
  <2>4. RowsAreMeant'
    BY <2>1, DecideRows
  <2> QED
    BY <1>0, <2>1, <2>2, <2>3, <2>4 DEF IngestAllowed, EventsWereAllowed
<1>4. ASSUME NEW r \in Requests, OpenPage(r, p)
      PROVE  RowsAreMeant' /\ LoadedIsMeant' /\ IngestAllowed' /\ EventsWereAllowed'
  BY <1>0, <1>4 DEF OpenPage, Begin, TypeOK, RowsAreMeant, LoadedIsMeant, IngestAllowed,
                    EventsWereAllowed
<1>5. ASSUME NEW r \in Requests, Authenticate(r, p)
      PROVE  RowsAreMeant' /\ LoadedIsMeant' /\ IngestAllowed' /\ EventsWereAllowed'
  <2>1. p \notin overtaken => row[p] = meant[p] /\ meant[p].is_active
    BY <1>0, <1>5 DEF Authenticate, RowsAreMeant
  <2> QED
    BY <1>0, <1>5, <2>1 DEF Authenticate, Begin, TypeOK, RowsAreMeant, LoadedIsMeant,
                            IngestAllowed, EventsWereAllowed
<1>6. ASSUME NEW r \in Requests, NEW pc \in {"edit", "admin"}, Load(r, pc, p)
      PROVE  RowsAreMeant' /\ LoadedIsMeant' /\ IngestAllowed' /\ EventsWereAllowed'
  <2>1. p \notin overtaken => row[p] = meant[p] /\ row[p].exists
    BY <1>0, <1>6 DEF Load, RowsAreMeant
  <2> QED
    BY <1>0, <1>6, <2>1 DEF Load, Begin, TypeOK, RowsAreMeant, LoadedIsMeant,
                            IngestAllowed, EventsWereAllowed
<1> QED
  BY <1>1, <1>2, <1>3, <1>4, <1>5, <1>6

LEMMA RequestRows ==
  ASSUME RowsInv, NEW r \in Requests,
         \/ RememberKey(r) \/ EditSave(r) \/ ShowPage(r) \/ Store(r) \/ Abandon(r)
         \/ \E is_active \in BOOLEAN : AdminSave(r, is_active)
  PROVE  RowsAreMeant' /\ LoadedIsMeant' /\ IngestAllowed' /\ EventsWereAllowed'
<1>0. TypeOK /\ RowsAreMeant /\ LoadedIsMeant /\ IngestAllowed /\ EventsWereAllowed
  BY DEF RowsInv
<1>1. End(r) => \A q \in Requests : req'[q].pc # "idle" => req'[q] = req[q] /\ q # r
  BY <1>0 DEF End, Idle, TypeOK
<1>2. CASE EditSave(r)
  <2>1. req[r].project \in Projects
    BY <1>0, <1>2 DEF EditSave, TypeOK
  <2>2. req[r].project \notin overtaken => req[r].row = meant[req[r].project]
    BY <1>0, <1>2 DEF EditSave, LoadedIsMeant
  <2>3. RowsAreMeant'
    BY <1>0, <1>2, <2>1, <2>2 DEF EditSave, RowsAreMeant, TypeOK
  <2> QED
    BY <1>0, <1>1, <1>2, <2>3 DEF EditSave, LoadedIsMeant, IngestAllowed, EventsWereAllowed
<1>3. ASSUME NEW a \in BOOLEAN, AdminSave(r, a)
      PROVE  RowsAreMeant' /\ LoadedIsMeant' /\ IngestAllowed' /\ EventsWereAllowed'
  <2> DEFINE p == req[r].project
             d == [exists |-> meant[p].exists, key |-> meant[p].key, is_active |-> a]
             saved == [exists |-> TRUE, key |-> req[r].row.key, is_active |-> a]
  <2>1. p \in Projects
    BY <1>0, <1>3 DEF AdminSave, TypeOK
  <2>2. /\ Decide(p, d, Requests \ {r}) /\ row' = [row EXCEPT ![p] = saved]
        /\ End(r) /\ UNCHANGED events
    BY <1>3 DEF AdminSave
  <2>3. p \notin overtaken => saved = d
    <3>1. p \notin overtaken => req[r].row = meant[p] /\ req[r].row.exists
      BY <1>0, <1>3 DEF AdminSave, LoadedIsMeant
    <3>2. meant[p].exists \in BOOLEAN
      BY <1>0, <2>1 DEF TypeOK, Row
    <3> QED
      BY <3>1, <3>2
  <2> HIDE DEF p, d, saved
  <2>4. LoadedIsMeant' /\ overtaken \subseteq overtaken'
    BY <1>1, <2>1, <2>2, DecideLoaded
  <2>5. RowsAreMeant'
    BY <2>1, <2>2, <2>3, <2>4, DecideRows
  <2> QED
    BY <1>0, <1>1, <2>2, <2>4, <2>5 DEF IngestAllowed, EventsWereAllowed
<1>4. CASE Store(r)
  <2>1. EventsWereAllowed'
    BY <1>0, <1>4 DEF Store, IngestAllowed, EventsWereAllowed
  <2> QED
    BY <1>0, <1>1, <1>4, <2>1 DEF Store, RowsAreMeant, LoadedIsMeant, IngestAllowed
<1>5. CASE RememberKey(r) \/ ShowPage(r) \/ Abandon(r)
  BY <1>0, <1>1, <1>5 DEF RememberKey, ShowPage, Abandon, RowsAreMeant, LoadedIsMeant,
                          IngestAllowed, EventsWereAllowed
<1> QED
  BY <1>2, <1>3, <1>4, <1>5

LEMMA NextRows == RowsInv /\ [Next]_vars => RowsInv'
<1> SUFFICES ASSUME RowsInv, [Next]_vars PROVE RowsInv'
  OBVIOUS
<1>1. TypeOK'
  BY NextType DEF RowsInv
<1>2. RowsAreMeant' /\ LoadedIsMeant' /\ IngestAllowed' /\ EventsWereAllowed'
  <2>1. CASE UNCHANGED vars
    BY <2>1 DEF vars, RowsInv, RowsAreMeant, LoadedIsMeant, IngestAllowed, EventsWereAllowed
  <2>2. CASE Next
    BY <2>2, ProjectRows, RequestRows DEF Next
  <2> QED
    BY <2>1, <2>2
<1> QED
  BY <1>1, <1>2 DEF RowsInv

(***************************************************************************)
(* A row is what the decisions about it made it, unless an edit that had   *)
(* loaded it was overtaken by one.                                         *)
(***************************************************************************)
THEOREM RowsMeant == Spec => []RowsAreMeant
<1>1. RowsInv => RowsAreMeant
  BY DEF RowsInv
<1> QED
  BY InitRows, NextRows, <1>1, PTL DEF Spec

(***************************************************************************)
(* A stored event came with the key meant for its project, active when the *)
(* request began, unless an edit of the project was overtaken.             *)
(***************************************************************************)
THEOREM EventsAllowed == Spec => []EventsWereAllowed
<1>1. RowsInv => EventsWereAllowed
  BY DEF RowsInv
<1> QED
  BY InitRows, NextRows, <1>1, PTL DEF Spec
-----------------------------------------------------------------------------
\* Request r holds key k, on its way into the session or out of it.
Holds(r, k) == req[r].pc \in {"created", "page"} /\ req[r].key = k

\* Only keys that were generated are in use.
InUseIssued ==
  \A k \in Keys \ issued :
    slot # k /\ shown[k] = 0 /\ \A r \in Requests : ~Holds(r, k)

\* The key of a project just inserted is with one request and nowhere else.
NewKeyIsFresh ==
  \A r \in Requests, k \in Keys :
    req[r].pc = "created" /\ Holds(r, k) =>
      slot # k /\ shown[k] = 0 /\ \A q \in Requests : Holds(q, k) => q = r

\* A key that was shown has left the session for good.
ShownLeft == \A k \in Keys : shown[k] > 0 => slot # k

\* Until two pages held a key at once, one at most holds it, and then none showed it.
HeldOnce ==
  \A k \in Keys \ together :
    /\ shown[k] <= 1
    /\ \A r \in Requests : Holds(r, k) =>
         shown[k] = 0 /\ \A q \in Requests : Holds(q, k) => q = r

SessionInv == TypeOK /\ InUseIssued /\ NewKeyIsFresh /\ ShownLeft /\ HeldOnce

LEMMA InitSession == Init => SessionInv
<1> SUFFICES ASSUME Init PROVE SessionInv
  OBVIOUS
<1>1. TypeOK
  BY InitType
<1>2. InUseIssued /\ NewKeyIsFresh /\ ShownLeft /\ HeldOnce
  BY KeysAssumption
     DEF Init, Idle, Holds, InUseIssued, NewKeyIsFresh, ShownLeft, HeldOnce
<1> QED
  BY <1>1, <1>2 DEF SessionInv

\* Nothing happens to the session while keys change hands nowhere.
LEMMA SessionKept ==
  ASSUME SessionInv, issued \subseteq issued', UNCHANGED <<slot, shown, together>>,
         \A r \in Requests : req'[r].pc \in {"created", "page"} => req'[r] = req[r]
  PROVE  InUseIssued' /\ NewKeyIsFresh' /\ ShownLeft' /\ HeldOnce'
<1>1. \A r \in Requests, k \in Keys : Holds(r, k)' => Holds(r, k) /\ req'[r] = req[r]
  BY DEF Holds
<1> QED
  BY <1>1 DEF SessionInv, InUseIssued, NewKeyIsFresh, ShownLeft, HeldOnce

LEMMA ProjectSession ==
  ASSUME SessionInv, NEW p \in Projects,
         \/ Delete(p)
         \/ \E k \in Keys : Rotate(p, k) \/ \E r \in Requests : Create(r, p, k)
         \/ \E r \in Requests : OpenPage(r, p) \/ Authenticate(r, p)
                                \/ Load(r, "edit", p) \/ Load(r, "admin", p)
  PROVE  InUseIssued' /\ NewKeyIsFresh' /\ ShownLeft' /\ HeldOnce'
<1>0. /\ req \in [Requests -> Request] /\ shown \in [Keys -> Nat]
      /\ InUseIssued /\ NewKeyIsFresh /\ ShownLeft /\ HeldOnce
  BY DEF SessionInv, TypeOK
<1>1. CASE Delete(p)
  BY <1>1, SessionKept DEF Delete
<1>2. ASSUME NEW k \in Keys, Rotate(p, k)
      PROVE  InUseIssued' /\ NewKeyIsFresh' /\ ShownLeft' /\ HeldOnce'
  BY <1>2, SessionKept DEF Rotate
<1>3. ASSUME NEW k \in Keys, NEW r \in Requests, Create(r, p, k)
      PROVE  InUseIssued' /\ NewKeyIsFresh' /\ ShownLeft' /\ HeldOnce'
  <2>1. k \notin issued /\ issued' = issued \cup {k} /\ UNCHANGED <<slot, shown, together>>
    BY <1>3 DEF Create
  <2>2. CASE UNCHANGED req
    BY <2>1, <2>2, SessionKept
  <2>3. CASE Begin(r, "created", p, NoRow, k, FALSE)
    <3>1. /\ req'[r].pc = "created" /\ req'[r].key = k
          /\ \A q \in Requests : q # r => req'[q] = req[q]
      BY <1>0, <2>3 DEF Begin
    <3>2. slot # k /\ shown[k] = 0 /\ \A q \in Requests : ~Holds(q, k)
      BY <1>0, <2>1 DEF InUseIssued
    <3>3. \A q \in Requests, j \in Keys :
            Holds(q, j)' => (IF q = r THEN j = k ELSE Holds(q, j) /\ req'[q] = req[q])
      BY <3>1 DEF Holds
    <3>4. InUseIssued'
      BY <1>0, <2>1, <3>3 DEF InUseIssued
    <3>5. NewKeyIsFresh'
      BY <1>0, <2>1, <3>2, <3>3 DEF NewKeyIsFresh
    <3>6. ShownLeft' /\ HeldOnce'
      BY <1>0, <2>1, <3>2, <3>3 DEF ShownLeft, HeldOnce
    <3> QED
      BY <3>4, <3>5, <3>6
  <2> QED
    BY <1>3, <2>2, <2>3 DEF Create
<1>4. ASSUME NEW r \in Requests, OpenPage(r, p)
      PROVE  InUseIssued' /\ NewKeyIsFresh' /\ ShownLeft' /\ HeldOnce'
  <2>1. /\ req'[r].pc = "page" /\ req'[r].key = slot
        /\ \A q \in Requests : q # r => req'[q] = req[q]
        /\ UNCHANGED <<slot, shown, issued>> /\ together \subseteq together'
    BY <1>0, <1>4 DEF OpenPage, Begin
  <2>2. \A q \in Requests, j \in Keys :
          Holds(q, j)' => (IF q = r THEN j = slot ELSE Holds(q, j) /\ req'[q] = req[q])
    BY <2>1 DEF Holds
  <2>3. \A q \in Requests : slot \in Keys \ together' => ~Holds(q, slot)
    <3>1. ASSUME NEW q \in Requests, slot \in Keys \ together', Holds(q, slot) PROVE FALSE
      <4>1. req[q].pc # "page"
        BY <1>4, <3>1 DEF OpenPage, Holds
      <4> QED
        BY <1>0, <3>1, <4>1 DEF NewKeyIsFresh, Holds
    <3> QED
      BY <3>1
  <2>4. slot \in Keys => shown[slot] = 0
    BY <1>0 DEF ShownLeft
  <2>5. InUseIssued' /\ ShownLeft'
    BY <1>0, <2>1, <2>2 DEF InUseIssued, ShownLeft
  <2>6. NewKeyIsFresh'
    BY <1>0, <2>1, <2>2 DEF NewKeyIsFresh
  <2>7. HeldOnce'
    BY <1>0, <2>1, <2>2, <2>3, <2>4 DEF HeldOnce
  <2> QED
    BY <2>5, <2>6, <2>7
<1>5. ASSUME NEW r \in Requests, Authenticate(r, p)
      PROVE  InUseIssued' /\ NewKeyIsFresh' /\ ShownLeft' /\ HeldOnce'
  BY <1>0, <1>5, SessionKept DEF Authenticate, Begin
<1>6. ASSUME NEW r \in Requests, NEW pc \in {"edit", "admin"}, Load(r, pc, p)
      PROVE  InUseIssued' /\ NewKeyIsFresh' /\ ShownLeft' /\ HeldOnce'
  BY <1>0, <1>6, SessionKept DEF Load, Begin
<1> QED
  BY <1>1, <1>2, <1>3, <1>4, <1>5, <1>6

LEMMA RequestSession ==
  ASSUME SessionInv, NEW r \in Requests,
         \/ RememberKey(r) \/ EditSave(r) \/ ShowPage(r) \/ Store(r) \/ Abandon(r)
         \/ \E is_active \in BOOLEAN : AdminSave(r, is_active)
  PROVE  InUseIssued' /\ NewKeyIsFresh' /\ ShownLeft' /\ HeldOnce'
<1>0. /\ req \in [Requests -> Request] /\ shown \in [Keys -> Nat]
      /\ InUseIssued /\ NewKeyIsFresh /\ ShownLeft /\ HeldOnce
  BY DEF SessionInv, TypeOK
<1>1. End(r) => \A q \in Requests : req'[q].pc # "idle" => req'[q] = req[q] /\ q # r
  BY <1>0 DEF End, Idle
<1>2. CASE EditSave(r) \/ Store(r) \/ Abandon(r)
  BY <1>1, <1>2, SessionKept DEF EditSave, Store, Abandon
<1>3. ASSUME NEW a \in BOOLEAN, AdminSave(r, a)
      PROVE  InUseIssued' /\ NewKeyIsFresh' /\ ShownLeft' /\ HeldOnce'
  BY <1>1, <1>3, SessionKept DEF AdminSave
<1>4. ASSUME End(r)
      PROVE  \A q \in Requests, k \in Keys : Holds(q, k)' => Holds(q, k) /\ req'[q] = req[q] /\ q # r
  BY <1>1, <1>4 DEF Holds
<1>5. CASE RememberKey(r)
  <2> DEFINE k == req[r].key
  <2>1. /\ k \in Keys /\ req[r].pc = "created" /\ Holds(r, k) /\ slot' = k /\ End(r)
        /\ UNCHANGED <<issued, shown, together>>
    BY <1>5 DEF RememberKey, SessionInv, TypeOK, Holds
  <2>2. shown[k] = 0 /\ \A q \in Requests : Holds(q, k) => q = r
    BY <1>0, <2>1 DEF NewKeyIsFresh
  <2>3. k \in issued
    BY <1>0, <2>1 DEF InUseIssued
  <2> HIDE DEF k
  <2>4. InUseIssued' /\ ShownLeft'
    BY <1>0, <1>4, <2>1, <2>2, <2>3 DEF InUseIssued, ShownLeft
  <2>5. NewKeyIsFresh' /\ HeldOnce'
    BY <1>0, <1>4, <2>1, <2>2 DEF NewKeyIsFresh, HeldOnce
  <2> QED
    BY <2>4, <2>5
<1>6. CASE ShowPage(r)
  <2>1. CASE req[r].key = NoKey
    BY <1>1, <1>6, <2>1, SessionKept DEF ShowPage
  <2>2. CASE req[r].key # NoKey
    <3> DEFINE k == req[r].key
    <3>1. /\ k \in Keys /\ Holds(r, k) /\ slot' = NoKey /\ End(r)
          /\ shown' = [shown EXCEPT ![k] = shown[k] + 1] /\ UNCHANGED <<issued, together>>
          /\ req[r].pc = "page"
      BY <1>0, <1>6, <2>2 DEF ShowPage, Request, Holds
    <3>2. k \in issued
      BY <1>0, <3>1 DEF InUseIssued
    <3>3. \A q \in Requests : Holds(q, k) => req[q].pc # "created"
      BY <1>0, <3>1 DEF NewKeyIsFresh
    <3>4. k \notin together => shown[k] = 0 /\ \A q \in Requests : Holds(q, k) => q = r
      BY <1>0, <3>1 DEF HeldOnce
    <3>5. \A j \in Keys : shown'[j] = IF j = k THEN shown[k] + 1 ELSE shown[j]
      BY <1>0, <3>1
    <3> HIDE DEF k
    <3>6. InUseIssued' /\ ShownLeft'
      BY <1>0, <1>4, <3>1, <3>2, <3>5, KeysAssumption DEF InUseIssued, ShownLeft
    <3>7. NewKeyIsFresh'
      BY <1>0, <1>4, <3>1, <3>3, <3>5, KeysAssumption DEF NewKeyIsFresh
    <3>8. HeldOnce'
      BY <1>0, <1>4, <3>1, <3>4, <3>5 DEF HeldOnce
    <3> QED
      BY <3>6, <3>7, <3>8
  <2> QED
    BY <2>1, <2>2
<1> QED
  BY <1>2, <1>3, <1>5, <1>6

LEMMA NextSession == SessionInv /\ [Next]_vars => SessionInv'
<1> SUFFICES ASSUME SessionInv, [Next]_vars PROVE SessionInv'
  OBVIOUS
<1>1. TypeOK'
  BY NextType DEF SessionInv
<1>2. InUseIssued' /\ NewKeyIsFresh' /\ ShownLeft' /\ HeldOnce'
  <2>1. CASE UNCHANGED vars
    BY <2>1, SessionKept DEF vars
  <2>2. CASE Next
    BY <2>2, ProjectSession, RequestSession DEF Next
  <2> QED
    BY <2>1, <2>2
<1> QED
  BY <1>1, <1>2 DEF SessionInv

(***************************************************************************)
(* The key of a new project is shown by one project page, unless two held  *)
(* it at the same time.                                                    *)
(***************************************************************************)
THEOREM KeyShownOnce == Spec => []ShownOnce
<1>1. SessionInv => ShownOnce
  BY DEF SessionInv, TypeOK, HeldOnce, ShownOnce
<1> QED
  BY InitSession, NextSession, <1>1, PTL DEF Spec
=============================================================================
