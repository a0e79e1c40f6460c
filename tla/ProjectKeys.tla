----------------------------- MODULE ProjectKeys -----------------------------
(***************************************************************************)
(* The projects of one user and their API keys: the pages and the API of   *)
(* monitoring.views and api.views that create, edit, rotate, deactivate    *)
(* and delete a project, the authentication of ingestion by api.auth, and  *)
(* the session entry in which a new key waits for the next project page.   *)
(*                                                                         *)
(* Requests run in several web processes.  A request that keeps what it    *)
(* read and uses it later is two steps, with any others between: the edit  *)
(* and the admin form load a row and save all of its columns, a page loads *)
(* the session and saves it whole when it has responded.  What a request   *)
(* decides from the current row alone (rotation updates the key columns of *)
(* whatever row is there, deletion removes it) is one step.                *)
(*                                                                         *)
(* Abstracted: a key stands for itself and its hash; no two generated keys *)
(* are equal.  Names and descriptions are left out: an edit changes        *)
(* nothing that is modelled, except by saving what it loaded.              *)
(***************************************************************************)
EXTENDS Naturals

CONSTANTS
  Projects,  \* primary keys, each given to one project
  Keys,      \* the API keys that come to be generated
  NoKey,     \* no key
  Requests,  \* requests under way at the same time
  NoProject  \* what an idle request is about

ASSUME KeysAssumption == NoKey \notin Keys /\ NoProject \notin Projects

VARIABLES
  row,        \* row[p]: the Project row p
  meant,      \* meant[p]: the row as its owner and the admin decided it (ghost)
  issued,     \* the keys generated so far
  slot,       \* session["monitoring_generated_key"], as stored
  req,        \* req[r]: what request r is doing (Request)
  shown,      \* shown[k]: how many project pages have shown key k
  together,   \* keys that two open pages held at the same time (ghost)
  events,     \* stored events: their project and whether the key they came with was
              \* the one meant for it when they were let in (ghost)
  overtaken   \* projects decided about while an edit held their row (ghost)

vars == <<row, meant, issued, slot, req, shown, together, events, overtaken>>

Row == [exists : BOOLEAN, key : Keys \cup {NoKey}, is_active : BOOLEAN]

NoRow == [exists |-> FALSE, key |-> NoKey, is_active |-> FALSE]

(***************************************************************************)
(* pc: "edit", "admin" - the row has been loaded, and will be saved;       *)
(*     "created"       - a project was inserted, its key is to be put in   *)
(*                       the session;                                      *)
(*     "page"          - a project page, with the session's key, if any;   *)
(*     "ingest"        - an event was let in and is to be stored.          *)
(* row is what was loaded, key what is to be shown, allowed whether the    *)
(* event's key was the one meant.                                          *)
(***************************************************************************)
Request == [pc : {"idle", "edit", "admin", "created", "page", "ingest"},
            project : Projects \cup {NoProject}, row : Row, key : Keys \cup {NoKey},
            allowed : BOOLEAN]

Idle == [pc |-> "idle", project |-> NoProject, row |-> NoRow, key |-> NoKey,
         allowed |-> FALSE]

TypeOK ==
  /\ row \in [Projects -> Row]
  /\ meant \in [Projects -> Row]
  /\ issued \subseteq Keys
  /\ slot \in Keys \cup {NoKey}
  /\ req \in [Requests -> Request]
  /\ \A r \in Requests :
       /\ req[r].pc # "idle" => req[r].project \in Projects
       /\ req[r].pc = "created" => req[r].key \in Keys
  /\ shown \in [Keys -> Nat]
  /\ together \subseteq Keys
  /\ events \subseteq [project : Projects, allowed : BOOLEAN]
  /\ overtaken \subseteq Projects

Init ==
  /\ row = [p \in Projects |-> NoRow]
  /\ meant = [p \in Projects |-> NoRow]
  /\ issued = {}
  /\ slot = NoKey
  /\ req = [r \in Requests |-> Idle]
  /\ shown = [k \in Keys |-> 0]
  /\ together = {}
  /\ events = {}
  /\ overtaken = {}

-----------------------------------------------------------------------------
\* Request r holds a row of p that it is going to save.
Editing(r, p) == req[r].pc \in {"edit", "admin"} /\ req[r].project = p

\* The owner or the admin decides that the row of p is to be d, while any of
\* editors may hold the row as it was before.
Decide(p, d, editors) ==
  /\ meant' = [meant EXCEPT ![p] = d]
  /\ overtaken' = IF d # meant[p] /\ \E q \in editors : Editing(q, p)
                  THEN overtaken \cup {p} ELSE overtaken

Begin(r, pc, p, loaded, key, allowed) ==
  /\ req[r].pc = "idle"
  /\ req' = [req EXCEPT ![r] = [pc |-> pc, project |-> p, row |-> loaded, key |-> key,
                                allowed |-> allowed]]

End(r) == req' = [req EXCEPT ![r] = Idle]

\* A project is created with a new key.  The form is to put the key in the
\* session; POST /api/projects/ has it in its own response.
Create(r, p, k) ==
  LET new == [exists |-> TRUE, key |-> k, is_active |-> TRUE] IN
  /\ meant[p].key = NoKey
  /\ k \notin issued
  /\ issued' = issued \cup {k}
  /\ row' = [row EXCEPT ![p] = new]
  /\ Decide(p, new, Requests)
  /\ Begin(r, "created", p, NoRow, k, FALSE) \/ UNCHANGED req
  /\ UNCHANGED <<slot, shown, together, events>>

\* The response to the form saves the session, with the key in it.
RememberKey(r) ==
  /\ req[r].pc = "created"
  /\ slot' = req[r].key
  /\ End(r)
  /\ UNCHANGED <<row, meant, issued, shown, together, events, overtaken>>

\* Mutant: update_fields lacks api_key_hash.
RotateWithoutHash(p, k) ==
  /\ row[p].exists
  /\ k \notin issued
  /\ issued' = issued \cup {k}
  /\ Decide(p, [exists |-> TRUE, key |-> k, is_active |-> row[p].is_active], Requests)
  /\ UNCHANGED <<row, slot, req, shown, together, events>>

\* project_regenerate_key: rotate_api_key updates the key columns only, and the
\* response shows the new key.
Rotate(p, k) ==
  LET new == [exists |-> TRUE, key |-> k, is_active |-> row[p].is_active] IN
  /\ row[p].exists
  /\ k \notin issued
  /\ issued' = issued \cup {k}
  /\ row' = [row EXCEPT ![p] = new]
  /\ Decide(p, new, Requests)
  /\ UNCHANGED <<slot, req, shown, together, events>>

Delete(p) ==
  LET gone == [exists |-> FALSE, key |-> row[p].key, is_active |-> FALSE] IN
  /\ row[p].exists
  /\ row' = [row EXCEPT ![p] = gone]
  /\ Decide(p, gone, Requests)
  /\ UNCHANGED <<issued, slot, req, shown, together, events>>

\* The edit page or the admin's form loads the row.
Load(r, pc, p) ==
  /\ row[p].exists
  /\ Begin(r, pc, p, row[p], NoKey, FALSE)
  /\ UNCHANGED <<row, meant, issued, slot, shown, together, events, overtaken>>

\* ProjectEditView saves every column; a row that is gone is inserted again.
EditSave(r) ==
  /\ req[r].pc = "edit"
  /\ row' = [row EXCEPT ![req[r].project] = req[r].row]
  /\ End(r)
  /\ UNCHANGED <<meant, issued, slot, shown, together, events, overtaken>>

\* So does the admin's form, which decides about is_active only.
AdminSave(r, is_active) ==
  LET p == req[r].project IN
  /\ req[r].pc = "admin"
  /\ row' = [row EXCEPT ![p] = [exists |-> TRUE, key |-> req[r].row.key,
                                is_active |-> is_active]]
  /\ Decide(p, [exists |-> meant[p].exists, key |-> meant[p].key, is_active |-> is_active],
            Requests \ {r})
  /\ End(r)
  /\ UNCHANGED <<issued, slot, shown, together, events>>

\* A project page loads the session, and pops the key out of it.
OpenPage(r, p) ==
  /\ row[p].exists
  /\ Begin(r, "page", p, NoRow, slot, FALSE)
  /\ together' = together \cup
       {k \in Keys : k = slot /\ \E q \in Requests : req[q].pc = "page" /\ req[q].key = k}
  /\ UNCHANGED <<row, meant, issued, slot, shown, events, overtaken>>

\* Mutant: the key is read with get() in place of pop().
ShowPageKeepKey(r) ==
  /\ req[r].pc = "page"
  /\ IF req[r].key = NoKey
     THEN UNCHANGED shown
     ELSE shown' = [shown EXCEPT ![req[r].key] = shown[req[r].key] + 1]
  /\ End(r)
  /\ UNCHANGED <<row, meant, issued, slot, together, events, overtaken>>

\* The page responds: a session that was changed is saved, whatever it has come
\* to hold meanwhile.
ShowPage(r) ==
  /\ req[r].pc = "page"
  /\ IF req[r].key = NoKey
     THEN UNCHANGED <<slot, shown>>
     ELSE /\ slot' = NoKey
          /\ shown' = [shown EXCEPT ![req[r].key] = shown[req[r].key] + 1]
  /\ End(r)
  /\ UNCHANGED <<row, meant, issued, together, events, overtaken>>

\* Mutant: the project's is_active is not looked at.
AuthenticateInactive(r, p) ==
  /\ row[p].exists
  /\ Begin(r, "ingest", p, NoRow, row[p].key, row[p] = meant[p] /\ meant[p].is_active)
  /\ UNCHANGED <<row, meant, issued, slot, shown, together, events, overtaken>>

\* POST /api/events/ with the key of p: the row is found by the key's hash.
Authenticate(r, p) ==
  /\ row[p].exists
  /\ row[p].is_active
  /\ Begin(r, "ingest", p, NoRow, row[p].key, row[p] = meant[p] /\ meant[p].is_active)
  /\ UNCHANGED <<row, meant, issued, slot, shown, together, events, overtaken>>

\* The event is stored, unless its project is gone (the foreign key fails).
Store(r) ==
  /\ req[r].pc = "ingest"
  /\ events' = IF row[req[r].project].exists
               THEN events \cup {[project |-> req[r].project, allowed |-> req[r].allowed]}
               ELSE events
  /\ End(r)
  /\ UNCHANGED <<row, meant, issued, slot, shown, together, overtaken>>

\* The web process stops, or the form is invalid.
Abandon(r) ==
  /\ req[r].pc # "idle"
  /\ End(r)
  /\ UNCHANGED <<row, meant, issued, slot, shown, together, events, overtaken>>

Next ==
  \/ \E p \in Projects :
       \/ Delete(p)
       \/ \E k \in Keys : Rotate(p, k) \/ \E r \in Requests : Create(r, p, k)
       \/ \E r \in Requests :
            OpenPage(r, p) \/ Authenticate(r, p) \/ Load(r, "edit", p) \/ Load(r, "admin", p)
  \/ \E r \in Requests :
       \/ RememberKey(r) \/ EditSave(r) \/ ShowPage(r) \/ Store(r) \/ Abandon(r)
       \/ \E is_active \in BOOLEAN : AdminSave(r, is_active)

Spec == Init /\ [][Next]_vars
-----------------------------------------------------------------------------
(* Properties.                                                             *)

(***************************************************************************)
(* The row of a project is what creation, rotation, deletion and           *)
(* (de)activation, in the order they were saved, made it: a retired key, a *)
(* deleted project or a deactivated one comes back only where an edit had  *)
(* loaded the row before the decision and saved it after.                  *)
(***************************************************************************)
RowsAreMeant ==
  \A p \in Projects : p \notin overtaken => row[p] = meant[p]

(***************************************************************************)
(* An event stored came with the key meant for its project, active, when   *)
(* the request began (rotation and deletion in the meantime do not stop    *)
(* it), unless an edit was overtaken.                                      *)
(***************************************************************************)
EventsWereAllowed ==
  \A e \in events : e.allowed \/ e.project \in overtaken

(***************************************************************************)
(* The key of a new project is shown by one project page, unless two pages *)
(* were open at once that had both taken it out of the session.            *)
(***************************************************************************)
ShownOnce == \A k \in Keys : shown[k] > 1 => k \in together

(***************************************************************************)
(* "Regeneration replaces the hash immediately, invalidating the old key"  *)
(* (README.md, API keys): no project has a key other than its last.        *)
(***************************************************************************)
RotatedKeyIsDead ==
  \A p \in Projects : row[p].exists /\ meant[p].exists => row[p].key = meant[p].key
=============================================================================
