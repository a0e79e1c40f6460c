--------------------------- MODULE AnalyticsCache ---------------------------
(***************************************************************************)
(* The dashboard cache of analytics.services: dashboard_data serves a      *)
(* window from the cache under a key that holds the version numbers of up  *)
(* to three counters (global, owner, project), and the on-commit hook of   *)
(* event ingestion moves all three with increment_cache_version.           *)
(*                                                                         *)
(* Requests and hooks run in different web processes and interleave at     *)
(* every cache operation and query.  The cache may drop or expire any key, *)
(* and django_redis runs with IGNORE_EXCEPTIONS: an unreachable Redis      *)
(* reads as a missing key and swallows writes.                             *)
(*                                                                         *)
(* Abstracted: one set of filters, and a window is the set of events its   *)
(* first query counts; the queries that follow see no fewer of the new.    *)
(***************************************************************************)
EXTENDS Naturals, FiniteSets

CONSTANTS
  Owners,     \* users; owner o is also the scope "all projects of o"
  Projects,   \* projects, each a scope of its own
  Events,     \* the events that come to be stored
  OwnerOf,    \* OwnerOf[p]: the owner of project p; OwnerOf[o] = o
  ProjectOf,  \* ProjectOf[e]: the project of event e
  Global,     \* the global version counter
  NoScope,    \* what an idle reader serves
  Asked,      \* the scopes users ask for
  Readers,    \* web processes that serve the dashboard
  Capacity,   \* how many windows the cache has room for (MAX_ENTRIES of LocMem)
  MaxFaults   \* bound on the faults of cache and web processes together

Scopes == Owners \cup Projects

ASSUME CacheAssumption ==
  /\ Owners \cap Projects = {}
  /\ OwnerOf \in [Scopes -> Owners]
  /\ \A o \in Owners : OwnerOf[o] = o
  /\ ProjectOf \in [Events -> Projects]
  /\ Asked \subseteq Scopes
  /\ Global \notin Scopes
  /\ NoScope \notin Scopes
  /\ Capacity \in Nat \ {0}
  /\ MaxFaults \in Nat

VARIABLES
  status,   \* status[e]: is the Event row not yet stored, stored or deleted
  hook,     \* hook[e]: 0 before e's on-commit hook, 1..3 its next counter, 4 after it
  pending,  \* pending[e]: what e's hook is about to set its counter to, or 0
  at,       \* at[e][i]: the number e's hook moved its i-th counter to, or 0 (ghost)
  version,  \* version[c]: the number the cache holds for counter c, 0 for none
  cache,    \* the cached windows, by key
  failed,   \* the counters whose number was lost or set back, or used by a reader
            \* before the counter had one (ghost)
  faults,   \* faults so far
  pc,       \* pc[r]: what the request of reader r does next
  scope,    \* scope[r]: the project it asks for, or its user for all projects
  vector,   \* vector[r]: the counters it has read, 0 for those it has not
  window,   \* window[r]: the events it counts
  seen,     \* seen[r]: the pairs <<e, i>> where, before the request began, e's hook had
            \* moved its i-th counter or, for i = 0, nothing of storing e was left (ghost)
  trusted   \* trusted[r]: the indices of the counters it read without an error (ghost)

eventVars == <<status, hook, pending, at>>
cacheVars == <<version, cache, failed>>
readerVars == <<pc, scope, vector, window, seen, trusted>>
vars == <<eventVars, cacheVars, faults, readerVars>>

Counters == {Global} \cup Scopes

\* The counters in the key of a scope: global, owner and, for one project, its own.
Width(s) == IF s \in Projects THEN 3 ELSE 2

Counter(s, i) == IF i = 1 THEN Global ELSE IF i = 2 THEN OwnerOf[s] ELSE s

InScope(e, s) == s \in {ProjectOf[e], OwnerOf[ProjectOf[e]]}

\* The events a query over scope s finds.
Found(s) == {e \in Events : status[e] = "stored" /\ InScope(e, s)}

Vectors == [1..3 -> Nat]

Unread == [i \in 1..3 |-> 0]

\* The request reads "global", "owner" and "project" in turn, then looks the key
\* up ("get"); on a miss it queries the database ("query") and stores the window
\* ("set").  At "done" the response is ready.
PC == {"idle", "global", "owner", "project", "get", "query", "set", "done"}

TypeOK ==
  /\ status \in [Events -> {"new", "stored", "deleted"}]
  /\ hook \in [Events -> 0..4]
  /\ pending \in [Events -> Nat]
  /\ at \in [Events -> Vectors]
  /\ version \in [Counters -> Nat]
  /\ \A k \in DOMAIN cache : k \in [scope : Scopes, vector : Vectors] /\ cache[k] \subseteq Events
  /\ failed \subseteq Counters
  /\ faults \in 0..MaxFaults
  /\ pc \in [Readers -> PC]
  /\ scope \in [Readers -> Scopes \cup {NoScope}]
  /\ vector \in [Readers -> Vectors]
  /\ window \in [Readers -> SUBSET Events]
  /\ seen \in [Readers -> SUBSET (Events \X (0..3))]
  /\ trusted \in [Readers -> SUBSET (1..3)]

Init ==
  /\ status = [e \in Events |-> "new"]
  /\ hook = [e \in Events |-> 0]
  /\ pending = [e \in Events |-> 0]
  /\ at = [e \in Events |-> Unread]
  /\ version = [c \in Counters |-> 0]
  /\ cache = [k \in {} |-> {}]
  /\ failed = {}
  /\ faults = 0
  /\ pc = [r \in Readers |-> "idle"]
  /\ scope = [r \in Readers |-> NoScope]
  /\ vector = [r \in Readers |-> Unread]
  /\ window = [r \in Readers |-> {}]
  /\ seen = [r \in Readers |-> {}]
  /\ trusted = [r \in Readers |-> {}]

Fault == faults < MaxFaults /\ faults' = faults + 1

-----------------------------------------------------------------------------
(* Events and their on-commit hooks.                                       *)

\* POST /api/events commits e; _after_event_commit is still to run.
Post(e) ==
  /\ status[e] = "new"
  /\ status' = [status EXCEPT ![e] = "stored"]
  /\ UNCHANGED <<hook, pending, at, cacheVars, faults, readerVars>>

\* seed_demo_data stores e by bulk_create: no hook, and the post_save receiver of
\* analytics.signals compares a lower-case model_name with capitalised names.
Import(e) ==
  /\ status[e] = "new"
  /\ status' = [status EXCEPT ![e] = "stored"]
  /\ hook' = [hook EXCEPT ![e] = 4]
  /\ UNCHANGED <<pending, at, cacheVars, faults, readerVars>>

\* Retention removes e; the post_delete receiver never matches either.
Delete(e) ==
  /\ status[e] = "stored"
  /\ status' = [status EXCEPT ![e] = "deleted"]
  /\ UNCHANGED <<hook, pending, at, cacheVars, faults, readerVars>>

\* The hook starts by reading e back, and returns if e is gone.
AfterCommit(e) ==
  /\ status[e] # "new"
  /\ hook[e] = 0
  /\ hook' = [hook EXCEPT ![e] = IF status[e] = "stored" THEN 1 ELSE 4]
  /\ UNCHANGED <<status, pending, at, cacheVars, faults, readerVars>>

\* _read_version: the number held, or 1, which it then stores.
Held(c) == IF version[c] = 0 THEN 1 ELSE version[c]

\* The counter the hook of e is to move next.
Next1(e) == Counter(ProjectOf[e], hook[e])

\* Counter hook[e] of e now has number n, and the hook goes on to the next.
Moved(e, n) ==
  /\ version' = [version EXCEPT ![Next1(e)] = n]
  /\ at' = [at EXCEPT ![e] = [i \in 1..3 |-> IF i = hook[e] THEN n ELSE at[e][i]]]
  /\ hook' = [hook EXCEPT ![e] = hook[e] + 1]

\* _increment_version: add(key, 1), else the atomic incr(key).
Bump(e) ==
  /\ hook[e] \in 1..3
  /\ pending[e] = 0
  /\ Moved(e, version[Next1(e)] + 1)
  /\ UNCHANGED <<status, pending, cache, failed, faults, readerVars>>

\* incr fails (the key was dropped since add, or Redis did not answer): the
\* fallback reads the number, as 1 if Redis still does not answer, adds one ...
FallbackRead(e) ==
  /\ hook[e] \in 1..3
  /\ pending[e] = 0
  /\ Fault
  /\ \/ /\ version' = [version EXCEPT ![Next1(e)] = Held(Next1(e))]
        /\ pending' = [pending EXCEPT ![e] = Held(Next1(e)) + 1]
     \/ /\ pending' = [pending EXCEPT ![e] = 2]
        /\ UNCHANGED version
  /\ UNCHANGED <<status, hook, at, cache, failed, readerVars>>

\* ... and stores the sum, whatever the counter has become meanwhile.
FallbackSet(e) ==
  /\ pending[e] > 0
  /\ Moved(e, pending[e])
  /\ pending' = [pending EXCEPT ![e] = 0]
  /\ failed' = IF pending[e] > version[Next1(e)] THEN failed ELSE failed \cup {Next1(e)}
  /\ UNCHANGED <<status, cache, faults, readerVars>>

\* Redis swallows what was left of the bump of one counter.
LoseBump(e) ==
  /\ hook[e] \in 1..3
  /\ Fault
  /\ hook' = [hook EXCEPT ![e] = hook[e] + 1]
  /\ pending' = [pending EXCEPT ![e] = 0]
  /\ UNCHANGED <<status, at, cacheVars, readerVars>>

\* The web process stops, or an error that the hook swallows ends its
\* invalidation: the counters it has not reached are not moved.
AbandonHook(e) ==
  /\ status[e] # "new"
  /\ hook[e] \in 0..3
  /\ Fault
  /\ hook' = [hook EXCEPT ![e] = 4]
  /\ pending' = [pending EXCEPT ![e] = 0]
  /\ UNCHANGED <<status, at, cacheVars, readerVars>>

-----------------------------------------------------------------------------
(* The cache itself.                                                       *)

\* Mutant: windows are stored with timeout=None.
ExpireNever(s) == FALSE /\ UNCHANGED vars

\* A window outlives its TTL, or is dropped to make room.
Expire(s) ==
  /\ \E k \in DOMAIN cache :
       /\ k.scope = s
       /\ cache' = [j \in DOMAIN cache \ {k} |-> cache[j]]
  /\ UNCHANGED <<eventVars, version, failed, faults, readerVars>>

\* A counter, which has no TTL, is dropped (LocMem culling, maxmemory, a flush).
Evict(c) ==
  /\ version[c] > 0
  /\ Fault
  /\ version' = [version EXCEPT ![c] = 0]
  /\ failed' = failed \cup {c}
  /\ UNCHANGED <<eventVars, cache, readerVars>>

-----------------------------------------------------------------------------
(* dashboard_data.                                                         *)

\* By counter i of scope s, or by i = 0 by the end of its hook.
Announced(e, i, s) == IF i = 0 THEN hook[e] = 4 ELSE i <= Width(s) /\ at[e][i] > 0

Request(r, s) ==
  /\ pc[r] = "idle"
  /\ pc' = [pc EXCEPT ![r] = "global"]
  /\ scope' = [scope EXCEPT ![r] = s]
  /\ seen' = [seen EXCEPT ![r] =
       {x \in Events \X (0..3) : InScope(x[1], s) /\ Announced(x[1], x[2], s)}]
  /\ UNCHANGED <<eventVars, cacheVars, faults, vector, window, trusted>>

\* Which counter a reader is about to read.
Index(r) == IF pc[r] = "global" THEN 1 ELSE IF pc[r] = "owner" THEN 2 ELSE 3

\* Reader r has number n for the counter it was to read.
Note(r, n) ==
  /\ vector' = [vector EXCEPT ![r] =
       [i \in 1..3 |-> IF i = Index(r) THEN n ELSE vector[r][i]]]
  /\ pc' = [pc EXCEPT ![r] = IF Index(r) = 1 THEN "owner"
                             ELSE IF Index(r) = 2 /\ scope[r] \in Projects THEN "project"
                             ELSE "get"]

ReadVersion(r) ==
  /\ pc[r] \in {"global", "owner", "project"}
  /\ LET c == Counter(scope[r], Index(r))
     IN  version' = [version EXCEPT ![c] = Held(c)] /\ Note(r, Held(c))
  /\ trusted' = [trusted EXCEPT ![r] = trusted[r] \cup {Index(r)}]
  /\ UNCHANGED <<eventVars, cache, failed, faults, scope, window, seen>>

\* Redis does not answer: the number is taken to be 1.
MisreadVersion(r) ==
  /\ pc[r] \in {"global", "owner", "project"}
  /\ Fault
  /\ Note(r, 1)
  /\ LET c == Counter(scope[r], Index(r))
     IN  failed' = IF version[c] = 0 THEN failed \cup {c} ELSE failed
  /\ UNCHANGED <<eventVars, version, cache, scope, window, seen, trusted>>

\* Mutant: the key of a project's window names the owner only.
KeyWithoutProject(s, v) == [scope |-> OwnerOf[s], vector |-> v]

\* _dashboard_cache_key.
Key(s, v) == [scope |-> s, vector |-> v]

Goto(r, label) == pc' = [pc EXCEPT ![r] = label]

\* cache.get: a hit is the response.
Get(r) ==
  /\ pc[r] = "get"
  /\ LET k == Key(scope[r], vector[r]) IN
     \/ /\ k \in DOMAIN cache
        /\ window' = [window EXCEPT ![r] = cache[k]]
        /\ Goto(r, "done")
     \/ /\ k \notin DOMAIN cache
        /\ Goto(r, "query")
        /\ UNCHANGED window
  /\ UNCHANGED <<eventVars, cacheVars, faults, scope, vector, seen, trusted>>

Query(r) ==
  /\ pc[r] = "query"
  /\ window' = [window EXCEPT ![r] = Found(scope[r])]
  /\ Goto(r, "set")
  /\ UNCHANGED <<eventVars, cacheVars, faults, scope, vector, seen, trusted>>

\* Mutant: the key of cache.set is built from the counters as they are by now.
SetUnderNewKey(r) ==
  /\ pc[r] = "set"
  /\ LET now == [i \in 1..3 |-> IF i <= Width(scope[r]) THEN Held(Counter(scope[r], i)) ELSE 0]
         k == Key(scope[r], now)
     IN  \E kept \in SUBSET DOMAIN cache :
           /\ Cardinality(kept \cup {k}) <= Capacity
           /\ cache' = [j \in kept \cup {k} |-> IF j = k THEN window[r] ELSE cache[j]]
  /\ Goto(r, "done")
  /\ UNCHANGED <<eventVars, version, failed, faults, scope, vector, window, seen, trusted>>

\* cache.set under the key built before the query ran; a full cache drops some
\* of its windows.
Set(r) ==
  /\ pc[r] = "set"
  /\ LET k == Key(scope[r], vector[r]) IN
     \E kept \in SUBSET DOMAIN cache :
       /\ Cardinality(kept \cup {k}) <= Capacity
       /\ cache' = [j \in kept \cup {k} |-> IF j = k THEN window[r] ELSE cache[j]]
  /\ Goto(r, "done")
  /\ UNCHANGED <<eventVars, version, failed, faults, scope, vector, window, seen, trusted>>

Respond(r) ==
  /\ pc[r] = "done"
  /\ Goto(r, "idle")
  /\ scope' = [scope EXCEPT ![r] = NoScope]
  /\ vector' = [vector EXCEPT ![r] = Unread]
  /\ window' = [window EXCEPT ![r] = {}]
  /\ seen' = [seen EXCEPT ![r] = {}]
  /\ trusted' = [trusted EXCEPT ![r] = {}]
  /\ UNCHANGED <<eventVars, cacheVars, faults>>

-----------------------------------------------------------------------------
Hook(e) == AfterCommit(e) \/ Bump(e) \/ FallbackSet(e)

Serve(r) ==
  \/ ReadVersion(r) \/ Get(r) \/ Query(r) \/ Set(r) \/ Respond(r)

Next ==
  \/ \E e \in Events :
       \/ Post(e) \/ Import(e) \/ Delete(e)
       \/ Hook(e) \/ FallbackRead(e) \/ LoseBump(e) \/ AbandonHook(e)
  \/ \E s \in Asked : Expire(s)
  \/ \E c \in Counters : Evict(c)
  \/ \E r \in Readers : Serve(r) \/ MisreadVersion(r) \/ \E s \in Asked : Request(r, s)

Spec == Init /\ [][Next]_vars

\* A request runs to its end, and a cached window to its TTL.
FairSpec ==
  /\ Spec
  /\ \A r \in Readers : WF_vars(Serve(r))
  /\ \A s \in Asked : WF_vars(Expire(s))
-----------------------------------------------------------------------------
(* Properties.                                                             *)

(***************************************************************************)
(* A response counts every event one of whose counters was moved before    *)
(* the request began, whatever other requests and hooks do at the same     *)
(* time, and although a window is stored under a key older than its data.  *)
(* Any one counter is enough: the response is fresh as long as one of the  *)
(* counters moved was never lost or set back and was read without an       *)
(* error, whatever became of the other two.                                *)
(***************************************************************************)
FreshWhileOneCounterHolds ==
  \A r \in Readers : pc[r] = "done" =>
    \A x \in seen[r] :
      /\ x[2] \in trusted[r]
      /\ Counter(scope[r], x[2]) \notin failed
      /\ status[x[1]] = "stored"
      => x[1] \in window[r]

(***************************************************************************)
(* A response holds no event of another project or of another owner, be it *)
(* computed for the request or taken from the cache, where all windows     *)
(* live under keys of one shape.                                           *)
(***************************************************************************)
NoCrossScope ==
  \A r \in Readers : \A e \in window[r] : InScope(e, scope[r])

(***************************************************************************)
(* Staleness ends: once events and faults stop, responses come to show     *)
(* exactly the stored events, also those that no hook announced (imports,  *)
(* deletions, lost bumps) and after counters went back to numbers under    *)
(* which old windows are still cached.                                     *)
(***************************************************************************)
StalenessEnds ==
  <>[](\A r \in Readers : pc[r] = "done" => window[r] = Found(scope[r]))

(***************************************************************************)
(* "A new event [...] makes the next request recompute instead of serving  *)
(* a stale window" (README.md, Analytics): a request counts every event    *)
(* whose storing, hook included, was over when the request began.          *)
(***************************************************************************)
NewEventForcesRecompute ==
  \A r \in Readers : pc[r] = "done" =>
    \A e \in Events : <<e, 0>> \in seen[r] /\ status[e] = "stored" => e \in window[r]
=============================================================================
