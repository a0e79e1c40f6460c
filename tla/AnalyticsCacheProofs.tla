------------------------ MODULE AnalyticsCacheProofs ------------------------
(***************************************************************************)
(* Proofs about AnalyticsCache, for any numbers of users, projects, events *)
(* and web processes, any capacity and any number of faults.               *)
(*                                                                         *)
(* The argument: a counter that was never lost or set back only grows, so  *)
(* the number a hook moves it to is larger than every number a request has *)
(* read and every number a cached window is filed under.  A window filed   *)
(* under a number at least as large was therefore queried after the event  *)
(* was committed.                                                          *)
(***************************************************************************)
EXTENDS AnalyticsCache, TLAPS

\* The counter the hook of e moves i-th.
CounterOf(e, i) == Counter(ProjectOf[e], i)

\* A hook moves its counters in order, and only the hook of a stored event.
HooksOK ==
  \A e \in Events :
    /\ status[e] = "new" => hook[e] = 0
    /\ pending[e] > 0 => hook[e] \in 1..3
    /\ \A i \in 1..3 : at[e][i] > 0 => i < hook[e]

\* What a request has gathered so far.
ReadersOK ==
  \A r \in Readers :
    /\ pc[r] = "idle" => vector[r] = Unread
    /\ pc[r] # "idle" => scope[r] \in Scopes
    /\ pc[r] \in {"idle", "global"} => trusted[r] = {}
    /\ pc[r] = "owner" => trusted[r] \subseteq {1}
    /\ pc[r] = "project" => trusted[r] \subseteq {1, 2} /\ scope[r] \in Projects
    /\ pc[r] \notin {"set", "done"} => window[r] = {}

\* A counter that never went wrong is at least at every number taken from it.
CountersLead ==
  /\ \A e \in Events, i \in 1..3 :
       CounterOf(e, i) \notin failed => at[e][i] <= version[CounterOf(e, i)]
  /\ \A r \in Readers, i \in 1..3 :
       pc[r] # "idle" /\ Counter(scope[r], i) \notin failed
         => vector[r][i] <= version[Counter(scope[r], i)]
  /\ \A k \in DOMAIN cache, i \in 1..3 :
       Counter(k.scope, i) \notin failed => k.vector[i] <= version[Counter(k.scope, i)]

\* The window w of scope s, filed under vector v, counts the events that some
\* counter of v has taken note of.
Covers(w, s, v) ==
  \A e \in Events, i \in 1..3 :
    /\ InScope(e, s) /\ i <= Width(s) /\ status[e] = "stored"
    /\ Counter(s, i) \notin failed
    /\ 0 < at[e][i] /\ at[e][i] <= v[i]
    => e \in w

WindowsCover ==
  /\ \A k \in DOMAIN cache : Covers(cache[k], k.scope, k.vector)
  /\ \A r \in Readers : pc[r] \in {"set", "done"} => Covers(window[r], scope[r], vector[r])

\* A request that read a counter without an error has a number no older than
\* the events it had seen announced by that counter.
SeenIsRead ==
  \A r \in Readers, e \in Events, i \in 1..3 :
    <<e, i>> \in seen[r] =>
      /\ InScope(e, scope[r]) /\ i <= Width(scope[r]) /\ 0 < at[e][i]
      /\ i \in trusted[r] /\ Counter(scope[r], i) \notin failed => at[e][i] <= vector[r][i]

\* Windows hold events of their own scope.
WindowsScoped ==
  /\ \A k \in DOMAIN cache : \A e \in cache[k] : InScope(e, k.scope)
  /\ NoCrossScope

IInv == /\ TypeOK
        /\ HooksOK
        /\ ReadersOK
        /\ CountersLead
        /\ WindowsCover
        /\ SeenIsRead
        /\ WindowsScoped
-----------------------------------------------------------------------------
LEMMA CounterInCounters ==
  ASSUME NEW s \in Scopes, NEW i \in 1..3
  PROVE  Counter(s, i) \in Counters
BY CacheAssumption DEF Counter, Counters, Scopes

LEMMA CounterOfInCounters ==
  ASSUME NEW e \in Events, NEW i \in 1..3
  PROVE  CounterOf(e, i) \in Counters
BY CounterInCounters, CacheAssumption DEF CounterOf, Scopes

(***************************************************************************)
(* The counters of a scope's key are counters that the hooks of the events *)
(* in that scope move.                                                     *)
(***************************************************************************)
LEMMA SameCounter ==
  ASSUME NEW e \in Events, NEW s \in Scopes, NEW i \in 1..3,
         InScope(e, s), i <= Width(s)
  PROVE  Counter(s, i) = CounterOf(e, i)
<1>1. ProjectOf[e] \in Projects /\ OwnerOf[ProjectOf[e]] \in Owners
  BY CacheAssumption DEF Scopes
<1>2. CASE s = ProjectOf[e]
  BY <1>2 DEF CounterOf
<1>3. CASE s = OwnerOf[ProjectOf[e]]
  <2>1. s \in Owners /\ s \notin Projects
    BY <1>1, <1>3, CacheAssumption
  <2>2. i = 1 \/ i = 2
    BY <2>1 DEF Width
  <2> QED
    BY <1>3, <2>1, <2>2, CacheAssumption DEF CounterOf, Counter
<1> QED
  BY <1>2, <1>3 DEF InScope

LEMMA HeldInNat ==
  ASSUME NEW c \in Counters, version \in [Counters -> Nat]
  PROVE  Held(c) \in Nat \ {0} /\ version[c] <= Held(c)
BY DEF Held

LEMMA InitIInv == Init => IInv
<1> SUFFICES ASSUME Init PROVE IInv
  OBVIOUS
<1>1. TypeOK
  BY CacheAssumption DEF Init, TypeOK, PC, Vectors, Unread
<1>2. HooksOK /\ ReadersOK
  BY DEF Init, HooksOK, ReadersOK, Unread
<1>3. CountersLead
  BY CounterOfInCounters DEF Init, CountersLead, Unread
<1>4. WindowsCover /\ SeenIsRead /\ WindowsScoped
  BY DEF Init, WindowsCover, SeenIsRead, WindowsScoped, NoCrossScope
<1> QED
  BY <1>1, <1>2, <1>3, <1>4 DEF IInv
-----------------------------------------------------------------------------
(* Typing.                                                                 *)

LEMMA HookTypes ==
  ASSUME IInv, NEW e \in Events,
         \/ Post(e) \/ Import(e) \/ Delete(e) \/ Hook(e)
         \/ FallbackRead(e) \/ LoseBump(e) \/ AbandonHook(e)
  PROVE  TypeOK'
<1> USE DEF IInv, TypeOK, eventVars, cacheVars, readerVars
<1>1. CASE Post(e) \/ Import(e) \/ Delete(e) \/ AfterCommit(e)
  BY <1>1 DEF Post, Import, Delete, AfterCommit
<1>2. CASE LoseBump(e) \/ AbandonHook(e)
  BY <1>2, CacheAssumption DEF LoseBump, AbandonHook, Fault
<1>3. ASSUME hook[e] \in 1..3 PROVE Next1(e) \in Counters
  BY <1>3, CounterOfInCounters DEF Next1, CounterOf
<1>4. ASSUME NEW n \in Nat, hook[e] \in 1..3, Moved(e, n)
      PROVE  version' \in [Counters -> Nat] /\ at' \in [Events -> Vectors] /\ hook' \in [Events -> 0..4]
  BY <1>3, <1>4 DEF Moved, Vectors
<1>5. CASE Bump(e)
  <2>1. version[Next1(e)] + 1 \in Nat
    BY <1>3, <1>5 DEF Bump
  <2> QED
    BY <1>4, <1>5, <2>1 DEF Bump
<1>6. CASE FallbackSet(e)
  <2>1. hook[e] \in 1..3
    BY <1>6 DEF FallbackSet, HooksOK
  <2> QED
    BY <1>3, <1>4, <1>6, <2>1 DEF FallbackSet
<1>7. CASE FallbackRead(e)
  <2>1. Next1(e) \in Counters
    BY <1>3, <1>7 DEF FallbackRead
  <2>2. Held(Next1(e)) \in Nat
    BY <2>1, HeldInNat
  <2> QED
    BY <1>7, <2>1, <2>2, CacheAssumption DEF FallbackRead, Fault
<1> QED
  BY <1>1, <1>2, <1>5, <1>6, <1>7 DEF Hook

LEMMA ReaderTypes ==
  ASSUME IInv, NEW r \in Readers,
         Serve(r) \/ MisreadVersion(r) \/ \E s \in Asked : Request(r, s)
  PROVE  TypeOK'
<1> USE DEF IInv, TypeOK, eventVars, cacheVars, readerVars, PC
<1>1. ASSUME NEW s \in Asked, Request(r, s) PROVE TypeOK'
  <2>1. seen'[r] \in SUBSET (Events \X (0..3)) /\ s \in Scopes
    BY <1>1, CacheAssumption DEF Request
  <2>2. seen' \in [Readers -> SUBSET (Events \X (0..3))]
    BY <1>1, <2>1 DEF Request
  <2> QED
    BY <1>1, <2>1, <2>2 DEF Request
<1>2. ASSUME pc[r] \in {"global", "owner", "project"}
      PROVE  /\ Index(r) \in 1..3
             /\ Counter(scope[r], Index(r)) \in Counters
  BY <1>2, CounterInCounters DEF Index, ReadersOK
<1>3. ASSUME NEW n \in Nat, Note(r, n)
      PROVE  vector' \in [Readers -> Vectors] /\ pc' \in [Readers -> PC]
  BY <1>3 DEF Note, Vectors
<1>4. CASE ReadVersion(r)
  <2>1. Held(Counter(scope[r], Index(r))) \in Nat
    BY <1>2, <1>4, HeldInNat DEF ReadVersion
  <2> QED
    BY <1>2, <1>3, <1>4, <2>1 DEF ReadVersion
<1>5. CASE MisreadVersion(r)
  BY <1>2, <1>3, <1>5, CacheAssumption DEF MisreadVersion, Fault
<1>6. CASE Get(r)
  BY <1>6 DEF Get, Goto, Key
<1>7. CASE Query(r)
  BY <1>7 DEF Query, Goto, Found
<1>8. CASE Set(r)
  <2>1. Key(scope[r], vector[r]) \in [scope : Scopes, vector : Vectors]
    BY <1>8 DEF Set, Key, ReadersOK
  <2> QED
    BY <1>8, <2>1 DEF Set, Goto
<1>9. CASE Respond(r)
  BY <1>9 DEF Respond, Goto, Unread, Vectors
<1> QED
  BY <1>1, <1>4, <1>5, <1>6, <1>7, <1>8, <1>9 DEF Serve

LEMMA TypeStep == ASSUME IInv, [Next]_vars PROVE TypeOK'
<1>1. CASE UNCHANGED vars
  BY <1>1 DEF IInv, TypeOK, vars, eventVars, cacheVars, readerVars
<1>2. ASSUME NEW s \in Asked, Expire(s) PROVE TypeOK'
  BY <1>2 DEF IInv, TypeOK, Expire, eventVars, readerVars
<1>3. ASSUME NEW c \in Counters, Evict(c) PROVE TypeOK'
  BY <1>3, CacheAssumption DEF IInv, TypeOK, Evict, Fault, eventVars, readerVars
<1> QED
  BY <1>1, <1>2, <1>3, HookTypes, ReaderTypes DEF Next
-----------------------------------------------------------------------------
(* What a request gathers, and in which order a hook works.                *)

LEMMA HooksStep == ASSUME IInv, [Next]_vars PROVE HooksOK'
<1> USE DEF IInv, TypeOK, HooksOK, eventVars, cacheVars, readerVars, Vectors
<1>1. ASSUME NEW e \in Events,
             Post(e) \/ Import(e) \/ Delete(e) \/ AfterCommit(e) \/ LoseBump(e) \/ AbandonHook(e)
      PROVE  HooksOK'
  BY <1>1 DEF Post, Import, Delete, AfterCommit, LoseBump, AbandonHook
<1>2. ASSUME NEW e \in Events, Bump(e) \/ FallbackSet(e) PROVE HooksOK'
  <2>1. hook[e] \in 1..3 /\ status[e] # "new" /\ UNCHANGED status
    BY <1>2 DEF Bump, FallbackSet
  <2>2. hook' = [hook EXCEPT ![e] = hook[e] + 1]
    BY <1>2 DEF Bump, FallbackSet, Moved
  <2>3. pending' = [pending EXCEPT ![e] = 0]
    BY <1>2 DEF Bump, FallbackSet
  <2>4. \A f \in Events, i \in 1..3 : ~(f = e /\ i = hook[e]) => at'[f][i] = at[f][i]
    BY <1>2 DEF Bump, FallbackSet, Moved
  <2>5. \A f \in Events, i \in 1..3 : at'[f][i] > 0 => i < hook'[f]
    BY <2>1, <2>2, <2>4
  <2> QED
    BY <2>1, <2>2, <2>3, <2>5
<1>3. ASSUME NEW e \in Events, FallbackRead(e) PROVE HooksOK'
  BY <1>3 DEF FallbackRead
<1>4. CASE UNCHANGED eventVars
  BY <1>4
<1> QED
  BY <1>1, <1>2, <1>3, <1>4
  DEF Next, Hook, Serve, Expire, Evict, Request, ReadVersion, MisreadVersion, Get, Query, Set,
      Respond, vars

LEMMA ReadersStep == ASSUME IInv, [Next]_vars PROVE ReadersOK'
<1> USE DEF IInv, TypeOK, ReadersOK, eventVars, cacheVars, readerVars, PC
<1>1. ASSUME NEW r \in Readers, NEW s \in Asked, Request(r, s) PROVE ReadersOK'
  BY <1>1, CacheAssumption DEF Request
<1>2. ASSUME NEW r \in Readers, ReadVersion(r) \/ MisreadVersion(r) PROVE ReadersOK'
  BY <1>2 DEF ReadVersion, MisreadVersion, Note, Index
<1>3. ASSUME NEW r \in Readers, Get(r) \/ Query(r) \/ Set(r) \/ Respond(r) PROVE ReadersOK'
  BY <1>3 DEF Get, Query, Set, Respond, Goto
<1>4. CASE UNCHANGED readerVars
  BY <1>4
<1> QED
  BY <1>1, <1>2, <1>3, <1>4
  DEF Next, Hook, Serve, Expire, Evict, Post, Import, Delete, AfterCommit, Bump, FallbackSet,
      FallbackRead, LoseBump, AbandonHook, vars
-----------------------------------------------------------------------------
(* Counters lead.                                                          *)

\* What every step does to the counters: one that is still trusted only grows.
Grows == /\ failed \subseteq failed'
         /\ version' \in [Counters -> Nat]
         /\ \A c \in Counters \ failed' : version[c] <= version'[c]

LEMMA CountersGrow == ASSUME IInv, [Next]_vars PROVE Grows
<1> USE DEF IInv, TypeOK, Grows, cacheVars, vars
<1>1. CASE UNCHANGED <<version, failed>>
  BY <1>1
<1>2. ASSUME NEW e \in Events, Bump(e) \/ FallbackSet(e) \/ FallbackRead(e) PROVE Grows
  <2>1. hook[e] \in 1..3
    BY <1>2 DEF Bump, FallbackSet, FallbackRead, HooksOK
  <2>2. Next1(e) \in Counters
    BY <2>1, CounterOfInCounters DEF Next1, CounterOf
  <2>3. Held(Next1(e)) \in Nat /\ version[Next1(e)] <= Held(Next1(e))
    BY <2>2, HeldInNat
  <2>4. CASE Bump(e)
    BY <2>2, <2>4 DEF Bump, Moved
  <2>5. CASE FallbackSet(e)
    BY <2>2, <2>5 DEF FallbackSet, Moved
  <2>6. CASE FallbackRead(e)
    BY <2>2, <2>3, <2>6 DEF FallbackRead
  <2> QED
    BY <1>2, <2>4, <2>5, <2>6
<1>3. ASSUME NEW c \in Counters, Evict(c) PROVE Grows
  BY <1>3 DEF Evict
<1>4. ASSUME NEW r \in Readers, ReadVersion(r) \/ MisreadVersion(r) PROVE Grows
  <2>1. Counter(scope[r], Index(r)) \in Counters
    BY <1>4, CounterInCounters DEF ReadVersion, MisreadVersion, Index, ReadersOK
  <2>2. Held(Counter(scope[r], Index(r))) \in Nat
        /\ version[Counter(scope[r], Index(r))] <= Held(Counter(scope[r], Index(r)))
    BY <2>1, HeldInNat
  <2>3. CASE ReadVersion(r)
    BY <2>1, <2>2, <2>3 DEF ReadVersion
  <2>4. CASE MisreadVersion(r)
    BY <2>4 DEF MisreadVersion
  <2> QED
    BY <1>4, <2>3, <2>4
<1> QED
  BY <1>1, <1>2, <1>3, <1>4
  DEF Next, Hook, Serve, Expire, Request, Get, Query, Set, Respond, Post, Import, Delete,
      AfterCommit, LoseBump, AbandonHook

\* What a hook does to the numbers it noted: the new one is past the counter.
LEMMA HookMoves ==
  ASSUME IInv, [Next]_vars, NEW e \in Events, NEW i \in 1..3, at'[e][i] # at[e][i]
  PROVE  /\ at'[e][i] = version'[CounterOf(e, i)]
         /\ CounterOf(e, i) \notin failed' => version[CounterOf(e, i)] < version'[CounterOf(e, i)]
         /\ at[e][i] = 0
         /\ UNCHANGED <<status, cache, readerVars>>
<1> USE DEF IInv, TypeOK, Vectors, eventVars, cacheVars, vars
<1>1. PICK f \in Events : Bump(f) \/ FallbackSet(f)
  BY DEF Next, Hook, Serve, Expire, Evict, Request, ReadVersion, MisreadVersion, Get, Query,
         Set, Respond, Post, Import, Delete, AfterCommit, FallbackRead, LoseBump, AbandonHook
<1>2. f = e /\ i = hook[e]
  BY <1>1 DEF Bump, FallbackSet, Moved
<1>3. Next1(e) = CounterOf(e, i) /\ CounterOf(e, i) \in Counters
  BY <1>2, CounterOfInCounters DEF Next1, CounterOf
<1>4. at[e][i] = 0
  BY <1>2 DEF HooksOK
<1>5. at'[e][i] = version'[CounterOf(e, i)]
  BY <1>1, <1>2, <1>3 DEF Bump, FallbackSet, Moved
<1>6. CounterOf(e, i) \notin failed' => version[CounterOf(e, i)] < version'[CounterOf(e, i)]
  BY <1>1, <1>2, <1>3 DEF Bump, FallbackSet, Moved
<1> QED
  BY <1>1, <1>4, <1>5, <1>6 DEF Bump, FallbackSet

LEMMA OtherReader ==
  ASSUME IInv, [Next]_vars, NEW r \in Readers,
         ~Serve(r), ~MisreadVersion(r), \A s \in Asked : ~Request(r, s)
  PROVE  UNCHANGED <<pc[r], scope[r], vector[r], window[r], seen[r], trusted[r]>>
<1> USE DEF IInv, TypeOK, readerVars
<1>1. CASE UNCHANGED readerVars
  BY <1>1
<1>2. ASSUME NEW t \in Readers, t # r,
             Serve(t) \/ MisreadVersion(t) \/ \E s \in Asked : Request(t, s)
      PROVE  UNCHANGED <<pc[r], scope[r], vector[r], window[r], seen[r], trusted[r]>>
  BY <1>2 DEF Serve, Request, ReadVersion, MisreadVersion, Note, Get, Query, Set, Respond, Goto
<1> QED
  BY <1>1, <1>2
  DEF Next, Hook, Expire, Evict, Post, Import, Delete, AfterCommit, Bump, FallbackSet,
      FallbackRead, LoseBump, AbandonHook, vars

\* Only cache.set files a window, and windows do not change under their key.
LEMMA NewWindow ==
  ASSUME IInv, [Next]_vars, NEW k \in DOMAIN cache',
         k \notin DOMAIN cache \/ cache'[k] # cache[k]
  PROVE  \E r \in Readers :
           Set(r) /\ k = Key(scope[r], vector[r]) /\ cache'[k] = window[r]
<1>1. ~UNCHANGED cache
  OBVIOUS
<1>2. ~\E s \in Asked : Expire(s)
  BY DEF Expire
<1>3. PICK r \in Readers : Set(r)
  BY <1>1, <1>2
  DEF Next, Hook, Serve, Evict, Request, ReadVersion, MisreadVersion, Get, Query, Respond,
      Post, Import, Delete, AfterCommit, Bump, FallbackSet, FallbackRead, LoseBump,
      AbandonHook, vars, cacheVars
<1>4. k = Key(scope[r], vector[r]) /\ cache'[k] = window[r]
  BY <1>3 DEF Set
<1> QED
  BY <1>3, <1>4

LEMMA LeadStep == ASSUME IInv, [Next]_vars PROVE CountersLead'
<1>1. Grows /\ TypeOK /\ TypeOK' /\ ReadersOK /\ ReadersOK' /\ CountersLead
  BY CountersGrow, TypeStep, ReadersStep DEF IInv
<1>2. ASSUME NEW e \in Events, NEW i \in 1..3, CounterOf(e, i) \notin failed'
      PROVE  at'[e][i] <= version'[CounterOf(e, i)]
  <2>1. CASE at'[e][i] = at[e][i]
    BY <1>1, <1>2, <2>1, CounterOfInCounters DEF Grows, CountersLead, TypeOK, Vectors
  <2>2. CASE at'[e][i] # at[e][i]
    BY <1>1, <2>2, HookMoves, CounterOfInCounters DEF Grows
  <2> QED
    BY <2>1, <2>2
<1>3. ASSUME NEW r \in Readers, NEW i \in 1..3, pc'[r] # "idle",
             Counter(scope'[r], i) \notin failed'
      PROVE  vector'[r][i] <= version'[Counter(scope'[r], i)]
  <2> DEFINE c == Counter(scope'[r], i)
  <2>0. c \in Counters /\ version'[c] \in Nat /\ version[c] \in Nat
    BY <1>1, <1>3, CounterInCounters DEF ReadersOK, TypeOK
  <2>1. CASE vector'[r][i] = 0
    BY <2>0, <2>1
  <2>2. CASE pc[r] # "idle" /\ scope'[r] = scope[r] /\ vector'[r][i] = vector[r][i]
    BY <1>1, <1>3, <2>0, <2>2 DEF Grows, CountersLead, TypeOK, Vectors
  <2>3. CASE ReadVersion(r)
    <3>1. scope'[r] = scope[r] /\ pc[r] # "idle"
      BY <2>3 DEF ReadVersion
    <3>2. CASE i = Index(r)
      BY <1>1, <2>0, <2>3, <3>1, <3>2 DEF ReadVersion, Note, TypeOK
    <3>3. CASE i # Index(r)
      BY <1>1, <2>2, <2>3, <3>1, <3>3 DEF ReadVersion, Note, TypeOK
    <3> QED
      BY <3>2, <3>3
  <2>4. CASE MisreadVersion(r)
    <3>1. scope'[r] = scope[r] /\ pc[r] # "idle" /\ version' = version
      BY <2>4 DEF MisreadVersion
    <3>2. CASE i = Index(r)
      BY <1>1, <1>3, <2>0, <2>4, <3>1, <3>2 DEF MisreadVersion, Note, TypeOK
    <3>3. CASE i # Index(r)
      BY <1>1, <2>2, <2>4, <3>1, <3>3 DEF MisreadVersion, Note, TypeOK
    <3> QED
      BY <3>2, <3>3
  <2>5. CASE \E s \in Asked : Request(r, s)
    BY <1>1, <2>1, <2>5 DEF Request, ReadersOK, Unread
  <2>6. CASE UNCHANGED <<pc[r], scope[r], vector[r]>>
    BY <1>3, <2>2, <2>6
  <2>7. CASE Get(r) \/ Query(r) \/ Set(r)
    BY <2>2, <2>7 DEF Get, Query, Set
  <2>8. CASE Respond(r)
    BY <1>1, <1>3, <2>8 DEF Respond, Goto, TypeOK
  <2> QED
    BY <1>1, <2>3, <2>4, <2>5, <2>6, <2>7, <2>8, OtherReader DEF Serve
<1>4. ASSUME NEW k \in DOMAIN cache', NEW i \in 1..3, Counter(k.scope, i) \notin failed'
      PROVE  k.vector[i] <= version'[Counter(k.scope, i)]
  <2>1. Counter(k.scope, i) \in Counters /\ k.vector[i] \in Nat
    BY <1>1, <1>4, CounterInCounters DEF TypeOK, Vectors
  <2>2. CASE k \in DOMAIN cache
    BY <1>1, <1>4, <2>1, <2>2 DEF Grows, CountersLead, TypeOK
  <2>3. CASE k \notin DOMAIN cache
    <3>1. PICK r \in Readers : Set(r) /\ k = Key(scope[r], vector[r])
      BY <1>4, <2>3, NewWindow
    <3>2. k.scope = scope[r] /\ k.vector = vector[r] /\ pc[r] # "idle"
      BY <3>1 DEF Key, Set
    <3> QED
      BY <1>1, <1>4, <2>1, <3>2 DEF Grows, CountersLead, TypeOK
  <2> QED
    BY <2>2, <2>3
<1> QED
  BY <1>2, <1>3, <1>4 DEF CountersLead
-----------------------------------------------------------------------------
(* Windows cover what their vectors say.                                   *)

\* Covers(w, s, v) after the step.
CoversNext(w, s, v) ==
  \A e \in Events, i \in 1..3 :
    /\ InScope(e, s) /\ i <= Width(s) /\ status'[e] = "stored"
    /\ Counter(s, i) \notin failed'
    /\ 0 < at'[e][i] /\ at'[e][i] <= v[i]
    => e \in w

LEMMA StoredOnce ==
  ASSUME IInv, [Next]_vars, NEW e \in Events, status'[e] = "stored", status[e] # "stored"
  PROVE  status[e] = "new"
BY DEF IInv, TypeOK, Next, Hook, Serve, Expire, Evict, Request, ReadVersion, MisreadVersion,
       Get, Query, Set, Respond, Post, Import, Delete, AfterCommit, Bump, FallbackSet,
       FallbackRead, LoseBump, AbandonHook, vars, eventVars

(***************************************************************************)
(* A window filed under numbers its counters have reached keeps covering:  *)
(* an event committed later is given a larger number.                      *)
(***************************************************************************)
LEMMA CoverKept ==
  ASSUME IInv, [Next]_vars, NEW w, NEW s \in Scopes, NEW v \in Vectors, Covers(w, s, v),
         \A i \in 1..3 : Counter(s, i) \notin failed => v[i] <= version[Counter(s, i)]
  PROVE  CoversNext(w, s, v)
<1> SUFFICES ASSUME NEW e \in Events, NEW i \in 1..3,
                    InScope(e, s), i <= Width(s), status'[e] = "stored",
                    Counter(s, i) \notin failed', 0 < at'[e][i], at'[e][i] <= v[i]
             PROVE  e \in w
  BY DEF CoversNext
<1>1. Counter(s, i) = CounterOf(e, i) /\ Counter(s, i) \in Counters
  BY SameCounter, CounterInCounters
<1>2. Grows /\ TypeOK /\ TypeOK'
  BY CountersGrow, TypeStep DEF IInv
<1>3. at'[e][i] = at[e][i]
  <2> SUFFICES ASSUME at'[e][i] # at[e][i] PROVE FALSE
    OBVIOUS
  <2>1. v[i] <= version[Counter(s, i)] /\ version[Counter(s, i)] < at'[e][i]
    BY <1>1, <1>2, HookMoves DEF Grows
  <2>2. v[i] \in Nat /\ version[Counter(s, i)] \in Nat /\ at'[e][i] \in Nat
    BY <1>1, <1>2 DEF TypeOK, Vectors
  <2> QED
    BY <2>1, <2>2
<1>4. status[e] = "stored"
  <2>1. status[e] = "new" => at[e][i] = 0
    <3>1. at[e][i] \in Nat
      BY <1>2 DEF TypeOK, Vectors
    <3>2. at[e][i] > 0 => i < hook[e]
      BY DEF IInv, HooksOK
    <3>3. status[e] = "new" => hook[e] = 0
      BY DEF IInv, HooksOK
    <3> QED
      BY <3>1, <3>2, <3>3
  <2> QED
    BY <1>3, <2>1, StoredOnce
<1>5. Counter(s, i) \notin failed
  BY <1>2 DEF Grows
<1> QED
  BY <1>3, <1>4, <1>5 DEF Covers

LEMMA CoverStep == ASSUME IInv, [Next]_vars PROVE WindowsCover'
<1> USE DEF IInv
<1>1. ASSUME NEW k \in DOMAIN cache PROVE CoversNext(cache[k], k.scope, k.vector)
  <2>1. k.scope \in Scopes /\ k.vector \in Vectors
    BY <1>1 DEF TypeOK
  <2> QED
    BY <2>1, CoverKept DEF WindowsCover, CountersLead
<1>2. ASSUME NEW r \in Readers, pc[r] \in {"set", "done"}
      PROVE  CoversNext(window[r], scope[r], vector[r])
  <2>1. scope[r] \in Scopes /\ vector[r] \in Vectors /\ pc[r] # "idle"
    BY <1>2 DEF TypeOK, ReadersOK
  <2> QED
    BY <1>2, <2>1, CoverKept DEF WindowsCover, CountersLead
<1>3. ASSUME NEW k \in DOMAIN cache' PROVE CoversNext(cache'[k], k.scope, k.vector)
  <2>1. CASE k \in DOMAIN cache /\ cache'[k] = cache[k]
    BY <1>1, <2>1
  <2>2. CASE k \notin DOMAIN cache \/ cache'[k] # cache[k]
    <3>1. PICK r \in Readers : Set(r) /\ k = Key(scope[r], vector[r]) /\ cache'[k] = window[r]
      BY <1>3, <2>2, NewWindow
    <3>2. k.scope = scope[r] /\ k.vector = vector[r] /\ pc[r] = "set"
      BY <3>1 DEF Key, Set
    <3> QED
      BY <1>2, <3>1, <3>2
  <2> QED
    BY <2>1, <2>2
<1>4. ASSUME NEW r \in Readers, pc'[r] \in {"set", "done"}
      PROVE  CoversNext(window'[r], scope'[r], vector'[r])
  <2>1. CASE UNCHANGED <<pc[r], scope[r], vector[r], window[r]>>
    BY <1>2, <1>4, <2>1
  <2>2. CASE Set(r)
    BY <1>2, <2>2 DEF Set
  <2>3. CASE Query(r)
    BY <2>3 DEF Query, Found, CoversNext, TypeOK, eventVars
  <2>4. CASE Get(r)
    <3>1. scope'[r] = scope[r] /\ vector'[r] = vector[r]
      BY <2>4 DEF Get
    <3>2. Key(scope[r], vector[r]) \in DOMAIN cache /\ window'[r] = cache[Key(scope[r], vector[r])]
      BY <1>4, <2>4 DEF Get, Goto, TypeOK
    <3> QED
      BY <1>1, <3>1, <3>2 DEF Key
  <2>5. CASE ReadVersion(r) \/ MisreadVersion(r) \/ (\E s \in Asked : Request(r, s)) \/ Respond(r)
    BY <1>4, <2>5 DEF ReadVersion, MisreadVersion, Note, Request, Respond, Goto, TypeOK
  <2> QED
    BY <2>1, <2>2, <2>3, <2>4, <2>5, OtherReader DEF Serve
<1> QED
  BY <1>3, <1>4 DEF WindowsCover, Covers, CoversNext

LEMMA SeenStep == ASSUME IInv, [Next]_vars PROVE SeenIsRead'
<1> SUFFICES ASSUME NEW r \in Readers, NEW e \in Events, NEW i \in 1..3, <<e, i>> \in seen'[r]
             PROVE  /\ InScope(e, scope'[r]) /\ i <= Width(scope'[r]) /\ 0 < at'[e][i]
                    /\ i \in trusted'[r] /\ Counter(scope'[r], i) \notin failed'
                         => at'[e][i] <= vector'[r][i]
  BY DEF SeenIsRead
<1> USE DEF IInv, TypeOK, eventVars, cacheVars
<1>1. CASE \E s \in Asked : Request(r, s)
  <2>1. PICK s \in Asked : Request(r, s)
    BY <1>1
  <2>2. InScope(e, s) /\ Announced(e, i, s) /\ scope'[r] = s
    BY <2>1 DEF Request
  <2>3. trusted'[r] = {}
    BY <2>1 DEF Request, ReadersOK
  <2> QED
    BY <2>1, <2>2, <2>3 DEF Announced, Request
<1>2. CASE Respond(r)
  BY <1>2 DEF Respond
<1>3. ASSUME UNCHANGED <<scope[r], seen[r]>>
      PROVE  /\ InScope(e, scope'[r]) /\ i <= Width(scope'[r]) /\ 0 < at'[e][i]
             /\ at'[e][i] = at[e][i] /\ at[e][i] \in Nat
             /\ Counter(scope'[r], i) \notin failed' => Counter(scope[r], i) \notin failed
  <2>1. at'[e][i] = at[e][i]
    <3>1. <<e, i>> \in seen[r]
      BY <1>3
    <3>2. 0 < at[e][i]
      BY <3>1 DEF SeenIsRead
    <3> QED
      BY <3>2, HookMoves
  <2>2. failed \subseteq failed'
    BY CountersGrow DEF Grows
  <2> QED
    BY <1>3, <2>1, <2>2 DEF SeenIsRead, Vectors
<1>4. CASE UNCHANGED <<scope[r], seen[r], trusted[r], vector[r]>>
  BY <1>3, <1>4 DEF SeenIsRead
<1>5. CASE Get(r) \/ Query(r) \/ Set(r)
  BY <1>4, <1>5 DEF Get, Query, Set
<1>6. CASE ReadVersion(r)
  <2>1. scope'[r] = scope[r] /\ seen'[r] = seen[r] /\ pc[r] # "idle"
    BY <1>6 DEF ReadVersion
  <2>2. CASE i = Index(r)
    <3>1. Counter(scope[r], i) = CounterOf(e, i) /\ Counter(scope[r], i) \in Counters
      BY <1>3, <2>1, SameCounter, CounterInCounters DEF ReadersOK
    <3>2. vector'[r][i] = Held(Counter(scope[r], i))
      BY <1>6, <2>2 DEF ReadVersion, Note
    <3>3. Held(Counter(scope[r], i)) \in Nat
          /\ version[Counter(scope[r], i)] <= Held(Counter(scope[r], i))
      BY <3>1, HeldInNat
    <3>4. Counter(scope[r], i) \notin failed => at[e][i] <= version[Counter(scope[r], i)]
      BY <3>1 DEF CountersLead
    <3> QED
      BY <1>3, <2>1, <3>1, <3>2, <3>3, <3>4
  <2>3. CASE i # Index(r)
    <3>1. vector'[r][i] = vector[r][i] /\ (i \in trusted'[r] => i \in trusted[r])
      BY <1>6, <2>3 DEF ReadVersion, Note
    <3> QED
      BY <1>3, <2>1, <3>1 DEF SeenIsRead
  <2> QED
    BY <2>2, <2>3
<1>7. CASE MisreadVersion(r)
  <2>1. scope'[r] = scope[r] /\ seen'[r] = seen[r] /\ trusted'[r] = trusted[r]
    BY <1>7 DEF MisreadVersion
  <2>2. CASE i = Index(r)
    <3>1. i \notin trusted[r]
      BY <1>7, <2>2 DEF MisreadVersion, Index, ReadersOK
    <3> QED
      BY <1>3, <2>1, <3>1
  <2>3. CASE i # Index(r)
    <3>1. vector'[r][i] = vector[r][i]
      BY <1>7, <2>3 DEF MisreadVersion, Note
    <3> QED
      BY <1>3, <2>1, <3>1 DEF SeenIsRead
  <2> QED
    BY <2>2, <2>3
<1> QED
  BY <1>1, <1>2, <1>4, <1>5, <1>6, <1>7, OtherReader DEF Serve

LEMMA ScopedStep == ASSUME IInv, [Next]_vars PROVE WindowsScoped'
<1> USE DEF IInv, TypeOK, WindowsScoped, NoCrossScope
<1>1. ASSUME NEW k \in DOMAIN cache', NEW e \in cache'[k] PROVE InScope(e, k.scope)
  <2>1. CASE k \in DOMAIN cache /\ cache'[k] = cache[k]
    BY <1>1, <2>1
  <2>2. CASE k \notin DOMAIN cache \/ cache'[k] # cache[k]
    <3>1. PICK r \in Readers : Set(r) /\ k = Key(scope[r], vector[r]) /\ cache'[k] = window[r]
      BY <1>1, <2>2, NewWindow
    <3> QED
      BY <1>1, <3>1 DEF Key
  <2> QED
    BY <2>1, <2>2
<1>2. ASSUME NEW r \in Readers, NEW e \in window'[r] PROVE InScope(e, scope'[r])
  <2>1. CASE UNCHANGED <<scope[r], window[r]>>
    BY <1>2, <2>1
  <2>2. CASE Query(r)
    BY <1>2, <2>2 DEF Query, Found
  <2>3. CASE Get(r)
    <3>1. scope'[r] = scope[r]
      BY <2>3 DEF Get
    <3>2. CASE window'[r] = window[r]
      BY <1>2, <3>1, <3>2
    <3>3. CASE Key(scope[r], vector[r]) \in DOMAIN cache /\ window'[r] = cache[Key(scope[r], vector[r])]
      BY <1>2, <3>1, <3>3 DEF Key
    <3> QED
      BY <2>3, <3>2, <3>3 DEF Get
  <2>4. CASE ReadVersion(r) \/ MisreadVersion(r) \/ Set(r)
    BY <2>1, <2>4 DEF ReadVersion, MisreadVersion, Set
  <2>5. CASE (\E s \in Asked : Request(r, s)) \/ Respond(r)
    BY <1>2, <2>5 DEF Request, Respond, ReadersOK
  <2> QED
    BY <2>1, <2>2, <2>3, <2>4, <2>5, OtherReader DEF Serve
<1> QED
  BY <1>1, <1>2
-----------------------------------------------------------------------------
LEMMA IInvStep == ASSUME IInv, [Next]_vars PROVE IInv'
BY TypeStep, HooksStep, ReadersStep, LeadStep, CoverStep, SeenStep, ScopedStep DEF IInv

LEMMA IInvAlways == Spec => []IInv
<1>1. IInv /\ [Next]_vars => IInv'
  BY IInvStep
<1> QED
  BY InitIInv, <1>1, PTL DEF Spec

\* Every variable keeps its type, whatever order the processes take.
THEOREM TypeCorrect == Spec => []TypeOK
<1>1. IInv => TypeOK
  BY DEF IInv
<1> QED
  BY <1>1, IInvAlways, PTL

(***************************************************************************)
(* A response counts every event that one sound, soundly read counter had  *)
(* announced before the request began: dashboard_data under any            *)
(* interleaving with increment_cache_version, evictions and lost bumps.    *)
(***************************************************************************)
THEOREM Fresh == Spec => []FreshWhileOneCounterHolds
<1>1. IInv => FreshWhileOneCounterHolds
  <2> SUFFICES ASSUME IInv, NEW r \in Readers, pc[r] = "done", NEW x \in seen[r],
                      x[2] \in trusted[r], Counter(scope[r], x[2]) \notin failed,
                      status[x[1]] = "stored"
               PROVE  x[1] \in window[r]
    BY DEF FreshWhileOneCounterHolds
  <2>1. x[2] \in 1..3 /\ x[1] \in Events /\ x = <<x[1], x[2]>>
    BY DEF IInv, TypeOK
  <2>2. /\ InScope(x[1], scope[r]) /\ x[2] <= Width(scope[r])
        /\ 0 < at[x[1]][x[2]] /\ at[x[1]][x[2]] <= vector[r][x[2]]
    BY <2>1 DEF IInv, SeenIsRead
  <2>3. Covers(window[r], scope[r], vector[r])
    BY DEF IInv, WindowsCover
  <2> QED
    BY <2>1, <2>2, <2>3 DEF Covers
<1> QED
  BY <1>1, IInvAlways, PTL

(***************************************************************************)
(* No response holds an event from outside the scope asked for: keys of    *)
(* different scopes never share a window.                                  *)
(***************************************************************************)
THEOREM Scoped == Spec => []NoCrossScope
<1>1. IInv => NoCrossScope
  BY DEF IInv, WindowsScoped
<1> QED
  BY <1>1, IInvAlways, PTL
=============================================================================
