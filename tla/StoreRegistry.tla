---------------------------- MODULE StoreRegistry ----------------------------
(***************************************************************************)
(* The console's stores and memory watchers.  Every request looks up the   *)
(* Claw's pod and then the store for its credential, Claw and pod; it      *)
(* makes the store if there is none.  A reaper drops stores no request has *)
(* asked for lately.  A Claw's watcher is shared by all of its stores and  *)
(* stays for good.  In local mode there is one store, of one Claw.         *)
(*                                                                         *)
(* Nothing here survives the process: a restart is Init again.             *)
(***************************************************************************)
EXTENDS Integers, FiniteSets, Functions

CONSTANTS
  Requests,     (* requests that may be in flight together                 *)
  Credentials,  (* a user's name with a login token                        *)
  Claws,
  Pods,         (* pod names, numbers: their order is the API's            *)
  ClawOf,       (* pod -> its Claw                                         *)
  Steady,       (* bound: the pods that run throughout                     *)
  Local,        (* the Claw of local mode                                  *)
  None,
  IdleTTL,      (* storeIdleTTL                                            *)
  ReapEvery,    (* storeIdleTTL / 3                                        *)
  ScanTimeout,  (* scanTimeout                                             *)
  MaxClock,     (* bound: time                                             *)
  MaxStores     (* bound: stores made                                      *)

ASSUME RegistryAssumption ==
  /\ Pods \subseteq Nat /\ ClawOf \in [Pods -> Claws] /\ Steady \subseteq Pods
  /\ Local \notin Claws /\ None \notin Credentials \cup Pods \cup Int
  /\ {IdleTTL, ReapEvery, ScanTimeout, MaxClock, MaxStores} \subseteq Nat
  /\ ReapEvery > 0 /\ ScanTimeout < IdleTTL

VARIABLES
  local,        (* AGENT_DATA_DIR is set                                   *)
  pods,         (* pod -> what its Claw's list says of it                  *)
  clock,
  stores,       (* key -> its store                                        *)
  storeSeen,    (* key -> when a request last asked for it                 *)
  watchers,     (* Claw -> its watcher                                     *)
  made,         (* how many stores, and how many watchers, there have been *)
  request,      (* request -> what it is doing                             *)
  reaper        (* when it next wakes; the cutoff it works with, if any    *)

vars == <<local, pods, clock, stores, storeSeen, watchers, made, request, reaper>>

\* A pod that is neither starting nor being deleted can be exec'd into.
PodStates == {"starting", "running", "ready", "leaving"}

Key == [cred : Credentials \cup {None}, claw : Claws \cup {Local}, pod : Pods \cup {None}]

LocalKey == [cred |-> None, claw |-> Local, pod |-> None]

\* A store reads with one credential in one pod, and reports to one watcher.
Store == [id : 1..MaxStores, of : Key, watcher : Nat]

\* `scans` is whether the request takes a snapshot, within scanTimeout, or reads notes
\* for as long as its client stays.
Request == [phase : {"none", "resolving", "resolved", "using"}, key : Key,
            store : Store \cup {None}, scans : BOOLEAN, since : Nat]

Resting == [phase |-> "none", key |-> LocalKey, store |-> None, scans |-> FALSE, since |-> 0]

TypeOK ==
  /\ local \in BOOLEAN
  /\ pods \in [Pods -> PodStates]
  /\ clock \in Nat
  /\ DOMAIN stores \subseteq Key /\ \A k \in DOMAIN stores : stores[k] \in Store
  /\ DOMAIN storeSeen = DOMAIN stores \ {LocalKey}
  /\ \A k \in DOMAIN storeSeen : storeSeen[k] \in 0..clock
  /\ DOMAIN watchers \subseteq Claws \cup {Local}
  /\ \A c \in DOMAIN watchers : watchers[c] \in 1..made.watchers
  /\ made \in [stores : 0..MaxStores, watchers : Nat]
  /\ request \in [Requests -> Request]
  /\ reaper \in [next : Nat, cutoff : Int \cup {None}]

(***************************************************************************)
(* The pods and the time.                                                  *)
(***************************************************************************)
PodChanges(p) ==
  /\ ~local /\ p \notin Steady
  /\ \/ pods[p] = "starting" /\ pods' = [pods EXCEPT ![p] = "running"]
     \/ pods[p] = "running"  /\ pods' = [pods EXCEPT ![p] = "ready"]
     \/ pods[p] = "ready"    /\ pods' = [pods EXCEPT ![p] = "leaving"]
  /\ UNCHANGED <<local, clock, stores, storeSeen, watchers, made, request, reaper>>

\* The reaper wakes on time, and no snapshot takes longer than scanTimeout.
Tick ==
  /\ clock < MaxClock
  /\ local \/ (clock < reaper.next /\ reaper.cutoff = None)
  /\ \A r \in Requests : request[r].phase = "using" /\ request[r].scans =>
       clock < request[r].since + ScanTimeout
  /\ clock' = clock + 1
  /\ UNCHANGED <<local, pods, stores, storeSeen, watchers, made, request, reaper>>

(***************************************************************************)
(* A request.                                                              *)
(***************************************************************************)
Ask(r) ==
  /\ request[r].phase = "none"
  /\ \E cred \in Credentials, claw \in Claws, scans \in BOOLEAN :
       request' = [request EXCEPT ![r] =
         [@ EXCEPT !.phase = IF local THEN "resolved" ELSE "resolving",
                   !.key = IF local THEN LocalKey ELSE [cred |-> cred, claw |-> claw, pod |-> None],
                   !.scans = scans]]
  /\ UNCHANGED <<local, pods, clock, stores, storeSeen, watchers, made, reaper>>

\* clawPod: the first pod of the Claw that is ready, or else the first that runs.
Serving(claw) ==
  LET in(state) == {p \in Pods : ClawOf[p] = claw /\ pods[p] = state}
      best == IF in("ready") # {} THEN in("ready") ELSE in("running")
  IN {p \in best : \A q \in best : p <= q}

\* The API server answers, or refuses; the Claw may have no pod that runs.
Resolve(r) ==
  /\ request[r].phase = "resolving"
  /\ \/ request' = [request EXCEPT ![r] = Resting]
     \/ \E p \in Serving(request[r].key.claw) :
          request' = [request EXCEPT ![r].phase = "resolved", ![r].key.pod = p]
  /\ UNCHANGED <<local, pods, clock, stores, storeSeen, watchers, made, reaper>>

\* Mutation: the key has the user's Claw and pod, not the credential.
KeyWithoutCredential(r) == [request[r].key EXCEPT !.cred = None]

KeyOf(r) == request[r].key

\* Mutation: a store that is found is not noted as asked for.
SeenWhenMade(key) ==
  IF key = LocalKey \/ key \in DOMAIN stores THEN storeSeen
  ELSE [k \in DOMAIN storeSeen \cup {key} |-> IF k = key THEN clock ELSE storeSeen[k]]

Seen(key) ==
  IF key = LocalKey THEN storeSeen
  ELSE [k \in DOMAIN storeSeen \cup {key} |-> IF k = key THEN clock ELSE storeSeen[k]]

\* watcherFor.
WatcherOf(claw) == IF claw \in DOMAIN watchers THEN watchers[claw] ELSE made.watchers + 1

Use(r, store) ==
  request' = [request EXCEPT ![r].phase = "using", ![r].store = store,
                                 ![r].since = IF request[r].scans THEN clock ELSE 0]

\* storeFor, or resolveStore in local mode.
StoreFor(r) ==
  LET key  == KeyOf(r)
      claw == request[r].key.claw
      new  == [id |-> made.stores + 1, of |-> request[r].key, watcher |-> WatcherOf(claw)]
  IN /\ request[r].phase = "resolved"
     /\ storeSeen' = Seen(key)
     /\ IF key \in DOMAIN stores
        THEN Use(r, stores[key]) /\ UNCHANGED <<stores, watchers, made>>
        ELSE /\ made.stores < MaxStores
             /\ Use(r, new)
             /\ stores' = [k \in DOMAIN stores \cup {key} |-> IF k = key THEN new ELSE stores[k]]
             /\ watchers' = [c \in DOMAIN watchers \cup {claw} |-> WatcherOf(c)]
             /\ made' = [stores |-> made.stores + 1,
                         watchers |-> IF claw \in DOMAIN watchers THEN made.watchers
                                      ELSE made.watchers + 1]
  /\ UNCHANGED <<local, pods, clock, reaper>>

Answer(r) ==
  /\ request[r].phase = "using"
  /\ request' = [request EXCEPT ![r] = Resting]
  /\ UNCHANGED <<local, pods, clock, stores, storeSeen, watchers, made, reaper>>

(***************************************************************************)
(* reapIdleStores.                                                         *)
(***************************************************************************)
ReaperWakes ==
  /\ ~local /\ reaper.cutoff = None /\ clock = reaper.next
  /\ reaper' = [next |-> clock + ReapEvery, cutoff |-> clock - IdleTTL]
  /\ UNCHANGED <<local, pods, clock, stores, storeSeen, watchers, made, request>>

Idle == {k \in DOMAIN storeSeen : storeSeen[k] < reaper.cutoff}

\* Mutation: the Claw's watcher goes with the store.
ReapWithWatcher ==
  /\ reaper.cutoff # None
  /\ stores' = Restrict(stores, DOMAIN stores \ Idle)
  /\ storeSeen' = Restrict(storeSeen, DOMAIN storeSeen \ Idle)
  /\ watchers' = Restrict(watchers, DOMAIN watchers \ {k.claw : k \in Idle})
  /\ reaper' = [reaper EXCEPT !.cutoff = None]
  /\ UNCHANGED <<local, pods, clock, made, request>>

\* Mutation: the store stays, only its time goes.
ReapTimesOnly ==
  /\ reaper.cutoff # None
  /\ storeSeen' = Restrict(storeSeen, DOMAIN storeSeen \ Idle)
  /\ reaper' = [reaper EXCEPT !.cutoff = None]
  /\ UNCHANGED <<local, pods, clock, stores, watchers, made, request>>

Reap ==
  /\ reaper.cutoff # None
  /\ stores' = Restrict(stores, DOMAIN stores \ Idle)
  /\ storeSeen' = Restrict(storeSeen, DOMAIN storeSeen \ Idle)
  /\ reaper' = [reaper EXCEPT !.cutoff = None]
  /\ UNCHANGED <<local, pods, clock, watchers, made, request>>

Empty == [k \in {} |-> None]

Init ==
  /\ local \in BOOLEAN
  /\ pods = [p \in Pods |-> IF p \in Steady THEN "running" ELSE "starting"]
  /\ clock = 0
  /\ stores = Empty /\ storeSeen = Empty /\ watchers = Empty
  /\ made = [stores |-> 0, watchers |-> 0]
  /\ request = [r \in Requests |-> Resting]
  /\ reaper = [next |-> ReapEvery, cutoff |-> None]

Next ==
  \/ Tick \/ ReaperWakes \/ Reap
  \/ \E p \in Pods : PodChanges(p)
  \/ \E r \in Requests : Ask(r) \/ Resolve(r) \/ StoreFor(r) \/ Answer(r)

Spec == Init /\ [][Next]_vars

-------------------------------------------------------------------------------
(***************************************************************************)
(* Properties.                                                             *)
(***************************************************************************)
InUse == {request[r].store : r \in {q \in Requests : request[q].phase = "using"}}
Held  == Range(stores) \cup InUse

\* "A snapshot built under one credential is never served to another" (main.go): a
\* request is answered by a store that reads with its own credential, in its own Claw,
\* in the pod that it found to serve the Claw.
OwnView ==
  \A r \in Requests : request[r].phase = "using" => request[r].store.of = request[r].key

\* "Watchers are per Claw" (main.go): whatever is reaped, two stores that read the same
\* Claw, in whatever pod and for whomever, never have two watchers, which would write
\* over each other's file; and those of two Claws never share one.
OneWatcherPerClaw ==
  \A s, t \in Held : s.watcher = t.watcher <=> s.of.claw = t.of.claw

\* At most one scan at a time in a pod for one user (store.go): a store is not reaped
\* under a request that takes a snapshot, so another one never gets a second store.
ScansShareAStore ==
  \A q, r \in Requests :
    (\A x \in {q, r} : request[x].phase = "using" /\ request[x].scans)
      /\ request[q].key = request[r].key => request[q].store = request[r].store

\* Every viewer and every pod restart mints a key: no store stays that no request has
\* asked for in storeIdleTTL and the time until the reaper's next round.
IdleStoresGo ==
  \A k \in DOMAIN stores \ {LocalKey} :
    k \in DOMAIN storeSeen /\ clock - storeSeen[k] <= IdleTTL + ReapEvery
===============================================================================
