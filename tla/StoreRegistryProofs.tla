------------------------- MODULE StoreRegistryProofs -------------------------
(***************************************************************************)
(* Proofs about StoreRegistry, for any requests, credentials, Claws, pods  *)
(* and times.                                                              *)
(***************************************************************************)
EXTENDS StoreRegistry, TLAPS

(***************************************************************************)
(* Types.                                                                  *)
(***************************************************************************)
LEMMA KeysTyped == LocalKey \in Key
BY DEF LocalKey, Key

LEMMA RestingTyped == Resting \in Request
BY KeysTyped DEF Resting, Request

\* The console starts with every variable of its type.
LEMMA TypeInit == Init => TypeOK
<1> SUFFICES ASSUME Init PROVE TypeOK
  OBVIOUS
<1> USE RegistryAssumption DEF Init
<1>1. pods \in [Pods -> PodStates]
  BY DEF PodStates
<1>2. request \in [Requests -> Request]
  BY RestingTyped
<1>3. DOMAIN stores = {} /\ DOMAIN storeSeen = {} /\ DOMAIN watchers = {}
  BY DEF Empty
<1>4. made \in [stores : 0..MaxStores, watchers : Nat]
  OBVIOUS
<1>5. reaper \in [next : Nat, cutoff : Int \cup {None}]
  OBVIOUS
<1> QED
  BY <1>1, <1>2, <1>3, <1>4, <1>5 DEF TypeOK

\* The parts of StoreFor that make the store and its watcher.
LEMMA StoreForTypes ==
  ASSUME TypeOK, NEW r \in Requests, StoreFor(r)
  PROVE  TypeOK'
<1> USE RegistryAssumption
<1> DEFINE key  == request[r].key
           claw == request[r].key.claw
           new  == [id |-> made.stores + 1, of |-> key, watcher |-> WatcherOf(claw)]
<1>1. request[r] \in Request /\ key \in Key /\ claw \in Claws \cup {Local}
  BY DEF TypeOK, Request, Key
<1>2. made.stores \in 0..MaxStores /\ made.watchers \in Nat
  BY DEF TypeOK
<1>3. \A c \in DOMAIN watchers \cup {claw} :
        WatcherOf(c) \in 1..made.watchers \/ (c = claw /\ claw \notin DOMAIN watchers
                                                /\ WatcherOf(c) = made.watchers + 1)
  BY <1>2 DEF TypeOK, WatcherOf
<1>4. WatcherOf(claw) \in Nat
  BY <1>2, <1>3
<1>5. made.stores < MaxStores => new \in Store
  BY <1>1, <1>2, <1>4 DEF Store
<1>6. \A store \in Store : Use(r, store) => request' \in [Requests -> Request]
  <2> SUFFICES ASSUME NEW store \in Store, Use(r, store) PROVE request' \in [Requests -> Request]
    OBVIOUS
  <2>1. request'[r] \in Request
    BY <1>1 DEF Use, Request, TypeOK
  <2> QED
    BY <2>1 DEF Use, TypeOK
<1>7. DOMAIN storeSeen' = DOMAIN storeSeen \cup ({key} \ {LocalKey})
      /\ \A k \in DOMAIN storeSeen' : storeSeen'[k] \in 0..clock
  BY DEF StoreFor, Seen, KeyOf, TypeOK
<1>8. UNCHANGED <<local, pods, clock, reaper>>
  BY DEF StoreFor
<1>9. CASE key \in DOMAIN stores
  <2>1. Use(r, stores[key]) /\ UNCHANGED <<stores, watchers, made>>
    BY <1>9 DEF StoreFor, KeyOf
  <2>2. request' \in [Requests -> Request]
    BY <1>6, <1>9, <2>1 DEF TypeOK
  <2>3. DOMAIN storeSeen' = DOMAIN stores' \ {LocalKey}
    BY <1>7, <1>9, <2>1 DEF TypeOK
  <2> QED
    BY <1>7, <1>8, <2>1, <2>2, <2>3 DEF TypeOK
<1>10. CASE key \notin DOMAIN stores
  <2>1. /\ made.stores < MaxStores /\ Use(r, new)
        /\ stores' = [k \in DOMAIN stores \cup {key} |-> IF k = key THEN new ELSE stores[k]]
        /\ watchers' = [c \in DOMAIN watchers \cup {claw} |-> WatcherOf(c)]
        /\ made' = [stores |-> made.stores + 1,
                    watchers |-> IF claw \in DOMAIN watchers THEN made.watchers
                                 ELSE made.watchers + 1]
    BY <1>10 DEF StoreFor, KeyOf
  <2>2. request' \in [Requests -> Request]
    BY <1>5, <1>6, <2>1
  <2>3. DOMAIN stores' \subseteq Key /\ \A k \in DOMAIN stores' : stores'[k] \in Store
    BY <1>1, <1>5, <2>1 DEF TypeOK
  <2>4. DOMAIN storeSeen' = DOMAIN stores' \ {LocalKey}
    BY <1>7, <2>1 DEF TypeOK
  <2>5. made' \in [stores : 0..MaxStores, watchers : Nat]
    BY <1>2, <2>1
  <2>6. /\ DOMAIN watchers' \subseteq Claws \cup {Local}
        /\ \A c \in DOMAIN watchers' : watchers'[c] \in 1..made'.watchers
    BY <1>1, <1>2, <1>3, <2>1 DEF TypeOK
  <2> QED
    BY <1>7, <1>8, <2>2, <2>3, <2>4, <2>5, <2>6 DEF TypeOK
<1> QED
  BY <1>9, <1>10

\* Every step keeps every variable of its type.
LEMMA TypeStep == TypeOK /\ [Next]_vars => TypeOK'
<1> SUFFICES ASSUME TypeOK, [Next]_vars PROVE TypeOK'
  OBVIOUS
<1> USE RegistryAssumption
<1>1. CASE Tick
  <2>1. \A k \in DOMAIN storeSeen : storeSeen[k] \in 0..clock'
    BY <1>1 DEF Tick, TypeOK
  <2> QED
    BY <1>1, <2>1 DEF Tick, TypeOK
<1>2. CASE ReaperWakes
  BY <1>2 DEF ReaperWakes, TypeOK
<1>3. CASE Reap
  <2>1. LocalKey \notin Idle
    BY DEF TypeOK, Idle
  <2>2. /\ DOMAIN stores' = DOMAIN stores \ Idle
        /\ \A k \in DOMAIN stores' : stores'[k] = stores[k]
    BY <1>3 DEF Reap, Restrict
  <2>3. /\ DOMAIN storeSeen' = DOMAIN storeSeen \ Idle
        /\ \A k \in DOMAIN storeSeen' : storeSeen'[k] = storeSeen[k]
    BY <1>3 DEF Reap, Restrict
  <2>4. reaper' \in [next : Nat, cutoff : Int \cup {None}]
    BY <1>3 DEF Reap, TypeOK
  <2> QED
    BY <1>3, <2>1, <2>2, <2>3, <2>4 DEF Reap, TypeOK
<1>4. ASSUME NEW p \in Pods, PodChanges(p) PROVE TypeOK'
  BY <1>4 DEF PodChanges, TypeOK, PodStates
<1>5. ASSUME NEW r \in Requests, Ask(r) PROVE TypeOK'
  <2>1. PICK cred \in Credentials, claw \in Claws, scans \in BOOLEAN :
          request' = [request EXCEPT ![r] =
            [@ EXCEPT !.phase = IF local THEN "resolved" ELSE "resolving",
                      !.key = IF local THEN LocalKey ELSE [cred |-> cred, claw |-> claw, pod |-> None],
                      !.scans = scans]]
    BY <1>5 DEF Ask
  <2>2. [cred |-> cred, claw |-> claw, pod |-> None] \in Key
    BY DEF Key
  <2>3. request[r] \in Request /\ request \in [Requests -> Request]
    BY DEF TypeOK
  <2>4. request'[r] \in Request
    BY <2>1, <2>2, <2>3, KeysTyped DEF Request
  <2>5. request' \in [Requests -> Request]
    BY <2>1, <2>3, <2>4
  <2> QED
    BY <1>5, <2>5 DEF Ask, TypeOK
<1>6. ASSUME NEW r \in Requests, Resolve(r) PROVE TypeOK'
  <2>1. request' \in [Requests -> Request]
    <3>1. request[r] \in Request /\ request \in [Requests -> Request]
      BY DEF TypeOK
    <3>2. CASE request' = [request EXCEPT ![r] = Resting]
      BY <3>1, <3>2, RestingTyped
    <3>3. ASSUME NEW p \in Pods, request' = [request EXCEPT ![r].phase = "resolved", ![r].key.pod = p]
          PROVE  request' \in [Requests -> Request]
      BY <3>1, <3>3 DEF Request, Key
    <3>4. Serving(request[r].key.claw) \subseteq Pods
      BY DEF Serving
    <3> QED
      BY <1>6, <3>2, <3>3, <3>4 DEF Resolve
  <2> QED
    BY <1>6, <2>1 DEF Resolve, TypeOK
<1>7. ASSUME NEW r \in Requests, StoreFor(r) PROVE TypeOK'
  BY <1>7, StoreForTypes
<1>8. ASSUME NEW r \in Requests, Answer(r) PROVE TypeOK'
  BY <1>8, RestingTyped DEF Answer, TypeOK
<1>9. CASE UNCHANGED vars
  BY <1>9 DEF vars, TypeOK
<1> QED
  BY <1>1, <1>2, <1>3, <1>4, <1>5, <1>6, <1>7, <1>8, <1>9 DEF Next

\* Every variable has its type, and a store of a cluster is registered exactly when the
\* time of its last use is (stores and storeSeen, main.go).
THEOREM TypeCorrect == Spec => []TypeOK
BY TypeInit, TypeStep, PTL DEF Spec

\* A request that asks, looks up its pod or answers holds no store afterwards.
LEMMA NotUsing ==
  ASSUME TypeOK, NEW r \in Requests, Ask(r) \/ Resolve(r) \/ Answer(r)
  PROVE  request'[r].phase # "using"
<1>1. request \in [Requests -> Request] /\ request[r] \in Request
  BY DEF TypeOK
<1>2. Resting.phase # "using"
  BY DEF Resting
<1>3. CASE Ask(r)
  <2>1. PICK cred, claw, scans :
          request' = [request EXCEPT ![r] =
            [@ EXCEPT !.phase = IF local THEN "resolved" ELSE "resolving",
                      !.key = IF local THEN LocalKey ELSE [cred |-> cred, claw |-> claw, pod |-> None],
                      !.scans = scans]]
    BY <1>3 DEF Ask
  <2>2. request'[r].phase = IF local THEN "resolved" ELSE "resolving"
    BY <1>1, <2>1 DEF Request
  <2> QED
    BY <2>2
<1>4. CASE Resolve(r)
  <2>1. CASE request' = [request EXCEPT ![r] = Resting]
    BY <1>1, <1>2, <2>1
  <2>2. ASSUME NEW p, request' = [request EXCEPT ![r].phase = "resolved", ![r].key.pod = p]
        PROVE  request'[r].phase = "resolved"
    BY <1>1, <2>2 DEF Request
  <2> QED
    BY <1>4, <2>1, <2>2 DEF Resolve
<1>5. CASE Answer(r)
  BY <1>1, <1>2, <1>5 DEF Answer
<1> QED
  BY <1>3, <1>4, <1>5

(***************************************************************************)
(* Whose view a store is.                                                  *)
(***************************************************************************)
\* A store is registered under the key it was made for.
OwnInv == OwnView /\ \A k \in DOMAIN stores : stores[k].of = k

LEMMA OwnStep == TypeOK /\ OwnInv /\ [Next]_vars => OwnInv'
<1> SUFFICES ASSUME TypeOK, OwnInv, [Next]_vars PROVE OwnInv'
  OBVIOUS
<1> USE DEF OwnInv, OwnView
<1>1. request \in [Requests -> Request]
  BY DEF TypeOK
<1>2. CASE Tick \/ ReaperWakes \/ (\E p \in Pods : PodChanges(p)) \/ UNCHANGED vars
  BY <1>2 DEF Tick, ReaperWakes, PodChanges, vars
<1>3. CASE Reap
  BY <1>3 DEF Reap, Restrict
<1>4. ASSUME NEW r \in Requests, Ask(r) \/ Resolve(r) \/ Answer(r) PROVE OwnInv'
  <2>1. stores' = stores
    BY <1>4 DEF Ask, Resolve, Answer
  <2>2. \A q \in Requests \ {r} : request'[q] = request[q]
    BY <1>1, <1>4 DEF Ask, Resolve, Answer
  <2>3. request'[r].phase # "using"
    BY <1>4, NotUsing
  <2> QED
    BY <2>1, <2>2, <2>3
<1>5. ASSUME NEW r \in Requests, StoreFor(r) PROVE OwnInv'
  <2> DEFINE key == request[r].key
  <2>1. \A store : Use(r, store) =>
          /\ request'[r].store = store /\ request'[r].key = key
          /\ \A q \in Requests \ {r} : request'[q] = request[q]
    BY <1>1 DEF Use, Request
  <2>2. CASE key \in DOMAIN stores
    BY <1>5, <2>1, <2>2 DEF StoreFor, KeyOf
  <2>3. CASE key \notin DOMAIN stores
    <3> DEFINE new == [id |-> made.stores + 1, of |-> key, watcher |-> WatcherOf(key.claw)]
    <3>1. /\ Use(r, new)
          /\ stores' = [k \in DOMAIN stores \cup {key} |-> IF k = key THEN new ELSE stores[k]]
      BY <1>5, <2>3 DEF StoreFor, KeyOf
    <3>2. new.of = key
      OBVIOUS
    <3> HIDE DEF new
    <3> QED
      BY <2>1, <3>1, <3>2
  <2> QED
    BY <2>2, <2>3
<1> QED
  BY <1>2, <1>3, <1>4, <1>5 DEF Next

\* A request is only ever answered by a store of its own credential, Claw and pod
\* (storeFor, main.go).
THEOREM OwnViewOnly == Spec => []OwnView
<1>1. Init => OwnInv
  BY DEF Init, OwnInv, OwnView, Resting, Empty
<1>2. OwnInv => OwnView
  BY DEF OwnInv
<1> QED
  BY <1>1, <1>2, OwnStep, TypeCorrect, PTL DEF Spec

(***************************************************************************)
(* Watchers.                                                               *)
(***************************************************************************)
\* Every store there is has its Claw's registered watcher, and no two Claws have one.
WatchInv ==
  /\ \A s \in Held : s.of.claw \in DOMAIN watchers /\ s.watcher = watchers[s.of.claw]
  /\ \A c, d \in DOMAIN watchers : watchers[c] = watchers[d] => c = d

\* A step that makes no store leaves none but those there were.
LEMMA NothingNew ==
  ASSUME WatchInv, Held' \subseteq Held, watchers' = watchers
  PROVE  WatchInv'
BY DEF WatchInv

LEMMA WatchStep == TypeOK /\ WatchInv /\ [Next]_vars => WatchInv'
<1> SUFFICES ASSUME TypeOK, WatchInv, [Next]_vars PROVE WatchInv'
  OBVIOUS
<1>1. request \in [Requests -> Request]
  BY DEF TypeOK
<1>2. CASE Tick \/ ReaperWakes \/ (\E p \in Pods : PodChanges(p)) \/ UNCHANGED vars
  <2>1. UNCHANGED <<stores, request, watchers>>
    BY <1>2 DEF Tick, ReaperWakes, PodChanges, vars
  <2> QED
    BY <2>1, NothingNew DEF Held, InUse, Range
<1>3. CASE Reap
  <2>1. UNCHANGED <<request, watchers>> /\ Range(stores') \subseteq Range(stores)
    BY <1>3 DEF Reap, Restrict, Range
  <2> QED
    BY <2>1, NothingNew DEF Held, InUse
<1>4. ASSUME NEW r \in Requests, Ask(r) \/ Resolve(r) \/ Answer(r) PROVE WatchInv'
  <2>1. UNCHANGED <<stores, watchers>>
    BY <1>4 DEF Ask, Resolve, Answer
  <2>2. \A q \in Requests \ {r} : request'[q] = request[q]
    BY <1>1, <1>4 DEF Ask, Resolve, Answer
  <2>3. request'[r].phase # "using"
    BY <1>4, NotUsing
  <2>4. InUse' \subseteq InUse
    BY <2>2, <2>3 DEF InUse
  <2> QED
    BY <2>1, <2>4, NothingNew DEF Held, Range
<1>5. ASSUME NEW r \in Requests, StoreFor(r) PROVE WatchInv'
  <2> DEFINE key  == request[r].key
             claw == request[r].key.claw
             new  == [id |-> made.stores + 1, of |-> key, watcher |-> WatcherOf(claw)]
  <2>1. \A store : Use(r, store) => InUse' \subseteq InUse \cup {store}
    <3> SUFFICES ASSUME NEW store, Use(r, store) PROVE InUse' \subseteq InUse \cup {store}
      OBVIOUS
    <3>1. request'[r].store = store /\ \A q \in Requests \ {r} : request'[q] = request[q]
      BY <1>1 DEF Use, Request
    <3> QED
      BY <3>1 DEF InUse
  <2>2. CASE key \in DOMAIN stores
    <3>1. Use(r, stores[key]) /\ UNCHANGED <<stores, watchers>>
      BY <1>5, <2>2 DEF StoreFor, KeyOf
    <3>2. Held' \subseteq Held
      BY <2>1, <2>2, <3>1 DEF Held, Range
    <3> QED
      BY <3>1, <3>2, NothingNew
  <2>3. CASE key \notin DOMAIN stores
    <3>1. /\ Use(r, new)
          /\ stores' = [k \in DOMAIN stores \cup {key} |-> IF k = key THEN new ELSE stores[k]]
          /\ watchers' = [c \in DOMAIN watchers \cup {claw} |-> WatcherOf(c)]
      BY <1>5, <2>3 DEF StoreFor, KeyOf
    <3>2. Held' \subseteq Held \cup {new}
      <4>1. Range(stores') \subseteq Range(stores) \cup {new}
        BY <3>1 DEF Range
      <4> QED
        BY <2>1, <3>1, <4>1 DEF Held
    <3>3. made.watchers \in Nat /\ \A c \in DOMAIN watchers : watchers[c] \in 1..made.watchers
      BY DEF TypeOK
    <3>4. \A c \in DOMAIN watchers : watchers'[c] = watchers[c] /\ c \in DOMAIN watchers'
      BY <3>1 DEF WatcherOf
    <3>5. claw \in DOMAIN watchers' /\ watchers'[claw] = WatcherOf(claw)
      BY <3>1
    <3>6. new.of.claw = claw /\ new.watcher = WatcherOf(claw)
      OBVIOUS
    <3>7. \A c, d \in DOMAIN watchers' : watchers'[c] = watchers'[d] => c = d
      <4>1. claw \notin DOMAIN watchers => watchers'[claw] = made.watchers + 1
        BY <3>5 DEF WatcherOf
      <4>2. DOMAIN watchers' = DOMAIN watchers \cup {claw}
        BY <3>1
      <4>3. \A c \in DOMAIN watchers : watchers'[c] < made.watchers + 1
        BY <3>3, <3>4
      <4>4. \A c, d \in DOMAIN watchers : watchers'[c] = watchers'[d] => c = d
        BY <3>4 DEF WatchInv
      <4> QED
        BY <3>3, <4>1, <4>2, <4>3, <4>4
    <3> HIDE DEF new
    <3> QED
      BY <3>2, <3>4, <3>5, <3>6, <3>7 DEF WatchInv
  <2> QED
    BY <2>2, <2>3
<1> QED
  BY <1>2, <1>3, <1>4, <1>5 DEF Next

\* All stores of a Claw, those still used after they were reaped included, report to
\* one watcher, and those of two Claws to two (watcherFor, main.go).
THEOREM WatcherIsUnique == Spec => []OneWatcherPerClaw
<1>1. Init => WatchInv
  BY DEF Init, WatchInv, Held, InUse, Range, Resting, Empty
<1>2. WatchInv => OneWatcherPerClaw
  BY DEF WatchInv, OneWatcherPerClaw
<1> QED
  BY <1>1, <1>2, WatchStep, TypeCorrect, PTL DEF Spec

(***************************************************************************)
(* Idle stores, and stores in use.                                         *)
(***************************************************************************)
\* In local mode nothing is resolved, and nothing has a time.
LocalInv ==
  local => \A r \in Requests : request[r].key = LocalKey /\ request[r].phase # "resolving"

\* A scan's store is registered, and was asked for no earlier than the scan began, which
\* is no longer ago than scanTimeout.
ScanInv ==
  \A r \in Requests : request[r].phase = "using" /\ request[r].scans =>
    /\ request[r].key \in DOMAIN stores /\ request[r].store = stores[request[r].key]
    /\ clock <= request[r].since + ScanTimeout
    /\ request[r].key # LocalKey => request[r].since <= storeSeen[request[r].key]

\* The reaper's next round is at most one period away, its cutoff is that of now, and what
\* its last round left was seen since the cutoff of then.
ReaperInv ==
  /\ local => DOMAIN storeSeen = {} /\ reaper.cutoff = None
  /\ reaper.next <= clock + ReapEvery
  /\ reaper.cutoff # None => reaper.cutoff = clock - IdleTTL /\ reaper.next = clock + ReapEvery
  /\ ~local =>
       /\ clock <= reaper.next
       /\ \A k \in DOMAIN storeSeen :
            IF reaper.cutoff = None THEN storeSeen[k] >= reaper.next - ReapEvery - IdleTTL
            ELSE storeSeen[k] >= clock - ReapEvery - IdleTTL

IdleInv == LocalInv /\ ScanInv /\ ReaperInv

\* A request that asks, looks up its pod or answers leaves the stores as they are.
LEMMA OthersIdle ==
  ASSUME TypeOK, IdleInv, NEW r \in Requests, Ask(r) \/ Resolve(r) \/ Answer(r)
  PROVE  IdleInv'
<1>1. UNCHANGED <<local, clock, stores, storeSeen, reaper>>
  BY DEF Ask, Resolve, Answer
<1>2. request \in [Requests -> Request] /\ request[r] \in Request
  BY DEF TypeOK
<1>3. \A q \in Requests \ {r} : request'[q] = request[q]
  BY <1>2 DEF Ask, Resolve, Answer
<1>4. request'[r].phase # "using"
  BY NotUsing
<1>5. local => request'[r].key = LocalKey /\ request'[r].phase # "resolving"
  <2>1. CASE Ask(r)
    <3>1. PICK cred, claw, scans :
            request' = [request EXCEPT ![r] =
              [@ EXCEPT !.phase = IF local THEN "resolved" ELSE "resolving",
                        !.key = IF local THEN LocalKey ELSE [cred |-> cred, claw |-> claw, pod |-> None],
                        !.scans = scans]]
      BY <2>1 DEF Ask
    <3> QED
      BY <1>2, <3>1 DEF Request
  <2>2. CASE Resolve(r)
    BY <1>2, <2>2 DEF Resolve, IdleInv, LocalInv, Resting
  <2>3. CASE Answer(r)
    BY <1>2, <2>3 DEF Answer, Resting
  <2> QED
    BY <2>1, <2>2, <2>3
<1>6. LocalInv'
  BY <1>1, <1>3, <1>5 DEF IdleInv, LocalInv
<1>7. ScanInv'
  BY <1>1, <1>3, <1>4 DEF IdleInv, ScanInv
<1>8. ReaperInv'
  BY <1>1 DEF IdleInv, ReaperInv
<1> QED
  BY <1>6, <1>7, <1>8 DEF IdleInv

\* A request that gets its store marks it as asked for.
LEMMA StoreForIdle ==
  ASSUME TypeOK, IdleInv, NEW r \in Requests, StoreFor(r)
  PROVE  IdleInv'
<1> USE RegistryAssumption
<1> DEFINE key == request[r].key
<1>1. UNCHANGED <<local, clock, reaper>> /\ clock \in Nat
  BY DEF StoreFor, TypeOK
<1>2. request \in [Requests -> Request] /\ request[r] \in Request
  BY DEF TypeOK
<1>3. PICK store : /\ Use(r, store) /\ key \in DOMAIN stores' /\ stores'[key] = store
                   /\ \A k \in DOMAIN stores : k \in DOMAIN stores' /\ stores'[k] = stores[k]
  <2>1. CASE key \in DOMAIN stores
    BY <2>1 DEF StoreFor, KeyOf
  <2>2. CASE key \notin DOMAIN stores
    <3>1. PICK new : /\ Use(r, new)
                     /\ stores' = [k \in DOMAIN stores \cup {key} |-> IF k = key THEN new ELSE stores[k]]
      BY <2>2 DEF StoreFor, KeyOf
    <3> QED
      BY <2>2, <3>1
  <2> QED
    BY <2>1, <2>2
<1>4. /\ request'[r].key = key /\ request'[r].store = store /\ request'[r].phase = "using"
      /\ request'[r].scans = request[r].scans
      /\ request[r].scans => request'[r].since = clock
      /\ \A q \in Requests \ {r} : request'[q] = request[q]
  BY <1>2, <1>3 DEF Use, Request
<1>5. /\ DOMAIN storeSeen' = DOMAIN storeSeen \cup ({key} \ {LocalKey})
      /\ key # LocalKey => storeSeen'[key] = clock
      /\ \A k \in DOMAIN storeSeen : storeSeen[k] \in 0..clock /\ storeSeen'[k] \in {storeSeen[k], clock}
  BY DEF StoreFor, Seen, KeyOf, TypeOK
<1>6. LocalInv'
  BY <1>1, <1>4 DEF IdleInv, LocalInv
<1>7. ScanInv'
  <2> SUFFICES ASSUME NEW q \in Requests, request'[q].phase = "using", request'[q].scans
               PROVE  /\ request'[q].key \in DOMAIN stores' /\ request'[q].store = stores'[request'[q].key]
                      /\ clock' <= request'[q].since + ScanTimeout
                      /\ request'[q].key # LocalKey => request'[q].since <= storeSeen'[request'[q].key]
    BY DEF ScanInv
  <2>1. CASE q = r
    BY <1>1, <1>3, <1>4, <1>5, <2>1
  <2>2. CASE q # r
    <3>1. request'[q] = request[q]
      BY <1>4, <2>2
    <3>2. /\ request[q].key \in DOMAIN stores /\ request[q].store = stores[request[q].key]
          /\ clock <= request[q].since + ScanTimeout
          /\ request[q].key # LocalKey => request[q].since <= storeSeen[request[q].key]
      BY <3>1 DEF IdleInv, ScanInv
    <3>3. request[q].since \in Nat /\ (request[q].key # LocalKey => request[q].key \in DOMAIN storeSeen)
      BY <3>2 DEF TypeOK, Request
    <3>4. request[q].key # LocalKey => request[q].since <= storeSeen'[request[q].key]
      BY <1>1, <1>5, <3>2, <3>3
    <3> QED
      BY <1>1, <1>3, <3>1, <3>2, <3>4
  <2> QED
    BY <2>1, <2>2
<1>8. ReaperInv'
  <2>1. local => DOMAIN storeSeen' = {}
    BY <1>5 DEF IdleInv, LocalInv, ReaperInv
  <2>2. reaper.next \in Nat
    BY DEF TypeOK
  <2>3. ASSUME ~local, NEW k \in DOMAIN storeSeen'
        PROVE  IF reaper.cutoff = None THEN storeSeen'[k] >= reaper.next - ReapEvery - IdleTTL
               ELSE storeSeen'[k] >= clock - ReapEvery - IdleTTL
    <3>1. CASE storeSeen'[k] = clock
      BY <1>1, <2>2, <3>1 DEF IdleInv, ReaperInv
    <3>2. CASE storeSeen'[k] # clock
      <4>1. k \in DOMAIN storeSeen /\ storeSeen'[k] = storeSeen[k]
        BY <1>5, <3>2
      <4> QED
        BY <2>3, <4>1 DEF IdleInv, ReaperInv
    <3> QED
      BY <3>1, <3>2
  <2> QED
    BY <1>1, <2>1, <2>3 DEF IdleInv, ReaperInv
<1> QED
  BY <1>6, <1>7, <1>8 DEF IdleInv

LEMMA IdleStep == TypeOK /\ IdleInv /\ [Next]_vars => IdleInv'
<1> SUFFICES ASSUME TypeOK, IdleInv, [Next]_vars PROVE IdleInv'
  OBVIOUS
<1> USE RegistryAssumption
<1>0. clock \in Nat /\ reaper.next \in Nat /\ reaper.cutoff \in Int \cup {None}
      /\ \A k \in DOMAIN storeSeen : storeSeen[k] \in 0..clock
  BY DEF TypeOK
<1>1. CASE Tick
  <2>1. /\ UNCHANGED <<local, stores, storeSeen, request, reaper>> /\ clock' = clock + 1
        /\ local \/ (clock < reaper.next /\ reaper.cutoff = None)
        /\ \A r \in Requests : request[r].phase = "using" /\ request[r].scans =>
             clock < request[r].since + ScanTimeout
    BY <1>1 DEF Tick
  <2>2. LocalInv'
    BY <2>1 DEF IdleInv, LocalInv
  <2>3. \A r \in Requests : request[r].since \in Nat
    BY DEF TypeOK, Request
  <2>4. ScanInv'
    BY <1>0, <2>1, <2>3 DEF IdleInv, ScanInv
  <2>5. reaper.cutoff = None
    BY <2>1 DEF IdleInv, ReaperInv
  <2>6. ReaperInv'
    BY <1>0, <2>1, <2>5 DEF IdleInv, ReaperInv
  <2> QED
    BY <2>2, <2>4, <2>6 DEF IdleInv
<1>2. CASE ReaperWakes
  <2>1. /\ UNCHANGED <<local, clock, stores, storeSeen, request>>
        /\ ~local /\ reaper.cutoff = None /\ clock = reaper.next
        /\ reaper'.next = clock + ReapEvery /\ reaper'.cutoff = clock - IdleTTL
    BY <1>2 DEF ReaperWakes
  <2>2. LocalInv' /\ ScanInv'
    BY <2>1 DEF IdleInv, LocalInv, ScanInv
  <2>3. reaper'.cutoff # None
    BY <1>0, <2>1
  <2>4. ReaperInv'
    BY <1>0, <2>1, <2>3 DEF IdleInv, ReaperInv
  <2> QED
    BY <2>2, <2>4 DEF IdleInv
<1>3. CASE Reap
  <2>1. /\ UNCHANGED <<local, clock, request>> /\ reaper.cutoff # None
        /\ reaper'.next = reaper.next /\ reaper'.cutoff = None
    BY <1>3 DEF Reap, TypeOK
  <2>2. /\ DOMAIN stores' = DOMAIN stores \ Idle
        /\ \A k \in DOMAIN stores' : stores'[k] = stores[k]
        /\ DOMAIN storeSeen' = DOMAIN storeSeen \ Idle
        /\ \A k \in DOMAIN storeSeen' : storeSeen'[k] = storeSeen[k]
    BY <1>3 DEF Reap, Restrict
  <2>3. reaper.cutoff = clock - IdleTTL /\ reaper.next = clock + ReapEvery /\ ~local
    BY <2>1 DEF IdleInv, ReaperInv
  <2>4. \A k \in DOMAIN storeSeen' : k \in DOMAIN storeSeen /\ storeSeen[k] >= clock - IdleTTL
    BY <1>0, <2>2, <2>3 DEF Idle
  <2>5. ReaperInv'
    BY <1>0, <2>1, <2>2, <2>3, <2>4 DEF ReaperInv
  <2>6. ScanInv'
    <3> SUFFICES ASSUME NEW r \in Requests, request[r].phase = "using", request[r].scans
                 PROVE  request[r].key \notin Idle
      BY <2>1, <2>2 DEF IdleInv, ScanInv, TypeOK
    <3>1. /\ clock <= request[r].since + ScanTimeout
          /\ request[r].key # LocalKey => request[r].since <= storeSeen[request[r].key]
      BY DEF IdleInv, ScanInv
    <3>2. request[r].since \in Nat /\ LocalKey \notin Idle
      BY DEF TypeOK, Request, Idle
    <3>3. CASE request[r].key \in Idle
      <4>1. request[r].key # LocalKey /\ storeSeen[request[r].key] \in 0..clock
            /\ storeSeen[request[r].key] < clock - IdleTTL
        BY <1>0, <2>3, <3>2, <3>3 DEF Idle
      <4> QED
        BY <1>0, <3>1, <3>2, <4>1
    <3> QED
      BY <3>3
  <2>7. LocalInv'
    BY <2>1 DEF IdleInv, LocalInv
  <2> QED
    BY <2>5, <2>6, <2>7 DEF IdleInv
<1>4. CASE (\E p \in Pods : PodChanges(p)) \/ UNCHANGED vars
  <2>1. UNCHANGED <<local, clock, stores, storeSeen, request, reaper>>
    BY <1>4 DEF PodChanges, vars
  <2> QED
    BY <2>1 DEF IdleInv, LocalInv, ScanInv, ReaperInv
<1>5. ASSUME NEW r \in Requests, Ask(r) \/ Resolve(r) \/ Answer(r) PROVE IdleInv'
  BY <1>5, OthersIdle
<1>6. ASSUME NEW r \in Requests, StoreFor(r) PROVE IdleInv'
  BY <1>6, StoreForIdle
<1> QED
  BY <1>1, <1>2, <1>3, <1>4, <1>5, <1>6 DEF Next

LEMMA IdleInit == ASSUME Init PROVE IdleInv
<1>1. LocalInv /\ ScanInv
  BY DEF Init, LocalInv, ScanInv, Resting
<1>2. ReaperInv
  BY RegistryAssumption DEF Init, ReaperInv, Empty
<1> QED
  BY <1>1, <1>2 DEF IdleInv

\* A store is never reaped under a scan, so that one user scans a pod once at a time
\* (reapIdleStores, main.go).
THEOREM OneScanStore == Spec => []ScansShareAStore
<1>1. Init => IdleInv
  BY IdleInit
<1>2. IdleInv => ScansShareAStore
  BY DEF IdleInv, ScanInv, ScansShareAStore
<1> QED
  BY <1>1, <1>2, IdleStep, TypeCorrect, PTL DEF Spec

\* No store stays for longer than storeIdleTTL and a round of the reaper after it was
\* last asked for (reapIdleStores, main.go).
THEOREM IdleReaped == Spec => []IdleStoresGo
<1>1. Init => IdleInv
  BY IdleInit
<1>2. ASSUME TypeOK, IdleInv PROVE IdleStoresGo
  <2> SUFFICES ASSUME NEW k \in DOMAIN stores \ {LocalKey}
               PROVE  k \in DOMAIN storeSeen /\ clock - storeSeen[k] <= IdleTTL + ReapEvery
    BY DEF IdleStoresGo
  <2>1. /\ k \in DOMAIN storeSeen /\ storeSeen[k] \in 0..clock /\ clock \in Nat
        /\ reaper.next \in Nat
    BY <1>2 DEF TypeOK
  <2>2. ~local
    BY <1>2, <2>1 DEF IdleInv, ReaperInv
  <2> QED
    BY <1>2, <2>1, <2>2, RegistryAssumption DEF IdleInv, ReaperInv
<1> QED
  BY <1>1, <1>2, IdleStep, TypeCorrect, PTL DEF Spec
===============================================================================
