--------------------------- MODULE MemoryWatchProofs ---------------------------
(***************************************************************************)
(* Theorems about MemoryWatch, for any finite set of notes, any set of     *)
(* requests and any bounds: the types, with the cap on the history; and    *)
(* that the watcher never mistakes a note it holds under another content   *)
(* for an unchanged one, learns nothing in silence, announces no note as   *)
(* new twice, keeps within its budget and loses nothing by a restart.      *)
(***************************************************************************)
EXTENDS MemoryWatch, TLAPS, FiniteSetTheorems, SequenceTheorems

(***************************************************************************)
(* Types                                                                   *)
(***************************************************************************)
\* What observe() is handed was both listed and read.
LEMMA TakenListed ==
  ASSUME NEW index, NEW bodies, NEW n \in Taken(index, bodies)
  PROVE  n \in Notes /\ index[n] # None /\ bodies[n] # None
BY DEF Taken, Changed

LEMMA RecordType ==
  ASSUME TypeOK, NEW index \in Index, NEW bodies \in Bodies
  PROVE  Record(index, bodies) \in [Notes -> Seen \cup {None}]
<1>1. ASSUME NEW n \in Taken(index, bodies)
      PROVE  Snap(index[n], bodies[n]) \in Seen
  <2>1. index[n] \in Listed /\ bodies[n] \in Body
    BY TakenListed DEF Index, Bodies
  <2> QED BY <2>1 DEF Snap, Seen, Listed, Body
<1>2. watch.notes \in [Notes -> Seen \cup {None}]
  BY DEF TypeOK, Watcher
<1> QED BY <1>1, <1>2 DEF Record

LEMMA NoneIsNothing ==
  /\ None \notin Note /\ None \notin Listed /\ None \notin Body
  /\ None \notin Seen /\ None \notin Watcher /\ None \notin Request
BY WatchAssumption

LEMMA EmptiedSeen ==
  ASSUME NEW s \in Seen
  PROVE  LET t == [s EXCEPT !.lines = {}, !.kept = FALSE] IN
         t \in Seen /\ t.ver = s.ver /\ t.read = s.read /\ ~t.kept
<1> DEFINE t == [s EXCEPT !.lines = {}, !.kept = FALSE]
<1>1. t.ver = s.ver /\ t.read = s.read /\ t.kept = FALSE
  BY DEF Seen
<1>2. t \in Seen
  BY DEF Seen
<1> QED BY <1>1, <1>2

\* trim() keeps every entry, and of each entry all but the lines.
LEMMA TrimKeepsIdentity ==
  ASSUME NEW notes \in [Notes -> Seen \cup {None}], NEW trimmed \in Trimmed(notes)
  PROVE  /\ trimmed \in [Notes -> Seen \cup {None}]
         /\ \A n \in Notes :
              \/ trimmed[n] = notes[n]
              \/ /\ notes[n] # None /\ trimmed[n] # None
                 /\ trimmed[n].ver = notes[n].ver /\ trimmed[n].read = notes[n].read
                 /\ ~trimmed[n].kept
<1>1. PICK S \in SUBSET Notes : Oldest(notes, S) /\ trimmed = Dropped(notes, S)
  BY DEF Trimmed
<1> DEFINE emptied(n) == [notes[n] EXCEPT !.lines = {}, !.kept = FALSE]
<1>2. ASSUME NEW n \in S
      PROVE  /\ notes[n] \in Seen /\ emptied(n) \in Seen
             /\ emptied(n).ver = notes[n].ver /\ emptied(n).read = notes[n].read
             /\ ~emptied(n).kept
  <2>1. notes[n] \in Seen
    BY <1>1 DEF Oldest
  <2> QED BY <2>1, EmptiedSeen
<1>3. trimmed = [n \in Notes |-> IF n \in S THEN emptied(n) ELSE notes[n]]
  BY <1>1 DEF Dropped
<1> HIDE DEF emptied
<1>4. trimmed \in [Notes -> Seen \cup {None}]
  BY <1>2, <1>3
<1>5. ASSUME NEW n \in Notes, n \in S
      PROVE  trimmed[n] = emptied(n) /\ notes[n] # None /\ emptied(n) # None
  BY <1>2, <1>3, <1>5, NoneIsNothing
<1>6. ASSUME NEW n \in Notes, n \notin S
      PROVE  trimmed[n] = notes[n]
  BY <1>3, <1>6
<1> QED BY <1>2, <1>4, <1>5, <1>6

\* What an event shows of a note, it shows of the lines added to it; it withholds none
\* as long as it shows fewer than it may.
LEMMA ShownType ==
  ASSUME TypeOK, NEW index \in Index, NEW bodies \in Bodies,
         NEW shown \in Shown(index, bodies), NEW n \in Taken(index, bodies)
  PROVE  /\ n \in Notes /\ index[n] \in Listed /\ bodies[n] \in Body
         /\ shown[n] \in SUBSET (bodies[n].lines \ Prior(n)) /\ Prior(n) \in SUBSET Lines
         /\ \/ shown[n] = bodies[n].lines \ Prior(n)
            \/ Cardinality(shown[n]) = MaxAdded
<1>1. n \in Notes /\ index[n] \in Listed /\ bodies[n] \in Body
  BY TakenListed DEF Index, Bodies
<1>2. shown[n] \in First(bodies[n].lines \ Prior(n), MaxAdded)
  BY <1>1 DEF Shown
<1>3. watch.notes[n] \in Seen \cup {None}
  BY <1>1 DEF TypeOK, Watcher
<1>4. Prior(n) \in SUBSET Lines
  BY <1>3 DEF Prior, Seen
<1> QED BY <1>1, <1>2, <1>4 DEF First

LEMMA ReportedType ==
  ASSUME TypeOK, NEW index \in Index, NEW bodies \in Bodies, NEW shown \in Shown(index, bodies)
  PROVE  /\ Reported(index, bodies, shown) \subseteq Event
         /\ IsFiniteSet(Reported(index, bodies, shown))
<1> DEFINE D == Diffs(index, bodies, shown)
<1>1. ASSUME NEW n \in Taken(index, bodies)
      PROVE  Diff(n, index[n], bodies[n], shown[n]) \in Event
  <2>1. /\ n \in Notes /\ index[n] \in Listed /\ bodies[n] \in Body
        /\ shown[n] \in SUBSET Lines /\ Prior(n) \in SUBSET Lines
    BY ShownType DEF Body
  <2>2. watch.notes[n] \in Seen \cup {None}
    BY <2>1 DEF TypeOK, Watcher
  <2>3. (IF watch.notes[n] = None THEN 0 ELSE watch.notes[n].read) \in 0..MaxWrites
    <3>1. CASE watch.notes[n] = None
      BY <3>1, WatchAssumption
    <3>2. CASE watch.notes[n] # None
      BY <2>2, <3>2, WatchAssumption DEF Seen, Versions
    <3> QED BY <3>1, <3>2
  <2>4. /\ index[n].ver \in Versions /\ bodies[n].ver \in Versions
        /\ (bodies[n].lines \ Prior(n)) \ shown[n] \in SUBSET Lines
        /\ Prior(n) \ bodies[n].lines \in SUBSET Lines
    BY <2>1 DEF Listed, Body
  <2> QED BY <2>1, <2>3, <2>4 DEF Diff, Event
<1>2. IsFiniteSet(Taken(index, bodies))
  <2>1. Taken(index, bodies) \subseteq Notes
    BY DEF Taken, Changed
  <2> QED BY <2>1, FS_Subset, WatchAssumption
<1>3. IsFiniteSet(D)
  <2> DEFINE f == [n \in Taken(index, bodies) |-> Diff(n, index[n], bodies[n], shown[n])]
  <2>1. f \in Surjection(Taken(index, bodies), D)
    BY DEF Surjection, Diffs
  <2> QED BY <1>2, <2>1, FS_Surjection
<1>4. Reported(index, bodies, shown) \subseteq D
  BY DEF Reported
<1> QED BY <1>1, <1>3, <1>4, FS_Subset DEF Diffs

LEMMA CappedType ==
  ASSUME NEW events \in Seq(Event)
  PROVE  Capped(events) \in Seq(Event) /\ Len(Capped(events)) <= MaxWriteEvents
<1>1. CASE Len(events) <= MaxWriteEvents
  BY <1>1 DEF Capped
<1>2. CASE ~(Len(events) <= MaxWriteEvents)
  <2>1. Len(events) \in Nat /\ MaxWriteEvents \in Nat
    BY WatchAssumption
  <2> QED BY <1>2, <2>1 DEF Capped
<1> QED BY <1>1, <1>2

LEMMA AfterObserveType ==
  ASSUME TypeOK, NEW index \in Index,
         NEW notes \in [Notes -> Seen \cup {None}], NEW fresh \in Seq(Event)
  PROVE  LET w == AfterObserve(index, notes, fresh) IN
         w \in Watcher /\ Len(w.events) <= MaxWriteEvents /\ w.notes = notes
<1> DEFINE all   == watch.events \o fresh
           listed == [n \in Notes |-> IF index[n] = None THEN 0 ELSE index[n].ver]
           held   == [n \in Notes |-> IF notes[n] = None THEN {} ELSE notes[n].lines]
           first == IF watch.since THEN watch.first ELSE listed
           base  == IF watch.since THEN watch.base ELSE held
           forgot == watch.forgot \/ Len(all) > MaxWriteEvents
           w == [since |-> TRUE, notes |-> notes, events |-> Capped(all), first |-> first,
                 base |-> base, forgot |-> forgot]
<1>1. watch \in Watcher
  BY DEF TypeOK
<1>2. Capped(all) \in Seq(Event) /\ Len(Capped(all)) <= MaxWriteEvents
  <2>1. all \in Seq(Event)
    BY <1>1 DEF Watcher
  <2> QED BY <2>1, CappedType
<1>3. first \in [Notes -> 0..MaxWrites]
  <2>1. \A n \in Notes : (IF index[n] = None THEN 0 ELSE index[n].ver) \in 0..MaxWrites
    BY WatchAssumption DEF Index, Listed, Versions
  <2> QED BY <1>1, <2>1 DEF Watcher
<1>4. base \in [Notes -> SUBSET Lines]
  <2>1. \A n \in Notes : (IF notes[n] = None THEN {} ELSE notes[n].lines) \in SUBSET Lines
    BY DEF Seen
  <2> QED BY <1>1, <2>1 DEF Watcher
<1>5. forgot \in BOOLEAN
  BY <1>1 DEF Watcher
<1>6. AfterObserve(index, notes, fresh) = w
  BY DEF AfterObserve
<1> HIDE DEF first, base, forgot
<1>7. w \in Watcher
  BY <1>2, <1>3, <1>4, <1>5 DEF Watcher
<1> QED BY <1>2, <1>6, <1>7

LEMMA EmptyType == Empty \in Watcher /\ Len(Empty.events) <= MaxWriteEvents
BY WatchAssumption DEF Empty, Watcher

LEMMA LoadType ==
  ASSUME TypeOK, NEW w, NEW failed, Load(w, failed)
  PROVE  w \in Watcher /\ Len(w.events) <= MaxWriteEvents
BY EmptyType DEF Load, TypeOK

\* What a request holds, once it has left "idle".
LEMMA RequestType ==
  ASSUME TypeOK, NEW r \in Requests, pc[r] # "idle"
  PROVE  req[r] \in Request
BY DEF TypeOK

LEMMA InitTypes == Init => TypeOK
<1> SUFFICES ASSUME Init PROVE TypeOK
  OBVIOUS
<1>1. 1 \in Versions
  BY WatchAssumption DEF Versions
<1>2. vault \in Vault
  BY DEF Init, Vault
<1> QED BY <1>1, <1>2, EmptyType DEF Init, TypeOK

LEMMA StepTypes ==
  ASSUME TypeOK, [Next]_vars
  PROVE  TypeOK'
<1> USE DEF TypeOK
<1>1. CASE UNCHANGED vars
  BY <1>1 DEF vars
<1>2. ASSUME NEW n \in Notes, WriteNote(n)
      PROVE  TypeOK'
  <2>1. PICK L \in SUBSET Lines, H \in SUBSET Lines :
          vault' = [vault EXCEPT ![n] = [ver |-> writes + 1, lines |-> L, head |-> H]]
    BY <1>2 DEF WriteNote, First
  <2>2. writes' \in Versions /\ writes' = writes + 1
    BY <1>2, WatchAssumption DEF WriteNote, Versions
  <2>3. [ver |-> writes + 1, lines |-> L, head |-> H] \in Note
    BY <2>2 DEF Note
  <2>4. vault' \in Vault
    BY <2>1, <2>3 DEF Vault
  <2> QED BY <1>2, <2>2, <2>4 DEF WriteNote
<1>3. ASSUME NEW n \in Notes, DeleteNote(n)
      PROVE  TypeOK'
  BY <1>3 DEF DeleteNote, Vault
<1>4. ASSUME NEW r \in Requests, List(r)
      PROVE  TypeOK'
  <2>1. [index |-> Listing, want |-> {}, bodies |-> Unread] \in Request
    BY DEF Request, Unread, Listing, Index, Bodies, Vault, Note, Listed
  <2> QED BY <1>4, <2>1, NoneIsNothing DEF List
<1>5. ASSUME NEW r \in Requests, Pending(r)
      PROVE  TypeOK'
  <2>1. PICK failed \in BOOLEAN, w \in {watch, disk, Empty} :
          /\ Load(w, failed)
          /\ watch' = w
          /\ unsaved' = (IF loaded THEN unsaved ELSE failed)
          /\ LET want == Changed(w, req[r].index) IN
             IF want = {}
             THEN pc' = [pc EXCEPT ![r] = "idle"] /\ req' = [req EXCEPT ![r] = None]
             ELSE pc' = [pc EXCEPT ![r] = "read"] /\ req' = [req EXCEPT ![r].want = want]
    BY <1>5 DEF Pending
  <2>2. watch' \in Watcher /\ Len(watch'.events) <= MaxWriteEvents
    BY <2>1, LoadType
  <2>3. req[r] \in Request
    BY <1>5, RequestType DEF Pending
  <2>4. [req[r] EXCEPT !.want = Changed(w, req[r].index)] \in Request
    BY <2>3 DEF Request, Changed
  <2>5. /\ req' \in [Requests -> Request \cup {None}]
        /\ \A q \in Requests : pc'[q] = "idle" <=> req'[q] = None
    BY <2>1, <2>4, NoneIsNothing
  <2>6. pc' \in [Requests -> {"idle", "pending", "read", "observe"}] /\ unsaved' \in BOOLEAN
    BY <2>1
  <2> QED BY <1>5, <2>2, <2>5, <2>6 DEF Pending
<1>6. ASSUME NEW r \in Requests, Read(r)
      PROVE  TypeOK'
  <2>1. PICK got \in SUBSET {n \in req[r].want : vault[n] # None} :
          req' = [req EXCEPT ![r].want = {}, ![r].bodies = BodiesOf(got)]
    BY <1>6 DEF Read
  <2>2. req[r] \in Request
    BY <1>6, RequestType DEF Read
  <2>3. BodiesOf(got) \in Bodies
    <3>1. \A n \in got : vault[n] \in Note
      BY <2>2 DEF Vault, Request
    <3>2. \A n \in got : Contents(vault[n]) \in Body
      BY <3>1 DEF Contents, Note, Body
    <3> QED BY <3>2 DEF BodiesOf, Bodies
  <2>4. [req[r] EXCEPT !.want = {}, !.bodies = BodiesOf(got)] \in Request
    BY <2>2, <2>3 DEF Request
  <2>5. /\ req' \in [Requests -> Request \cup {None}]
        /\ \A q \in Requests : pc'[q] = "idle" <=> req'[q] = None
    BY <1>6, <2>1, <2>4, NoneIsNothing DEF Read
  <2> QED BY <1>6, <2>5 DEF Read
<1>7. ASSUME NEW r \in Requests, Observe(r)
      PROVE  TypeOK'
  <2> DEFINE index == req[r].index
             bodies == req[r].bodies
  <2>1. index \in Index /\ bodies \in Bodies
    BY <1>7, RequestType DEF Observe, Request
  <2>8. PICK notes \in Trimmed(Record(index, bodies)),
             shown \in Shown(index, bodies) :
          \E fresh \in SetToSeqs(Reported(index, bodies, shown)) :
            watch' = AfterObserve(index, notes, fresh) /\ SaveIfNews(watch', fresh)
    BY <1>7 DEF Observe
  <2>2. PICK fresh \in SetToSeqs(Reported(index, bodies, shown)) :
          /\ notes \in Trimmed(Record(index, bodies)) /\ shown \in Shown(index, bodies)
          /\ watch' = AfterObserve(index, notes, fresh) /\ SaveIfNews(watch', fresh)
    BY <2>8
  <2>3. notes \in [Notes -> Seen \cup {None}]
    BY <2>1, <2>2, RecordType, TrimKeepsIdentity
  <2>4. fresh \in Seq(Event)
    <3> DEFINE R == Reported(index, bodies, shown)
    <3>1. R \subseteq Event /\ IsFiniteSet(R)
      BY <2>1, ReportedType
    <3>2. fresh \in [1..Cardinality(R) -> Event]
      BY <2>2, <3>1 DEF SetToSeqs
    <3>3. Cardinality(R) \in Nat
      BY <3>1, FS_CardinalityType
    <3> QED BY <3>2, <3>3
  <2>5. watch' \in Watcher /\ Len(watch'.events) <= MaxWriteEvents
    BY <2>1, <2>2, <2>3, <2>4, AfterObserveType
  <2>6. (disk' = watch' \/ disk' = disk) /\ unsaved' \in BOOLEAN
    BY <2>2 DEF SaveIfNews, Save
  <2> QED BY <1>7, <2>5, <2>6 DEF Observe
<1>8. CASE Restart
  BY <1>8, EmptyType DEF Restart
<1>9. CASE Recent
  <2>1. PICK failed \in BOOLEAN, w \in {watch, disk, Empty} :
          /\ Load(w, failed)
          /\ watch' = w
          /\ unsaved' = (IF loaded THEN unsaved ELSE failed)
    BY <1>9 DEF Recent
  <2>2. watch' \in Watcher /\ Len(watch'.events) <= MaxWriteEvents
    BY <2>1, LoadType
  <2> QED BY <1>9, <2>1, <2>2 DEF Recent
<1> QED BY <1>1, <1>2, <1>3, <1>4, <1>5, <1>6, <1>7, <1>8, <1>9 DEF Next

(* In every reachable state the variables have their types, and no more    *)
(* than maxWriteEvents events are kept, in memory or in the state file.    *)
THEOREM TypeCorrect == Spec => []TypeOK
<1>1. TypeOK /\ [Next]_vars => TypeOK'
  BY StepTypes
<1> QED BY InitTypes, <1>1, PTL DEF Spec

(***************************************************************************)
(* What is recorded under a note's size and time                           *)
(***************************************************************************)
\* `ver` is a version the note has had: not newer than what is there now.
Past(n, ver) == ver <= writes /\ (vault[n] # None => ver <= vault[n].ver)

\* `lines` are those a read of that version brings.
Authentic(n, ver, lines) ==
  Past(n, ver) /\ (vault[n] # None /\ ver = vault[n].ver => lines = vault[n].head)

\* A snapshot is filed under a version no newer than the one it was read from.
AuthenticNotes(notes) ==
  \A n \in Notes : notes[n] # None =>
    LET s == notes[n] IN
    s.ver <= s.read /\ Past(n, s.read) /\ (s.kept => Authentic(n, s.read, s.lines))

VaultInv == \A n \in Notes : vault[n] # None => vault[n].ver <= writes

\* The same of what a request holds.
AuthenticRequest(held) ==
  \A n \in Notes :
    /\ held.index[n] # None => Past(n, held.index[n].ver)
    /\ held.bodies[n] # None =>
         /\ Authentic(n, held.bodies[n].ver, held.bodies[n].lines)
         /\ held.index[n] # None => held.index[n].ver <= held.bodies[n].ver

RequestInv == \A r \in Requests : req[r] # None => AuthenticRequest(req[r])

ContentInv ==
  /\ TypeOK /\ VaultInv /\ RequestInv
  /\ AuthenticNotes(watch.notes) /\ (disk # None => AuthenticNotes(disk.notes))

LEMMA ContentImpliesCurrent == ContentInv => RecordedCurrent
<1>1. ASSUME ContentInv, NEW w \in Watcher, AuthenticNotes(w.notes)
      PROVE  Faithful(w)
  <2> SUFFICES ASSUME NEW n \in Notes, vault[n] # None, w.notes[n] # None,
                      w.notes[n].ver = vault[n].ver, w.notes[n].kept
               PROVE  w.notes[n].lines = vault[n].head
    BY DEF Faithful
  <2>1. w.notes[n].ver \in Nat /\ w.notes[n].read \in Nat /\ vault[n].ver \in Nat
    BY <1>1 DEF Watcher, Seen, ContentInv, TypeOK, Vault, Note, Versions
  <2> QED BY <1>1, <2>1 DEF AuthenticNotes, Authentic, Past
<1> QED BY <1>1 DEF ContentInv, RecordedCurrent, TypeOK

\* The agents only add versions, so what was past stays past and what was authentic
\* stays authentic.
LEMMA VaultMovesOn ==
  ASSUME TypeOK, VaultInv, NEW m \in Notes, WriteNote(m) \/ DeleteNote(m),
         NEW n \in Notes, NEW ver \in Nat
  PROVE  /\ Past(n, ver) => Past(n, ver)'
         /\ \A L : Authentic(n, ver, L) => Authentic(n, ver, L)'
<1>1. writes \in Nat /\ vault \in [Notes -> Note \cup {None}]
  BY WatchAssumption DEF TypeOK, Versions, Vault
<1>2. CASE WriteNote(m)
  <2>1. PICK L \in SUBSET Lines, H \in SUBSET Lines :
          vault' = [vault EXCEPT ![m] = [ver |-> writes + 1, lines |-> L, head |-> H]]
    BY <1>2 DEF WriteNote, First
  <2>2. writes' = writes + 1
    BY <1>2 DEF WriteNote
  <2>3. CASE n = m
    <3>1. vault'[n].ver = writes + 1
      BY <1>1, <2>1, <2>3
    <3> QED BY <1>1, <2>2, <3>1 DEF Past, Authentic
  <2>4. CASE n # m
    <3>1. vault'[n] = vault[n]
      BY <1>1, <2>1, <2>4
    <3> QED BY <1>1, <2>2, <3>1 DEF Past, Authentic
  <2> QED BY <2>3, <2>4
<1>3. CASE DeleteNote(m)
  <2>1. vault'[n] = vault[n] \/ vault'[n] = None
    BY <1>1, <1>3 DEF DeleteNote
  <2>2. writes' = writes
    BY <1>3 DEF DeleteNote
  <2> QED BY <2>1, <2>2 DEF Past, Authentic
<1> QED BY <1>2, <1>3

LEMMA VaultStep ==
  ASSUME ContentInv, NEW m \in Notes, WriteNote(m) \/ DeleteNote(m), TypeOK'
  PROVE  ContentInv'
<1>1. TypeOK /\ VaultInv
  BY DEF ContentInv
<1>2. UNCHANGED <<watch, disk, pc, req>>
  BY DEF WriteNote, DeleteNote
<1>3. VaultInv'
  <2>1. writes \in Nat /\ vault \in [Notes -> Note \cup {None}]
    BY <1>1, WatchAssumption DEF TypeOK, Versions, Vault
  <2>2. \A n \in Notes : vault[n] # None => vault[n].ver \in Nat
    BY <2>1 DEF Note, Versions
  <2> QED BY <1>1, <2>1, <2>2 DEF VaultInv, WriteNote, DeleteNote
<1>4. ASSUME NEW notes \in [Notes -> Seen \cup {None}], AuthenticNotes(notes)
      PROVE  AuthenticNotes(notes)'
  <2> SUFFICES ASSUME NEW n \in Notes, notes[n] # None
               PROVE  /\ notes[n].ver <= notes[n].read
                      /\ Past(n, notes[n].read)'
                      /\ notes[n].kept => Authentic(n, notes[n].read, notes[n].lines)'
    BY DEF AuthenticNotes
  <2>1. notes[n].read \in Nat
    BY DEF Seen, Versions
  <2> QED BY <1>1, <1>4, <2>1, VaultMovesOn DEF AuthenticNotes
<1>5. ASSUME NEW held \in Request, AuthenticRequest(held)
      PROVE  AuthenticRequest(held)'
  <2> SUFFICES ASSUME NEW n \in Notes
               PROVE  /\ held.index[n] # None => Past(n, held.index[n].ver)'
                      /\ held.bodies[n] # None =>
                           /\ Authentic(n, held.bodies[n].ver, held.bodies[n].lines)'
                           /\ held.index[n] # None => held.index[n].ver <= held.bodies[n].ver
    BY DEF AuthenticRequest
  <2>1. /\ held.index[n] # None => held.index[n].ver \in Nat
        /\ held.bodies[n] # None => held.bodies[n].ver \in Nat
    BY DEF Request, Index, Bodies, Listed, Body, Versions
  <2> QED BY <1>1, <1>5, <2>1, VaultMovesOn DEF AuthenticRequest
<1>6. AuthenticNotes(watch.notes)'
  BY <1>1, <1>2, <1>4 DEF ContentInv, TypeOK, Watcher
<1>7. disk' # None => AuthenticNotes(disk.notes)'
  BY <1>1, <1>2, <1>4 DEF ContentInv, TypeOK, Watcher
<1>8. RequestInv'
  BY <1>1, <1>2, <1>5 DEF ContentInv, TypeOK, RequestInv
<1> QED BY <1>3, <1>6, <1>7, <1>8 DEF ContentInv

\* Record() files each body under the version listed before it was read, trim() only
\* takes lines away.
LEMMA ObservedIsAuthentic ==
  ASSUME ContentInv, NEW r \in Requests, pc[r] = "observe",
         NEW notes \in Trimmed(Record(req[r].index, req[r].bodies))
  PROVE  AuthenticNotes(notes)
<1> DEFINE index == req[r].index
           bodies == req[r].bodies
           recorded == Record(index, bodies)
<1>1. TypeOK /\ index \in Index /\ bodies \in Bodies
  BY RequestType DEF ContentInv, Request
<1>2. recorded \in [Notes -> Seen \cup {None}]
  BY <1>1, RecordType
<1>3. AuthenticNotes(recorded)
  <2> SUFFICES ASSUME NEW n \in Notes, recorded[n] # None
               PROVE  /\ recorded[n].ver <= recorded[n].read
                      /\ Past(n, recorded[n].read)
                      /\ recorded[n].kept
                           => Authentic(n, recorded[n].read, recorded[n].lines)
    BY DEF AuthenticNotes
  <2>1. CASE n \in Taken(index, bodies)
    <3>1. recorded[n] = Snap(index[n], bodies[n])
      BY <2>1 DEF Record
    <3>2. index[n] # None /\ bodies[n] # None
      BY <2>1, TakenListed
    <3>3. /\ Authentic(n, bodies[n].ver, bodies[n].lines)
          /\ index[n].ver <= bodies[n].ver
      <4>1. req[r] # None
        BY <1>1 DEF TypeOK
      <4> QED BY <3>2, <4>1, TakenListed DEF ContentInv, RequestInv, AuthenticRequest
    <3> QED BY <3>1, <3>3 DEF Snap, Authentic
  <2>2. CASE n \notin Taken(index, bodies)
    BY <2>2 DEF Record, ContentInv, AuthenticNotes
  <2> QED BY <2>1, <2>2
<1>4. \A n \in Notes :
        \/ notes[n] = recorded[n]
        \/ /\ recorded[n] # None /\ notes[n] # None
           /\ notes[n].ver = recorded[n].ver /\ notes[n].read = recorded[n].read
           /\ ~notes[n].kept
  BY <1>2, TrimKeepsIdentity
<1> HIDE DEF recorded
<1> QED BY <1>3, <1>4 DEF AuthenticNotes

LEMMA StepContent ==
  ASSUME ContentInv, [Next]_vars
  PROVE  ContentInv'
<1>1. TypeOK /\ TypeOK'
  BY StepTypes DEF ContentInv
<1>2. AuthenticNotes(Empty.notes)
  BY DEF AuthenticNotes, Empty
<1>3. ASSUME UNCHANGED <<vault, writes>>,
             \A r \in Requests : req'[r] # None => req'[r] = req[r] \/ AuthenticRequest(req'[r]),
             AuthenticNotes(watch'.notes),
             disk' = disk \/ AuthenticNotes(disk'.notes)
      PROVE  ContentInv'
  <2>1. VaultInv'
    BY <1>3 DEF ContentInv, VaultInv
  <2>2. \A notes : AuthenticNotes(notes) => AuthenticNotes(notes)'
    BY <1>3 DEF AuthenticNotes, Past, Authentic
  <2>3. \A held : AuthenticRequest(held) => AuthenticRequest(held)'
    BY <1>3 DEF AuthenticRequest, Past, Authentic
  <2>4. RequestInv'
    BY <1>3, <2>3 DEF ContentInv, RequestInv
  <2>5. AuthenticNotes(watch.notes)' /\ (disk' # None => AuthenticNotes(disk.notes)')
    BY <1>3, <2>2 DEF ContentInv
  <2> QED BY <1>1, <2>1, <2>4, <2>5 DEF ContentInv
<1>4. CASE UNCHANGED vars
  BY <1>3, <1>4 DEF vars, ContentInv
<1>5. ASSUME NEW n \in Notes, WriteNote(n) \/ DeleteNote(n)
      PROVE  ContentInv'
  BY <1>1, <1>5, VaultStep
<1>6. ASSUME NEW r \in Requests, List(r)
      PROVE  ContentInv'
  <2> DEFINE held == [index |-> Listing, want |-> {}, bodies |-> Unread]
  <2>1. \A n \in Notes : vault[n] # None => Past(n, vault[n].ver)
    <3>1. \A n \in Notes : vault[n] # None => vault[n].ver \in Nat
      BY <1>1 DEF TypeOK, Vault, Note, Versions
    <3> QED BY <3>1 DEF ContentInv, VaultInv, Past
  <2>2. AuthenticRequest(held)
    BY <2>1 DEF AuthenticRequest, Unread, Listing
  <2>3. req' = [req EXCEPT ![r] = held] /\ UNCHANGED <<vault, writes, watch, disk>>
    BY <1>6 DEF List
  <2> QED BY <1>1, <1>3, <2>2, <2>3 DEF ContentInv, TypeOK
<1>7. ASSUME NEW r \in Requests, Pending(r)
      PROVE  ContentInv'
  <2>1. PICK failed \in BOOLEAN, w \in {watch, disk, Empty} :
          /\ Load(w, failed)
          /\ watch' = w
          /\ LET want == Changed(w, req[r].index) IN
             IF want = {} THEN req' = [req EXCEPT ![r] = None]
             ELSE req' = [req EXCEPT ![r].want = want]
    BY <1>7 DEF Pending
  <2>2. AuthenticNotes(watch'.notes)
    BY <1>2, <2>1 DEF Load, ContentInv
  <2>3. req[r] \in Request /\ req[r] # None
    BY <1>1, <1>7, RequestType DEF Pending, TypeOK
  <2>4. AuthenticRequest([req[r] EXCEPT !.want = Changed(w, req[r].index)])
    BY <2>3 DEF ContentInv, RequestInv, AuthenticRequest, Request
  <2>5. \A q \in Requests : req'[q] # None => req'[q] = req[q] \/ AuthenticRequest(req'[q])
    BY <1>1, <2>1, <2>4 DEF TypeOK
  <2> QED BY <1>3, <1>7, <2>2, <2>5 DEF Pending
<1>8. ASSUME NEW r \in Requests, Read(r)
      PROVE  ContentInv'
  <2>1. PICK got \in SUBSET {n \in req[r].want : vault[n] # None} :
          req' = [req EXCEPT ![r].want = {}, ![r].bodies = BodiesOf(got)]
    BY <1>8 DEF Read
  <2> DEFINE bodies == BodiesOf(got)
             held   == [req[r] EXCEPT !.want = {}, !.bodies = bodies]
  <2>2. req[r] \in Request /\ req[r] # None
    BY <1>1, <1>8, RequestType DEF Read, TypeOK
  <2>3. held.index = req[r].index /\ held.bodies = bodies
    BY <2>2 DEF Request
  <2>4. ASSUME NEW n \in Notes
        PROVE  /\ held.index[n] # None => Past(n, held.index[n].ver)
               /\ bodies[n] # None =>
                    /\ Authentic(n, bodies[n].ver, bodies[n].lines)
                    /\ held.index[n] # None => held.index[n].ver <= bodies[n].ver
    <3>1. held.index[n] # None => Past(n, held.index[n].ver)
      BY <2>2, <2>3 DEF ContentInv, RequestInv, AuthenticRequest
    <3>2. vault[n] # None => vault[n].ver \in Nat /\ vault[n].ver <= writes
      BY <1>1 DEF ContentInv, VaultInv, TypeOK, Vault, Note, Versions
    <3>3. bodies[n] # None => vault[n] # None /\ bodies[n] = Contents(vault[n])
      BY DEF BodiesOf
    <3> QED BY <3>1, <3>2, <3>3 DEF Past, Authentic, Contents
  <2> HIDE DEF bodies
  <2>5. AuthenticRequest(held)
    BY <2>3, <2>4 DEF AuthenticRequest
  <2>6. req' = [req EXCEPT ![r] = held]
    BY <1>1, <2>1 DEF TypeOK, bodies
  <2> HIDE DEF held
  <2>7. \A q \in Requests : req'[q] # None => req'[q] = req[q] \/ AuthenticRequest(req'[q])
    BY <1>1, <2>5, <2>6 DEF TypeOK
  <2>8. UNCHANGED <<vault, writes, watch, disk>>
    BY <1>8 DEF Read
  <2> QED BY <1>3, <2>7, <2>8 DEF ContentInv
<1>9. ASSUME NEW r \in Requests, Observe(r)
      PROVE  ContentInv'
  <2>0. PICK notes \in Trimmed(Record(req[r].index, req[r].bodies)),
             shown \in Shown(req[r].index, req[r].bodies) :
          \E fresh \in SetToSeqs(Reported(req[r].index, req[r].bodies, shown)) :
            watch' = AfterObserve(req[r].index, notes, fresh) /\ SaveIfNews(watch', fresh)
    BY <1>9 DEF Observe
  <2>1. PICK fresh \in SetToSeqs(Reported(req[r].index, req[r].bodies, shown)) :
          /\ notes \in Trimmed(Record(req[r].index, req[r].bodies)) /\ shown \in Shown(req[r].index, req[r].bodies)
          /\ watch' = AfterObserve(req[r].index, notes, fresh) /\ SaveIfNews(watch', fresh)
    BY <2>0
  <2>2. AuthenticNotes(notes)
    BY <1>9, ObservedIsAuthentic DEF Observe
  <2>3. watch'.notes = notes
    BY <2>1 DEF AfterObserve
  <2>4. disk' = disk \/ disk' = watch'
    BY <2>1 DEF SaveIfNews, Save
  <2>5. req' = [req EXCEPT ![r] = None] /\ UNCHANGED <<vault, writes>>
    BY <1>9 DEF Observe
  <2>6. \A q \in Requests : req'[q] # None => req'[q] = req[q]
    BY <1>1, <2>5 DEF TypeOK
  <2> QED BY <1>3, <2>2, <2>3, <2>4, <2>5, <2>6
<1>10. CASE Restart
  <2>1. UNCHANGED <<vault, writes, disk>> /\ watch' = Empty
    BY <1>10 DEF Restart
  <2>2. \A r \in Requests : req'[r] = None
    BY <1>10 DEF Restart
  <2> QED BY <1>2, <1>3, <2>1, <2>2
<1>11. CASE Recent
  <2>1. PICK failed \in BOOLEAN, w \in {watch, disk, Empty} : Load(w, failed) /\ watch' = w
    BY <1>11 DEF Recent
  <2>2. AuthenticNotes(watch'.notes)
    BY <1>2, <2>1 DEF Load, ContentInv
  <2>3. UNCHANGED <<vault, writes, disk, req>>
    BY <1>11 DEF Recent
  <2> QED BY <1>3, <2>2, <2>3
<1> QED BY <1>4, <1>5, <1>6, <1>7, <1>8, <1>9, <1>10, <1>11 DEF Next

LEMMA InitContent == Init => ContentInv
<1> SUFFICES ASSUME Init PROVE ContentInv
  OBVIOUS
<1>1. VaultInv
  BY DEF Init, VaultInv
<1>2. AuthenticNotes(watch.notes)
  BY DEF Init, Empty, AuthenticNotes
<1>3. RequestInv
  BY DEF Init, RequestInv
<1> QED BY <1>1, <1>2, <1>3, InitTypes DEF Init, ContentInv

(* A note whose size and time are those recorded has the lines recorded,   *)
(* unless trim() has dropped them, in memory and in the state file: what   *)
(* pending() skips really is unchanged.                                    *)
THEOREM SkippedIsUnchanged == Spec => []RecordedCurrent
<1>1. ContentInv /\ [Next]_vars => ContentInv'
  BY StepContent
<1> QED BY InitContent, <1>1, ContentImpliesCurrent, PTL DEF Spec

(***************************************************************************)
(* What is announced.  The record is followed through memory, the state    *)
(* file and back: whatever a load brings is one of the three records       *)
(* below, so each of them must be consistent by itself.                    *)
(***************************************************************************)
AllTold(w) ==
  ~w.forgot => \A n \in Notes : w.notes[n] # None =>
                 w.notes[n].lines \subseteq w.base[n] \cup Announced(w.events, n)

\* An event that withholds lines shows as many as it may.
Full(e) == e.withheld # {} => Cardinality(e.added) = MaxAdded

AllFull(events) == \A j \in 1..Len(events) : Full(events[j])

CreatedFirst(base, events) ==
  \A j \in 1..Len(events) : events[j].created =>
    /\ base[events[j].note] = {}
    /\ \A i \in 1..(j - 1) : events[i].note # events[j].note

\* A note of the baseline, or with an event, has an entry, which trim() never removes.
Known(w) ==
  /\ \A j \in 1..Len(w.events) : w.notes[w.events[j].note] # None
  /\ \A n \in Notes : w.base[n] # {} => w.notes[n] # None

Told(w) ==
  /\ ~w.since => w.events = <<>>
  /\ AllTold(w) /\ CreatedFirst(w.base, w.events) /\ Known(w) /\ AllFull(w.events)

HistoryInv == Told(watch) /\ (disk # None => Told(disk))

LEMMA EmptyTold == Told(Empty)
<1>1. \A n \in Notes : Empty.base[n] = {} /\ Empty.notes[n] = None
  BY DEF Empty
<1>2. Empty.events = <<>> /\ Len(Empty.events) = 0
  BY DEF Empty
<1> QED BY <1>1, <1>2 DEF Told, AllTold, CreatedFirst, Known, AllFull

\* trim() takes lines away, and adds none.
LEMMA TrimAddsNothing ==
  ASSUME NEW notes \in [Notes -> Seen \cup {None}], NEW trimmed \in Trimmed(notes),
         NEW n \in Notes, trimmed[n] # None
  PROVE  notes[n] # None /\ trimmed[n].lines \subseteq notes[n].lines
<1>1. PICK S \in SUBSET Notes : Oldest(notes, S) /\ trimmed = Dropped(notes, S)
  BY DEF Trimmed
<1>2. CASE n \in S
  <2>1. notes[n] # None /\ notes[n] \in Seen
    BY <1>1, <1>2 DEF Oldest
  <2>2. trimmed[n] = [notes[n] EXCEPT !.lines = {}, !.kept = FALSE]
    BY <1>1, <1>2 DEF Dropped
  <2>3. trimmed[n].lines = {}
    BY <2>1, <2>2 DEF Seen
  <2> QED BY <2>1, <2>3
<1>3. CASE n \notin S
  <2>1. trimmed[n] = notes[n]
    BY <1>1, <1>3 DEF Dropped
  <2> QED BY <2>1
<1> QED BY <1>2, <1>3

\* The events of one observation: one for each note that has any, in some order.
LEMMA FreshEvents ==
  ASSUME TypeOK, NEW index \in Index, NEW bodies \in Bodies,
         NEW shown \in Shown(index, bodies),
         NEW fresh \in SetToSeqs(Reported(index, bodies, shown))
  PROVE  /\ fresh \in Seq(Event) /\ Elements(fresh) = Reported(index, bodies, shown)
         /\ \A j \in 1..Len(fresh) :
              /\ Full(fresh[j])
              /\ fresh[j].note \in Taken(index, bodies)
              /\ fresh[j].created <=> watch.notes[fresh[j].note] = None
              /\ \A i \in 1..(j - 1) : fresh[i].note # fresh[j].note
<1> DEFINE R == Reported(index, bodies, shown)
           k == Cardinality(R)
<1>1. R \subseteq Event /\ IsFiniteSet(R)
  BY ReportedType
<1>2. k \in Nat
  BY <1>1, FS_CardinalityType
<1>3. fresh \in [1..k -> R] /\ \A i, j \in 1..k : i # j => fresh[i] # fresh[j]
  BY DEF SetToSeqs
<1> HIDE DEF k
<1>4. fresh \in Seq(Event) /\ Len(fresh) = k
  BY <1>1, <1>2, <1>3
<1>5. Elements(fresh) = R
  <2>1. fresh \in Injection(1..k, R)
    BY <1>3 DEF Injection, IsInjective
  <2>2. IsFiniteSet(1..k) /\ Cardinality(1..k) = k
    BY <1>2, FS_Interval
  <2>3. fresh \in Surjection(1..k, R)
    BY <1>1, <2>1, <2>2, FS_Injection DEF k
  <2> QED BY <1>3, <2>3 DEF Surjection, Elements
<1>6. ASSUME NEW e \in R
      PROVE  /\ e.note \in Taken(index, bodies)
             /\ e = Diff(e.note, index[e.note], bodies[e.note], shown[e.note])
             /\ e.created <=> watch.notes[e.note] = None
             /\ Full(e)
  <2>1. PICK n \in Taken(index, bodies) : e = Diff(n, index[n], bodies[n], shown[n])
    BY DEF Reported, Diffs
  <2>2. /\ e.note = n /\ e.created = (watch.notes[n] = None) /\ e.added = shown[n]
        /\ e.withheld = (bodies[n].lines \ Prior(n)) \ shown[n]
    BY <2>1 DEF Diff
  <2>3. Full(e)
    BY <2>2, ShownType DEF Full
  <2> QED BY <2>1, <2>2, <2>3
<1> HIDE DEF R
<1>7. ASSUME NEW j \in 1..k
      PROVE  /\ fresh[j].note \in Taken(index, bodies) /\ Full(fresh[j])
             /\ fresh[j].created <=> watch.notes[fresh[j].note] = None
             /\ \A i \in 1..(j - 1) : fresh[i].note # fresh[j].note
  <2>1. fresh[j] \in R
    BY <1>3
  <2>2. ASSUME NEW i \in 1..(j - 1) PROVE fresh[i].note # fresh[j].note
    <3>1. i \in 1..k /\ i # j
      BY <1>2
    <3>2. fresh[i] # fresh[j] /\ fresh[i] \in R
      BY <1>3, <3>1
    <3> QED BY <1>6, <2>1, <3>2
  <2> QED BY <1>6, <2>1, <2>2
<1> QED BY <1>4, <1>5, <1>7 DEF R

\* Dropping the oldest events leaves the others in their order.
LEMMA CappedIsTail ==
  ASSUME NEW all \in Seq(Event)
  PROVE  \E k \in Nat : /\ k + Len(Capped(all)) = Len(all)
                       /\ \A i \in 1..Len(Capped(all)) : Capped(all)[i] = all[k + i]
<1>0. Len(all) \in Nat /\ MaxWriteEvents \in Nat
  BY LenProperties, WatchAssumption
<1>1. CASE Len(all) <= MaxWriteEvents
  <2>1. Capped(all) = all
    BY <1>1 DEF Capped
  <2>2. 0 + Len(all) = Len(all) /\ \A i \in 1..Len(all) : all[i] = all[0 + i]
    BY <1>0
  <2> QED BY <2>1, <2>2
<1>2. CASE ~(Len(all) <= MaxWriteEvents)
  <2> DEFINE k == Len(all) - MaxWriteEvents
  <2>1. k \in Nat /\ k + 1 \in Int /\ Len(all) \in Int
    BY <1>0, <1>2
  <2>2. Capped(all) = SubSeq(all, k + 1, Len(all))
    BY <1>2 DEF Capped
  <2>3. \A i \in (k + 1)..Len(all) : all[i] \in Event
    BY <1>0, <2>1, ElementOfSeq
  <2> HIDE DEF k
  <2>4. /\ Len(SubSeq(all, k + 1, Len(all))) =
             IF k + 1 <= Len(all) THEN Len(all) - (k + 1) + 1 ELSE 0
        /\ \A i \in 1..(Len(all) - (k + 1) + 1) :
             SubSeq(all, k + 1, Len(all))[i] = all[(k + 1) + i - 1]
    BY <2>1, <2>3, SubSeqProperties
  <2>5. k <= Len(all)
    BY <1>0, <1>2 DEF k
  <2>6. Len(Capped(all)) = Len(all) - k
    BY <1>0, <2>1, <2>2, <2>4, <2>5
  <2>7. \A i \in 1..(Len(all) - k) : (k + 1) + i - 1 = k + i /\ i \in 1..(Len(all) - (k + 1) + 1)
    BY <1>0, <2>1
  <2>8. \A i \in 1..Len(Capped(all)) : Capped(all)[i] = all[k + i]
    BY <2>2, <2>4, <2>6, <2>7
  <2>9. k + Len(Capped(all)) = Len(all)
    BY <1>0, <2>1, <2>6
  <2> QED BY <2>1, <2>8, <2>9
<1> QED BY <1>1, <1>2

LEMMA ObserveTold ==
  ASSUME TypeOK, Told(watch), NEW index \in Index, NEW bodies \in Bodies,
         NEW notes \in Trimmed(Record(index, bodies)), NEW shown \in Shown(index, bodies),
         NEW fresh \in SetToSeqs(Reported(index, bodies, shown))
  PROVE  Told(AfterObserve(index, notes, fresh))
<1> DEFINE w   == AfterObserve(index, notes, fresh)
           old == watch.events
           all == old \o fresh
<1>1. /\ watch \in Watcher /\ old \in Seq(Event)
      /\ watch.notes \in [Notes -> Seen \cup {None}] /\ watch.base \in [Notes -> SUBSET Lines]
  BY DEF TypeOK, Watcher
<1>2. /\ fresh \in Seq(Event) /\ Elements(fresh) = Reported(index, bodies, shown)
      /\ \A j \in 1..Len(fresh) :
           /\ Full(fresh[j])
           /\ fresh[j].note \in Taken(index, bodies)
           /\ fresh[j].created <=> watch.notes[fresh[j].note] = None
           /\ \A i \in 1..(j - 1) : fresh[i].note # fresh[j].note
  BY FreshEvents
<1>3. /\ all \in Seq(Event) /\ Len(all) = Len(old) + Len(fresh)
      /\ Len(old) \in Nat /\ Len(fresh) \in Nat
      /\ \A i \in 1..Len(old) + Len(fresh) :
           all[i] = IF i <= Len(old) THEN old[i] ELSE fresh[i - Len(old)]
  BY <1>1, <1>2, ConcatProperties, LenProperties
<1>4. /\ w.since = TRUE /\ w.notes = notes /\ w.events = Capped(all)
      /\ w.forgot = (watch.forgot \/ Len(all) > MaxWriteEvents)
      /\ w.base = IF watch.since THEN watch.base
                  ELSE [n \in Notes |-> IF notes[n] = None THEN {} ELSE notes[n].lines]
  BY DEF AfterObserve
<1>5. Record(index, bodies) \in [Notes -> Seen \cup {None}]
  BY RecordType
<1>6. ASSUME NEW n \in Notes, watch.notes[n] # None \/ n \in Taken(index, bodies)
      PROVE  notes[n] # None
  <2>1. n \in Taken(index, bodies) => Snap(index[n], bodies[n]) \in Seen
    BY TakenListed DEF Snap, Seen, Index, Bodies, Listed, Body
  <2>2. Record(index, bodies)[n] # None
    BY <1>6, <2>1, NoneIsNothing DEF Record
  <2> QED BY <1>5, <2>2, TrimKeepsIdentity
<1>7. ~watch.since => old = <<>> /\ fresh = <<>>
  <2>1. ~watch.since => Reported(index, bodies, shown) = {}
    BY DEF Reported
  <2>2. \A j \in 1..Len(fresh) : fresh[j] \in Elements(fresh)
    BY <1>2, LenProperties DEF Elements
  <2>3. ~watch.since => Len(fresh) = 0
    BY <1>2, <1>3, <2>1, <2>2
  <2> QED BY <1>2, <2>3, EmptySeq DEF Told
<1> HIDE DEF w, all, old
<1>8. AllTold(w)
  <2> SUFFICES ASSUME ~w.forgot, NEW n \in Notes, notes[n] # None
               PROVE  notes[n].lines \subseteq w.base[n] \cup Announced(w.events, n)
    BY <1>4 DEF AllTold
  <2>1. ~watch.forgot /\ w.events = all
    <3>1. ~watch.forgot /\ ~(Len(all) > MaxWriteEvents)
      BY <1>4
    <3>2. Len(all) <= MaxWriteEvents
      BY <1>3, <3>1, WatchAssumption
    <3> QED BY <1>4, <3>1, <3>2 DEF Capped
  <2>2. CASE ~watch.since
    BY <1>4, <2>2
  <2>3. CASE watch.since
    <3>1. Record(index, bodies)[n] # None /\ notes[n].lines \subseteq Record(index, bodies)[n].lines
      BY <1>5, TrimAddsNothing
    <3>2. DOMAIN all = 1..(Len(old) + Len(fresh))
      BY <1>3, LenProperties
    <3>3. Announced(old, n) \subseteq Announced(all, n)
      <4>1. Elements(old) \subseteq Elements(all)
        <5> SUFFICES ASSUME NEW i \in 1..Len(old) PROVE old[i] \in Elements(all)
          BY <1>1, LenProperties DEF Elements
        <5>1. i \in DOMAIN all /\ all[i] = old[i]
          BY <1>3, <3>2
        <5> QED BY <5>1 DEF Elements
      <4> QED BY <4>1 DEF Announced
    <3>4. ASSUME NEW e \in Reported(index, bodies, shown), e.note = n
          PROVE  e.added \cup e.withheld \subseteq Announced(all, n)
      <4>1. PICK i \in 1..Len(fresh) : fresh[i] = e
        BY <1>2, LenProperties DEF Elements
      <4>2. /\ Len(old) + i \in DOMAIN all
            /\ ~(Len(old) + i <= Len(old)) /\ Len(old) + i - Len(old) = i
        BY <1>3, <3>2
      <4>3. all[Len(old) + i] = e
        BY <1>3, <3>2, <4>1, <4>2
      <4>4. e \in Elements(all)
        BY <4>2, <4>3 DEF Elements
      <4> QED BY <3>4, <4>4 DEF Announced
    <3>5. watch.notes[n] # None => watch.notes[n].lines \subseteq watch.base[n] \cup Announced(all, n)
      BY <2>1, <3>3 DEF Told, AllTold, old
    <3>6. CASE n \notin Taken(index, bodies)
      <4>1. Record(index, bodies)[n] = watch.notes[n]
        BY <3>6 DEF Record
      <4> QED BY <1>4, <2>1, <2>3, <3>1, <3>5, <4>1
    <3>7. CASE n \in Taken(index, bodies)
      <4> DEFINE d    == Diff(n, index[n], bodies[n], shown[n])
                 were == Prior(n)
      <4>1. Record(index, bodies)[n].lines = bodies[n].lines
        BY <3>7 DEF Record, Snap
      <4>2. d.note = n /\ d.added \cup d.withheld = bodies[n].lines \ were
        <5>1. shown[n] \subseteq bodies[n].lines \ were
          BY <3>7, ShownType
        <5>2. d.note = n /\ d.added = shown[n] /\ d.withheld = (bodies[n].lines \ were) \ shown[n]
          BY DEF Diff
        <5> QED BY <5>1, <5>2
      <4>3. d.added \cup d.withheld \cup d.removed # {} => d \in Reported(index, bodies, shown)
        BY <2>3, <3>7 DEF Reported, Diffs
      <4> HIDE DEF d
      <4>4. d.added \cup d.withheld \subseteq Announced(all, n)
        BY <3>4, <4>2, <4>3
      <4>5. were \subseteq watch.base[n] \cup Announced(all, n)
        BY <3>5 DEF Prior
      <4> HIDE DEF were
      <4>6. bodies[n].lines \subseteq watch.base[n] \cup Announced(all, n)
        BY <4>2, <4>4, <4>5
      <4> QED BY <1>4, <2>1, <2>3, <3>1, <4>1, <4>6
    <3> QED BY <3>6, <3>7
  <2> QED BY <2>2, <2>3
<1>9. CreatedFirst(watch.base, all)
  <2> SUFFICES ASSUME NEW j \in 1..Len(all), all[j].created
               PROVE  /\ watch.base[all[j].note] = {}
                      /\ \A i \in 1..(j - 1) : all[i].note # all[j].note
    BY DEF CreatedFirst
  <2>1. CASE j <= Len(old)
    <3>1. j \in 1..Len(old) /\ all[j] = old[j] /\ \A i \in 1..(j - 1) : all[i] = old[i]
      BY <1>3, <2>1
    <3> QED BY <3>1 DEF Told, CreatedFirst, old
  <2>2. CASE j > Len(old)
    <3> DEFINE m == j - Len(old)
    <3>1. m \in 1..Len(fresh) /\ all[j] = fresh[m]
      BY <1>3, <2>2
    <3>2. fresh[m].note \in Notes /\ watch.notes[fresh[m].note] = None
      BY <1>2, <3>1, TakenListed
    <3>3. watch.base[fresh[m].note] = {}
      BY <3>2 DEF Told, Known
    <3>4. ASSUME NEW i \in 1..(j - 1) PROVE all[i].note # all[j].note
      <4>1. CASE i <= Len(old)
        <5>1. i \in 1..Len(old) /\ all[i] = old[i]
          BY <1>3, <4>1
        <5>2. watch.notes[old[i].note] # None
          BY <5>1 DEF Told, Known, old
        <5> QED BY <3>1, <3>2, <5>1, <5>2
      <4>2. CASE i > Len(old)
        <5>1. i - Len(old) \in 1..(m - 1) /\ all[i] = fresh[i - Len(old)]
          BY <1>3, <4>2
        <5> QED BY <1>2, <3>1, <5>1
      <4> QED BY <1>3, <4>1, <4>2
    <3> QED BY <3>1, <3>3, <3>4
  <2> QED BY <1>3, <2>1, <2>2
<1>10. PICK k \in Nat : /\ k + Len(w.events) = Len(all)
                        /\ \A i \in 1..Len(w.events) : w.events[i] = all[k + i]
  <2>1. PICK k \in Nat : /\ k + Len(Capped(all)) = Len(all)
                         /\ \A i \in 1..Len(Capped(all)) : Capped(all)[i] = all[k + i]
    BY <1>3, CappedIsTail
  <2> QED BY <1>4, <2>1
<1>11. Len(w.events) \in Nat /\ Len(all) \in Nat
  BY <1>3, <1>4, CappedType, LenProperties
<1>12. \A i \in 1..Len(w.events) : k + i \in 1..Len(all) /\ w.events[i] = all[k + i]
  BY <1>10, <1>11
<1>13. CreatedFirst(w.base, w.events)
  <2>1. CASE watch.since
    <3> SUFFICES ASSUME NEW j \in 1..Len(w.events), w.events[j].created
                 PROVE  /\ watch.base[w.events[j].note] = {}
                        /\ \A i \in 1..(j - 1) : w.events[i].note # w.events[j].note
      BY <1>4, <2>1 DEF CreatedFirst
    <3>1. /\ watch.base[all[k + j].note] = {}
          /\ \A i \in 1..((k + j) - 1) : all[i].note # all[k + j].note
      BY <1>9, <1>12 DEF CreatedFirst
    <3>2. ASSUME NEW i \in 1..(j - 1) PROVE w.events[i].note # w.events[j].note
      <4>1. i \in 1..Len(w.events) /\ k + i \in 1..((k + j) - 1)
        BY <1>11
      <4> QED BY <1>12, <3>1, <4>1
    <3> QED BY <1>12, <3>1, <3>2
  <2>2. CASE ~watch.since
    <3>1. Len(all) = 0
      BY <1>3, <1>7, <2>2, EmptySeq
    <3> QED BY <1>10, <1>11, <3>1 DEF CreatedFirst
  <2> QED BY <2>1, <2>2
<1>14. Known(w)
  <2>1. ASSUME NEW j \in 1..Len(all) PROVE notes[all[j].note] # None
    <3>1. CASE j <= Len(old)
      <4>1. j \in 1..Len(old) /\ all[j] = old[j]
        BY <1>3, <3>1
      <4>2. old[j].note \in Notes /\ watch.notes[old[j].note] # None
        <5>1. old[j] \in Event
          BY <1>1, <4>1, ElementOfSeq
        <5> QED BY <4>1, <5>1 DEF Told, Known, old, Event
      <4> QED BY <1>6, <4>1, <4>2
    <3>2. CASE j > Len(old)
      <4>1. j - Len(old) \in 1..Len(fresh) /\ all[j] = fresh[j - Len(old)]
        BY <1>3, <3>2
      <4>2. fresh[j - Len(old)].note \in Taken(index, bodies)
        BY <1>2, <4>1
      <4> QED BY <1>6, <4>1, <4>2, TakenListed
    <3> QED BY <1>3, <3>1, <3>2
  <2>2. \A j \in 1..Len(w.events) : w.notes[w.events[j].note] # None
    BY <1>4, <1>12, <2>1
  <2>3. ASSUME NEW n \in Notes, w.base[n] # {} PROVE w.notes[n] # None
    <3>1. CASE watch.since
      BY <1>4, <1>6, <2>3, <3>1 DEF Told, Known
    <3>2. CASE ~watch.since
      BY <1>4, <2>3, <3>2
    <3> QED BY <3>1, <3>2
  <2> QED BY <2>2, <2>3 DEF Known
<1>15. AllFull(w.events)
  <2> SUFFICES ASSUME NEW j \in 1..Len(all) PROVE Full(all[j])
    BY <1>12 DEF AllFull
  <2>1. CASE j <= Len(old)
    <3>1. j \in 1..Len(old) /\ all[j] = old[j]
      BY <1>3, <2>1
    <3> QED BY <3>1 DEF Told, AllFull, old
  <2>2. CASE j > Len(old)
    <3>1. j - Len(old) \in 1..Len(fresh) /\ all[j] = fresh[j - Len(old)]
      BY <1>3, <2>2
    <3> QED BY <1>2, <3>1
  <2> QED BY <1>3, <2>1, <2>2
<1> QED BY <1>4, <1>8, <1>13, <1>14, <1>15 DEF Told, w

LEMMA HistoryStep == TypeOK /\ HistoryInv /\ [Next]_vars => HistoryInv'
<1> SUFFICES ASSUME TypeOK, HistoryInv, [Next]_vars PROVE HistoryInv'
  OBVIOUS
<1>1. ASSUME watch' \in {watch, disk, Empty}, watch' = disk => disk # None, disk' = disk
      PROVE  HistoryInv'
  <2>1. Told(watch') /\ (disk' # None => Told(disk'))
    BY <1>1, EmptyTold DEF HistoryInv
  <2> QED BY <2>1 DEF HistoryInv
<1>2. CASE \/ UNCHANGED vars \/ Restart \/ Recent
           \/ \E n \in Notes : WriteNote(n) \/ DeleteNote(n)
           \/ \E r \in Requests : List(r) \/ Pending(r) \/ Read(r)
  <2>1. watch' \in {watch, disk, Empty} /\ disk' = disk
    BY <1>2 DEF vars, Restart, Recent, WriteNote, DeleteNote, List, Pending, Read
  <2>2. watch' = disk => disk # None
    <3>1. watch \in Watcher /\ Empty \in Watcher
      BY EmptyType DEF TypeOK
    <3>2. watch' \in Watcher
      BY <1>2, <3>1, LoadType DEF vars, Restart, Recent, WriteNote, DeleteNote, List, Pending, Read
    <3> QED BY <3>2, NoneIsNothing
  <2> QED BY <1>1, <2>1, <2>2
<1>3. ASSUME NEW r \in Requests, Observe(r) PROVE HistoryInv'
  <2>1. req[r] \in Request
    BY <1>3, RequestType DEF Observe
  <2>2. req[r].index \in Index /\ req[r].bodies \in Bodies
    BY <2>1 DEF Request
  <2>8. PICK notes \in Trimmed(Record(req[r].index, req[r].bodies)),
             shown \in Shown(req[r].index, req[r].bodies) :
          \E fresh \in SetToSeqs(Reported(req[r].index, req[r].bodies, shown)) :
            watch' = AfterObserve(req[r].index, notes, fresh) /\ SaveIfNews(watch', fresh)
    BY <1>3 DEF Observe
  <2>3. PICK fresh \in SetToSeqs(Reported(req[r].index, req[r].bodies, shown)) :
          /\ notes \in Trimmed(Record(req[r].index, req[r].bodies)) /\ shown \in Shown(req[r].index, req[r].bodies)
          /\ watch' = AfterObserve(req[r].index, notes, fresh) /\ SaveIfNews(watch', fresh)
    BY <2>8
  <2>4. Told(watch')
    BY <2>2, <2>3, ObserveTold DEF HistoryInv
  <2>5. disk' = disk \/ disk' = watch'
    BY <2>3 DEF SaveIfNews, Save
  <2> QED BY <2>4, <2>5 DEF HistoryInv
<1> QED BY <1>2, <1>3 DEF Next

LEMMA InitHistory == Init => HistoryInv
BY EmptyTold DEF Init, HistoryInv

(* Every line held for a note was there when the watch began or was        *)
(* counted by an event, shown unless the event shows as many as it may,    *)
(* through overlaps, partial reads, failed saves and restarts.             *)
THEOREM NothingInSilence == Spec => []AllAnnounced
<1>1. TypeOK /\ HistoryInv /\ [Next]_vars => HistoryInv'
  BY HistoryStep
<1>2. TypeOK /\ HistoryInv => AllAnnounced
  <2>1. TypeOK => DOMAIN watch.events = 1..Len(watch.events)
    BY LenProperties DEF TypeOK, Watcher
  <2> QED BY <2>1 DEF HistoryInv, Told, AllTold, AllFull, Full, Elements, AllAnnounced
<1> QED BY InitHistory, <1>1, <1>2, TypeCorrect, PTL DEF Spec

(* A note is announced as new once, and never when the baseline had it,    *)
(* however often trim() drops its lines (the comment at                    *)
(* memorywatch.go:345).                                                    *)
THEOREM NewOnlyOnce == Spec => []CreatedOnce
<1>1. TypeOK /\ HistoryInv /\ [Next]_vars => HistoryInv'
  BY HistoryStep
<1>2. TypeOK /\ HistoryInv => CreatedOnce
  <2>1. TypeOK => DOMAIN watch.events = 1..Len(watch.events)
    BY LenProperties DEF TypeOK, Watcher
  <2> QED BY <2>1 DEF HistoryInv, Told, CreatedFirst, CreatedOnce
<1> QED BY InitHistory, <1>1, <1>2, TypeCorrect, PTL DEF Spec

(***************************************************************************)
(* The budget, and restarts.  What observe() does not save is no news: the *)
(* lines are those it had, so they fit the budget still, and trim() leaves *)
(* them alone.                                                             *)
(***************************************************************************)
\* What is held depends on the lines of each note only.
LEMMA HeldByLines ==
  ASSUME NEW notes, NEW others, NEW S, NEW R,
         \A n \in S : notes[n] # None /\ notes[n].lines # {} =>
                        n \in R /\ others[n] # None /\ others[n].lines = notes[n].lines,
         \A n \in R : others[n] # None /\ others[n].lines # {} =>
                        n \in S /\ notes[n] # None /\ notes[n].lines = others[n].lines
  PROVE  Held(notes, S) = Held(others, R)
<1> DEFINE A == {p \in S \X Lines : notes[p[1]] # None /\ p[2] \in notes[p[1]].lines}
           B == {p \in R \X Lines : others[p[1]] # None /\ p[2] \in others[p[1]].lines}
<1>1. ASSUME NEW p \in A PROVE p \in B
  <2>1. PICK n \in S, l \in Lines : p = <<n, l>>
    OBVIOUS
  <2>2. notes[n] # None /\ l \in notes[n].lines
    BY <2>1
  <2>3. n \in R /\ others[n] # None /\ others[n].lines = notes[n].lines
    BY <2>2
  <2> QED BY <2>1, <2>2, <2>3
<1>2. ASSUME NEW p \in B PROVE p \in A
  <2>1. PICK n \in R, l \in Lines : p = <<n, l>>
    OBVIOUS
  <2>2. others[n] # None /\ l \in others[n].lines
    BY <2>1
  <2>3. n \in S /\ notes[n] # None /\ notes[n].lines = others[n].lines
    BY <2>2
  <2> QED BY <2>1, <2>2, <2>3
<1>3. A = B
  BY <1>1, <1>2
<1> QED BY <1>3 DEF Held

LEMMA TrimFits ==
  ASSUME NEW notes \in [Notes -> Seen \cup {None}], NEW trimmed \in Trimmed(notes)
  PROVE  Held(trimmed, Notes) <= MaxWatched
<1>1. PICK S \in SUBSET Notes : /\ Oldest(notes, S) /\ Held(notes, Notes \ S) <= MaxWatched
                                /\ trimmed = Dropped(notes, S)
  BY DEF Trimmed
<1>2. \A n \in Notes \ S : trimmed[n] = notes[n]
  BY <1>1 DEF Dropped
<1>3. \A n \in S : trimmed[n].lines = {}
  <2> SUFFICES ASSUME NEW n \in S PROVE trimmed[n].lines = {}
    OBVIOUS
  <2>1. notes[n] \in Seen
    BY <1>1 DEF Oldest
  <2>2. trimmed[n] = [notes[n] EXCEPT !.lines = {}, !.kept = FALSE]
    BY <1>1 DEF Dropped
  <2> QED BY <2>1, <2>2 DEF Seen
<1>4. Held(notes, Notes \ S) = Held(trimmed, Notes)
  BY <1>1, <1>2, <1>3, HeldByLines
<1> QED BY <1>1, <1>4

LEMMA TrimNeedless ==
  ASSUME NEW notes \in [Notes -> Seen \cup {None}], NEW trimmed \in Trimmed(notes),
         Held(notes, Notes) <= MaxWatched
  PROVE  trimmed = notes
<1>1. PICK S \in SUBSET Notes :
        /\ \A R \in SUBSET S : Oldest(notes, R) /\ Held(notes, Notes \ R) <= MaxWatched => R = S
        /\ trimmed = Dropped(notes, S)
  BY DEF Trimmed
<1>2. Notes \ {} = Notes /\ Oldest(notes, {})
  BY DEF Oldest
<1>3. S = {}
  BY <1>1, <1>2
<1> QED BY <1>1, <1>3 DEF Dropped

LEMMA EmptyHeld == HeldBy(Empty) <= MaxWatched
<1> DEFINE held == {p \in Notes \X Lines : Empty.notes[p[1]] # None /\ p[2] \in Empty.notes[p[1]].lines}
<1>1. held = {}
  BY DEF Empty
<1>2. HeldBy(Empty) = Cardinality(held)
  BY DEF HeldBy, Held
<1> HIDE DEF held
<1>3. Cardinality(held) = 0
  BY <1>1, FS_EmptySet
<1> QED BY <1>2, <1>3, WatchAssumption

\* An observation with nothing to report changes no lines.
LEMMA QuietRecord ==
  ASSUME TypeOK, NEW index \in Index, NEW bodies \in Bodies, watch.since,
         NEW shown \in Shown(index, bodies), Reported(index, bodies, shown) = {}, NEW n \in Notes
  PROVE  LET lines == IF Record(index, bodies)[n] = None THEN {} ELSE Record(index, bodies)[n].lines
         IN  lines = LinesOf(watch, n)
<1>1. CASE n \in Taken(index, bodies)
  <2>1. Record(index, bodies)[n] = Snap(index[n], bodies[n])
    BY <1>1 DEF Record
  <2>2. Snap(index[n], bodies[n]) \in Seen
    <3>1. index[n] \in Listed /\ bodies[n] \in Body
      BY <1>1, TakenListed DEF Index, Bodies
    <3> QED BY <3>1 DEF Snap, Seen, Listed, Body
  <2>3. Record(index, bodies)[n] # None /\ Record(index, bodies)[n].lines = bodies[n].lines
    <3>1. Snap(index[n], bodies[n]) # None
      BY <2>2, NoneIsNothing
    <3>2. Snap(index[n], bodies[n]).lines = bodies[n].lines
      BY DEF Snap
    <3> QED BY <2>1, <3>1, <3>2
  <2> DEFINE d == Diff(n, index[n], bodies[n], shown[n])
  <2>4. d.added \cup d.withheld \cup d.removed = {}
    BY <1>1 DEF Reported, Diffs
  <2>5. /\ d.added = shown[n]
        /\ d.withheld = (bodies[n].lines \ LinesOf(watch, n)) \ shown[n]
        /\ d.removed = LinesOf(watch, n) \ bodies[n].lines
    BY DEF Diff, LinesOf, Prior
  <2>6. bodies[n].lines = LinesOf(watch, n)
    BY <2>4, <2>5
  <2> QED BY <2>3, <2>6
<1>2. CASE n \notin Taken(index, bodies)
  BY <1>2 DEF Record, LinesOf
<1> QED BY <1>1, <1>2

\* The record as it is in memory is the one that a restart would load.
Saved(file, w) ==
  LET saved == IF file = None THEN Empty ELSE file IN
  saved.events = w.events /\ saved.since = w.since /\ \A n \in Notes : LinesOf(saved, n) = LinesOf(w, n)

SavedInv == BudgetKept /\ RestartForgetsNothing

LEMMA QuietObserve ==
  ASSUME TypeOK, SavedInv, NEW index \in Index, NEW bodies \in Bodies,
         NEW notes \in Trimmed(Record(index, bodies)), NEW shown \in Shown(index, bodies),
         NEW fresh \in SetToSeqs(Reported(index, bodies, shown)), Len(fresh) = 0, watch.since
  PROVE  LET w == AfterObserve(index, notes, fresh) IN
         w.events = watch.events /\ w.since = watch.since /\ \A n \in Notes : LinesOf(w, n) = LinesOf(watch, n)
<1> DEFINE w == AfterObserve(index, notes, fresh)
           record == Record(index, bodies)
<1>1. fresh = <<>> /\ Reported(index, bodies, shown) = {}
  <2>1. fresh \in Seq(Event) /\ Elements(fresh) = Reported(index, bodies, shown)
    BY FreshEvents
  <2>2. fresh = <<>>
    BY <2>1, EmptySeq
  <2> QED BY <2>1, <2>2 DEF Elements
<1>2. watch \in Watcher /\ watch.events \in Seq(Event) /\ Len(watch.events) <= MaxWriteEvents
  BY DEF TypeOK, Watcher
<1>3. w.events = watch.events /\ w.since = TRUE /\ w.notes = notes
  <2>1. watch.events \o fresh = watch.events
    BY <1>1, <1>2
  <2> QED BY <1>2, <2>1 DEF AfterObserve, Capped
<1>4. watch.since = TRUE
  BY <1>2 DEF Watcher
<1>5. record \in [Notes -> Seen \cup {None}]
  BY RecordType
<1> DEFINE recorded(n) == IF record[n] = None THEN {} ELSE record[n].lines
<1>6. \A n \in Notes : recorded(n) = LinesOf(watch, n)
  BY <1>1, QuietRecord
<1>7. Held(record, Notes) = Held(watch.notes, Notes)
  <2>1. \A n \in Notes : record[n] # None /\ record[n].lines # {} =>
                           watch.notes[n] # None /\ watch.notes[n].lines = record[n].lines
    BY <1>6 DEF LinesOf
  <2>2. \A n \in Notes : watch.notes[n] # None /\ watch.notes[n].lines # {} =>
                           record[n] # None /\ record[n].lines = watch.notes[n].lines
    BY <1>6 DEF LinesOf
  <2> HIDE DEF record
  <2> QED BY <2>1, <2>2, HeldByLines
<1>8. notes = record
  BY <1>5, <1>7, TrimNeedless DEF SavedInv, BudgetKept, HeldBy
<1>9. \A n \in Notes : LinesOf(w, n) = LinesOf(watch, n)
  BY <1>3, <1>6, <1>8 DEF LinesOf
<1> QED BY <1>3, <1>4, <1>9

LEMMA SavedStep == TypeOK /\ SavedInv /\ [Next]_vars => SavedInv'
<1> SUFFICES ASSUME TypeOK, SavedInv, [Next]_vars PROVE SavedInv'
  OBVIOUS
<1>1. HeldBy(Empty) <= MaxWatched /\ watch \in Watcher /\ Empty \in Watcher
  BY EmptyHeld, EmptyType DEF TypeOK
<1>2. ASSUME UNCHANGED <<watch, loaded, disk, unsaved>> PROVE SavedInv'
  BY <1>2 DEF SavedInv, BudgetKept, RestartForgetsNothing, HeldBy, LinesOf
<1>3. CASE \/ UNCHANGED vars \/ \E n \in Notes : WriteNote(n) \/ DeleteNote(n)
           \/ \E r \in Requests : List(r) \/ Read(r)
  BY <1>2, <1>3 DEF vars, WriteNote, DeleteNote, List, Read
<1>4. ASSUME NEW failed \in BOOLEAN, NEW w, Load(w, failed), watch' = w,
             unsaved' = (IF loaded THEN unsaved ELSE failed), loaded' = TRUE, disk' = disk
      PROVE  SavedInv'
  <2>1. CASE loaded
    BY <1>2, <1>4, <2>1 DEF Load, TypeOK
  <2>2. CASE ~loaded
    <3>1. HeldBy(w) <= MaxWatched
      BY <1>1, <1>4, <2>2 DEF Load, SavedInv, BudgetKept
    <3>2. ~failed => w = (IF disk = None THEN Empty ELSE disk)
      BY <1>4, <2>2 DEF Load
    <3>3. BudgetKept'
      BY <1>4, <3>1 DEF SavedInv, BudgetKept, HeldBy
    <3>4. RestartForgetsNothing'
      BY <1>4, <2>2, <3>2 DEF RestartForgetsNothing, LinesOf
    <3> QED BY <3>3, <3>4 DEF SavedInv
  <2> QED BY <2>1, <2>2
<1>5. ASSUME NEW r \in Requests, Pending(r) PROVE SavedInv'
  BY <1>4, <1>5 DEF Pending
<1>6. CASE Recent
  BY <1>4, <1>6 DEF Recent
<1>7. CASE Restart
  <2>1. watch' = Empty /\ disk' = disk /\ loaded' = FALSE
    BY <1>7 DEF Restart
  <2> QED BY <1>1, <2>1 DEF SavedInv, BudgetKept, RestartForgetsNothing, HeldBy
<1>8. ASSUME NEW r \in Requests, Observe(r) PROVE SavedInv'
  <2> DEFINE index  == req[r].index
             bodies == req[r].bodies
  <2>1. index \in Index /\ bodies \in Bodies
    BY <1>8, RequestType DEF Observe, Request
  <2>8. PICK notes \in Trimmed(Record(index, bodies)),
             shown \in Shown(index, bodies) :
          \E fresh \in SetToSeqs(Reported(index, bodies, shown)) :
            watch' = AfterObserve(index, notes, fresh) /\ SaveIfNews(watch', fresh)
    BY <1>8 DEF Observe
  <2>2. PICK fresh \in SetToSeqs(Reported(index, bodies, shown)) :
          /\ notes \in Trimmed(Record(index, bodies)) /\ shown \in Shown(index, bodies)
          /\ watch' = AfterObserve(index, notes, fresh) /\ SaveIfNews(watch', fresh)
    BY <2>8
  <2> HIDE DEF index, bodies
  <2>3. watch'.notes = notes
    BY <2>2 DEF AfterObserve
  <2>4. HeldBy(watch') <= MaxWatched
    BY <2>1, <2>2, <2>3, RecordType, TrimFits DEF HeldBy
  <2>5. disk' = watch' \/ disk' = disk
    BY <2>2 DEF SaveIfNews, Save
  <2>6. BudgetKept'
    BY <2>4, <2>5 DEF SavedInv, BudgetKept, HeldBy
  <2>7. RestartForgetsNothing'
    <3>1. loaded' = loaded
      BY <1>8 DEF Observe
    <3>2. CASE disk' = watch'
      <4>1. watch' \in Watcher
        BY StepTypes DEF TypeOK
      <4>2. disk' # None
        BY <3>2, <4>1, NoneIsNothing
      <4> QED BY <3>2, <4>2 DEF RestartForgetsNothing
    <3>3. CASE unsaved'
      BY <3>3 DEF RestartForgetsNothing
    <3>4. CASE UNCHANGED <<disk, unsaved>> /\ ~(Len(fresh) > 0 \/ ~watch.since)
      <4>1. Len(fresh) = 0
        <5>1. fresh \in Seq(Event)
          BY <2>1, <2>2, FreshEvents
        <5> QED BY <3>4, <5>1
      <4>2. /\ watch'.events = watch.events /\ watch'.since = watch.since
            /\ \A n \in Notes : LinesOf(watch', n) = LinesOf(watch, n)
        BY <2>1, <2>2, <3>4, <4>1, QuietObserve
      <4>3. loaded /\ ~unsaved => Saved(disk, watch)
        BY DEF SavedInv, RestartForgetsNothing, Saved
      <4>4. (loaded /\ ~unsaved => Saved(disk, watch))'
        BY <3>1, <3>4, <4>2, <4>3 DEF Saved
      <4> QED BY <4>4 DEF RestartForgetsNothing, Saved
    <3> QED BY <2>2, <3>2, <3>3, <3>4 DEF SaveIfNews, Save
  <2> QED BY <2>6, <2>7 DEF SavedInv
<1> QED BY <1>3, <1>5, <1>6, <1>7, <1>8 DEF Next

LEMMA InitSaved == Init => SavedInv
BY EmptyHeld DEF Init, SavedInv, BudgetKept, RestartForgetsNothing

(* The lines kept for diffing fit the budget, in memory and in the state   *)
(* file, whatever overlapping requests record and a restart brings back.   *)
THEOREM WithinBudget == Spec => []BudgetKept
<1>1. TypeOK /\ SavedInv /\ [Next]_vars => SavedInv'
  BY SavedStep
<1>2. SavedInv => BudgetKept
  BY DEF SavedInv
<1> QED BY InitSaved, <1>1, <1>2, TypeCorrect, PTL DEF Spec

(* As long as saves and loads succeed, a restart brings back the history   *)
(* and every line, although observe() saves only what is news.             *)
THEOREM RestartsForgetNothing == Spec => []RestartForgetsNothing
<1>1. TypeOK /\ SavedInv /\ [Next]_vars => SavedInv'
  BY SavedStep
<1>2. SavedInv => RestartForgetsNothing
  BY DEF SavedInv
<1> QED BY InitSaved, <1>1, <1>2, TypeCorrect, PTL DEF Spec
===============================================================================
