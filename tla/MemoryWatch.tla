------------------------------ MODULE MemoryWatch ------------------------------
(***************************************************************************)
(* The Agent Console's memory watcher: one record per Claw of the notes    *)
(* last seen, shared by every request that loads the memory page           *)
(* (Store.memoryFeed), persisted so that it survives a restart.            *)
(*                                                                         *)
(* A request lists the notes, asks the watcher which of them changed,      *)
(* reads those, and hands them to the watcher to be diffed.  The watcher's *)
(* lock covers the second and the last step only: agents write notes, and  *)
(* other requests run, in between.                                         *)
(*                                                                         *)
(* A note's content is the set of its lines, of which a read returns the   *)
(* first `maxNoteBytes` and no more, without a word (readNotes reads each  *)
(* through a LimitReader); its size and modification time are one number,  *)
(* `ver`, that no two writes share.                                        *)
(***************************************************************************)
EXTENDS Naturals, FiniteSets, Sequences, SequencesExt

CONSTANTS
  Requests,        (* requests for the memory page                         *)
  Notes,           (* note paths                                           *)
  Lines,           (* what a line may say                                  *)
  None,            (* no note, no record                                   *)
  MaxWriteEvents,  (* maxWriteEvents                                       *)
  MaxNote,         (* maxNoteBytes, in lines                               *)
  MaxAdded,        (* maxAddedLinesPerEvent                                *)
  MaxWatched,      (* maxWatchedBytes, in lines                            *)
  MaxWrites        (* bound: writes to the vault                           *)

Versions == 1..MaxWrites

\* A note on disk; `head` is what a read of it returns.
Note == [ver : Versions, lines : SUBSET Lines, head : SUBSET Lines]

\* What a listing says of it, and what a read brings.
Listed == [ver : Versions]
Body   == [ver : Versions, lines : SUBSET Lines]

Vault  == [Notes -> Note \cup {None}]
Index  == [Notes -> Listed \cup {None}]
Bodies == [Notes -> Body \cup {None}]

\* noteSnapshot: the identity listed, the lines read (`kept` until trim() sets them
\* to nil), and, to state properties with, the version those lines came from.
Seen == [ver : Versions, lines : SUBSET Lines, kept : BOOLEAN, read : Versions]

\* MemoryWriteEvent: the diff between two versions of a note.  `added` are the lines
\* it shows, `withheld` those it only counts (Truncated).
Event == [note : Notes, ver : Versions, added : SUBSET Lines, withheld : SUBSET Lines,
          removed : SUBSET Lines, created : BOOLEAN, from : 0..MaxWrites, to : Versions]

\* memoryWatcher.  `since` is set once something has been observed; `first` is what
\* the first observation listed, `base` the lines it recorded, and `forgot` says
\* whether an event has been dropped since.
Watcher ==
  [since : BOOLEAN, notes : [Notes -> Seen \cup {None}], events : Seq(Event),
   first : [Notes -> 0..MaxWrites], base : [Notes -> SUBSET Lines], forgot : BOOLEAN]

\* What a request holds: the listing, what pending() asked for, and what was read.
Request == [index : Index, want : SUBSET Notes, bodies : Bodies]

ASSUME WatchAssumption ==
  /\ {MaxWriteEvents, MaxWatched} \subseteq Nat
  /\ {MaxNote, MaxAdded, MaxWrites} \subseteq Nat \ {0}
  /\ IsFiniteSet(Notes)
  /\ None \notin Note \cup Listed \cup Body \cup Seen \cup Watcher \cup Request

VARIABLES
  vault,    (* path -> the note on disk in the pod, or None                *)
  writes,   (* writes to the vault so far                                  *)
  watch,    (* memoryWatcher: its notes, events and since                  *)
  loaded,   (* w.loaded                                                    *)
  disk,     (* the state file, or None                                     *)
  unsaved,  (* the file and memory differ: a save, or the load, failed     *)
  pc,
  req       (* what each request holds: the index, and the bodies read     *)

vars == <<vault, writes, watch, loaded, disk, unsaved, pc, req>>

\* The first `max` lines of S, whichever those are; all of them if there are no more.
First(S, max) ==
  {T \in SUBSET S : IF Cardinality(S) <= max THEN T = S ELSE Cardinality(T) = max}

\* newMemoryWatcher().
Empty ==
  [since |-> FALSE, notes |-> [n \in Notes |-> None], events |-> <<>>,
   first |-> [n \in Notes |-> 0], base |-> [n \in Notes |-> {}], forgot |-> FALSE]

(***************************************************************************)
(* The agents: consolidation and synthesis write notes directly.           *)
(***************************************************************************)
WriteNote(n) ==
  /\ writes < MaxWrites
  /\ writes' = writes + 1
  /\ \E L \in SUBSET Lines : \E H \in First(L, MaxNote) :
       vault' = [vault EXCEPT ![n] = [ver |-> writes + 1, lines |-> L, head |-> H]]
  /\ UNCHANGED <<watch, loaded, disk, unsaved, pc, req>>

DeleteNote(n) ==
  /\ vault[n] # None
  /\ vault' = [vault EXCEPT ![n] = None]
  /\ UNCHANGED <<writes, watch, loaded, disk, unsaved, pc, req>>

(***************************************************************************)
(* load(), once per process: the state file if there is one and it can be  *)
(* read, an empty record otherwise.                                        *)
(***************************************************************************)
Load(w, failed) ==
  IF loaded THEN w = watch /\ ~failed
  ELSE \/ w = (IF disk = None THEN Empty ELSE disk) /\ ~failed
       \/ w = Empty /\ disk # None /\ failed

Changed(w, index) ==
  {n \in Notes : index[n] # None /\ (w.notes[n] = None \/ w.notes[n].ver # index[n].ver)}

Listing == [n \in Notes |-> IF vault[n] = None THEN None ELSE [ver |-> vault[n].ver]]

Unread == [n \in Notes |-> None]

List(r) ==
  /\ pc[r] = "idle"
  /\ req' = [req EXCEPT ![r] = [index |-> Listing, want |-> {}, bodies |-> Unread]]
  /\ pc' = [pc EXCEPT ![r] = "pending"]
  /\ UNCHANGED <<vault, writes, watch, loaded, disk, unsaved>>

Pending(r) ==
  /\ pc[r] = "pending"
  /\ \E failed \in BOOLEAN, w \in {watch, disk, Empty} :
       /\ Load(w, failed)
       /\ watch' = w
       /\ unsaved' = (IF loaded THEN unsaved ELSE failed)
       /\ LET want == Changed(w, req[r].index) IN
          IF want = {}
          THEN /\ pc' = [pc EXCEPT ![r] = "idle"]
               /\ req' = [req EXCEPT ![r] = None]
          ELSE /\ pc' = [pc EXCEPT ![r] = "read"]
               /\ req' = [req EXCEPT ![r].want = want]
  /\ loaded' = TRUE
  /\ UNCHANGED <<vault, writes, disk>>

\* recent() and watchingFrom(), for the page: they too load what was persisted.
Recent ==
  /\ \E failed \in BOOLEAN, w \in {watch, disk, Empty} :
       /\ Load(w, failed)
       /\ watch' = w
       /\ unsaved' = (IF loaded THEN unsaved ELSE failed)
  /\ loaded' = TRUE
  /\ UNCHANGED <<vault, writes, disk, pc, req>>

\* readNotes: the notes as they are now.  The error is ignored, so any of them
\* may be missing, and a note deleted since the listing always is.
Contents(note) == [ver |-> note.ver, lines |-> note.head]

BodiesOf(got) == [n \in Notes |-> IF n \in got THEN Contents(vault[n]) ELSE None]

Read(r) ==
  /\ pc[r] = "read"
  /\ \E got \in SUBSET {n \in req[r].want : vault[n] # None} :
       req' = [req EXCEPT ![r].want = {}, ![r].bodies = BodiesOf(got)]
  /\ pc' = [pc EXCEPT ![r] = "observe"]
  /\ UNCHANGED <<vault, writes, watch, loaded, disk, unsaved>>

(***************************************************************************)
(* observe(): record what was read, diff it, trim, cap and save.           *)
(***************************************************************************)
\* The notes whose content observe() takes in.
Taken(index, bodies) ==
  {n \in Changed(watch, index) : bodies[n] # None}

Snap(listed, body) ==
  [ver |-> listed.ver, lines |-> body.lines, kept |-> TRUE, read |-> body.ver]

\* Mutation: a note whose body is missing is recorded as an empty one.
RecordMissing(index, bodies) ==
  [n \in Notes |->
     IF n \in Taken(index, bodies) THEN Snap(index[n], bodies[n])
     ELSE IF n \in Changed(watch, index)
          THEN Snap(index[n], [ver |-> index[n].ver, lines |-> {}])
     ELSE watch.notes[n]]

Record(index, bodies) ==
  [n \in Notes |-> IF n \in Taken(index, bodies) THEN Snap(index[n], bodies[n])
                                                ELSE watch.notes[n]]

\* A new note is diffed against nothing.
Prior(n) == IF watch.notes[n] = None THEN {} ELSE watch.notes[n].lines

\* The added lines an event may show of each note it is about: the first
\* maxAddedLinesPerEvent.
Shown(index, bodies) ==
  {f \in [Notes -> SUBSET Lines] :
     \A n \in Notes : f[n] \in IF n \in Taken(index, bodies)
                               THEN First(bodies[n].lines \ Prior(n), MaxAdded)
                               ELSE {{}}}

\* Mutation: the lines an event does not show are not counted either.
DiffUncounted(n, listed, body, shown) ==
  LET prev == watch.notes[n] IN
  [note |-> n, ver |-> listed.ver, added |-> shown, withheld |-> {},
   removed |-> Prior(n) \ body.lines, created |-> prev = None,
   from |-> IF prev = None THEN 0 ELSE prev.read, to |-> body.ver]

Diff(n, listed, body, shown) ==
  LET prev == watch.notes[n] IN
  [note |-> n, ver |-> listed.ver,
   added |-> shown, withheld |-> (body.lines \ Prior(n)) \ shown,
   removed |-> Prior(n) \ body.lines,
   created |-> prev = None,
   from |-> IF prev = None THEN 0 ELSE prev.read, to |-> body.ver]

Diffs(index, bodies, shown) ==
  {Diff(n, index[n], bodies[n], shown[n]) : n \in Taken(index, bodies)}

\* Mutation: nothing is reported of a note seen for the first time.
ReportedSeen(index, bodies, shown) ==
  IF ~watch.since THEN {}
  ELSE {e \in Diffs(index, bodies, shown) :
          ~e.created /\ e.added \cup e.withheld \cup e.removed # {}}

\* The changes to report: none on the first observation, none for a note that was
\* touched but reads the same.
Reported(index, bodies, shown) ==
  IF ~watch.since THEN {}
  ELSE {e \in Diffs(index, bodies, shown) : e.added \cup e.withheld \cup e.removed # {}}

\* trim(): the oldest notes lose their lines, never their identity, until the
\* rest fits the budget.
Held(notes, S) ==
  Cardinality({p \in S \X Lines : notes[p[1]] # None /\ p[2] \in notes[p[1]].lines})

Oldest(notes, S) ==
  \A n \in S : /\ notes[n] # None
               /\ \A m \in Notes \ S : notes[m] # None => notes[n].ver <= notes[m].ver

\* Mutation: the whole entry is deleted.
DroppedEntry(notes, S) == [n \in Notes |-> IF n \in S THEN None ELSE notes[n]]

Dropped(notes, S) ==
  [n \in Notes |-> IF n \in S THEN [notes[n] EXCEPT !.lines = {}, !.kept = FALSE]
                              ELSE notes[n]]

\* Mutation: nothing is trimmed.
TrimmedNever(notes) == {notes}

Trimmed(notes) ==
  {Dropped(notes, S) : S \in
     {S \in SUBSET Notes :
        /\ Oldest(notes, S) /\ Held(notes, Notes \ S) <= MaxWatched
        /\ \A R \in SUBSET S : Oldest(notes, R) /\ Held(notes, Notes \ R) <= MaxWatched
                                 => R = S}}

\* Mutation: the history grows without end.
CappedNever(events) == events

\* The events kept are the newest.
Capped(events) ==
  IF Len(events) <= MaxWriteEvents THEN events
  ELSE SubSeq(events, Len(events) - MaxWriteEvents + 1, Len(events))

AfterObserve(index, notes, fresh) ==
  LET cold == ~watch.since
      all  == watch.events \o fresh
  IN [since  |-> TRUE,
      notes  |-> notes,
      events |-> Capped(all),
      first  |-> IF ~cold THEN watch.first
                 ELSE [n \in Notes |-> IF index[n] = None THEN 0 ELSE index[n].ver],
      base   |-> IF ~cold THEN watch.base
                 ELSE [n \in Notes |-> IF notes[n] = None THEN {} ELSE notes[n].lines],
      forgot |-> watch.forgot \/ Len(all) > MaxWriteEvents]

\* save() renames a complete file into place, or leaves the old one.
Save(w) ==
  \/ disk' = w /\ unsaved' = FALSE
  \/ disk' = disk /\ unsaved' = TRUE

\* Mutation: a baseline without news is not saved.
SaveIfEvents(w, fresh) ==
  IF Len(fresh) > 0 THEN Save(w) ELSE UNCHANGED <<disk, unsaved>>

SaveIfNews(w, fresh) ==
  IF Len(fresh) > 0 \/ ~watch.since THEN Save(w) ELSE UNCHANGED <<disk, unsaved>>

Observe(r) ==
  LET index == req[r].index
      bodies == req[r].bodies IN
  /\ pc[r] = "observe"
  /\ \E notes \in Trimmed(Record(index, bodies)),
        shown \in Shown(index, bodies) :
       \E fresh \in SetToSeqs(Reported(index, bodies, shown)) :
         /\ watch' = AfterObserve(index, notes, fresh)
         /\ SaveIfNews(watch', fresh)
  /\ req' = [req EXCEPT ![r] = None]
  /\ pc' = [pc EXCEPT ![r] = "idle"]
  /\ UNCHANGED <<vault, writes, loaded>>

\* The console is redeployed: requests in flight and everything in memory are lost.
Restart ==
  /\ loaded
  /\ loaded' = FALSE
  /\ watch' = Empty
  /\ pc' = [r \in Requests |-> "idle"]
  /\ req' = [r \in Requests |-> None]
  /\ UNCHANGED <<vault, writes, disk, unsaved>>

Init ==
  /\ vault \in [Notes -> {None} \cup {n \in Note : n.ver = 1 /\ n.head \in First(n.lines, MaxNote)}]
  /\ writes = 1
  /\ watch = Empty /\ loaded = FALSE /\ disk = None /\ unsaved = FALSE
  /\ pc = [r \in Requests |-> "idle"]
  /\ req = [r \in Requests |-> None]

Next ==
  \/ \E n \in Notes : WriteNote(n) \/ DeleteNote(n)
  \/ \E r \in Requests : List(r) \/ Pending(r) \/ Read(r) \/ Observe(r)
  \/ Recent
  \/ Restart

Spec == Init /\ [][Next]_vars

-------------------------------------------------------------------------------

Elements(s) == {s[i] : i \in DOMAIN s}

HeldBy(w) == Held(w.notes, Notes)

(* The state has its types, and the history in memory or on disk is never  *)
(* longer than maxWriteEvents.                                             *)
TypeOK ==
  /\ vault \in Vault
  /\ writes \in Versions
  /\ watch \in Watcher
  /\ Len(watch.events) <= MaxWriteEvents
  /\ {loaded, unsaved} \subseteq BOOLEAN
  /\ disk = None \/ (disk \in Watcher /\ Len(disk.events) <= MaxWriteEvents)
  /\ pc \in [Requests -> {"idle", "pending", "read", "observe"}]
  /\ req \in [Requests -> Request \cup {None}]
  /\ \A r \in Requests : pc[r] = "idle" <=> req[r] = None

(* pending() skips a note whose size and time are those recorded.  That is *)
(* sound only while the lines recorded under them are those a read of the  *)
(* note as it is would bring (all of a note within maxNoteBytes, the       *)
(* beginning of a longer one, whose rest no size and time ever bring), al- *)
(* though the listing and the read are two round trips with the agents     *)
(* writing in between, reads come back partial and requests overlap.       *)
Faithful(w) ==
  \A n \in Notes :
    (vault[n] # None /\ w.notes[n] # None)
      => (w.notes[n].ver = vault[n].ver /\ w.notes[n].kept
            => w.notes[n].lines = vault[n].head)

RecordedCurrent == Faithful(watch) /\ (disk # None => Faithful(disk))

(* Nothing is learnt in silence after the baseline: as long as no event    *)
(* has been dropped at the cap, a line held for a note was there at the    *)
(* first observation or is one that an event of the note counts as added.  *)
(* An event shows maxAddedLinesPerEvent of the lines it counts, and none   *)
(* is withheld by one that shows fewer.                                    *)
Announced(events, n) ==
  UNION {e.added \cup e.withheld : e \in {e \in Elements(events) : e.note = n}}

AllAnnounced ==
  /\ ~watch.forgot =>
       \A n \in Notes : watch.notes[n] # None =>
         watch.notes[n].lines \subseteq watch.base[n] \cup Announced(watch.events, n)
  /\ \A e \in Elements(watch.events) : e.withheld # {} => Cardinality(e.added) = MaxAdded

(* While saves succeed, a restart forgets nothing: the state file holds    *)
(* the events, the start of the watch and the lines each note is diffed    *)
(* against, although observe() saves only when it has something to report. *)
LinesOf(w, n) == IF w.notes[n] = None THEN {} ELSE w.notes[n].lines

RestartForgetsNothing ==
  (loaded /\ ~unsaved) =>
    LET saved == IF disk = None THEN Empty ELSE disk IN
    /\ saved.events = watch.events
    /\ saved.since = watch.since
    /\ \A n \in Notes : LinesOf(saved, n) = LinesOf(watch, n)

(* A note is announced as new at most once, and never when the baseline    *)
(* held it, whatever trim() has dropped since: the false claim its comment *)
(* is about.                                                               *)
CreatedOnce ==
  \A j \in DOMAIN watch.events :
    LET e == watch.events[j] IN
    e.created => /\ watch.base[e.note] = {}
                 /\ \A i \in 1..(j - 1) : watch.events[i].note # e.note

(* The lines held for diffing fit the budget, in memory and on disk,       *)
(* whatever overlapping requests record and a restart brings back.         *)
BudgetKept == HeldBy(watch) <= MaxWatched /\ (disk # None => HeldBy(disk) <= MaxWatched)

(* Documented, and not so: "a note seen for the first time establishes a   *)
(* baseline silently" (MemoryWriteEvent), so a version of a note that was  *)
(* there at the first observation is never announced.  A first read that   *)
(* fails, or returns only some of the notes, ends the baseline without     *)
(* them, and the next read announces them as new.                          *)
BaselineIsSilent ==
  \A e \in Elements(watch.events) : e.ver # watch.first[e.note]

(* Documented, and not so: "every event carries a real diff"               *)
(* (MemoryWriteEvent), that is, from an older version of the note to a     *)
(* newer one.  A request that listed and read before another one observed  *)
(* reports the change backwards, and the next request reports it again.    *)
RealDiffs == \A e \in Elements(watch.events) : e.from <= e.to
===============================================================================
