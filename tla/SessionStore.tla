----------------------------- MODULE SessionStore -----------------------------
(***************************************************************************)
(* The Agent Console's Store: snapshot() with its single-flight refresh,   *)
(* and scan() with its cache of parsed session files, for the sessions of  *)
(* one agent of one Claw.  The agent keeps appending to its files while a  *)
(* refresh is reading them.                                                *)
(*                                                                         *)
(* A session has a trajectory file, a plain transcript, or both.  A        *)
(* trajectory is its number of events, its modification time (the cache    *)
(* compares these two) and whether its run has finished.  A read hands     *)
(* over its first MaxFile events and says nothing of those it cuts.        *)
(***************************************************************************)
EXTENDS Naturals, FiniteSets

CONSTANTS
  Callers,              (* goroutines that call snapshot()                 *)
  Sessions,             (* session ids of the agent                        *)
  None,                 (* nil                                             *)
  CacheTTL,             (* cacheTTL                                        *)
  StaleAfter,           (* staleAfter                                      *)
  MaxSessionsPerAgent,  (* maxSessionsPerAgent                             *)
  MaxFile,              (* maxSessionFileBytes, in events                  *)
  MaxSize,              (* bound: appends to one trajectory                *)
  MaxClock              (* bound: clock ticks                              *)

\* A trajectory file; `within` is the time of the last of its first MaxFile events.
File == [size : Nat, mtime : Nat, within : Nat, done : BOOLEAN]

\* The events a read returned: how many, when the last one was, if it ends the run.
Body == [size : 0..MaxFile, last : Nat, done : BOOLEAN]

\* parsedSession: the identity listed when the file was read, and what was read.
Parsed == [size : Nat, mtime : Nat, body : Body, outcome : {"ok", "running", "stale"}]

\* What scan() has gathered after the index: the trajectories kept by the cap,
\* and the files to read.
Listing ==
  [now : Nat, listed : [Sessions -> File \cup {None}], plain : SUBSET Sessions,
   kept : SUBSET Sessions, want : SUBSET Sessions, wantPlain : SUBSET Sessions]

\* Snapshot, with counters as the sets they count; a scan that fails has ok = FALSE.
\* `now`, `listed` and `plain` record what the scan saw.
Snapshot ==
  [ok : {FALSE}, now : Nat] \cup
  [ok : {TRUE}, now : Nat, listed : [Sessions -> File \cup {None}], plain : SUBSET Sessions,
   runs : [Sessions -> Parsed \cup {None}], plainRuns : SUBSET Sessions,
   unreadable : SUBSET Sessions, skipped : SUBSET Sessions]

ASSUME StoreAssumption ==
  /\ {CacheTTL, StaleAfter, MaxSessionsPerAgent, MaxSize, MaxClock} \subseteq Nat
  /\ MaxFile \in Nat \ {0}
  /\ IsFiniteSet(Sessions)
  /\ None \notin Callers \cup File \cup Parsed \cup Listing \cup Snapshot

VARIABLES
  \* the Claw pod's file system, and time
  traj,         (* session -> its trajectory file, or None                 *)
  removed,      (* sessions whose trajectory was deleted (ids are unique)  *)
  transcripts,  (* sessions with a plain transcript file                   *)
  clock,
  \* Store
  cached,       (* s.cached                                                *)
  cachedT,      (* s.cachedT                                               *)
  scanDone,     (* the caller whose channel s.scanDone is, None when nil   *)
  parsed,       (* s.parsed: session -> parsedSession, or None             *)
  \* the callers' stacks
  pc,
  waitsFor,     (* whose channel a waiting caller blocks on                *)
  job,          (* what the caller's scan() has gathered so far            *)
  answer        (* what snapshot() returned last                           *)

fileVars  == <<traj, removed, transcripts, clock>>
storeVars == <<cached, cachedT, scanDone, parsed>>
callVars  == <<pc, waitsFor, job, answer>>
vars      == <<fileVars, storeVars, callVars>>

Scanning == {"index", "fetch", "publish"}

(***************************************************************************)
(* The agent.  Trajectories are append-only: each write grows the file.    *)
(***************************************************************************)
Append(s) ==
  /\ s \notin removed
  /\ traj[s] # None => ~traj[s].done /\ traj[s].size < MaxSize
  /\ LET n == IF traj[s] = None THEN 1 ELSE traj[s].size + 1 IN
     \E done \in BOOLEAN :
       traj' = [traj EXCEPT ![s] =
                  [size   |-> n, mtime |-> clock,
                   within |-> IF n <= MaxFile THEN clock ELSE traj[s].within,
                   done   |-> done]]
  /\ UNCHANGED <<removed, transcripts, clock, storeVars, callVars>>

Remove(s) ==
  /\ traj[s] # None
  /\ traj' = [traj EXCEPT ![s] = None]
  /\ removed' = removed \cup {s}
  /\ UNCHANGED <<transcripts, clock, storeVars, callVars>>

WriteTranscript(s) ==
  /\ s \notin transcripts
  /\ transcripts' = transcripts \cup {s}
  /\ UNCHANGED <<traj, removed, clock, storeVars, callVars>>

Tick ==
  /\ clock < MaxClock
  /\ clock' = clock + 1
  /\ UNCHANGED <<traj, removed, transcripts, storeVars, callVars>>

(***************************************************************************)
(* snapshot(), up to the scan.  One critical section picks the branch.     *)
(***************************************************************************)
Fresh == cached # None /\ clock - cachedT <= CacheTTL

ServeFresh(c) ==
  /\ pc[c] = "idle" /\ Fresh
  /\ answer' = [answer EXCEPT ![c] = cached]
  /\ UNCHANGED <<fileVars, storeVars, pc, waitsFor, job>>

ServeLast(c) ==
  /\ pc[c] = "idle" /\ ~Fresh /\ scanDone # None /\ cached # None
  /\ answer' = [answer EXCEPT ![c] = cached]
  /\ UNCHANGED <<fileVars, storeVars, pc, waitsFor, job>>

Wait(c) ==
  /\ pc[c] = "idle" /\ ~Fresh /\ scanDone # None /\ cached = None
  /\ pc' = [pc EXCEPT ![c] = "wait"]
  /\ waitsFor' = [waitsFor EXCEPT ![c] = scanDone]
  /\ UNCHANGED <<fileVars, storeVars, job, answer>>

\* Mutation: forgets to look for a scan in flight.
StartScanUnguarded(c) ==
  /\ pc[c] = "idle" /\ ~Fresh
  /\ scanDone' = c
  /\ pc' = [pc EXCEPT ![c] = "index"]
  /\ UNCHANGED <<fileVars, cached, cachedT, parsed, waitsFor, job, answer>>

StartScan(c) ==
  /\ pc[c] = "idle" /\ ~Fresh /\ scanDone = None
  /\ scanDone' = c
  /\ pc' = [pc EXCEPT ![c] = "index"]
  /\ UNCHANGED <<fileVars, cached, cachedT, parsed, waitsFor, job, answer>>

(***************************************************************************)
(* scan().  One round trip lists the files, a second one reads those that  *)
(* changed; the files may grow or disappear between the two.               *)
(***************************************************************************)
\* Mutation: compares modification times only.
SameMtime(entry, file) == entry # None /\ entry.mtime = file.mtime

Identical(entry, file) ==
  entry # None /\ entry.size = file.size /\ entry.mtime = file.mtime

\* The sessions kept by the per-agent cap: the newest, ties in any order.
Kept(listed) ==
  {K \in SUBSET {s \in Sessions : listed[s] # None} :
     /\ \A k \in K : \A s \in Sessions \ K :
          listed[s] # None => listed[s].mtime <= listed[k].mtime
     /\ Cardinality(K) <= MaxSessionsPerAgent
     /\ \/ Cardinality(K) = MaxSessionsPerAgent
        \/ K = {s \in Sessions : listed[s] # None}}

FailedSnapshot(now) == [ok |-> FALSE, now |-> now]

Index(c) ==
  /\ pc[c] = "index"
  /\ \/ /\ job' = [job EXCEPT ![c] = FailedSnapshot(clock)]
        /\ pc' = [pc EXCEPT ![c] = "publish"]
     \/ \E K \in Kept(traj) :
          /\ job' = [job EXCEPT ![c] =
               [now    |-> clock,
                listed |-> traj,
                plain  |-> transcripts,
                kept   |-> K,
                want   |-> {s \in K : ~Identical(parsed[s], traj[s])},
                wantPlain |->
                  {s \in transcripts : traj[s] = None \/ parsed[s] = None}]]
          /\ pc' = [pc EXCEPT ![c] = "fetch"]
  /\ UNCHANGED <<fileVars, storeVars, waitsFor, answer>>

Least(m, n) == IF m <= n THEN m ELSE n

\* What a read of the file returns: the beginning of it, without a word when the
\* rest is cut.
Contents(file) ==
  [size |-> Least(file.size, MaxFile), last |-> file.within,
   done |-> file.done /\ file.size <= MaxFile]

Outcome(body, now) ==
  IF body.done THEN "ok"
  ELSE IF now <= body.last + StaleAfter THEN "running" ELSE "stale"

\* Mutation: the entry's size is not recorded.
ParseAsUnsized(file, body, now) ==
  [mtime |-> file.mtime, body |-> body, outcome |-> Outcome(body, now)]

ParseAs(file, body, now) ==
  [size |-> file.size, mtime |-> file.mtime, body |-> body,
   outcome |-> Outcome(body, now)]

\* s.parsed once the bodies of `got` have been parsed.
AfterParsing(j, got) ==
  [s \in Sessions |-> IF s \in got
                     THEN ParseAs(j.listed[s], Contents(traj[s]), j.now)
                     ELSE parsed[s]]

\* Mutation: the cache is never pruned.
EvictNothing(entries, kept) == entries

\* Cache entries of files no longer listed, or past the cap, are dropped.
Evict(entries, kept) ==
  [s \in Sessions |-> IF s \in kept THEN entries[s] ELSE None]

\* Mutation: a file counted unreadable is shown all the same.
ShownAll(j, got) == j.kept

Shown(j, got) == (j.kept \ j.want) \cup got

ScanResult(j, got, gotPlain) ==
  LET entries == AfterParsing(j, got)
  IN [ok         |-> TRUE,
      now        |-> j.now,
      listed     |-> j.listed,
      plain      |-> j.plain,
      runs       |-> [s \in Sessions |-> IF s \in Shown(j, got) THEN entries[s] ELSE None],
      plainRuns  |-> {s \in gotPlain : entries[s] = None},
      unreadable |-> j.want \ got,
      skipped    |-> {s \in Sessions : j.listed[s] # None} \ j.kept]

\* The batch may lack any file, and always lacks one that has disappeared.
Fetch(c) ==
  LET j == job[c] IN
  /\ pc[c] = "fetch"
  /\ \/ /\ j.want \cup j.wantPlain # {}
        /\ job' = [job EXCEPT ![c] = FailedSnapshot(j.now)]
        /\ UNCHANGED parsed
     \/ \E got \in SUBSET {s \in j.want : traj[s] # None},
           gotPlain \in SUBSET j.wantPlain :
          /\ job' = [job EXCEPT ![c] = ScanResult(j, got, gotPlain)]
          /\ parsed' = Evict(AfterParsing(j, got), j.kept)
  /\ pc' = [pc EXCEPT ![c] = "publish"]
  /\ UNCHANGED <<fileVars, cached, cachedT, scanDone, waitsFor, answer>>

(***************************************************************************)
(* snapshot(), after the scan: publish under the lock, then close the      *)
(* channel, which releases the callers blocked on it.                      *)
(***************************************************************************)
\* Mutation: a failed scan does not replace the cached snapshot.
PublishOnlyGood(c) ==
  /\ pc[c] = "publish"
  /\ cached' = IF job[c].ok THEN job[c] ELSE cached
  /\ cachedT' = clock
  /\ scanDone' = None
  /\ answer' = [answer EXCEPT ![c] = job[c]]
  /\ job' = [job EXCEPT ![c] = None]
  /\ pc' = [pc EXCEPT ![c] = "close"]
  /\ UNCHANGED <<fileVars, parsed, waitsFor>>

Publish(c) ==
  /\ pc[c] = "publish"
  /\ cached' = job[c] /\ cachedT' = clock
  /\ scanDone' = None
  /\ answer' = [answer EXCEPT ![c] = job[c]]
  /\ job' = [job EXCEPT ![c] = None]
  /\ pc' = [pc EXCEPT ![c] = "close"]
  /\ UNCHANGED <<fileVars, parsed, waitsFor>>

\* Mutation: the channel is never closed.
CloseNothing(c) ==
  /\ pc[c] = "close"
  /\ pc' = [pc EXCEPT ![c] = "idle"]
  /\ UNCHANGED <<fileVars, storeVars, waitsFor, job, answer>>

Close(c) ==
  /\ pc[c] = "close"
  /\ pc' = [d \in Callers |-> IF d = c THEN "idle"
                              ELSE IF waitsFor[d] = c THEN "woken" ELSE pc[d]]
  /\ waitsFor' = [d \in Callers |-> IF waitsFor[d] = c THEN None ELSE waitsFor[d]]
  /\ UNCHANGED <<fileVars, storeVars, job, answer>>

Woken(c) ==
  /\ pc[c] = "woken"
  /\ answer' = [answer EXCEPT ![c] = cached]
  /\ pc' = [pc EXCEPT ![c] = "idle"]
  /\ UNCHANGED <<fileVars, storeVars, waitsFor, job>>

Init ==
  /\ traj = [s \in Sessions |-> None] /\ removed = {} /\ transcripts = {} /\ clock = 0
  /\ cached = None /\ cachedT = 0 /\ scanDone = None
  /\ parsed = [s \in Sessions |-> None]
  /\ pc = [c \in Callers |-> "idle"]
  /\ waitsFor = [c \in Callers |-> None]
  /\ job = [c \in Callers |-> None]
  /\ answer = [c \in Callers |-> None]

Environment ==
  Tick \/ \E s \in Sessions : Append(s) \/ Remove(s) \/ WriteTranscript(s)

Call(c)   == ServeFresh(c) \/ ServeLast(c) \/ Wait(c) \/ StartScan(c)
Proceed(c) == Index(c) \/ Fetch(c) \/ Publish(c) \/ Close(c) \/ Woken(c)

Next == Environment \/ \E c \in Callers : Call(c) \/ Proceed(c)

Spec == Init /\ [][Next]_vars

(***************************************************************************)
(* A caller inside snapshot() keeps running: scanTimeout ends both round   *)
(* trips, and nothing else blocks but the wait for another caller.         *)
(***************************************************************************)
FairSpec == Spec /\ \A c \in Callers : WF_vars(Proceed(c))

-------------------------------------------------------------------------------
(***************************************************************************)
(* Properties                                                              *)
(***************************************************************************)
Shows(snap) == snap # None /\ snap.ok

ShownIn(snap) == {s \in Sessions : snap.runs[s] # None}

ListedIn(snap) == {s \in Sessions : snap.listed[s] # None}

\* Types of every variable of the store, the file system and the callers.
TypeOK ==
  /\ traj \in [Sessions -> File \cup {None}]
  /\ removed \subseteq Sessions /\ transcripts \subseteq Sessions
  /\ clock \in Nat /\ cachedT \in Nat
  /\ cached \in Snapshot \cup {None}
  /\ scanDone \in Callers \cup {None}
  /\ parsed \in [Sessions -> Parsed \cup {None}]
  /\ pc \in [Callers -> Scanning \cup {"idle", "wait", "close", "woken"}]
  /\ waitsFor \in [Callers -> Callers \cup {None}]
  /\ job \in [Callers -> Listing \cup Snapshot \cup {None}]
  /\ \A c \in Callers : /\ pc[c] = "fetch" => job[c] \in Listing
                        /\ pc[c] = "publish" => job[c] \in Snapshot
  /\ answer \in [Callers -> Snapshot \cup {None}]

\* Single flight: the caller whose channel s.scanDone holds is the only one
\* between the two critical sections of snapshot(), which is why scan() may use
\* s.parsed without the lock (the comment at store.go:159).
SoleScanner == \A c \in Callers : pc[c] \in Scanning <=> scanDone = c

\* No lost wake-up and no nil answer: a caller blocked on a channel waits for a
\* caller that has yet to close it, and a caller released by a close finds a
\* published snapshot to return (store.go:147-152).
WaitersReleased ==
  \A c \in Callers :
    /\ pc[c] = "wait" => /\ waitsFor[c] # None
                         /\ pc[waitsFor[c]] \in Scanning \cup {"close"}
    /\ pc[c] = "woken" => cached # None

\* A published snapshot never shows a trajectory as it was before the listing it
\* was built from: the cache is only used for files the listing shows unchanged,
\* though a file may grow between the listing and the read.  Of a file over the
\* limit it shows the beginning, as many events as a read returns; nothing tells
\* the reader (source.go:383), and no property here says it does.
NoStaleContent ==
  Shows(cached) =>
    \A s \in ShownIn(cached) :
      cached.runs[s].body.size >= Least(cached.listed[s].size, MaxFile)

\* Every trajectory listed is shown, counted unreadable or counted skipped, and
\* only one of the three: the integrity counters add up (store.go:226, 295).
TrajectoriesAccounted ==
  Shows(cached) =>
    /\ ShownIn(cached) \cup cached.unreadable \cup cached.skipped = ListedIn(cached)
    /\ ShownIn(cached) \cap (cached.unreadable \cup cached.skipped) = {}
    /\ cached.unreadable \cap cached.skipped = {}

\* The cache of parsed files never outgrows the cap of one agent, whatever comes
\* and goes on disk (store.go:343-349).
ParsedBounded == Cardinality({s \in Sessions : parsed[s] # None}) <= MaxSessionsPerAgent

\* From one published snapshot to the next no session goes back in time.
RunsNeverRegress ==
  [][Shows(cached) /\ Shows(cached)' =>
       \A s \in ShownIn(cached) \cap ShownIn(cached') :
         cached'.runs[s].body.size >= cached.runs[s].body.size]_cached

\* A caller that blocks behind the first load is answered in the end.
WaitersReturn == \A c \in Callers : pc[c] = "wait" ~> pc[c] = "idle"

\* snapshot() keeps the promise of SnapshotService.
Service == INSTANCE SnapshotService WITH refresher <- scanDone, published <- cached
ImplementsService == Service!Spec

\* What trajectory.go:31 says of staleAfter: "marks an unfinished run with no event
\* for this long as stale", at the time of the scan that shows it.
StaleIsMarked ==
  Shows(cached) =>
    \A s \in ShownIn(cached) :
      LET r == cached.runs[s] IN
      ~r.body.done /\ cached.now > r.body.last + StaleAfter => r.outcome = "stale"
==============================================================================
