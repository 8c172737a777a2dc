-------------------------- MODULE SessionStoreProofs --------------------------
(***************************************************************************)
(* Theorems about SessionStore, for any sets of callers and sessions and   *)
(* any bounds.  The invariant is proved in layers, each using those  *)
(* below it: the types; the single flight and its wake-ups; the content of *)
(* what is cached and published.  The counters stand on the content.       *)
(***************************************************************************)
EXTENDS SessionStore, FiniteSetTheorems, TLAPS

(***************************************************************************)
(* Types                                                                   *)
(***************************************************************************)
WantListed ==
  \A c \in Callers : pc[c] = "fetch" => \A s \in job[c].want : job[c].listed[s] # None

TypeInv == TypeOK /\ WantListed

LEMMA ContentsType ==
  ASSUME NEW file \in File PROVE Contents(file) \in Body
<1>1. Least(file.size, MaxFile) \in 0..MaxFile
  BY StoreAssumption DEF Least, File
<1>2. file.within \in Nat /\ (file.done /\ file.size <= MaxFile) \in BOOLEAN
  BY DEF File
<1> QED BY <1>1, <1>2 DEF Contents, Body

LEMMA ParseAsType ==
  ASSUME NEW file \in File, NEW body \in Body, NEW now
  PROVE  ParseAs(file, body, now) \in Parsed
BY DEF ParseAs, Outcome, Parsed, File

\* A read of a file that has not shrunk shows no less of it.
LEMMA LeastGrows ==
  ASSUME NEW m \in Nat, NEW n \in Nat, m <= n
  PROVE  Least(n, MaxFile) >= Least(m, MaxFile)
BY StoreAssumption DEF Least

LEMMA AfterParsingType ==
  ASSUME TypeOK, NEW j \in Listing, NEW got,
         \A s \in got : j.listed[s] # None /\ traj[s] # None
  PROVE  AfterParsing(j, got) \in [Sessions -> Parsed \cup {None}]
<1>1. j.listed \in [Sessions -> File \cup {None}] /\ traj \in [Sessions -> File \cup {None}]
  BY DEF Listing, TypeOK
<1>2. ASSUME NEW s \in Sessions, s \in got
      PROVE  ParseAs(j.listed[s], Contents(traj[s]), j.now) \in Parsed
  BY <1>1, <1>2, ParseAsType, ContentsType
<1>3. parsed \in [Sessions -> Parsed \cup {None}]
  BY DEF TypeOK
<1> QED BY <1>2, <1>3 DEF AfterParsing

LEMMA SnapshotType ==
  ASSUME NEW now \in Nat, NEW listed \in [Sessions -> File \cup {None}],
         NEW plain \in SUBSET Sessions, NEW runs \in [Sessions -> Parsed \cup {None}],
         NEW plainRuns \in SUBSET Sessions, NEW unreadable \in SUBSET Sessions,
         NEW skipped \in SUBSET Sessions
  PROVE  [ok |-> TRUE, now |-> now, listed |-> listed, plain |-> plain, runs |-> runs,
          plainRuns |-> plainRuns, unreadable |-> unreadable, skipped |-> skipped]
           \in Snapshot
BY DEF Snapshot

LEMMA ScanResultType ==
  ASSUME TypeOK, NEW j \in Listing, NEW got \in SUBSET Sessions,
         NEW gotPlain \in SUBSET j.wantPlain,
         \A s \in got : j.listed[s] # None /\ traj[s] # None
  PROVE  ScanResult(j, got, gotPlain) \in Snapshot
<1> DEFINE entries == AfterParsing(j, got)
<1>1. entries \in [Sessions -> Parsed \cup {None}]
  BY AfterParsingType
<1>2. [s \in Sessions |-> IF s \in Shown(j, got) THEN entries[s] ELSE None]
        \in [Sessions -> Parsed \cup {None}]
  BY <1>1
<1>3. {s \in gotPlain : entries[s] = None} \in SUBSET Sessions
  BY DEF Listing
<1>4. /\ j.want \ got \in SUBSET Sessions /\ j.now \in Nat /\ j.plain \in SUBSET Sessions
      /\ {s \in Sessions : j.listed[s] # None} \ j.kept \in SUBSET Sessions
      /\ j.listed \in [Sessions -> File \cup {None}]
  BY DEF Listing
<1> QED BY <1>2, <1>3, <1>4, SnapshotType DEF ScanResult, entries

LEMMA FailedSnapshotType ==
  ASSUME NEW now \in Nat PROVE FailedSnapshot(now) \in Snapshot
BY DEF FailedSnapshot, Snapshot

LEMMA TypeStep == TypeInv /\ [Next]_vars => TypeInv'
<1> SUFFICES ASSUME TypeInv, [Next]_vars PROVE TypeInv'
  OBVIOUS
<1> USE StoreAssumption DEF TypeInv
<1>1. ASSUME NEW s \in Sessions, Append(s) PROVE TypeInv'
  <2>1. traj' \in [Sessions -> File \cup {None}]
    <3> DEFINE n == IF traj[s] = None THEN 1 ELSE traj[s].size + 1
               w == IF n <= MaxFile THEN clock ELSE traj[s].within
    <3>1. n \in Nat /\ clock \in Nat
      BY DEF TypeOK, File
    <3>2. w \in Nat
      BY <3>1 DEF TypeOK, File
    <3>3. ASSUME NEW done \in BOOLEAN
          PROVE [size |-> n, mtime |-> clock, within |-> w, done |-> done] \in File
      BY <3>1, <3>2 DEF File
    <3>4. \E done \in BOOLEAN :
            traj' = [traj EXCEPT ![s] =
                       [size |-> n, mtime |-> clock, within |-> w, done |-> done]]
      BY <1>1 DEF Append
    <3> QED BY <3>3, <3>4 DEF TypeOK
  <2> QED BY <1>1, <2>1 DEF Append, TypeOK, WantListed, storeVars, callVars
<1>2. ASSUME NEW s \in Sessions, Remove(s) PROVE TypeInv'
  BY <1>2 DEF Remove, TypeOK, WantListed, storeVars, callVars
<1>3. ASSUME NEW s \in Sessions, WriteTranscript(s) PROVE TypeInv'
  BY <1>3 DEF WriteTranscript, TypeOK, WantListed, storeVars, callVars
<1>4. ASSUME Tick PROVE TypeInv'
  BY <1>4 DEF Tick, TypeOK, WantListed, storeVars, callVars
<1>5. ASSUME NEW c \in Callers, ServeFresh(c) \/ ServeLast(c) PROVE TypeInv'
  BY <1>5 DEF ServeFresh, ServeLast, TypeOK, WantListed, fileVars, storeVars
<1>6. ASSUME NEW c \in Callers, Wait(c) \/ StartScan(c) PROVE TypeInv'
  BY <1>6 DEF Wait, StartScan, TypeOK, WantListed, fileVars, storeVars, Scanning
<1>7. ASSUME NEW c \in Callers, Index(c) PROVE TypeInv'
  <2>1. CASE job' = [job EXCEPT ![c] = FailedSnapshot(clock)] /\ pc' = [pc EXCEPT ![c] = "publish"]
    <3>1. FailedSnapshot(clock) \in Snapshot
      BY FailedSnapshotType DEF TypeOK
    <3> QED BY <1>7, <2>1, <3>1 DEF Index, TypeOK, WantListed, fileVars, storeVars, Scanning
  <2>2. CASE \E K \in Kept(traj) :
               /\ job' = [job EXCEPT ![c] =
                    [now |-> clock, listed |-> traj, plain |-> transcripts, kept |-> K,
                     want |-> {s \in K : ~Identical(parsed[s], traj[s])},
                     wantPlain |-> {s \in transcripts : traj[s] = None \/ parsed[s] = None}]]
               /\ pc' = [pc EXCEPT ![c] = "fetch"]
    <3>1. PICK K \in Kept(traj) :
            /\ job' = [job EXCEPT ![c] =
                 [now |-> clock, listed |-> traj, plain |-> transcripts, kept |-> K,
                  want |-> {s \in K : ~Identical(parsed[s], traj[s])},
                  wantPlain |-> {s \in transcripts : traj[s] = None \/ parsed[s] = None}]]
            /\ pc' = [pc EXCEPT ![c] = "fetch"]
      BY <2>2
    <3>2. K \subseteq Sessions /\ \A s \in K : traj[s] # None
      BY DEF Kept
    <3>3. job'[c] \in Listing /\ \A s \in job'[c].want : job'[c].listed[s] # None
      BY <3>1, <3>2 DEF TypeOK, Listing
    <3>4. \A d \in Callers \ {c} : job'[d] = job[d] /\ pc'[d] = pc[d]
      BY <3>1 DEF TypeOK
    <3>5. /\ pc' \in [Callers -> Scanning \cup {"idle", "wait", "close", "woken"}]
          /\ pc'[c] = "fetch" /\ job' \in [Callers -> Listing \cup Snapshot \cup {None}]
      BY <3>1, <3>3 DEF TypeOK, Scanning
    <3> QED BY <1>7, <3>3, <3>4, <3>5 DEF Index, TypeOK, WantListed, fileVars, storeVars
  <2> QED BY <1>7, <2>1, <2>2 DEF Index
<1>8. ASSUME NEW c \in Callers, Fetch(c) PROVE TypeInv'
  <2> DEFINE j == job[c]
  <2>1. j \in Listing /\ j.now \in Nat /\ j.want \in SUBSET Sessions
    BY <1>8 DEF Fetch, TypeOK, Listing
  <2>2. job'[c] \in Snapshot /\ parsed' \in [Sessions -> Parsed \cup {None}]
    <3>1. CASE job' = [job EXCEPT ![c] = FailedSnapshot(j.now)] /\ UNCHANGED parsed
      BY <3>1, <2>1, FailedSnapshotType DEF TypeOK
    <3>2. ASSUME NEW got \in SUBSET {s \in j.want : traj[s] # None},
                 NEW gotPlain \in SUBSET j.wantPlain,
                 job' = [job EXCEPT ![c] = ScanResult(j, got, gotPlain)],
                 parsed' = Evict(AfterParsing(j, got), j.kept)
          PROVE  job'[c] \in Snapshot /\ parsed' \in [Sessions -> Parsed \cup {None}]
      <4>1. \A s \in got : j.listed[s] # None /\ traj[s] # None
        BY <1>8 DEF Fetch, WantListed
      <4>2. got \in SUBSET Sessions
        BY <2>1
      <4>3. AfterParsing(j, got) \in [Sessions -> Parsed \cup {None}]
        BY <2>1, <4>1, AfterParsingType
      <4>4. ScanResult(j, got, gotPlain) \in Snapshot
        BY <2>1, <4>1, <4>2, ScanResultType
      <4> QED BY <3>2, <4>3, <4>4 DEF Evict, TypeOK
    <3> QED BY <1>8, <3>1, <3>2 DEF Fetch
  <2>3. /\ pc' = [pc EXCEPT ![c] = "publish"] /\ job' = [job EXCEPT ![c] = job'[c]]
        /\ UNCHANGED <<fileVars, cached, cachedT, scanDone, waitsFor, answer>>
    <3>1. \E x : job' = [job EXCEPT ![c] = x]
      BY <1>8 DEF Fetch
    <3> QED BY <1>8, <3>1 DEF Fetch, TypeOK
  <2> QED BY <2>2, <2>3 DEF TypeOK, WantListed, fileVars, Scanning
<1>9. ASSUME NEW c \in Callers, Publish(c) PROVE TypeInv'
  BY <1>9 DEF Publish, TypeOK, WantListed, fileVars, Scanning
<1>10. ASSUME NEW c \in Callers, Close(c) PROVE TypeInv'
  BY <1>10 DEF Close, TypeOK, WantListed, fileVars, storeVars, Scanning
<1>11. ASSUME NEW c \in Callers, Woken(c) PROVE TypeInv'
  BY <1>11 DEF Woken, TypeOK, WantListed, fileVars, storeVars, Scanning
<1>12. CASE UNCHANGED vars
  BY <1>12 DEF vars, TypeOK, WantListed, fileVars, storeVars, callVars
<1> QED
  BY <1>1, <1>2, <1>3, <1>4, <1>5, <1>6, <1>7, <1>8, <1>9, <1>10, <1>11, <1>12
  DEF Next, Environment, Call, Proceed

\* Every variable keeps its type (store.go:92-110), whatever the agent writes and
\* whoever calls.
THEOREM TypeCorrect == Spec => []TypeOK
<1>1. Init => TypeInv
  BY StoreAssumption DEF Init, TypeInv, TypeOK, WantListed, Scanning
<1>2. Spec => []TypeInv
  BY <1>1, TypeStep, PTL DEF Spec
<1> QED BY <1>2, PTL DEF TypeInv

(***************************************************************************)
(* Single flight.  A caller has a channel to wait on only while it waits,  *)
(* and whoever is about to close a channel has published a snapshot: that  *)
(* is what makes the wake-up safe.                                         *)
(***************************************************************************)
ChannelInv ==
  \A c \in Callers : /\ pc[c] # "wait" => waitsFor[c] = None
                     /\ pc[c] = "close" => cached # None

FlightInv == SoleScanner /\ WaitersReleased /\ ChannelInv

LEMMA FlightInit == Init => FlightInv
BY StoreAssumption DEF Init, FlightInv, SoleScanner, WaitersReleased, ChannelInv, Scanning

LEMMA FlightStep == TypeInv /\ TypeInv' /\ FlightInv /\ [Next]_vars => FlightInv'
<1> SUFFICES ASSUME TypeOK, TypeOK', FlightInv, [Next]_vars PROVE FlightInv'
  BY DEF TypeInv
<1> USE StoreAssumption DEF FlightInv, SoleScanner, WaitersReleased, ChannelInv, Scanning
<1>0. /\ pc \in [Callers -> Scanning \cup {"idle", "wait", "close", "woken"}]
      /\ waitsFor \in [Callers -> Callers \cup {None}]
      /\ scanDone \in Callers \cup {None}
      /\ \A c \in Callers : pc[c] = "publish" => job[c] # None
  BY DEF TypeOK
<1>1. CASE Environment \/ UNCHANGED vars
  BY <1>1 DEF Environment, Append, Remove, WriteTranscript, Tick, vars, storeVars, callVars
<1>2. ASSUME NEW c \in Callers, ServeFresh(c) \/ ServeLast(c) PROVE FlightInv'
  BY <1>2 DEF ServeFresh, ServeLast, storeVars
<1>3. ASSUME NEW c \in Callers, Wait(c) PROVE FlightInv'
  BY <1>0, <1>3 DEF Wait, storeVars
<1>4. ASSUME NEW c \in Callers, StartScan(c) PROVE FlightInv'
  BY <1>0, <1>4 DEF StartScan
<1>5. ASSUME NEW c \in Callers, Index(c) PROVE FlightInv'
  <2>1. pc[c] = "index" /\ \E x \in {"fetch", "publish"} : pc' = [pc EXCEPT ![c] = x]
    BY <1>5 DEF Index
  <2> QED BY <1>0, <1>5, <2>1 DEF Index, storeVars
<1>6. ASSUME NEW c \in Callers, Fetch(c) PROVE FlightInv'
  <2>1. /\ pc[c] = "fetch" /\ pc' = [pc EXCEPT ![c] = "publish"]
        /\ UNCHANGED <<cached, scanDone, waitsFor>>
    BY <1>6 DEF Fetch
  <2> QED BY <1>0, <2>1
<1>7. ASSUME NEW c \in Callers, Publish(c) PROVE FlightInv'
  BY <1>0, <1>7 DEF Publish
<1>8. ASSUME NEW c \in Callers, Close(c) PROVE FlightInv'
  <2>1. /\ pc[c] = "close" /\ waitsFor[c] = None /\ cached # None
        /\ \A d \in Callers : /\ pc'[d] = IF d = c THEN "idle"
                                          ELSE IF waitsFor[d] = c THEN "woken" ELSE pc[d]
                              /\ waitsFor'[d] = IF waitsFor[d] = c THEN None ELSE waitsFor[d]
        /\ cached' = cached /\ scanDone' = scanDone
    BY <1>8 DEF Close, storeVars
  <2>2. SoleScanner'
    BY <1>0, <2>1
  <2>3. WaitersReleased'
    BY <1>0, <2>1
  <2>4. ChannelInv'
    BY <1>0, <2>1
  <2> QED BY <2>2, <2>3, <2>4
<1>9. ASSUME NEW c \in Callers, Woken(c) PROVE FlightInv'
  BY <1>0, <1>9 DEF Woken, storeVars
<1> QED
  BY <1>1, <1>2, <1>3, <1>4, <1>5, <1>6, <1>7, <1>8, <1>9 DEF Next, Call, Proceed

\* For any number of callers, at most one scan runs: s.parsed has one accessor
\* though the lock is not held (store.go:154-162).
THEOREM ScanIsExclusive == Spec => []SoleScanner
<1>1. Init => TypeInv /\ FlightInv
  BY FlightInit, StoreAssumption DEF Init, TypeInv, TypeOK, WantListed, Scanning
<1>2. Spec => [](TypeInv /\ FlightInv)
  BY <1>1, TypeStep, FlightStep, PTL DEF Spec
<1> QED BY <1>2, PTL DEF FlightInv

\* A caller never waits on a channel that nobody will close, and is never handed a
\* nil snapshot when released (store.go:140-152, 164-168).
THEOREM NoLostWakeup == Spec => []WaitersReleased
<1>1. Init => TypeInv /\ FlightInv
  BY FlightInit, StoreAssumption DEF Init, TypeInv, TypeOK, WantListed, Scanning
<1>2. Spec => [](TypeInv /\ FlightInv)
  BY <1>1, TypeStep, FlightStep, PTL DEF Spec
<1> QED BY <1>2, PTL DEF FlightInv

(***************************************************************************)
(* The store implements SnapshotService.                                   *)
(***************************************************************************)
LEMMA ServiceStep ==
  TypeInv /\ FlightInv /\ [Next]_vars => [Service!Next]_(Service!vars)
<1> SUFFICES ASSUME TypeOK, FlightInv, [Next]_vars PROVE [Service!Next]_(Service!vars)
  BY DEF TypeInv
<1> USE StoreAssumption DEF Service!vars
<1>1. CASE Environment \/ UNCHANGED vars
  BY <1>1 DEF Environment, Append, Remove, WriteTranscript, Tick, vars, storeVars, callVars
<1>2. ASSUME NEW c \in Callers, ServeFresh(c) \/ ServeLast(c) \/ Woken(c)
      PROVE  Service!Serve(c)
  BY <1>2 DEF ServeFresh, ServeLast, Woken, Fresh, storeVars, Service!Serve,
              FlightInv, WaitersReleased
<1>3. ASSUME NEW c \in Callers, StartScan(c) PROVE Service!Begin(c)
  BY <1>3 DEF StartScan, Service!Begin
<1>4. ASSUME NEW c \in Callers, Publish(c) PROVE Service!Publish(c)
  BY <1>4 DEF Publish, Service!Publish, TypeOK, FlightInv, SoleScanner, Scanning
<1>5. ASSUME NEW c \in Callers, Wait(c) \/ Index(c) \/ Fetch(c) \/ Close(c)
      PROVE  UNCHANGED Service!vars
  BY <1>5 DEF Wait, Index, Fetch, Close, storeVars
<1> QED
  BY <1>1, <1>2, <1>3, <1>4, <1>5 DEF Next, Call, Proceed, Service!Next

\* snapshot(), with its lock, channel and unlocked scan, implements the three-action
\* service its callers rely on (store.go:132-170).
THEOREM StoreImplementsService == Spec => ImplementsService
<1>1. Init => TypeInv /\ FlightInv /\ Service!Init
  BY FlightInit, StoreAssumption
  DEF Init, TypeInv, TypeOK, WantListed, Scanning, Service!Init
<1>2. QED
  BY <1>1, TypeStep, FlightStep, ServiceStep, PTL DEF Spec, ImplementsService, Service!Spec

\* An append leaves a longer file, and the others as they are.
LEMMA AppendGrows ==
  ASSUME TypeOK, TypeOK', NEW s \in Sessions, Append(s)
  PROVE  /\ \A t \in Sessions \ {s} : traj'[t] = traj[t]
         /\ traj'[s] # None /\ (traj[s] # None => traj'[s].size >= traj[s].size)
<1> DEFINE n == IF traj[s] = None THEN 1 ELSE traj[s].size + 1
           w == IF n <= MaxFile THEN clock ELSE traj[s].within
<1>1. PICK d \in BOOLEAN :
        traj' = [traj EXCEPT ![s] = [size |-> n, mtime |-> clock, within |-> w, done |-> d]]
  BY DEF Append
<1>2. traj'[s] = [size |-> n, mtime |-> clock, within |-> w, done |-> d]
  BY <1>1 DEF TypeOK
<1>3. traj[s] # None => traj[s].size \in Nat
  BY DEF TypeOK, File
<1>4. n \in Nat /\ clock \in Nat /\ w \in Nat
  BY <1>3, StoreAssumption DEF TypeOK, File
<1>5. traj'[s] # None
  BY <1>2, <1>4, StoreAssumption DEF File
<1> QED BY <1>1, <1>2, <1>3, <1>5 DEF TypeOK

(***************************************************************************)
(* Content.  A file only grows, and once deleted it never comes back, so   *)
(* what a scan reads is at least what it listed; and no other scan touches *)
(* the cache between the two, so the entries the scan decided to reuse are *)
(* still those of the files it listed.                                     *)
(***************************************************************************)
RemovedInv == \A s \in removed : traj[s] = None

EntryInv ==
  \A s \in Sessions : parsed[s] # None =>
    parsed[s].body.size >= Least(parsed[s].size, MaxFile)

ReuseInv ==
  \A c \in Callers : pc[c] = "fetch" =>
    \A s \in job[c].kept \ job[c].want : Identical(parsed[s], job[c].listed[s])

GrowthInv ==
  \A c \in Callers : pc[c] = "fetch" =>
    \A s \in Sessions : job[c].listed[s] # None =>
      s \in removed \/ (traj[s] # None /\ traj[s].size >= job[c].listed[s].size)

NotOlder(snap) ==
  snap.ok => \A s \in ShownIn(snap) :
    snap.runs[s].body.size >= Least(snap.listed[s].size, MaxFile)

ResultInv == \A c \in Callers : pc[c] = "publish" => NotOlder(job[c])

ContentInv ==
  RemovedInv /\ EntryInv /\ ReuseInv /\ GrowthInv /\ ResultInv /\ NoStaleContent

LEMMA ContentInit == Init => ContentInv
BY DEF Init, ContentInv, RemovedInv, EntryInv, ReuseInv, GrowthInv, ResultInv,
       NoStaleContent, Shows

\* What a scan stores and shows, given what it listed.
LEMMA FetchedContent ==
  ASSUME TypeOK, EntryInv, NEW j \in Listing, NEW got \in SUBSET Sessions,
         NEW gotPlain,
         got \subseteq j.want,
         \A s \in got : /\ j.listed[s] # None /\ traj[s] # None
                        /\ traj[s].size >= j.listed[s].size,
         \A s \in j.kept \ j.want : Identical(parsed[s], j.listed[s])
  PROVE  /\ \A s \in Sessions : LET e == AfterParsing(j, got)[s] IN
                                  e # None => e.body.size >= Least(e.size, MaxFile)
         /\ NotOlder(ScanResult(j, got, gotPlain))
<1> DEFINE entries == AfterParsing(j, got)
<1>0. got \subseteq Sessions /\ \A s \in got : traj[s].size \in Nat /\ j.listed[s].size \in Nat
  BY DEF TypeOK, Listing, File
<1>1. \A s \in got : /\ entries[s].body.size = Least(traj[s].size, MaxFile)
                      /\ entries[s].size = j.listed[s].size
                      /\ Least(traj[s].size, MaxFile) >= Least(j.listed[s].size, MaxFile)
  BY <1>0, LeastGrows DEF AfterParsing, ParseAs, Contents
<1>2. \A s \in Sessions \ got : entries[s] = parsed[s]
  BY DEF AfterParsing
<1>3. \A s \in Sessions : entries[s] # None =>
        entries[s].body.size >= Least(entries[s].size, MaxFile)
  BY <1>1, <1>2 DEF EntryInv
<1>4. /\ ScanResult(j, got, gotPlain).listed = j.listed
      /\ ScanResult(j, got, gotPlain).runs =
           [s \in Sessions |-> IF s \in Shown(j, got) THEN entries[s] ELSE None]
  BY DEF ScanResult
<1>5. ASSUME NEW s \in Sessions, s \in Shown(j, got), entries[s] # None
      PROVE  entries[s].size = j.listed[s].size
  BY <1>1, <1>2, <1>5 DEF Shown, Identical
<1> HIDE DEF entries
<1>6. NotOlder(ScanResult(j, got, gotPlain))
  BY <1>3, <1>4, <1>5 DEF NotOlder, ShownIn
<1> QED BY <1>3, <1>6 DEF entries

LEMMA ContentStep ==
  TypeInv /\ TypeInv' /\ FlightInv /\ ContentInv /\ [Next]_vars => ContentInv'
<1> SUFFICES ASSUME TypeInv, TypeInv', FlightInv, ContentInv, [Next]_vars
             PROVE  ContentInv'
  OBVIOUS
<1> USE StoreAssumption DEF ContentInv
<1>0. /\ TypeOK /\ TypeOK' /\ SoleScanner
      /\ pc \in [Callers -> Scanning \cup {"idle", "wait", "close", "woken"}]
  BY DEF TypeInv, TypeOK, FlightInv
<1>1. ASSUME NEW s \in Sessions, Append(s) PROVE ContentInv'
  <2>1. /\ s \notin removed /\ UNCHANGED <<removed, pc, job, parsed, cached>>
        /\ \A t \in Sessions \ {s} : traj'[t] = traj[t]
        /\ traj'[s] # None /\ (traj[s] # None => traj'[s].size >= traj[s].size)
    BY <1>0, <1>1, AppendGrows DEF Append, storeVars, callVars
  <2>2. RemovedInv'
    BY <1>0, <2>1 DEF RemovedInv, TypeOK
  <2>3. GrowthInv'
    <3> SUFFICES ASSUME NEW c \in Callers, pc[c] = "fetch", NEW t \in Sessions,
                        job[c].listed[t] # None
                 PROVE  t \in removed \/ (traj'[t] # None /\ traj'[t].size >= job[c].listed[t].size)
      BY <2>1 DEF GrowthInv
    <3>1. t \in removed \/ (traj[t] # None /\ traj[t].size >= job[c].listed[t].size)
      BY DEF GrowthInv
    <3>2. CASE t # s
      BY <2>1, <3>1, <3>2
    <3>3. CASE t = s
      <4>1. /\ traj[s] # None /\ traj[s].size >= job[c].listed[s].size
            /\ traj'[s].size >= traj[s].size
        BY <2>1, <3>1, <3>3
      <4>2. job[c].listed[s] \in File /\ traj[s] \in File /\ traj'[s] \in File
        BY <1>0, <2>1, <3>3, <4>1 DEF TypeOK, Listing
      <4> QED BY <2>1, <3>3, <4>1, <4>2 DEF File
    <3> QED BY <3>2, <3>3
  <2> QED BY <2>1, <2>2, <2>3
          DEF EntryInv, ReuseInv, Identical, ResultInv, NotOlder, ShownIn, NoStaleContent, Shows
<1>2. ASSUME NEW s \in Sessions, Remove(s) PROVE ContentInv'
  <2>1. /\ removed' = removed \cup {s} /\ traj'[s] = None
        /\ \A t \in Sessions \ {s} : traj'[t] = traj[t]
        /\ UNCHANGED <<pc, job, parsed, cached>>
    BY <1>0, <1>2 DEF Remove, TypeOK, storeVars, callVars
  <2>2. RemovedInv' /\ GrowthInv'
    BY <1>0, <2>1 DEF RemovedInv, GrowthInv, TypeOK
  <2> QED BY <2>1, <2>2
          DEF EntryInv, ReuseInv, Identical, ResultInv, NotOlder, ShownIn, NoStaleContent, Shows
<1>3. ASSUME \/ Tick \/ UNCHANGED vars \/ \E s \in Sessions : WriteTranscript(s)
             \/ \E c \in Callers : ServeFresh(c) \/ ServeLast(c)
      PROVE  ContentInv'
  <2>1. UNCHANGED <<traj, removed, pc, job, parsed, cached>>
    BY <1>3 DEF Tick, vars, WriteTranscript, ServeFresh, ServeLast,
                fileVars, storeVars, callVars
  <2> QED BY <2>1 DEF RemovedInv, GrowthInv, EntryInv, ReuseInv, Identical, ResultInv,
                      NotOlder, ShownIn, NoStaleContent, Shows
<1>4. ASSUME NEW c \in Callers, Wait(c) \/ StartScan(c) \/ Close(c) \/ Woken(c)
      PROVE  ContentInv'
  <2>1. /\ UNCHANGED <<traj, removed, job, parsed, cached>>
        /\ \A d \in Callers : pc'[d] \in {"fetch", "publish"} => pc'[d] = pc[d]
    BY <1>0, <1>4 DEF Wait, StartScan, Close, Woken, fileVars, storeVars
  <2> QED BY <2>1 DEF RemovedInv, GrowthInv, EntryInv, ReuseInv, Identical, ResultInv,
                      NotOlder, ShownIn, NoStaleContent, Shows
<1>5. ASSUME NEW c \in Callers, Index(c) PROVE ContentInv'
  <2>1. /\ UNCHANGED <<traj, removed, parsed, cached>>
        /\ \A d \in Callers \ {c} : pc'[d] = pc[d] /\ job'[d] = job[d]
    BY <1>0, <1>5 DEF Index, TypeOK, fileVars, storeVars
  <2>2. pc'[c] = "publish" => NotOlder(job'[c])
    BY <1>0, <1>5 DEF Index, TypeOK, FailedSnapshot, NotOlder
  <2>3. ASSUME pc'[c] = "fetch"
        PROVE  /\ job'[c].listed = traj /\ job'[c].kept \subseteq Sessions
               /\ \A s \in job'[c].kept \ job'[c].want : Identical(parsed[s], traj[s])
    <3>1. PICK K \in Kept(traj) : job'[c] =
            [now |-> clock, listed |-> traj, plain |-> transcripts, kept |-> K,
             want |-> {s \in K : ~Identical(parsed[s], traj[s])},
             wantPlain |-> {s \in transcripts : traj[s] = None \/ parsed[s] = None}]
      BY <1>0, <1>5, <2>3 DEF Index, TypeOK
    <3> QED BY <3>1 DEF Kept
  <2>4. GrowthInv'
    <3>1. \A s \in Sessions : traj[s] # None => traj[s].size \in Nat
      BY <1>0 DEF TypeOK, File
    <3> QED BY <2>1, <2>3, <3>1 DEF GrowthInv
  <2>5. ReuseInv'
    BY <2>1, <2>3 DEF ReuseInv, Identical
  <2> QED BY <2>1, <2>2, <2>4, <2>5
          DEF RemovedInv, EntryInv, ResultInv, NotOlder, ShownIn, NoStaleContent, Shows
<1>6. ASSUME NEW c \in Callers, Fetch(c) PROVE ContentInv'
  <2> DEFINE j == job[c]
  <2>1. /\ pc[c] = "fetch" /\ pc'[c] = "publish" /\ j \in Listing
        /\ \A d \in Callers \ {c} : /\ pc'[d] = pc[d] /\ job'[d] = job[d]
                                    /\ pc[d] \notin Scanning
        /\ UNCHANGED <<traj, removed, cached>>
    BY <1>0, <1>6 DEF Fetch, TypeOK, SoleScanner, Scanning, fileVars
  <2>2. EntryInv' /\ NotOlder(job'[c])
    <3>1. CASE job' = [job EXCEPT ![c] = FailedSnapshot(j.now)] /\ UNCHANGED parsed
      BY <1>0, <3>1 DEF EntryInv, FailedSnapshot, NotOlder, TypeOK
    <3>2. ASSUME NEW got \in SUBSET {s \in j.want : traj[s] # None},
                 NEW gotPlain \in SUBSET j.wantPlain,
                 job' = [job EXCEPT ![c] = ScanResult(j, got, gotPlain)],
                 parsed' = Evict(AfterParsing(j, got), j.kept)
          PROVE  EntryInv' /\ NotOlder(job'[c])
      <4>1. got \in SUBSET Sessions
        BY <2>1 DEF Listing
      <4>2. \A s \in got : /\ j.listed[s] # None /\ traj[s] # None
                           /\ traj[s].size >= j.listed[s].size
        BY <2>1, <4>1 DEF TypeInv, WantListed, GrowthInv, RemovedInv
      <4>3. \A s \in j.kept \ j.want : Identical(parsed[s], j.listed[s])
        BY <2>1 DEF ReuseInv
      <4>4. /\ \A s \in Sessions : LET e == AfterParsing(j, got)[s] IN
                                     e # None => e.body.size >= Least(e.size, MaxFile)
            /\ NotOlder(ScanResult(j, got, gotPlain))
        BY <1>0, <2>1, <4>1, <4>2, <4>3, FetchedContent
      <4> QED BY <1>0, <3>2, <4>4 DEF EntryInv, Evict, TypeOK
    <3> QED BY <1>6, <3>1, <3>2 DEF Fetch
  <2>3. GrowthInv' /\ ReuseInv'
    BY <2>1 DEF GrowthInv, ReuseInv, Scanning
  <2>4. ResultInv'
    BY <2>1, <2>2 DEF ResultInv, Scanning
  <2>5. RemovedInv' /\ NoStaleContent'
    BY <2>1 DEF RemovedInv, NoStaleContent, Shows, ShownIn
  <2> QED BY <2>2, <2>3, <2>4, <2>5
<1>7. ASSUME NEW c \in Callers, Publish(c) PROVE ContentInv'
  <2>1. /\ pc[c] = "publish" /\ pc'[c] = "close" /\ cached' = job[c]
        /\ \A d \in Callers \ {c} : pc'[d] = pc[d] /\ job'[d] = job[d]
        /\ UNCHANGED <<traj, removed, parsed>>
    BY <1>0, <1>7 DEF Publish, TypeOK, fileVars
  <2>2. NoStaleContent'
    BY <2>1 DEF NoStaleContent, Shows, ShownIn, ResultInv, NotOlder
  <2> QED BY <2>1, <2>2 DEF RemovedInv, GrowthInv, EntryInv, ReuseInv, Identical, ResultInv
<1> QED
  BY <1>1, <1>2, <1>3, <1>4, <1>5, <1>6, <1>7 DEF Next, Environment, Call, Proceed

\* Whatever grows or disappears while a scan is reading, no snapshot shows a file as
\* it was before the listing the snapshot was built from (store.go:249-253, 289-306).
THEOREM SnapshotsAreCurrent == Spec => []NoStaleContent
<1>1. Init => TypeInv /\ FlightInv /\ ContentInv
  BY FlightInit, ContentInit, StoreAssumption DEF Init, TypeInv, TypeOK, WantListed, Scanning
<1>2. Spec => [](TypeInv /\ FlightInv /\ ContentInv)
  BY <1>1, TypeStep, FlightStep, ContentStep, PTL DEF Spec
<1> QED BY <1>2, PTL DEF ContentInv

(***************************************************************************)
(* Counters.  What is not read again was kept because the cache has it, so *)
(* it is shown; and what the cache holds after a scan is within the set    *)
(* the scan kept.                                                          *)
(***************************************************************************)
Accounted(snap) ==
  snap.ok => /\ ShownIn(snap) \cup snap.unreadable \cup snap.skipped = ListedIn(snap)
             /\ ShownIn(snap) \cap (snap.unreadable \cup snap.skipped) = {}
             /\ snap.unreadable \cap snap.skipped = {}

KeptInv ==
  \A c \in Callers : pc[c] = "fetch" =>
    /\ job[c].want \subseteq job[c].kept
    /\ job[c].kept \subseteq ListedIn(job[c])
    /\ Cardinality(job[c].kept) <= MaxSessionsPerAgent

CountedInv == \A c \in Callers : pc[c] = "publish" => Accounted(job[c])

CountInv == KeptInv /\ CountedInv /\ TrajectoriesAccounted /\ ParsedBounded

LEMMA CountInit == Init => CountInv
<1> SUFFICES ASSUME Init PROVE CountInv
  OBVIOUS
<1>1. {s \in Sessions : parsed[s] # None} = {}
  BY DEF Init
<1>2. ParsedBounded
  BY <1>1, FS_EmptySet, StoreAssumption DEF ParsedBounded
<1> QED BY <1>2 DEF Init, CountInv, KeptInv, CountedInv, TrajectoriesAccounted, Shows

\* What a scan counts, and what it leaves in the cache, given what it listed and kept.
LEMMA FetchedCount ==
  ASSUME TypeOK, NEW j \in Listing, NEW got \in SUBSET j.want, NEW gotPlain,
         j.want \subseteq j.kept, j.kept \subseteq ListedIn(j),
         \A s \in got : j.listed[s] # None /\ traj[s] # None,
         \A s \in j.kept \ j.want : Identical(parsed[s], j.listed[s])
  PROVE  /\ Accounted(ScanResult(j, got, gotPlain))
         /\ {s \in Sessions : Evict(AfterParsing(j, got), j.kept)[s] # None} \subseteq j.kept
<1> DEFINE entries == AfterParsing(j, got)
           snap    == ScanResult(j, got, gotPlain)
<1>1. got \subseteq Sessions /\ j.kept \subseteq Sessions
  BY DEF Listing
<1>2. \A s \in got : entries[s] # None
  <2> SUFFICES ASSUME NEW s \in got PROVE entries[s] # None
    OBVIOUS
  <2>1. j.listed[s] \in File /\ traj[s] \in File
    BY <1>1 DEF Listing, TypeOK
  <2>2. entries[s] \in Parsed
    BY <1>1, <2>1, ParseAsType, ContentsType DEF AfterParsing
  <2> QED BY <2>2, StoreAssumption
<1>3. \A s \in (j.kept \ j.want) \ got : entries[s] # None
  BY <1>1 DEF AfterParsing, Identical
<1>4. /\ snap.listed = j.listed /\ snap.unreadable = j.want \ got
      /\ snap.skipped = ListedIn(j) \ j.kept
      /\ \A s \in Sessions : snap.runs[s] = IF s \in Shown(j, got) THEN entries[s] ELSE None
  BY DEF ScanResult, ListedIn
<1> HIDE DEF entries, snap
<1>5. ShownIn(snap) = (j.kept \ j.want) \cup got
  BY <1>1, <1>2, <1>3, <1>4 DEF ShownIn, Shown
<1>6. ListedIn(snap) = ListedIn(j)
  BY <1>4 DEF ListedIn
<1>7. Accounted(snap)
  BY <1>4, <1>5, <1>6 DEF Accounted
<1>8. {s \in Sessions : Evict(entries, j.kept)[s] # None} \subseteq j.kept
  BY DEF Evict
<1> QED BY <1>7, <1>8 DEF snap, entries

LEMMA CountStep ==
  TypeInv /\ TypeInv' /\ FlightInv /\ ContentInv /\ CountInv /\ [Next]_vars => CountInv'
<1> SUFFICES ASSUME TypeInv, TypeInv', FlightInv, ContentInv, CountInv, [Next]_vars
             PROVE  CountInv'
  OBVIOUS
<1> USE StoreAssumption DEF CountInv
<1>0. /\ TypeOK /\ TypeOK' /\ SoleScanner
      /\ pc \in [Callers -> Scanning \cup {"idle", "wait", "close", "woken"}]
  BY DEF TypeInv, TypeOK, FlightInv
<1>1. CASE UNCHANGED <<pc, job, parsed, cached>>
  BY <1>1 DEF KeptInv, CountedInv, Accounted, ShownIn, ListedIn,
              TrajectoriesAccounted, Shows, ParsedBounded
<1>2. CASE Environment \/ UNCHANGED vars \/ (\E c \in Callers : ServeFresh(c) \/ ServeLast(c))
  <2>1. UNCHANGED <<pc, job, parsed, cached>>
    BY <1>2 DEF Environment, Append, Remove, Tick, vars, WriteTranscript,
                ServeFresh, ServeLast, storeVars, callVars
  <2> QED BY <1>1, <2>1
<1>3. ASSUME NEW c \in Callers, Wait(c) \/ StartScan(c) \/ Close(c) \/ Woken(c)
      PROVE  CountInv'
  <2>1. /\ UNCHANGED <<job, parsed, cached>>
        /\ \A d \in Callers : pc'[d] \in {"fetch", "publish"} => pc'[d] = pc[d]
    BY <1>0, <1>3 DEF Wait, StartScan, Close, Woken, storeVars
  <2> QED BY <2>1 DEF KeptInv, CountedInv, Accounted, ShownIn, ListedIn,
                      TrajectoriesAccounted, Shows, ParsedBounded
<1>4. ASSUME NEW c \in Callers, Index(c) PROVE CountInv'
  <2>1. /\ UNCHANGED <<parsed, cached>>
        /\ \A d \in Callers \ {c} : pc'[d] = pc[d] /\ job'[d] = job[d]
    BY <1>0, <1>4 DEF Index, TypeOK, storeVars
  <2>2. pc'[c] = "publish" => Accounted(job'[c])
    BY <1>0, <1>4 DEF Index, TypeOK, FailedSnapshot, Accounted
  <2>3. ASSUME pc'[c] = "fetch"
        PROVE  /\ job'[c].want \subseteq job'[c].kept
               /\ job'[c].kept \subseteq ListedIn(job'[c])
               /\ Cardinality(job'[c].kept) <= MaxSessionsPerAgent
    <3>1. PICK K \in Kept(traj) : job'[c] =
            [now |-> clock, listed |-> traj, plain |-> transcripts, kept |-> K,
             want |-> {s \in K : ~Identical(parsed[s], traj[s])},
             wantPlain |-> {s \in transcripts : traj[s] = None \/ parsed[s] = None}]
      BY <1>0, <1>4, <2>3 DEF Index, TypeOK
    <3> QED BY <3>1 DEF Kept, ListedIn
  <2>4. KeptInv'
    BY <2>1, <2>3 DEF KeptInv, ListedIn
  <2>5. CountedInv'
    BY <2>1, <2>2 DEF CountedInv, Accounted, ShownIn, ListedIn
  <2> QED BY <2>1, <2>4, <2>5
          DEF TrajectoriesAccounted, Shows, ShownIn, ListedIn, ParsedBounded
<1>5. ASSUME NEW c \in Callers, Fetch(c) PROVE CountInv'
  <2> DEFINE j == job[c]
  <2>1. /\ pc[c] = "fetch" /\ pc'[c] = "publish" /\ j \in Listing
        /\ \A d \in Callers \ {c} : /\ pc'[d] = pc[d] /\ job'[d] = job[d]
                                    /\ pc[d] \notin Scanning
        /\ cached' = cached
    BY <1>0, <1>5 DEF Fetch, TypeOK, SoleScanner, Scanning
  <2>2. /\ j.want \subseteq j.kept /\ j.kept \subseteq ListedIn(j)
        /\ Cardinality(j.kept) <= MaxSessionsPerAgent /\ IsFiniteSet(j.kept)
    BY <2>1, FS_Subset DEF KeptInv, Listing
  <2>3. Accounted(job'[c]) /\ ParsedBounded'
    <3>1. CASE job' = [job EXCEPT ![c] = FailedSnapshot(j.now)] /\ UNCHANGED parsed
      BY <1>0, <3>1 DEF Accounted, FailedSnapshot, ParsedBounded, TypeOK
    <3>2. ASSUME NEW got \in SUBSET {s \in j.want : traj[s] # None},
                 NEW gotPlain \in SUBSET j.wantPlain,
                 job' = [job EXCEPT ![c] = ScanResult(j, got, gotPlain)],
                 parsed' = Evict(AfterParsing(j, got), j.kept)
          PROVE  Accounted(job'[c]) /\ ParsedBounded'
      <4>1. \A s \in got : j.listed[s] # None /\ traj[s] # None
        BY <2>1 DEF TypeInv, WantListed
      <4>2. \A s \in j.kept \ j.want : Identical(parsed[s], j.listed[s])
        BY <2>1 DEF ContentInv, ReuseInv
      <4>3. /\ Accounted(ScanResult(j, got, gotPlain))
            /\ {s \in Sessions : Evict(AfterParsing(j, got), j.kept)[s] # None} \subseteq j.kept
        BY <1>0, <2>1, <2>2, <4>1, <4>2, FetchedCount
      <4>4. Accounted(job'[c])
        BY <1>0, <3>2, <4>3 DEF TypeOK
      <4> DEFINE held == {s \in Sessions : parsed'[s] # None}
      <4>5. held \subseteq j.kept
        BY <3>2, <4>3
      <4>6. /\ IsFiniteSet(held) /\ Cardinality(held) <= Cardinality(j.kept)
        BY <2>2, <4>5, FS_Subset
      <4>7. Cardinality(held) \in Nat /\ Cardinality(j.kept) \in Nat
        BY <2>2, <4>6, FS_CardinalityType
      <4>8. Cardinality(held) <= MaxSessionsPerAgent
        <5> HIDE DEF held, j
        <5> QED BY <2>2, <4>6, <4>7
      <4> QED BY <4>4, <4>8 DEF ParsedBounded
    <3> QED BY <1>5, <3>1, <3>2 DEF Fetch
  <2>4. KeptInv'
    BY <2>1 DEF KeptInv, Scanning
  <2>5. CountedInv'
    BY <2>1, <2>3 DEF CountedInv, Scanning
  <2>6. TrajectoriesAccounted'
    BY <2>1 DEF TrajectoriesAccounted, Shows, ShownIn, ListedIn
  <2> QED BY <2>3, <2>4, <2>5, <2>6
<1>6. ASSUME NEW c \in Callers, Publish(c) PROVE CountInv'
  <2>1. /\ pc[c] = "publish" /\ pc'[c] = "close" /\ cached' = job[c]
        /\ \A d \in Callers \ {c} : pc'[d] = pc[d] /\ job'[d] = job[d]
        /\ parsed' = parsed
    BY <1>0, <1>6 DEF Publish, TypeOK
  <2>2. TrajectoriesAccounted'
    BY <2>1 DEF TrajectoriesAccounted, Shows, ShownIn, ListedIn, CountedInv, Accounted
  <2> QED BY <2>1, <2>2 DEF KeptInv, CountedInv, Accounted, ShownIn, ListedIn, ParsedBounded
<1> QED
  BY <1>2, <1>3, <1>4, <1>5, <1>6 DEF Next, Call, Proceed

(***************************************************************************)
(* Order.  What is published, what is cached and what is about to be       *)
(* published are states of one growing file, in that order: none is ahead  *)
(* of the file, and a later one is not behind an earlier one.              *)
(***************************************************************************)
Reached(s, n) == s \in removed \/ (traj[s] # None /\ traj[s].size >= n)

NotAhead(snap) ==
  snap.ok => \A s \in ShownIn(snap) :
    /\ Reached(s, snap.runs[s].body.size)
    /\ parsed[s] # None => parsed[s].body.size >= snap.runs[s].body.size

NotBehind(snap) ==
  Shows(cached) /\ snap.ok =>
    \A s \in ShownIn(snap) \cap ShownIn(cached) :
      snap.runs[s].body.size >= cached.runs[s].body.size

EntryReached == \A s \in Sessions : parsed[s] # None => Reached(s, parsed[s].body.size)

OrderInv ==
  /\ EntryReached
  /\ cached # None => NotAhead(cached)
  /\ \A c \in Callers : pc[c] = "publish" => NotAhead(job[c]) /\ NotBehind(job[c])

LEMMA OrderInit == Init => OrderInv
BY DEF Init, OrderInv, EntryReached

\* Agents only add to a file, or delete it for good.
LEMMA ReachedStays ==
  ASSUME TypeOK, TypeOK', Environment, NEW s \in Sessions, NEW n \in Nat, Reached(s, n)
  PROVE  Reached(s, n)'
<1>1. ASSUME NEW t \in Sessions, Append(t) PROVE Reached(s, n)'
  <2>1. /\ t \notin removed /\ removed' = removed
        /\ s # t => traj'[s] = traj[s]
        /\ traj'[t] # None /\ (traj[t] # None => traj'[t].size >= traj[t].size)
    BY <1>1, AppendGrows DEF Append
  <2>2. CASE s # t
    BY <2>1, <2>2 DEF Reached
  <2>3. CASE s = t
    <3>1. traj[s] # None /\ traj[s].size >= n
      BY <2>1, <2>3 DEF Reached
    <3>2. traj[s].size \in Nat /\ traj'[s].size \in Nat
      BY <2>1, <2>3, <3>1 DEF TypeOK, File
    <3> QED BY <2>1, <2>3, <3>1, <3>2 DEF Reached
  <2> QED BY <2>2, <2>3
<1>2. ASSUME NEW t \in Sessions, Remove(t) PROVE Reached(s, n)'
  BY <1>2 DEF Remove, TypeOK, Reached
<1>3. ASSUME Tick \/ \E t \in Sessions : WriteTranscript(t) PROVE Reached(s, n)'
  BY <1>3 DEF Tick, WriteTranscript, Reached
<1> QED BY <1>1, <1>2, <1>3 DEF Environment

\* The sizes that are compared are numbers.
LEMMA ShownSize ==
  ASSUME NEW snap \in Snapshot, snap.ok, NEW s \in ShownIn(snap)
  PROVE  s \in Sessions /\ snap.runs[s].body.size \in 0..MaxFile
<1>1. s \in Sessions /\ snap.runs[s] # None
  BY DEF ShownIn
<1>2. snap.runs \in [Sessions -> Parsed \cup {None}]
  BY DEF Snapshot
<1>3. snap.runs[s] \in Parsed
  BY <1>1, <1>2
<1> QED BY <1>1, <1>3 DEF Parsed, Body

\* What a scan has read is where its files are now; what it reused, the cache has.
LEMMA FetchedOrder ==
  ASSUME TypeOK, RemovedInv, EntryReached, NEW j \in Listing, NEW got \in SUBSET Sessions,
         NEW gotPlain, \A s \in got : j.listed[s] # None /\ traj[s] # None
  PROVE  LET entries == AfterParsing(j, got)
             snap    == ScanResult(j, got, gotPlain)
         IN  /\ \A s \in Sessions : entries[s] # None =>
                   /\ entries[s].body.size \in Nat
                   /\ Reached(s, entries[s].body.size)
                   /\ \A n \in 0..MaxFile : /\ Reached(s, n)
                                            /\ parsed[s] # None => parsed[s].body.size >= n
                                            => entries[s].body.size >= n
             /\ \A s \in ShownIn(snap) : entries[s] # None /\ snap.runs[s] = entries[s]
<1> DEFINE entries == AfterParsing(j, got)
           snap    == ScanResult(j, got, gotPlain)
<1>1. ASSUME NEW s \in got
      PROVE  /\ entries[s].body.size = Least(traj[s].size, MaxFile)
             /\ traj[s] \in File /\ s \notin removed
  BY DEF AfterParsing, ParseAs, Contents, TypeOK, RemovedInv
<1>2. \A s \in Sessions \ got : entries[s] = parsed[s]
  BY DEF AfterParsing
<1>3. \A s \in Sessions : parsed[s] # None => parsed[s].body.size \in Nat
  BY StoreAssumption DEF TypeOK, Parsed, Body
<1>4. \A s \in Sessions : snap.runs[s] = IF s \in Shown(j, got) THEN entries[s] ELSE None
  BY DEF ScanResult
<1> HIDE DEF entries, snap
<1>5. ASSUME NEW s \in Sessions, entries[s] # None
      PROVE  /\ entries[s].body.size \in Nat
             /\ Reached(s, entries[s].body.size)
             /\ \A n \in 0..MaxFile : /\ Reached(s, n)
                                      /\ parsed[s] # None => parsed[s].body.size >= n
                                      => entries[s].body.size >= n
  <2>1. CASE s \in got
    <3>1. traj[s].size \in Nat /\ traj[s] # None
      BY <1>1, <2>1 DEF File
    <3> QED BY <1>1, <2>1, <3>1, StoreAssumption DEF Reached, Least
  <2>2. CASE s \notin got
    BY <1>2, <1>3, <1>5, <2>2 DEF EntryReached
  <2> QED BY <2>1, <2>2
<1>6. \A s \in ShownIn(snap) : entries[s] # None /\ snap.runs[s] = entries[s]
  BY <1>4 DEF ShownIn
<1> QED BY <1>5, <1>6 DEF entries, snap

LEMMA OrderStep ==
  TypeInv /\ TypeInv' /\ FlightInv /\ ContentInv /\ OrderInv /\ [Next]_vars => OrderInv'
<1> SUFFICES ASSUME TypeInv, TypeInv', FlightInv, ContentInv, OrderInv, [Next]_vars
             PROVE  OrderInv'
  OBVIOUS
<1> USE StoreAssumption DEF OrderInv
<1>0. /\ TypeOK /\ TypeOK' /\ SoleScanner /\ RemovedInv
      /\ pc \in [Callers -> Scanning \cup {"idle", "wait", "close", "woken"}]
  BY DEF TypeInv, TypeOK, FlightInv, ContentInv
<1>1. ASSUME Environment PROVE OrderInv'
  <2>1. UNCHANGED <<pc, job, parsed, cached>>
    BY <1>1 DEF Environment, Append, Remove, Tick, WriteTranscript, storeVars, callVars
  <2>2. \A s \in Sessions : \A n \in Nat : Reached(s, n) => Reached(s, n)'
    BY <1>0, <1>1, ReachedStays
  <2>3. EntryReached'
    <3>1. \A s \in Sessions : parsed[s] # None => parsed[s].body.size \in Nat
      BY <1>0 DEF TypeOK, Parsed, Body
    <3> QED BY <2>1, <2>2, <3>1 DEF EntryReached
  <2>4. ASSUME NEW snap \in Snapshot, NotAhead(snap)
        PROVE  snap.ok => \A s \in ShownIn(snap) :
                 /\ Reached(s, snap.runs[s].body.size)'
                 /\ parsed[s] # None => parsed[s].body.size >= snap.runs[s].body.size
    BY <2>2, <2>4, ShownSize DEF NotAhead
  <2>5. cached' # None => NotAhead(cached)'
    BY <1>0, <2>1, <2>4 DEF NotAhead, ShownIn, TypeOK
  <2>6. ASSUME NEW c \in Callers, pc'[c] = "publish"
        PROVE  NotAhead(job[c])' /\ NotBehind(job[c])'
    <3>1. job[c] \in Snapshot /\ NotAhead(job[c]) /\ NotBehind(job[c])
      BY <1>0, <2>1, <2>6 DEF TypeOK
    <3>2. NotAhead(job[c])'
      BY <2>1, <2>4, <3>1 DEF NotAhead, ShownIn
    <3>3. NotBehind(job[c])'
      BY <2>1, <3>1 DEF NotBehind, Shows, ShownIn
    <3> QED BY <3>2, <3>3
  <2> QED BY <2>3, <2>5, <2>6
<1>2. ASSUME \/ UNCHANGED vars
             \/ \E c \in Callers : \/ ServeFresh(c) \/ ServeLast(c) \/ Wait(c) \/ StartScan(c)
                                  \/ Close(c) \/ Woken(c)
      PROVE  OrderInv'
  <2>1. /\ UNCHANGED <<traj, removed, job, parsed, cached>>
        /\ \A d \in Callers : pc'[d] = "publish" => pc[d] = "publish"
    BY <1>0, <1>2 DEF ServeFresh, ServeLast, Wait, StartScan, Close, Woken,
                      vars, callVars, fileVars, storeVars
  <2> QED BY <2>1 DEF EntryReached, NotAhead, NotBehind, Reached, Shows, ShownIn
<1>3. ASSUME NEW c \in Callers, Index(c) PROVE OrderInv'
  <2>1. /\ UNCHANGED <<traj, removed, parsed, cached>>
        /\ \A d \in Callers \ {c} : pc'[d] = pc[d] /\ job'[d] = job[d]
    BY <1>0, <1>3 DEF Index, TypeOK, fileVars, storeVars
  <2>2. pc'[c] = "publish" => ~job'[c].ok
    BY <1>0, <1>3 DEF Index, TypeOK, FailedSnapshot
  <2> QED BY <2>1, <2>2 DEF EntryReached, NotAhead, NotBehind, Reached, Shows, ShownIn
<1>4. ASSUME NEW c \in Callers, Fetch(c) PROVE OrderInv'
  <2> DEFINE j == job[c]
  <2>1. /\ pc[c] = "fetch" /\ pc'[c] = "publish" /\ j \in Listing
        /\ \A d \in Callers \ {c} : pc'[d] = pc[d] /\ pc[d] \notin Scanning
        /\ UNCHANGED <<traj, removed, cached>>
    BY <1>0, <1>4 DEF Fetch, TypeOK, SoleScanner, Scanning, fileVars
  <2>2. \A d \in Callers : pc'[d] = "publish" => d = c
    BY <2>1 DEF Scanning
  <2>3. CASE job' = [job EXCEPT ![c] = FailedSnapshot(j.now)] /\ UNCHANGED parsed
    <3>1. ~job'[c].ok
      BY <1>0, <2>3 DEF FailedSnapshot, TypeOK
    <3> QED BY <2>1, <2>2, <2>3, <3>1
            DEF EntryReached, NotAhead, NotBehind, Reached, Shows, ShownIn
  <2>4. ASSUME NEW got \in SUBSET {s \in j.want : traj[s] # None},
               NEW gotPlain \in SUBSET j.wantPlain,
               job' = [job EXCEPT ![c] = ScanResult(j, got, gotPlain)],
               parsed' = Evict(AfterParsing(j, got), j.kept)
        PROVE  OrderInv'
    <3> PICK entries : entries = AfterParsing(j, got)
      OBVIOUS
    <3> PICK snap : snap = ScanResult(j, got, gotPlain)
      OBVIOUS
    <3>1. /\ got \in SUBSET Sessions
          /\ \A s \in got : j.listed[s] # None /\ traj[s] # None
      BY <2>1 DEF Listing, TypeInv, WantListed
    <3>2. /\ \A s \in Sessions : entries[s] # None =>
                /\ entries[s].body.size \in Nat
                /\ Reached(s, entries[s].body.size)
                /\ \A n \in 0..MaxFile : /\ Reached(s, n)
                                         /\ parsed[s] # None => parsed[s].body.size >= n
                                         => entries[s].body.size >= n
          /\ \A s \in ShownIn(snap) : entries[s] # None /\ snap.runs[s] = entries[s]
      BY <1>0, <2>1, <3>1, FetchedOrder
    <3>3. /\ \A s \in Sessions : parsed'[s] # None => parsed'[s] = entries[s]
          /\ job'[c] = snap
      BY <1>0, <2>4 DEF Evict, TypeOK
    <3> HIDE DEF j
    <3>4. EntryReached'
      BY <2>1, <3>2, <3>3 DEF EntryReached, Reached
    <3>5. NotAhead(snap)'
      <4> SUFFICES ASSUME NEW s \in ShownIn(snap)
                   PROVE  /\ Reached(s, snap.runs[s].body.size)'
                          /\ parsed'[s] # None => parsed'[s].body.size >= snap.runs[s].body.size
        BY DEF NotAhead, ShownIn
      <4>1. s \in Sessions /\ entries[s] # None /\ snap.runs[s] = entries[s]
        BY <3>2 DEF ShownIn
      <4> QED BY <2>1, <3>2, <3>3, <4>1 DEF Reached
    <3>6. ASSUME cached # None, cached.ok, NEW s \in ShownIn(cached)
          PROVE  /\ s \in Sessions /\ Reached(s, cached.runs[s].body.size)
                 /\ entries[s] # None => entries[s].body.size >= cached.runs[s].body.size
      <4>1. cached \in Snapshot
        BY <1>0, <3>6 DEF TypeOK
      <4>2. s \in Sessions /\ cached.runs[s].body.size \in 0..MaxFile
        BY <3>6, <4>1, ShownSize
      <4> QED BY <3>2, <3>6, <4>2 DEF NotAhead
    <3>7. cached' # None => NotAhead(cached)'
      BY <2>1, <3>3, <3>6 DEF NotAhead, Reached, ShownIn
    <3>8. NotBehind(snap)'
      BY <2>1, <3>2, <3>6 DEF NotBehind, Shows, ShownIn
    <3>9. NotAhead(job[c])' /\ NotBehind(job[c])'
      BY <3>3, <3>5, <3>8 DEF NotAhead, NotBehind, ShownIn
    <3> QED BY <2>2, <3>4, <3>7, <3>9
  <2> QED BY <1>4, <2>3, <2>4 DEF Fetch
<1>5. ASSUME NEW c \in Callers, Publish(c) PROVE OrderInv'
  <2>1. /\ pc[c] = "publish" /\ pc'[c] = "close" /\ cached' = job[c]
        /\ \A d \in Callers \ {c} : pc'[d] = pc[d] /\ pc[d] \notin Scanning
        /\ UNCHANGED <<traj, removed, parsed>>
    BY <1>0, <1>5 DEF Publish, TypeOK, fileVars, SoleScanner, Scanning
  <2>2. \A d \in Callers : pc'[d] # "publish"
    BY <2>1 DEF Scanning
  <2> QED BY <2>1, <2>2 DEF EntryReached, NotAhead, Reached, ShownIn
<1> QED
  BY <1>1, <1>2, <1>3, <1>4, <1>5 DEF Next, Call, Proceed

LEMMA RegressStep ==
  TypeInv /\ OrderInv /\ [Next]_vars =>
    [Shows(cached) /\ Shows(cached)' =>
       \A s \in ShownIn(cached) \cap ShownIn(cached') :
         cached'.runs[s].body.size >= cached.runs[s].body.size]_cached
<1> SUFFICES ASSUME TypeInv, OrderInv, [Next]_vars, cached' # cached,
                    Shows(cached), Shows(cached)',
                    NEW s \in ShownIn(cached) \cap ShownIn(cached')
             PROVE  cached'.runs[s].body.size >= cached.runs[s].body.size
  OBVIOUS
<1>1. PICK c \in Callers : Publish(c)
  BY DEF Next, vars, storeVars, fileVars, Environment, Append, Remove, Tick,
         WriteTranscript, Call, Proceed, ServeFresh, ServeLast, Wait, StartScan, Index,
         Fetch, Close, Woken
<1> QED BY <1>1 DEF Publish, OrderInv, NotBehind, Shows, ShownIn

\* The invariant of the store, all layers together.
LEMMA StoreInv ==
  Spec => [](TypeInv /\ FlightInv /\ ContentInv /\ CountInv /\ OrderInv)
<1>1. Init => TypeInv /\ FlightInv /\ ContentInv /\ CountInv /\ OrderInv
  BY FlightInit, ContentInit, CountInit, OrderInit, StoreAssumption
  DEF Init, TypeInv, TypeOK, WantListed, Scanning
<1> QED BY <1>1, TypeStep, FlightStep, ContentStep, CountStep, OrderStep, PTL DEF Spec

\* However files come, grow and go while a scan is under way, every trajectory it
\* listed is shown, unreadable or skipped, and only one of these
\* (store.go:226, 241-247, 289-306).
THEOREM CountersAddUp == Spec => []TrajectoriesAccounted
BY StoreInv, PTL DEF CountInv

\* The cache never holds more files of an agent than the cap, however the kept set
\* moves with the modification times (store.go:343-349).
THEOREM CacheIsBounded == Spec => []ParsedBounded
BY StoreInv, PTL DEF CountInv

\* From one snapshot to the next no session is shown as it was before, whichever
\* scans fail, whatever is evicted in between and read again (store.go:164-168, 289-306).
THEOREM NoRegress == Spec => RunsNeverRegress
<1>1. Spec => []TypeInv /\ []OrderInv /\ [][Next]_vars
  BY StoreInv, PTL DEF Spec
<1> QED BY <1>1, RegressStep, PTL DEF RunsNeverRegress

==============================================================================
