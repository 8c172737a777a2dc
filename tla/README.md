# Formal models of the Claw operator extras

TLA+ specifications of the two programs of this repository, the Agent Console
(`cmd/console`) and the Deployer (`cmd/deployer`), TLC configurations that
check them on small instances, and TLAPS proofs of the properties that matter
most, for every value of the constants.

    tlc -workers 2 -config SessionScan.cfg MCSessionStore    # one run
    tlapm SessionStoreProofs.tla                             # one module of proofs

`PROJECT.json` lists the components, the runs, a mutation of the model that
each property catches, the source lines behind every definition, the hazards
and the theorems.

## 1. Inventory

### Agent Console

A read-only web server. It holds no standing permission: each request carries a
user's token, and everything is read through `exec` into the Claw's pod. All of
its state is in memory, but for one file per Claw with the memory watcher's
record.

| Component | State | Operations | What makes it correct |
|---|---|---|---|
| Session store (`store.go`) | last snapshot and its time, the channel of the refresh in flight, the cache of parsed files | `snapshot`, `scan` (index, batch read, parse, transcripts, evict, publish) | one refresh at a time; everyone waiting is released, with an answer; a snapshot never shows a file as it was before the listing; every file is shown or counted; the cache stays bounded |
| Memory watcher (`memorywatch.go`) | notes last seen (identity, lines), events, since when; the file they are saved in | `load`, `save`, `pending`, `observe`, `trim`, `recent`; driven by `memoryFeed` | a change is never skipped; nothing known is announced as new; a restart loses nothing that was announced; budgets hold |
| Session sources (`source.go`) | none | `index`, `readMany`, `readNotes`, in a pod or on a disk | a file is handed over up to its limit, or not at all |
| Pod exec transport (`exec.go`) | a connection, a pipe and a goroutine per call | `execInPod`, `execStream` | a connection that drops never makes a piece of a file pass for the whole; the call and its goroutine end |
| Trajectory analysis (`trajectory.go`) | none | `deriveRuns`, `retainForAnalysis` | every event belongs to one run; order, times and outcome hold for events written late or without a time |
| Handoffs (`handoffs.go`) | none | `declaredHandoffs`, `inferHandoffs`, `resolveSourceSession` | a message names the session that had the key then; calls match starts stably; the result does not depend on the order of the sessions |
| Store registry and request scope (`main.go`, `scope.go`, `handlers.go`, `identity.go`) | stores by credential, Claw and pod, when each was last asked for, watchers by Claw | `resolveStore`, `storeFor`, `watcherFor`, the reaper | nobody is answered from another user's store; one watcher per Claw; nothing is reaped under a scan; idle stores go |
| Agent and metrics views (`agents.go`, `metrics.go`) | none | functions of one snapshot | figures agree with the runs they sum |
| Wiki view (`wiki.go`) | none | front matter and links of pages | links resolve to pages |
| Console user interface (`static/app.js`) | the Claw picked, the data of its page, the session open and its events, the ticks and openings under way | `tick` (`loadScope`, `refresh`, `tailSession`), `loadSession`, picking a Claw, opening and leaving a session | a replay is the beginning of its file and catches up with it; nothing of one Claw is left under another; the page returns to what the server has |

The components meet in these places. A handler asks the registry for its store
(a Kubernetes list, then a map under a lock). The store's `snapshot` is called
by any number of handlers; one of them scans, the others are served the last
snapshot or wait on a channel. The scan calls the source twice, index and batch,
and an agent may write at any time between. `memoryFeed` calls the source and
the watcher in turn, with the watcher's lock released while notes are read. A
source's read runs a tar reader in the caller against a goroutine that reads the
connection. The page asks for all of this again every few seconds, and its
answers come in any order.

### Deployer

A web server without state. A request on a Claw is a sequence of Kubernetes API
calls with the user's token; other requests' calls interleave with them, and any
call may fail, with or without having taken effect.

| Component | State | Operations | What makes it correct |
|---|---|---|---|
| Provisioning (`handlers.go`, `claw.go`) | the Claw, its Secrets and its ConfigMap, all in the cluster | `handleProvision`, `handleIdle`, `handleDelete` | the spec refers to secrets that exist; a delete takes all that is the deployer's and nothing else; an update keeps what it was not asked about |
| Restart (`handlers.go`, `claw.go`) | none | two merge patches | both happen |
| Agent files upload (`agentfiles.go`) | a ConfigMap | upload, removal by a delete | the archive is within limits |
| Helpers and Kubernetes client (`helpers.go`, `kube.go`) | none | names of models and providers, validation, one HTTP call each | a model keeps its name from one save to the next |
| User interface (`static/app.js`) | the listing last shown, the Claw selected, the rows of its model providers, what was removed, the fields, a save under way | select, edit, list, save | edits survive refreshes; removals stay removed; a Claw is given its own secrets; what was not touched is kept |
| Manifests, examples | none | | |

The page sends a Claw's form back as a whole. The handler and `applyClaw` merge
it with the spec they read, and the next listing tells the page what came of it.

### What is hard here

- **Concurrency.** Single flight over a shared cache; overlapping memory pages
  over one watcher; the reaper among requests; deployer handlers over one Claw;
  the goroutine and the tar reader of a streamed exec.
- **Files that move while they are read.** Identity comes from the listing,
  content from a later read.
- **Partial failure.** A batch that stops early, a file cut at its limit, a note
  that did not arrive, an API call that reports a failure and took effect.
- **Restart.** The watcher saves only when it announced something.
- **Time.** Events stamped late, twice in a millisecond or not at all; session
  keys used again; outcomes that depend on the clock and are cached.
- **Termination.** A pod that hangs, a reader that stops early.
- **Late answers.** The pages' requests overlap: ticks that clicks start beside the
  loop's, sessions opened in turn, listings that land while a form is edited or
  after a save they do not know of.
- **Saves that send everything back.** What a form was never shown, or was shown of
  another Claw, is written with the rest.

`hazards` in `PROJECT.json` lists each at its line, with the properties that
would show it going wrong.

## 2. Modules

| Module | Models | Used with |
|---|---|---|
| `SnapshotService` | what `snapshot()` promises its callers: one refresher, snapshots that replace one another, a caller served only one that was published | abstract specification |
| `SessionStore` | `snapshot()` and `scan()` over the sessions of one agent, with the agent writing | implements `SnapshotService` |
| `MemoryWatch` | the watcher, the requests that drive it, its file, restarts | |
| `ExecStream` | one exec call: pod, connection, goroutine, pipe, tar reader, deadline | |
| `ClawProvision` | the deployer's handlers on one Claw | |
| `Trajectory` | `deriveRuns` and `retainForAnalysis` as operators on a log | `Fleet` |
| `Handoffs` | `findHandoffs` and what it calls, as operators on all logs | `Fleet` |
| `Fleet` | agents appending to their files, with the runs and the handoffs recomputed at each moment | composes the two above |
| `StoreRegistry` | the maps of stores and watchers, requests in flight, the reaper, pods that come and go | |
| `ConsolePage` | the console's page and the answers of the server it is built from | |
| `ProvisionForm` | the deployer's form, its listings, and what a save makes of the Claw | |

`MC<module>` gives a module its small instance, `<module>Proofs` its theorems.
`MCDeployer` runs both `ClawProvision` and `ProvisionForm`: its `part` tells which
of the two a behaviour is about. `MCMemoryWatch` and `MCConsolePage` have a `scope`,
and `MCFleet` gives `Fleet` its `Scopes`, in the same way.

### SessionStore

A caller is a goroutine in `snapshot()`. Its `pc` is where it may be held up:
before the index, before the batch read, before publishing, before closing the
channel, waiting. Between two of these a step runs as the code does between two
points where others may act: the lock makes `ServeFresh`, `ServeLast`, `Wait`
and `StartScan` atomic, and the lock-free part of `scan()` touches only
`parsed`, which is the reason `SoleScanner` matters.

| Code | Action |
|---|---|
| `snapshot()`, the three ways out and the one in | `ServeFresh`, `ServeLast`, `Wait`, `StartScan` |
| `index()`, the cap, what to read | `Index` |
| `readMany()`, parsing, the transcripts, eviction | `Fetch` |
| storing the snapshot, closing the channel | `Publish`, `Close` |
| a waiter that wakes up | `Woken` |
| agents and time | `Append`, `Remove`, `WriteTranscript`, `Tick` |

A file is its size, its modification time and whether its run has finished. A
read returns any subset of the files asked for that still exist, which is what
a batch limit or a deadline make of it (`ExecStream`), and of each no more than its
first `MaxFile` events: a longer file is cut without a word (`source.go:383`) and
cached under the size that was listed. `NoStaleContent` therefore says that a
snapshot shows a file at least as far as it was listed or as far as a read goes,
whichever is less.

### MemoryWatch

A request is `List` (the index), `Pending` (under the lock), `Read`, `Observe`
(under the lock, with the trim, the event cap and the save in the same step).
A note's size and modification time are one number that no two writes share; its
content is a set of lines. A save either replaces the file or leaves the previous
one, as writing to a temporary file and renaming it does, and a load may fail.

A read returns any of the notes asked for, and of each its `head`: all lines, or
`MaxNote` of them if there are more (`source.go:448`; the code counts bytes, and a
cut is taken to fall between two lines). An event shows `MaxAdded` of the lines
added and only counts the rest, here `withheld`.

### ExecStream

`Dial`, `ReadFrame`, `ReadStatus` and `ReadEnds` are the goroutine, `NextHeader`,
`ReadBody`, `ClosePipe` and `Return` the caller with its tar reader,
`CaptureFrame` and `CaptureClosed` the loop of `execInPod`. A frame is a piece
of one file. `Expire` is the end of the context. The pipe hands over one frame at
a time, so a writer blocks until the reader takes it or closes its end.

The other side may close the connection in good order at any time, before the
command's status or in the middle of its output: `normalClose` (`exec.go:218`) takes
a server that is going away for the end of the output, and no call asks whether a
status came. `early` marks this, and `DropsDetected` says what is left: a stream
never hands over a file with a piece missing below the limit, because the archive
itself ends too soon, but captured output is only then known to be complete when
`early` is false.

### ClawProvision

Every API call is an action, and a handler is the order in which its actions can
happen. A write has three outcomes: done, not done, done and reported as failed.
The Claw's spec is the secret each of its entries refers to, and `idle` with the
field managers that own it, since server-side apply removes what its manager no
longer mentions.

### Trajectory, Handoffs, Fleet

The two analyses are pure, so they are operators, compared in `Fleet` with
definitions that say what the result should be (a stable matching, an edge for
each message) rather than how it is found. `Fleet` lets agents write, one event
at a time, and keeps `edges` as what a scan of this moment shows, so that two
successive states are two successive pages. A scan may lack sessions, those past
the cap of their agent (`store.go:244`) or with a file that could not be read
(`store.go:292`): `Scan` chooses the sessions `shown`, `Seen` is what they hold, and
the analyses are of `Seen`. What an agent writes past `maxSessionFileBytes` is not
part of `logs`.

The code sorts slices and walks them with a set of consumed sessions. Here an
event is named by its session and its place in the file, the sorts are orders on
these (`Before`, `Found`, `Sooner`, `Earlier`) and the order of the map is an
injection of the sessions into the numbers. `Children` is a function defined by
recursion over the calls, each of which sees what the sooner ones have taken.
Without sequences to fold over, the matching can be reasoned about (section 5).

Four properties hold under conditions, each of which `Fleet` would violate without:

- `RetentionKeepsEdges`, when no event is stamped before its session started
  (`InTime`): such an event moves the start, unless the scan drops it;
- `OrderIndependent`, when no two calls and no two starts have one time (`Untied`),
  nor two sessions of a key (`UntiedKeys`): these the code leaves to the map;
- `EdgesOnlyGrow`, when besides `Untied` both scans come by the same sessions (the
  edges of one that is missing are gone, and another session may take its place),
  the event written is stamped with the present (`OnTime`) and the declared parents
  stay: a call or a start stamped in the past goes before others that were already
  matched;
- `RunsFitTheirEvents`, for the times of a run, when all of them can be read.

### StoreRegistry

A request is `Ask`, `Resolve` (list the pods, choose one), `StoreFor` (under the
lock), `Answer`. The reaper is `ReaperWakes`, which reads the clock, and `Reap`,
which takes the lock. `PodChanges` is the cluster. In local mode there is one
store and no key.

### ConsolePage

JavaScript runs one callback at a time, so an action is what happens between two
`await`s. `ticks` says where each `tick()` is held up, `loads` which
`loadSession()` are.

| Code | Action |
|---|---|
| `scheduleTick()`, `load-all-runs` | `TickStarts` |
| `loadScope()` | `ScopeLands` |
| `refresh()`: the server reads, or fails; the answer arrives | `RefreshServed`, `RefreshRefused`, `RefreshLands` |
| `tailSession()`: the server reads the file, or fails; the answer arrives | the end of `RefreshLands`; `TailServed`, `TailFails`; `TailLands` |
| `onHashChange()`, to a session or away; `loadSession()`: the server reads, the answer arrives | `Open`, `Leave`; `LoadServed`, `LoadLands` |
| the `scope` click | `PickClaw` |
| agents and the server's scans | `EventWritten`, `SnapshotChanges` |

A session's events are numbered in the order they were written and kept in the
order of their times, as the server sorts them; the answer to "what comes after
the first *n*" is `Slice`. `late` and `spoiled` mark, for the properties alone,
what was asked for under another Claw, and a replay that two ticks tailed at once,
or for which an event was written that sorts before one shown or before one of an
answer on its way.

### ProvisionForm

| Code | Action |
|---|---|
| `refresh()` and `renderList()`, with the rows it keeps or replaces | `Listed`, `Lands` (through `Render`) |
| the name field, a row of the table | `Rename`, `PickRow` |
| the form | `PickProvider`, `TypeModel`, `TypeKey`, `NameSecret`, `Add`, `Remove` |
| the click on Save, its answer | `Save`, `SaveAnswered` |
| `handleProvision` and `applyClaw` | `Handle`: `Refused`, `Credentials`, `Models`, `AppliedSpec` |

A model is the sequence of its segments, since `normalizeModelRef` looks at these
and at nothing else. A secret is the Claw it is of: the deployer names it after the
Claw, and the reader, in the field for a secret that exists, names one of the Claw
selected. That name stays in its field when another provider or another Claw is
picked (`static/app.js:655`) and after a save (`:1642`), and goes with each save for
the provider selected.

The rest is for the properties: what the reader did and had seen, and what makes
the code's promises fall.

| Ghost | Marks | Left out of |
|---|---|---|
| `hasty` | a save for a Claw whose rows were not shown yet | `OwnSecretsOnceShown`, `RemovalStays` |
| `strayed` | a secret's name typed for one Claw and sent for, or added to, another | `OwnSecrets`, `OwnSecretsOnceShown`, `RemovalStays` |
| `old`, `outdated` | rows older than the last save, and that such were sent | `RemovalStays` |
| `sent`, `resent` | the name in the field has been saved, and was sent once more | `RemovalStays` |
| `overtaken` | the answer to a save found edits that it did not hold | `EditsSurvive` |
| `edits`, `gone` | providers added and removed and not yet saved; removals that were | |

Each of these cases makes the property fail in the code, and in the model when the
exclusion is dropped (for `strayed` and `RemovalStays`, in an instance that is
larger than the one of the run). Section 6 lists them.

## 3. Runs

| Run | Question | Result |
|---|---|---|
| `SingleFlight` | three callers over one session: `WaitersReleased`, `RunsNeverRegress`, `ImplementsService`, `WaitersReturn` | hold |
| `SessionScan` | one caller over two sessions that may outgrow what is read of a file, with a cap of one: `NoStaleContent`, `TrajectoriesAccounted`, `ParsedBounded` | hold |
| `StaleIsMarked` | is an unfinished run that fell silent marked stale? | violated |
| `Memory` | two overlapping requests over one note; or one over two with restarts, failed saves and loads, full budgets; or one over a note longer than a read returns: `RecordedCurrent`, `AllAnnounced`, `RestartForgetsNothing`, `CreatedOnce`, `BudgetKept` | hold |
| `BaselineIsSilent` | is the first reading silent? | violated |
| `RealDiffs` | is each diff one between a version and a later one? | violated |
| `Provisioning` | overlapping handlers with failing calls: `ReferencesResolve`, `DeleteCleans`, `ForeignSurvives`, `UpdatesAccumulate`; or the form among late listings and answers: `OwnSecretsOnceShown`, `RemovalStays`, `EditsSurvive`, `SavedAsShown` | hold |
| `OwnSecrets` | is a Claw only ever given secrets of its own? | violated |
| `PodExec` | an exec cut short, or closed in good order, at every point: `DropsDetected`, `NoFileIsLost`, `BatchBounded`, `CallReturns`, `GoroutineEnds` | hold |
| `Fleet` | all small fleets, at every moment, and with scans that lack sessions: `RunsFitTheirEvents`, `OutcomeSettles`, `MatchingIsStable`, `MessagesAreAttributed`, `RetentionKeepsEdges`, `OrderIndependent`, `EdgesOnlyGrow` | hold |
| `Registry` | two requests, two users, two Claws, the reaper between any two steps: `OwnView`, `OneWatcherPerClaw`, `ScansShareAStore`, `IdleStoresGo` | hold |
| `Page` | two Claws, a session of one, and either a click's tick beside the loop's or two openings under way, with the agent writing between a server's answer and its arrival: `ReplayIsFaithful`, `OwnClaw`, `ReplayCatchesUp`, `PageSettles` | hold |

`TypeOK` of every module and `SoleScanner` are proved (section 5) and in no run.

### Bounds, and why they are enough

- `SingleFlight`: three callers are one that scans, one that waits and one that
  comes back for the next snapshot; `CacheTTL` 0 makes every tick a new refresh.
- `SessionScan`: two sessions and a cap of one make the kept set change with the
  modification times; a file of one, two or three events and one tick are a file
  read, grown and read again under the same or another time, whole or cut at two.
- `Memory`: two requests over one note of two lines; or one request over notes of
  two lines and of one in a console that restarts; or one over a note of three
  lines, of which a read returns two and an event shows one. Requests that disagree
  need two versions, a third is the one both have missed; two lines tell additions
  from removals; a budget of two lines makes the second note a trim for the first;
  two events fill the list. Saves fail only where the console restarts.
- `Provisioning`, on the server: two handlers overlap and a third follows; a
  provider, an entry at the top level and one secret of the user's are the three
  kinds of reference the code tells apart. On the page: a Claw that was made with a
  key alone and one with two providers, or the latter and none yet; `openrouter`,
  which prefixes other providers' models, and `google-vertex`, which needs a project
  and shares the prefix of another provider. The Claws differ and one has both
  providers, so that a row or a removal of one means something else in the other; if
  the other is yet to be made, the page starts on it, with the first provider of its
  list. Two saves, since a removal is undone by the second; two acts of the reader
  between them, such as a secret's name typed and another Claw picked; a save's own
  listing and one of the timer, since one overtakes the other.
- `OwnSecrets`: the same instance.
- `PodExec`: three files, of which one may fit, one exceed the limit and one
  arrive after the batch is full; the output limit is reached by a capture; the
  connection drops or is closed before, in or after any of them. A call ends, so
  this run may stop.
- `Fleet`: one session with three events of every kind, run and time; or
  five events over four sessions of two agents: a call, its start, a rival
  start and a rival call, and one more; or five over three of these sessions, some
  of them stamped late, enough for a start to move and for a call to turn up in the
  past; or four over the four sessions, of which scans may lack one of each agent,
  the caller or the called of an edge that a rival then takes. Its time is three, with a window of one, so that events fall before, on and
  after the limit. Agents may fall silent, so this run may stop.
- `Registry`: two pods of one Claw and one of another, time to idle out and be
  reaped twice, two stores. The bounds on time and stores end its behaviours.
- `Page`: two Claws, so that an answer may be another's; one session; two events
  and a limit of one, so that a replay is opened and tailed in pages, or an event is
  written in front of another, shown or on its way. The reader either opens the
  session twice while the loop refreshes alone, or clicks beside the loop with one
  opening at a time: both together are out of reach. One click's tick is enough for
  an older answer to land last, and for two ticks to tail a session; one change of a
  snapshot makes an answer old.

## 4. Assumptions

**Fairness.** Three runs have liveness properties.

- `SingleFlight` assumes weak fairness of a caller that is past the start of
  `snapshot()`: it goes on to its index, its batch, its publication. The code
  justifies it with `scanTimeout`, which ends the context of both reads; a read
  that ends with an error is a step of the model as well. Nothing is assumed of
  agents, or of callers that have not asked.
- `PodExec` assumes that the context ends, that a dial or a read then fails, that
  a write to a closed pipe fails and that the tar reader takes a step it can
  take. Nothing is assumed of the pod: it may stop at any frame. A scan's
  context ends after `scanTimeout`. The memory and wiki pages use the request's
  own, which ends only with their client: for these, both properties say that
  a client who leaves frees everything.

- `Page` assumes that the loop's timer fires, that every answer arrives or fails
  (weak fairness), and that a request the loop repeats does not fail every time
  (strong fairness of its `RefreshServed` and `TailServed`: the loop asks again
  after a failure, and nothing can be promised on a server that never answers).
  Nothing is assumed of the reader, the agents or the scans; a page whose scope was
  denied has stopped, and `PageSettles` says nothing of it.

`Registry` has no liveness property. Instead time does not pass the reaper's
next round, nor the end of a scan that `scanTimeout` would have ended.

**The environment.**

- Session ids are unique and a removed session's id is not used again. A file
  written twice has two modification times or sizes only where the model says so
  (`SessionStore` lets a file be written twice in one tick; `MemoryWatch` does not).
- A listing of sessions or notes is whole, or fails. `ExecStream` shows that one
  captured over a connection that is closed in good order too early would be taken
  for whole; `SessionStore` and `MemoryWatch` do not follow that further.
- A session's first event is `session.started` with a time; sequence numbers
  follow the order of the file.
- `storeIdleTTL` is longer than `scanTimeout`, as in `main.go` (an assumption of
  `StoreRegistry`, and the reason `ScansShareAStore` holds).
- The hash of a token in a store's key stands for the token.
- `ReferencesResolve` is about provisions that no delete overlaps, and
  `UpdatesAccumulate` about updates that do not overlap each other; the deployer
  promises neither otherwise, and in the model neither holds.
- In `ProvisionForm` a save takes effect in one step, or not at all; how requests
  interleave is the subject of `ClawProvision`. Nothing but the page changes the
  Claws it shows.
- In `ConsolePage` a session belongs to one Claw. A replay's events are read from
  the file, its run's outcome comes from the snapshot, and the two may be of
  different times.

## 5. Proofs

| Theorem | Establishes | By |
|---|---|---|
| `SessionStoreProofs!TypeCorrect` | `TypeOK` | `TypeInv` adds that a file to be read was listed, without which a result has no identity |
| `ScanIsExclusive`, `NoLostWakeup` | `SoleScanner`, `WaitersReleased` | `FlightInv`, which ties the open channel to the caller that will close it |
| `StoreImplementsService` | `ImplementsService` | a refinement: the refresher is the owner of the channel, and publishing is its `Publish`; every other step stutters or serves |
| `SnapshotsAreCurrent` | `NoStaleContent` | `ContentInv`: an entry's content is no older than its identity, or is cut at the limit; files only grow, a session removed does not return |
| `CountersAddUp`, `CacheIsBounded` | `TrajectoriesAccounted`, `ParsedBounded` | `CountInv`: what a scan is to read it kept, what it kept it listed, and no more than the cap; a result waiting to be published accounts for every file listed |
| `NoRegress` | `RunsNeverRegress` (an action property) | `OrderInv`: an entry has been reached by its file, and a job's result, the cache and the last snapshot come from reads in that order |
| `MemoryWatchProofs!SkippedIsUnchanged` | `RecordedCurrent` | `ContentInv`: what is in the vault, in a request's hands and in the record comes from versions in that order, and is what a read of its version brings |
| `NothingInSilence`, `NewOnlyOnce` | `AllAnnounced`, `CreatedOnce` | `HistoryInv`: the history that the watcher holds, and the one in its file, each agree with what was counted of them, shown or withheld |
| `WithinBudget`, `RestartsForgetNothing` | `BudgetKept`, `RestartForgetsNothing` | `SavedInv`, which is the two together: an observation that is not saved has changed no lines, so they fit the budget as before and `trim` leaves them |
| `ClawProvisionProofs!DeletesOnlyItsOwn` | `ForeignSurvives` | `OwnInv`: what a delete is about to drop was seen with the deployer's labels, and labels are never taken off |
| `SecretsComeFirst` | `ReferencesResolve` | `RefInv`: the secrets a handler has applied, and those it has read, exist until a delete begins |
| `UpdatesAddUp` | `UpdatesAccumulate` | `UpdateInv`: while requests do not overlap, what a handler has read of the spec is the spec, and what it was given is on its way there |
| `DeletesClean` | `DeleteCleans` | `CleanInv` with `RefInv`: what a delete that met no failure has passed is gone, and what it has still to drop is in its list |
| `ExecStreamProofs!DropsAreDetected` | `DropsDetected` | `WholeInv`: what is kept of a file is the pieces read of it |
| `BatchIsBounded` | `BatchBounded` | `BoundInv`: before a header the total is below the limit |
| `EveryFileArrives` | `NoFileIsLost` | `LossInv`: a file asked for is still to come, in the pipe, kept, or accounted for by a failure |
| `NoMutualWait`, `NoLongTail` | that nobody waits for ever, and that a goroutine left behind takes one step more (what `CallReturns` and `GoroutineEnds` need besides fairness; in no run) | `WaitInv`: a goroutine that has ended has closed its end of the pipe, and a call that has returned its own end and the connection |
| `StoreRegistryProofs!OwnViewOnly` | `OwnView` | `OwnInv`: a store is in the map under the key it was made for |
| `WatcherIsUnique` | `OneWatcherPerClaw` | `WatchInv`: a store, in the map or in a request's hands, has the watcher of its Claw, and watchers are numbered apart |
| `OneScanStore`, `IdleReaped` | `ScansShareAStore`, `IdleStoresGo` | `IdleInv`: a scan that runs is young, a store it uses was asked for no earlier than it began, and the reaper has dropped what was idle at its last round |
| `ProvisionFormProofs!EditsStay` | `EditsSurvive` | `EditsInv`: while nothing is held as edited, and no answer to a save has found edits it did not hold, nothing is to be kept |
| `SecretsKept` | `OwnSecretsOnceShown` | `SecretsInv`, until a save is hasty or a secret's name strays: the rows are of the Claw whose lists are shown, as are those of a save under way and its secret's name, a listing's and the server's |
| `RemovalsKept` | `RemovalStays` | `LostInv`: what was removed has no row, on the page and in what is sent; `GoneInv`, until a name is sent again or strays: what is not older than the last save knows every removal, and a save under way gives only what is new |
| `ShownIsKept` | `SavedAsShown` (an action property) | `ShownInv`: a form sent as it is shown holds what the listing told of that Claw, and no more: no key and no secret's name |
| `FleetProofs!EveryRunFits` | `RunsFitTheirEvents` | the order of the events is total, so a run has a first and a last; counting (step, run) pairs against the file is a bijection |
| `SettledForGood` | `OutcomeSettles` (an action property) | what settles a run is that some event is there, and a file only grows |
| `StableMatching` | `MatchingIsStable` | `MatchingExists`: the recursion over the calls has a solution, since a smallest set of calls without one would have a last call; `CallTakes` then says what one call gets |
| `EveryMessageAttributed` | `MessagesAreAttributed` | `DeclaredAre`: dropping repeated messages drops no edge; `FleetInv`: a file begins with the start of its session, so a session that has one started after 0 |
| `RetentionIsEnough` | `RetentionKeepsEdges` | `SameHandoffs`: two logs that agree on calls, starts, prompts and starting times have the same edges |
| `NoOrderMatters`, `OrderDoesNotMatter` | `OrderIndependent`, for every order | `SameHandoffs` again, of two orders that agree wherever times differ |
| `EdgesStay` | `EdgesOnlyGrow` (an action property), for two scans of the same sessions | `ChildrenStay`: if a sooner call takes the new session, an older start of it would have been free for that call, so no later call had it |
| `ConsolePageProofs!OneClaw` | `OwnClaw` | `ScopeInv`: nothing is asked for or shown before a Claw is picked, and the loop alone asks which to pick |
| `FaithfulReplay` | `ReplayIsFaithful` | `ReplayInv` and `MineInv`: the events of a replay are the first of its file, one tick at most tails it, that tick's `after` is how many there are, and what was sent for it, or for an opening, is still what comes next in the file unless the replay is marked |

Every `TypeOK` is proved as well (`TypeCorrect` in each module of proofs, in
`FleetProofs` a part of `FleetInvariant`). The theorems are for any number of
callers, sessions, events, notes, lines, requests, files, pods, Claws, providers
and ticks, and any limits, given only the assumptions named in the
modules (`StoreAssumption`, `ExecAssumption`, ...). `ProvisionFormProofs` states
`FormAssumption` as a hypothesis of each theorem instead, because it names the
segments that models are made of, a constant only the proofs use.

What `Fleet` computes is defined by recursion, and the induction theorems of the
library take an operator that the prover cannot instantiate. Its proofs use the
well-foundedness of finite subsets instead: of the sets of calls that have no
solution, or of the calls that break a property, there is a least one.

Model-checked only are the liveness properties (`WaitersReturn`, `CallReturns`,
`GoroutineEnds`, `ReplayCatchesUp`, `PageSettles`): the prover handles neither
`ENABLED` nor the arguments from fairness. Of the second and third, `NoMutualWait`
and `NoLongTail` prove the part that is not about fairness; of the first,
`NoLostWakeup`. Every invariant and every action
property that a passing run checks is proved.

## 6. Where the code and its documentation disagree

1. **A silent run stays "running"** (`StaleIsMarked`, `store.go:292`). The outcome
   is computed when a file is parsed and cached with it, so a run that stops
   writing is not found stale until its file changes, which it does not.
2. **A first reading that lacks notes ends the silence** (`BaselineIsSilent`,
   `store.go:698`). `memoryFeed` drops the read's error; the notes that did not
   arrive are announced as created by the next request.
3. **A slow request reports a change backwards** (`RealDiffs`,
   `memorywatch.go:228`). Any identity that differs from the record is taken as
   newer. What was read before a faster request observed a later version is
   diffed against it.
4. **A Claw is given another's secret** (`OwnSecrets`, `static/app.js:1612` of the
   deployer). `config/deployer/README.md:12` says that each Claw has a secret of its
   own for each provider. The click on Save takes the name from its field and the
   rows from the page, which shows those of the Claw before until the listing
   asked for by the name's change has landed. Once it has, the property holds
   (`OwnSecretsOnceShown`, proved), names typed for another Claw excepted.

Noticed while modelling, without a run of their own.

In the console's server:

- A trajectory over `maxSessionFileBytes` and a note over `maxNoteBytes` are cut,
  and nothing says so (`source.go:383`, `:448`): the comment at `exec.go:107` calls
  this "the silent omission this console exists to refuse", and `README.md:68` says
  that gaps are counted. What is cut is cached or recorded under the full size that
  was listed. Of the lines of a note added beyond `maxAddedLinesPerEvent` an event
  tells the number (`memorywatch.go:257`).
- A connection that is closed in good order before all output came passes for one
  that ended (`exec.go:113`, `:218`): no call asks whether a status came, and a server
  that is going away is taken for the end, although the comment says that only a
  clean close means the output is complete. A listing or a transcript captured then
  is shorter than it was, and succeeds.
- An inferred edge shown goes when its session falls past the cap of its agent or
  changes and cannot be read (`store.go:244`, `:292`), and another session may be
  shown in its place until it is back.
- A plain transcript missing from the batch is skipped without a count
  (`store.go:333`), although `README.md:70` says unreadable files are counted.
- A session whose trajectory could not be read is shown from its transcript.
- A trimmed note that is touched announces all its lines as added
  (`memorywatch.go:249`).
- When no session of a key had started, a message is given to the first one,
  although the comment at `handoffs.go:94` promises none; events in the same
  millisecond are matched in the order of a map.

In the console's page:

- A click's tick runs beside the loop's: an older answer may land after a newer one
  until the next tick, and a session tailed by both shows its events twice.
- Events are asked for by how many the page has, and sorted by time: one that sorts
  before those shown, or before those of an answer on its way, is never shown, and
  the last one is shown twice (`handlers.go:292`).
- A replay opened by its address asks before `loadScope()` has a Claw, and shows
  "Session not found" until it is opened again. The answer of an earlier opening,
  landing last, leaves "Loading session…".
- Bodies of notes are cached by path across Claws (`app.js:205`).

In the deployer:

- An idle request can be undone by a provision that read the spec before it.
- A Claw with a Vertex provider cannot be saved from the page again: its rows come
  back without project and location, which `helpers.go:277` requires.
- The name in "Existing Secret name" is cleared by no save and by no pick
  (`app.js:1642`, `:655`), and every save makes a credential of it for the provider
  selected (`claw.go:287`): a provider removed and saved comes back with the next
  save, and a name typed for one Claw is given to another.
- Edits made while a save is under way are dropped by its answer (`app.js:1646`).
  A listing older than a save puts back the rows it removed; one that failed
  shows no Claws, so that the next save configures the agent as if it were new.
- With `openrouter` selected, the primary model is saved with its prefix in front;
  a provider removed leaves its model as the primary if the field is not cleared; a
  save that names no model deletes all models; aliases are overwritten.
- `google` and `google-vertex` share a prefix, and `modelForProvider` takes
  models in the order of a map: a row may show another provider's model.

## 7. Not modelled, and plan

Left out for good: the layout of pages and metrics, the parsing of front matter,
JSON lines and tar headers, the websocket and HTTP layers, the regular
expressions that find keys and targets in texts, validation and naming of
Kubernetes objects, manifests and examples. They hold no state, and the models
take their results as inputs.

Left out so far:

- the console's agent, metrics, wiki and notes views, and the paging of
  transcripts;
- of the deployer's form, the integrations, which follow the same path as the
  model providers with more kinds of secret, and the files of an agent; the
  agents' list, image and memory settings that a save carries along;
- restart, whose two patches have no state of the deployer's own;
- the keys inside a secret: each secret holds one value;
- the listing of Claws over namespaces, and the identity headers.

Done, in this order: `SessionStore` with `SnapshotService`, `MemoryWatch`,
`ClawProvision`, `ExecStream`, `Trajectory` with `Handoffs` and `Fleet`,
`StoreRegistry`, `ConsolePage`, `ProvisionForm`.

Next, in order of what can go wrong:

1. `ExecStream` under `SessionStore`: an abstract "batch" specification (each
   file whole, or missing for a reason) that `ExecStream` implements and `Fetch`
   assumes.
2. `ClawProvision` widened: two entries that share one secret under different
   keys, restart and its two patches, and the two field managers of `idle` as an
   abstract specification. `ProvisionForm` over it, with two pages.
3. The views that sum a snapshot: agents, token totals, and the two ways a run's
   parent is found (the first edge in the list, the last one on a run's page).
4. The listing of Claws over namespaces, which fans out and merges.
5. The watcher's state files: their names join namespace and Claw with `--`, and
   two pairs can share one.
