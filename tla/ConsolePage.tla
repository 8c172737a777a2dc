----------------------------- MODULE ConsolePage -----------------------------
(***************************************************************************)
(* The console's page (static/app.js) and the answers it is built from.    *)
(* One loop refreshes the page of the picked Claw every few seconds and    *)
(* then tails the session on the replay page, if that still runs.  Picking *)
(* another Claw, or asking for all runs, starts a refresh of its own       *)
(* beside the loop's.  Opening a session asks for its first events.        *)
(*                                                                         *)
(* JavaScript runs one callback at a time: an action is what happens       *)
(* between two awaits.  The server reads what it answers with at one       *)
(* moment and the answer arrives at another; answers come back in any      *)
(* order, or fail.                                                         *)
(*                                                                         *)
(* A session is named by its key, agent/id, which is of one Claw.  The     *)
(* server keeps a session's events sorted by their time; its snapshot says *)
(* how the session's latest run ended, and may be older than the events.   *)
(***************************************************************************)
EXTENDS Naturals, Sequences, FiniteSets, SequencesExt

CONSTANTS
  Claws,
  Keys,       (* sessions                                                  *)
  Home,       (* session -> its Claw                                       *)
  None,
  Loop,       (* the tick of scheduleTick()                                *)
  Clicks,     (* bound: ticks a click has started that may be under way    *)
  PageLimit,  (* the limit of one answer's events                          *)
  MaxLoads,   (* bound: openings under way                                 *)
  MaxEvents,  (* bound: events written                                     *)
  MaxRev      (* bound: changes of a Claw's snapshot                       *)

ASSUME PageAssumption ==
  /\ Home \in [Keys -> Claws] /\ IsFiniteSet(Keys)
  /\ None \notin Claws \cup Keys /\ Loop \notin Clicks
  /\ {PageLimit, MaxEvents, MaxLoads} \subseteq Nat \ {0} /\ MaxRev \in Nat

VARIABLES
  file,        (* session -> its events, sorted                            *)
  outcome,     (* session -> that of its latest run in the snapshot        *)
  rev,         (* Claw -> how often its snapshot has changed               *)
  claw,        (* state.namespace and state.claw, None before loadScope()  *)
  route,       (* the session of the replay page, None on any other page   *)
  page,        (* state.agents, .runs and the rest that refresh() assigns  *)
  session,     (* state.session                                            *)
  sessionKey,  (* state.sessionKey                                         *)
  ticks,       (* what each tick() awaits                                  *)
  loads        (* what each loadSession() awaits, in the order sent        *)

vars == <<file, outcome, rev, claw, route, page, session, sessionKey, ticks, loads>>
server == <<file, outcome, rev>>

Ticks    == {Loop} \cup Clicks
Outcomes == {"none", "running", "over"}
Written  == 1..MaxEvents

\* What render() shows: nothing yet, the data, that they could not be had, or "Could not
\* determine your access".
Page == [status : {"loading", "shown", "failed", "denied"},
         claw : Claws \cup {None}, rev : 0..MaxRev, running : SUBSET Keys,
         late : BOOLEAN]

\* `live` is the outcome of the session's run when it was opened.  To state properties
\* with: `late`, what is there was asked for under another Claw than the one picked when
\* it came; `spoiled`, two ticks tailed the session at once, or an event was written
\* that sorts before one it holds or one on its way to it.
Session == [key : Keys, events : Seq(Written), live : Outcomes, late : BOOLEAN,
            spoiled : BOOLEAN]

ASSUME SessionAssumption == None \notin Session

Answer == [status : {"shown"}, rev : 0..MaxRev, running : SUBSET Keys]
            \cup [status : {"failed"}]

\* A tick asks for the scope, then for the page, then for a session's further events;
\* `mine` is whether the session it tails is still state.session, `sent` what the
\* server read for it.
Tick == [at : {"idle", "scope", "asked", "answered", "tailing", "tailed"},
         claw : Claws \cup {None}, answer : Answer \cup {None},
         after : Nat, mine : BOOLEAN, sent : Seq(Written)]

\* An opening asks, and is answered with a session or told that there is none.
Load == [key : Keys, claw : Claws \cup {None}, answered : BOOLEAN,
         answer : Session \cup {None}]

Asks(k, c) == [key |-> k, claw |-> c, answered |-> FALSE, answer |-> None]

Idle == [at |-> "idle", claw |-> None, answer |-> None, after |-> 0, mine |-> FALSE,
         sent |-> <<>>]
Asking(c) == [Idle EXCEPT !.at = "asked", !.claw = c]

Blank == [status |-> "loading", claw |-> None, rev |-> 0, running |-> {},
          late |-> FALSE]

TypeOK ==
  /\ file \in [Keys -> Seq(Written)]
  /\ outcome \in [Keys -> Outcomes] /\ rev \in [Claws -> 0..MaxRev]
  /\ claw \in Claws \cup {None} /\ {route, sessionKey} \subseteq Keys \cup {None}
  /\ page \in Page
  /\ session \in Session \cup {None}
  /\ session # None => session.key = sessionKey
  /\ ticks \in [Ticks -> Tick]
  /\ loads \in Seq(Load) /\ Len(loads) <= MaxLoads

(***************************************************************************)
(* The Claws: an agent writes an event, and a scan sees a run begin or end.*)
(***************************************************************************)
Events == {e \in Keys \X Written : e[2] \in DOMAIN file[e[1]]}

\* An event written at p sorts before one of the replay s, or of what is sent to it.
Behind(s, sent, k, p) == s # None /\ s.key = k /\ p <= Len(s.events) + sent

Spoiled(s, sent, k, p) == IF Behind(s, sent, k, p) THEN [s EXCEPT !.spoiled = TRUE] ELSE s

\* How many events are on their way to the session of the page.
Coming == LET tails == {t \in Ticks : ticks[t].mine} IN
          IF tails = {} THEN 0 ELSE Len(ticks[CHOOSE t \in tails : TRUE].sent)

EventWritten(k) ==
  /\ Cardinality(Events) < MaxEvents
  /\ \E p \in 1..(Len(file[k]) + 1) :
       /\ file' = [file EXCEPT ![k] = InsertAt(@, p, Cardinality(Events) + 1)]
       /\ session' = Spoiled(session, Coming, k, p)
       /\ loads' = [i \in DOMAIN loads |->
                      [loads[i] EXCEPT !.answer = Spoiled(@, 0, k, p)]]
  /\ UNCHANGED <<outcome, rev, claw, route, page, sessionKey, ticks>>

SnapshotChanges(k) ==
  /\ file[k] # <<>> /\ rev[Home[k]] < MaxRev
  /\ \E o \in Outcomes \ {outcome[k]} : outcome' = [outcome EXCEPT ![k] = o]
  /\ rev' = [rev EXCEPT ![Home[k]] = @ + 1]
  /\ UNCHANGED <<file, claw, route, page, session, sessionKey, ticks, loads>>

(***************************************************************************)
(* tick(): loadScope() once, refresh(), then tailSession().                *)
(***************************************************************************)
\* Mutation: the session on the page is tailed for as long as the snapshot has it run.
RunsInSnapshot(s, shown) == s.key \in shown.running

IsRunningSession(s, shown) ==
  \/ s.live = "running"
  \/ s.live = "none" /\ s.key \in shown.running

\* Mutation: the loop ends when a refresh fails.
TickStartsIfShown(t) ==
  /\ ticks[t].at = "idle" /\ page.status \notin {"denied", "failed"}
  /\ t # Loop => page.status = "shown"
  /\ ticks' = [ticks EXCEPT ![t] = IF claw = None THEN [Idle EXCEPT !.at = "scope"]
                                   ELSE Asking(claw)]
  /\ UNCHANGED <<server, claw, route, page, session, sessionKey, loads>>

\* The loop's timer, while the document is visible, or 'load-all-runs'.
TickStarts(t) ==
  /\ ticks[t].at = "idle" /\ page.status # "denied"
  /\ t # Loop => page.status = "shown"
  /\ ticks' = [ticks EXCEPT ![t] = IF claw = None THEN [Idle EXCEPT !.at = "scope"]
                                   ELSE Asking(claw)]
  /\ UNCHANGED <<server, claw, route, page, session, sessionKey, loads>>

\* The scope is asked for once: if that fails, or there is no Claw to read, the page
\* stays without one until it is loaded again.
ScopeLands(t) ==
  /\ ticks[t].at = "scope"
  /\ \/ \E c \in Claws :
          /\ claw' = c
          /\ ticks' = [ticks EXCEPT ![t] = Asking(c)]
          /\ page' = page
     \/ /\ claw' = claw
        /\ ticks' = [ticks EXCEPT ![t] = Idle]
        /\ page' = [page EXCEPT !.status = "denied"]
  /\ UNCHANGED <<server, route, session, sessionKey, loads>>

\* The five requests are answered for the Claw they named, or one of them fails.
RefreshServed(t) ==
  /\ ticks[t].at = "asked"
  /\ ticks' = [ticks EXCEPT ![t].at = "answered", ![t].answer =
       [status |-> "shown", rev |-> rev[ticks[t].claw],
        running |-> {k \in Keys : Home[k] = ticks[t].claw /\ outcome[k] = "running"}]]
  /\ UNCHANGED <<server, claw, route, page, session, sessionKey, loads>>

RefreshRefused(t) ==
  /\ ticks[t].at = "asked"
  /\ ticks' = [ticks EXCEPT ![t].at = "answered", ![t].answer = [status |-> "failed"]]
  /\ UNCHANGED <<server, claw, route, page, session, sessionKey, loads>>

\* What an answer makes of the page.
Landed(t) ==
  LET answer == ticks[t].answer IN
  IF answer.status = "failed" THEN [page EXCEPT !.status = "failed"]
  ELSE [status |-> "shown", claw |-> ticks[t].claw, rev |-> answer.rev,
        running |-> answer.running, late |-> ticks[t].claw # claw]

\* The session on the page is tailed if it is the one asked for and it runs.
Tails(shown) ==
  /\ route # None /\ sessionKey = route /\ session # None
  /\ IsRunningSession(session, shown)

RefreshLands(t) ==
  /\ ticks[t].at = "answered"
  /\ page' = Landed(t)
  /\ IF Tails(page')
     THEN /\ ticks' = [ticks EXCEPT ![t] =
                        [Idle EXCEPT !.at = "tailing", !.claw = claw,
                                     !.after = Len(session.events), !.mine = TRUE]]
          /\ session' = IF \E u \in Ticks \ {t} : ticks[u].mine
                        THEN [session EXCEPT !.spoiled = TRUE] ELSE session
     ELSE ticks' = [ticks EXCEPT ![t] = Idle] /\ session' = session
  /\ UNCHANGED <<server, claw, route, sessionKey, loads>>

\* Mutation: the last event is asked for again.
SliceFromLast(k, after) ==
  LET n == Len(file[k]) IN
  SubSeq(file[k], IF after = 0 THEN 1 ELSE after,
         IF after + PageLimit > n THEN n ELSE after + PageLimit)

\* slicePage of the sorted events.
Slice(k, after) ==
  LET n == Len(file[k]) IN
  SubSeq(file[k], after + 1, IF after + PageLimit > n THEN n ELSE after + PageLimit)

\* The server reads the file.  Another Claw than the session's answers that there is no
\* such session, and nobody waits for what is sent to a session that was left.
TailServed(t) ==
  /\ ticks[t].at = "tailing"
  /\ ticks' = [ticks EXCEPT ![t].at = "tailed",
                            ![t].sent = IF ticks[t].mine /\ ticks[t].claw = Home[session.key]
                                        THEN Slice(session.key, ticks[t].after) ELSE <<>>]
  /\ UNCHANGED <<server, claw, route, page, session, sessionKey, loads>>

TailLands(t) ==
  /\ ticks[t].at = "tailed"
  /\ session' = IF ticks[t].mine THEN [session EXCEPT !.events = @ \o ticks[t].sent]
                ELSE session
  /\ ticks' = [ticks EXCEPT ![t] = Idle]
  /\ UNCHANGED <<server, claw, route, page, sessionKey, loads>>

TailFails(t) ==
  /\ ticks[t].at = "tailing"
  /\ ticks' = [ticks EXCEPT ![t] = Idle]
  /\ UNCHANGED <<server, claw, route, page, session, sessionKey, loads>>

(***************************************************************************)
(* The reader.                                                             *)
(***************************************************************************)
\* state.session becomes another object: a tail under way has lost its own.
Forgotten == [t \in Ticks |-> [ticks[t] EXCEPT !.mine = FALSE, !.sent = <<>>]]

\* Mutation: only the page's data go.
PickClawOnly(c, t) ==
  /\ claw # None /\ c # claw /\ ticks[t].at = "idle"
  /\ claw' = c
  /\ page' = Blank
  /\ ticks' = [ticks EXCEPT ![t] = Asking(c)]
  /\ UNCHANGED <<server, route, session, sessionKey, loads>>

\* 'scope': a session id only means something within its own Claw.
PickClaw(c, t) ==
  /\ claw # None /\ c # claw /\ ticks[t].at = "idle"
  /\ claw' = c
  /\ page' = Blank
  /\ route' = None /\ session' = None /\ sessionKey' = None
  /\ ticks' = [Forgotten EXCEPT ![t] = Asking(c)]
  /\ UNCHANGED <<server, loads>>

\* onHashChange().
Open(k) ==
  /\ route' = k
  /\ IF sessionKey = k THEN UNCHANGED <<session, sessionKey, ticks, loads>>
     ELSE /\ Len(loads) < MaxLoads
          /\ session' = None /\ sessionKey' = None /\ ticks' = Forgotten
          /\ loads' = Append(loads, Asks(k, claw))
  /\ UNCHANGED <<server, claw, page>>

Leave ==
  /\ route' = None /\ session' = None /\ sessionKey' = None /\ ticks' = Forgotten
  /\ UNCHANGED <<server, claw, page, loads>>

\* loadSession(): the server reads the file, or the request fails; the answer is
\* installed whatever page it arrives on.
Found(l) ==
  IF l.claw # Home[l.key] \/ file[l.key] = <<>> THEN None
  ELSE [key |-> l.key, events |-> Slice(l.key, 0), live |-> outcome[l.key],
        late |-> FALSE, spoiled |-> FALSE]

LoadServed(i) ==
  /\ ~loads[i].answered
  /\ \E found \in {Found(loads[i]), None} :
       loads' = [loads EXCEPT ![i].answered = TRUE, ![i].answer = found]
  /\ UNCHANGED <<server, claw, route, page, session, sessionKey, ticks>>

LoadLands(i) ==
  /\ loads[i].answered
  /\ session' = IF loads[i].answer = None THEN None
                ELSE [loads[i].answer EXCEPT !.late = loads[i].claw # claw]
  /\ sessionKey' = loads[i].key
  /\ ticks' = Forgotten
  /\ loads' = RemoveAt(loads, i)
  /\ UNCHANGED <<server, claw, route, page>>

Init ==
  /\ file \in [Keys -> {<<>>, <<1>>}]
  /\ outcome \in [Keys -> Outcomes]
  /\ \A k \in Keys : file[k] = <<>> => outcome[k] = "none"
  /\ rev = [c \in Claws |-> 0]
  /\ claw = None /\ page = Blank
  /\ route \in Keys \cup {None}
  /\ session = None /\ sessionKey = None
  /\ ticks = [t \in Ticks |-> Idle]
  /\ loads = IF route = None THEN <<>> ELSE <<Asks(route, None)>>

Next ==
  \/ \E k \in Keys : EventWritten(k) \/ SnapshotChanges(k) \/ Open(k)
  \/ \E t \in Ticks : \/ TickStarts(t) \/ ScopeLands(t) \/ RefreshServed(t)
                      \/ RefreshRefused(t) \/ RefreshLands(t)
                      \/ TailServed(t) \/ TailFails(t) \/ TailLands(t)
  \/ \E c \in Claws, t \in Clicks : PickClaw(c, t)
  \/ Leave
  \/ \E i \in DOMAIN loads : LoadServed(i) \/ LoadLands(i)

\* Every request is answered at last, and a request made again and again does not fail
\* every time.  Nothing is asked of the reader, of the agents or of the scans.
Fairness ==
  /\ WF_vars(TickStarts(Loop))
  /\ \A t \in Ticks :
       /\ WF_vars(ScopeLands(t) \/ RefreshServed(t) \/ RefreshRefused(t) \/ RefreshLands(t))
       /\ WF_vars(TailServed(t) \/ TailFails(t) \/ TailLands(t))
  /\ SF_vars(RefreshServed(Loop)) /\ SF_vars(TailServed(Loop))

Spec == Init /\ [][Next]_vars
FairSpec == Spec /\ Fairness

-------------------------------------------------------------------------------
(***************************************************************************)
(* Properties.                                                             *)
(***************************************************************************)
\* "What is shown starts from the beginning of the file" (app.js): the events of a
\* session opened, tailed page by page while the agent writes and the reader goes back
\* and forth, are the first of its file, none twice and none left out.  Excluded, since
\* the page asks for events by their number only: two ticks tailed it at once, or an
\* event was written that sorts before one shown, or before one of an answer on its way.
ReplayIsFaithful ==
  session # None /\ ~session.spoiled => IsPrefix(session.events, file[session.key])

\* "A session id only means something within its own Claw" (app.js): a pick leaves
\* nothing of the Claw before on the page.  What is there of another Claw arrived later,
\* in answer to a request made before the pick.
OwnClaw ==
  /\ page.claw # None /\ ~page.late => page.claw = claw
  /\ session # None /\ ~session.late => Home[session.key] = claw

\* "tailed while the session is still running" (app.js): the replay of a session that
\* ran when it was opened comes to hold every event there is, while the reader stays.
Shown(k) == route = k /\ session # None /\ session.key = k /\ Home[k] = claw
              /\ session.live = "running" /\ ~session.spoiled

CaughtUp(k) == session # None /\ Len(session.events) >= Len(file[k])

ReplayCatchesUp == \A k \in Keys : Shown(k) ~> (CaughtUp(k) \/ ~Shown(k))

\* Whatever answers of earlier refreshes, or of another Claw, landed in between: while
\* the reader stays with a Claw, the page returns to what the server has of it.
Fresh == page.status = "shown" /\ page.claw = claw /\ page.rev = rev[claw]

PageSettles == \A c \in Claws : <>[](claw = c) => []<>Fresh
===============================================================================
