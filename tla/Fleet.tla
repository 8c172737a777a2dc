-------------------------------- MODULE Fleet --------------------------------
(***************************************************************************)
(* The agents of a Claw appending events to their sessions' files, and     *)
(* what a scan makes of the files at every moment: the runs of each        *)
(* session and the handoffs between sessions.  The console keeps nothing   *)
(* of either from one scan to the next.                                    *)
(*                                                                         *)
(* A scan may lack a session altogether: its file could not be read and    *)
(* has changed since it was, or its agent has newer sessions up to the     *)
(* cap.  What an agent writes past the limit of what is read of a file is  *)
(* not part of `logs`.                                                     *)
(***************************************************************************)
EXTENDS Handoffs

CONSTANTS
  Scopes      (* bound: what may be written in a behaviour                 *)

\* What an event says besides its time.
Shape == [type : Types, run : Runs \cup {None}, fail : BOOLEAN,
          target : Agents \cup {None}, source : Keys \cup {None}]

\* What each session may write, how many events are written in all, whether they may be
\* stamped with an earlier time, or none, and which sessions a scan may lack.
Scope == [may : [Sessions -> SUBSET Shape], max : Nat, late : BOOLEAN, lacks : SUBSET Sessions]

ASSUME FleetAssumption ==
  /\ AgentOf \in [Sessions -> Agents] /\ KeyOf \in [Sessions -> Keys]
  /\ KeyAgent \in [Keys -> Agents \cup {None}] /\ KeyId \in [Keys -> Sessions \cup {None}]
  /\ \A s \in Sessions : KeyAgent[KeyOf[s]] = AgentOf[s]
  /\ \A k \in Keys : KeyId[k] # None => AgentOf[KeyId[k]] = KeyAgent[k]
  /\ {Window, StaleAfter, MaxClock} \subseteq Nat
  /\ None # Unreadable /\ {None, Unreadable} \cap Nat = {}
  /\ IsFiniteSet(Sessions) /\ None \notin Sessions
  /\ \A x \in Scopes :
       /\ x.late \in BOOLEAN /\ x.max \in Nat /\ x.lacks \subseteq Sessions
       /\ \A s \in Sessions : x.may[s] \subseteq Shape

VARIABLES
  logs,     (* session -> the events of its trajectory, <<>> if it has none *)
  clock,
  shown,    (* the sessions that a scan made now comes to analyse          *)
  edges,    (* the handoffs that it shows                                  *)
  scope     (* what this behaviour may write                               *)

vars == <<logs, clock, shown, edges, scope>>

Written == Cardinality(Positions(logs))

Stamp(shape, ts) ==
  [type |-> shape.type, ts |-> ts, run |-> shape.run, fail |-> shape.fail,
   target |-> shape.target, source |-> shape.source]

\* The sessions of a scan: without those past the cap of their agent and those that
\* could not be read.
Seen == [s \in Sessions |-> IF s \in shown THEN logs[s] ELSE <<>>]

\* scan() keeps the events of a session that the analyses need, no others.
Retained(files) == [s \in Sessions |-> RetainForAnalysis(files[s])]

\* The order of a scan, and that of another.
AnyOrder   == CHOOSE order \in [Sessions -> 1..Cardinality(Sessions)] : IsInjective(order)
OtherOrder == [s \in Sessions |-> Cardinality(Sessions) + 1 - AnyOrder[s]]

\* A session's first event says that it started, and when.
Write(s) ==
  /\ Written < scope.max
  /\ shown' = shown
  /\ \E shape \in scope.may[s], ts \in Times :
       /\ ts \in Nat => ts <= clock
       /\ ts = clock \/ (scope.late /\ logs[s] # <<>>)
       /\ logs[s] = <<>> => shape.type = "session.started"
       /\ logs' = [logs EXCEPT ![s] = Append(@, Stamp(shape, ts))]
       /\ edges' = FindHandoffs(Retained(Seen'), AnyOrder)
  /\ UNCHANGED <<clock, scope>>

\* Another scan comes by other sessions.
Scan(sessions) ==
  /\ sessions # shown /\ Sessions \ sessions \subseteq scope.lacks
  /\ shown' = sessions
  /\ UNCHANGED <<logs, clock, scope>>
  /\ edges' = FindHandoffs(Retained(Seen'), AnyOrder)

Tick ==
  /\ clock < MaxClock
  /\ clock' = clock + 1
  /\ UNCHANGED <<logs, shown, edges, scope>>

Init ==
  /\ logs = [s \in Sessions |-> <<>>]
  /\ clock = 1
  /\ shown = Sessions
  /\ edges = {}
  /\ scope \in Scopes

Next ==
  \/ Tick
  \/ \E s \in Sessions : Write(s)
  \/ \E sessions \in SUBSET Sessions : Scan(sessions)

Spec == Init /\ [][Next]_vars

-------------------------------------------------------------------------------
(***************************************************************************)
(* What the console shows.                                                 *)
(***************************************************************************)
RunsOf(s) == DeriveRuns(logs[s], clock)

Declared == {e \in edges : e.declared}
Inferred == edges \ Declared
Claimed  == {e.to : e \in Declared}

(***************************************************************************)
(* Properties.                                                             *)
(***************************************************************************)
EventsOf(s, r) == {i \in DOMAIN logs[s] : logs[s][i].run = r}

\* In whatever order a run's events were written, and with or without times: the run
\* starts with its earliest event and ends with its latest (unless a time cannot be
\* read), an error ends only a run that has finished, and an unfinished run is running
\* exactly while some event of it is recent.  "Never silently drop a record": together
\* the runs account for every event of the file, those without a run id included.
RunsFitTheirEvents ==
  \A s \in Sessions :
    /\ Cardinality(UNION {{r} \X (1..RunsOf(s)[r].steps) : r \in DOMAIN RunsOf(s)}) = Len(logs[s])
    /\ \A r \in RunIds(logs[s]) :
     LET run    == RunsOf(s)[r]
         events == {logs[s][i] : i \in EventsOf(s, r)}
         times  == {e.ts : e \in events} \cap Nat
         over   == \E e \in events : e.type \in {"model.completed", "session.ended"}
     IN /\ (\A e \in events : e.ts # Unreadable) /\ times # {} =>
             /\ {run.startedAt, run.lastEventAt} \subseteq times
             /\ \A t \in times : run.startedAt <= t /\ t <= run.lastEventAt
        /\ run.outcome = "error" => over
        /\ ~over => (run.outcome = "running" <=> \E t \in times : clock <= t + StaleAfter)

\* A run that has finished never runs again, and an error is never taken back, however
\* late the events that follow.
OutcomeSettles ==
  [][\A s \in Sessions : \A r \in DOMAIN RunsOf(s) :
       LET before == RunsOf(s)[r].outcome
           after  == RunsOf(s)'[r].outcome
       IN /\ before \in {"ok", "error"} => after \in {"ok", "error"}
          /\ before = "error" => after = "error"]_vars

\* "A child session already claimed by a declared parent is not re-attributed", "the
\* first spawn always wins" (handoffs.go): no session has two parents, and no call and
\* session of the scan that fit could both do better than what they got.
MatchingIsStable ==
  LET ms(p) == Millis(At(Seen, p).ts)
  IN /\ \A e, f \in Inferred : e.to = f.to => e = f
     /\ \A e \in Inferred : e.to \notin Claimed
     /\ \A c \in Calls(Seen), q \in Starts(Seen) :
          Fits(Seen, c, q) /\ q[1] \notin Claimed =>
            \/ \E e \in Inferred : e.to = q[1] /\ Millis(e.ts) <= ms(c)
            \/ \E e \in Inferred, p \in Starts(Seen) :
                 /\ e.fromSession = c[1] /\ e.ts = At(Seen, c).ts
                 /\ e.to = p[1] /\ Fits(Seen, c, p) /\ ms(p) <= ms(q)

\* "One edge per message, not per session pair" (handoffs.go): every prompt of the scan
\* that another agent's session sent has an edge, and nothing else has.  A key is used
\* again by a later session of its agent: the edge comes from the newest session of the
\* key, of those in the scan, that had started when the prompt was sent, if there was one.
MessagesAreAttributed ==
  LET startOf(t) == StartMs(Retained(Seen)[t]) IN
  /\ \A d \in Declared : \E i \in DOMAIN Seen[d.to] :
       Seen[d.to][i].ts = d.ts /\ Seen[d.to][i].source # None
  /\ \A s \in Sessions : \A i \in DOMAIN Seen[s] :
       LET e       == Seen[s][i]
           started == {t \in Sessions : KeyOf[t] = e.source /\ Seen[t] # <<>>
                                          /\ startOf(t) <= Millis(e.ts)}
       IN e.type = "prompt.submitted" /\ e.source # None
            /\ KeyAgent[e.source] \in Agents \ {AgentOf[s]} =>
            \E d \in Declared :
              /\ d.to = s /\ d.ts = e.ts /\ d.fromAgent = KeyAgent[e.source]
              /\ started # {} =>
                   /\ d.fromSession \in started
                   /\ \A t \in started : startOf(t) <= startOf(d.fromSession)

\* No event is stamped before its session started.
InTime ==
  \A s \in Sessions : \A i \in DOMAIN Seen[s] :
    Seen[s][i].ts \in Nat => Seen[s][1].ts <= Seen[s][i].ts

\* Dropping the events that the analyses do not look at changes no edge.
RetentionKeepsEdges == InTime => edges = FindHandoffs(Seen, AnyOrder)

\* No two calls, and no two starts, at the same time.
Untied ==
  \A P \in {Calls(Seen), Starts(Seen)} : \A p, q \in P :
    p # q => Millis(At(Seen, p).ts) # Millis(At(Seen, q).ts)

\* No two sessions of one key started at the same time.
UntiedKeys ==
  LET startOf(t) == StartMs(Retained(Seen)[t])
  IN \A s, t \in Sessions :
       s # t /\ KeyOf[s] = KeyOf[t] /\ <<>> \notin {Seen[s], Seen[t]} => startOf(s) # startOf(t)

\* scan() goes through the agents in the order of a map, which is another one for every
\* scan: turned around, it gives the same edges, unless two things happened at once.
OrderIndependent ==
  Untied /\ UntiedKeys => edges = FindHandoffs(Retained(Seen), OtherOrder)

\* What is written now says so.
OnTime == \A p \in Positions(Seen') \ Positions(Seen) : At(Seen', p).ts = clock

\* From scan to scan an inferred edge stays as it is, whatever calls and sessions come
\* later, unless a session turns out to have a declared parent.  Excluded is a scan that
\* comes by other sessions than the one before: the edges of a session it lacks are gone,
\* and another session may take their place.
EdgesOnlyGrow ==
  [][shown' = shown /\ Claimed' = Claimed /\ Untied' /\ OnTime =>
       Inferred \subseteq Inferred']_vars
===============================================================================
