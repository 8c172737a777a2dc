------------------------------- MODULE Handoffs -------------------------------
(***************************************************************************)
(* Which session handed work to which: findHandoffs, on the events of all  *)
(* sessions.  A prompt sent from another session names that session's key: *)
(* a declared handoff.  A tool call that spawns an agent, followed by a    *)
(* session of that agent soon after, is an inferred one, unless the        *)
(* session already has a declared parent.                                  *)
(*                                                                         *)
(* `logs` gives each session's events at their places in its file, and     *)
(* `order` the place of each session in the scan: the order of the agents  *)
(* is that of a map, any at all.                                           *)
(***************************************************************************)
EXTENDS Trajectory

CONSTANTS
  Sessions,
  AgentOf,      (* session -> its agent                                    *)
  KeyOf,        (* session -> the key its events carry                     *)
  KeyAgent,     (* key -> the agent it names, or None                      *)
  KeyId,        (* key -> the session id it ends in, or None               *)
  Window        (* handoffWindowMillis                                     *)

\* Handoff.  `declared` is whether it has a tool.
Handoff == [fromAgent : Agents, fromSession : Sessions \cup {None}, fromRun : Runs \cup {None},
            to : Sessions, ts : Times, declared : BOOLEAN]

\* Every event, as a session and a place in its file.
Positions(logs) == UNION {{s} \X DOMAIN logs[s] : s \in Sessions}

At(logs, p) == logs[p[1]][p[2]]

\* The order in which a scan comes by them.
Found(order, p, q) ==
  \/ order[p[1]] < order[q[1]]
  \/ p[1] = q[1] /\ p[2] < q[2]

(***************************************************************************)
(* declaredHandoffs.                                                       *)
(***************************************************************************)
\* When a session started, as far as its events tell.
StartMs(log) ==
  LET times == {Millis(log[i].ts) : i \in DOMAIN log} \ {0}
  IN IF times = {} THEN 0 ELSE CHOOSE t \in times : \A u \in times : t <= u

\* sessionsByKey: the sessions of a key, and their order.
ByKey(logs, key) == {s \in Sessions : KeyOf[s] = key /\ DOMAIN logs[s] # {}}

Earlier(logs, order, s, t) ==
  \/ StartMs(logs[s]) < StartMs(logs[t])
  \/ StartMs(logs[s]) = StartMs(logs[t]) /\ order[s] < order[t]

Newest(logs, order, S) == CHOOSE s \in S : \A t \in S \ {s} : Earlier(logs, order, t, s)
Oldest(logs, order, S) == CHOOSE s \in S : \A t \in S \ {s} : Earlier(logs, order, s, t)

\* Mutation: takes the first session that had started, not the newest.
ResolveFirst(logs, order, key, ms) ==
  LET found   == ByKey(logs, key)
      started == {s \in found : StartMs(logs[s]) <= ms \/ ms = 0}
  IN IF started # {} THEN Oldest(logs, order, started)
     ELSE IF found # {} THEN Oldest(logs, order, found)
     ELSE KeyId[key]

\* resolveSourceSession: the newest session of the key that had started, or else the
\* first of the key at all, or else the id at the end of the key.
ResolveSource(logs, order, key, ms) ==
  LET found   == ByKey(logs, key)
      started == {s \in found : StartMs(logs[s]) <= ms \/ ms = 0}
  IN IF started # {} THEN Newest(logs, order, started)
     ELSE IF found # {} THEN Oldest(logs, order, found)
     ELSE KeyId[key]

\* A prompt sent from a session of another agent that the console knows.
IsMessage(logs, order, p) ==
  LET e == At(logs, p) IN
  /\ e.type = "prompt.submitted" /\ e.source # None
  /\ KeyAgent[e.source] \in Agents \ {AgentOf[p[1]]}
  /\ ResolveSource(logs, order, e.source, Millis(e.ts)) # p[1]

\* Mutation: one message for each session and sender.
SamePair(logs, p, q) == p[1] = q[1] /\ At(logs, p).source = At(logs, q).source

\* Two messages that count as one.
SameMessage(logs, p, q) ==
  /\ p[1] = q[1] /\ At(logs, p).source = At(logs, q).source
  /\ At(logs, p).ts = At(logs, q).ts

DeclaredHandoffs(logs, order) ==
  LET messages == {p \in Positions(logs) : IsMessage(logs, order, p)}
      edge(p) == LET e == At(logs, p) IN
        [fromAgent |-> KeyAgent[e.source],
         fromSession |-> ResolveSource(logs, order, e.source, Millis(e.ts)),
         fromRun |-> None, to |-> p[1], ts |-> e.ts, declared |-> TRUE]
  IN {edge(p) : p \in {p \in messages : \A q \in messages :
                         Found(order, q, p) => ~SameMessage(logs, q, p)}}

(***************************************************************************)
(* inferHandoffs.                                                          *)
(***************************************************************************)
Starts(logs) == {p \in Positions(logs) : At(logs, p).type = "session.started"}

\* The calls that spawn another agent.
Calls(logs) ==
  {p \in Positions(logs) : LET e == At(logs, p) IN
     e.type = "tool.call" /\ e.target \notin {None, AgentOf[p[1]]}}

\* Mutation: calls and starts are taken as they were found.
AsFound(logs, order, p, q) == Found(order, p, q)

\* By time, and those of one time as they were found.
Sooner(logs, order, p, q) ==
  LET at == Millis(At(logs, p).ts)
      ms == Millis(At(logs, q).ts)
  IN at < ms \/ (at = ms /\ Found(order, p, q))

\* A session of the target that started within the window after the call.
Fits(logs, call, start) ==
  LET at == Millis(At(logs, call).ts)
      ms == Millis(At(logs, start).ts)
  IN /\ AgentOf[start[1]] = At(logs, call).target
     /\ at <= ms /\ ms <= at + Window

\* The starts that a call may take.
Free(logs, call, consumed) ==
  {p \in Starts(logs) : Fits(logs, call, p) /\ p[1] \notin consumed}

\* Mutation: the last of them.
Last(logs, order, P) == CHOOSE p \in P : \A q \in P \ {p} : Sooner(logs, order, q, p)

First(logs, order, P) == CHOOSE p \in P : \A q \in P \ {p} : Sooner(logs, order, p, q)

\* The session of the first start that fits and is not yet taken.
Child(logs, order, call, consumed) ==
  LET free == Free(logs, call, consumed)
  IN IF free = {} THEN None ELSE First(logs, order, free)[1]

\* Each call in turn takes a child, if it finds one.
Children(logs, order, claimed) ==
  LET calls == Calls(logs)
      child[c \in calls] ==
        Child(logs, order, c,
              claimed \cup {child[d] : d \in {d \in calls : Sooner(logs, order, d, c)}})
  IN child

InferHandoffs(logs, order, claimed) ==
  LET child == Children(logs, order, claimed)
      edge(c) ==
        [fromAgent |-> AgentOf[c[1]], fromSession |-> c[1],
         fromRun |-> At(logs, c).run, to |-> child[c],
         ts |-> At(logs, c).ts, declared |-> FALSE]
  IN {edge(c) : c \in {c \in Calls(logs) : child[c] # None}}

\* Mutation: sessions with a declared parent are inferred one all the same.
FindUnclaimed(logs, order) ==
  DeclaredHandoffs(logs, order) \cup InferHandoffs(logs, order, {})

FindHandoffs(logs, order) ==
  LET declared == DeclaredHandoffs(logs, order)
  IN declared \cup InferHandoffs(logs, order, {e.to : e \in declared})
===============================================================================
