------------------------------ MODULE Trajectory ------------------------------
(***************************************************************************)
(* What the console works out of the events of one session: its runs       *)
(* (deriveRuns), and the part of the events kept for the analyses across   *)
(* sessions (retainForAnalysis).                                           *)
(*                                                                         *)
(* A session's file is a sequence of events.  Of an event, its type, when  *)
(* it happened, its run, whether it reports an error, and what the         *)
(* analyses look for in it: the agent a tool call spawns, the session key  *)
(* a prompt was sent from.  Token counts and texts are left out; events    *)
(* with the same time are taken to have sequence numbers in file order.    *)
(***************************************************************************)
EXTENDS Naturals, FiniteSets, Sequences, Functions

CONSTANTS
  Runs,         (* run ids                                                 *)
  Agents,       (* agent names, with a directory of their own              *)
  Keys,         (* session keys                                            *)
  None,         (* no time, no run ("unknown-run"), no target, no sender   *)
  Unreadable,   (* a time that does not parse                              *)
  StaleAfter,   (* staleAfter                                              *)
  MaxClock      (* bound: times                                            *)

Types == {"session.started", "prompt.submitted", "tool.call", "tool.result",
          "model.completed", "session.ended"}

Times == (1..MaxClock) \cup {None, Unreadable}

Event == [type : Types, ts : Times, run : Runs \cup {None}, fail : BOOLEAN,
          target : Agents \cup {None}, source : Keys \cup {None}]

\* tsMillis.
Millis(ts) == IF ts \in Nat THEN ts ELSE 0

\* Mutation: events stay in the order of the file.
FileOrder(log, i, j) == i < j

\* sortEvents, as an order of the events of a file.
Before(log, i, j) ==
  \/ Millis(log[i].ts) < Millis(log[j].ts)
  \/ Millis(log[i].ts) = Millis(log[j].ts) /\ i < j

EarliestOf(log, I) == CHOOSE i \in I : \A j \in I \ {i} : Before(log, i, j)
LatestOf(log, I)   == CHOOSE i \in I : \A j \in I \ {i} : Before(log, j, i)

IsError(e) == e.type \in {"model.completed", "tool.result"} /\ e.fail

\* Mutation: only the last event tells whether the run has finished.
OutcomeOfLast(log, I, now) ==
  LET last == log[LatestOf(log, I)]
  IN IF last.type \in {"model.completed", "session.ended"}
     THEN (IF IsError(last) THEN "error" ELSE "ok")
     ELSE IF Millis(last.ts) # 0 /\ now <= Millis(last.ts) + StaleAfter THEN "running" ELSE "stale"

Outcome(log, I, now) ==
  LET finished == \E i \in I : log[i].type \in {"model.completed", "session.ended"}
      hasError == \E i \in I : IsError(log[i])
      lastMs   == Millis(log[LatestOf(log, I)].ts)
  IN IF finished THEN (IF hasError THEN "error" ELSE "ok")
     ELSE IF lastMs # 0 /\ now <= lastMs + StaleAfter THEN "running" ELSE "stale"

\* The run of the events I: its times are those of its first and last event that
\* have one.
RunOf(log, I, now) ==
  LET timed == {i \in I : log[i].ts # None}
      atEnd(i) == IF timed = {} THEN None ELSE log[i].ts
  IN [startedAt   |-> atEnd(EarliestOf(log, timed)),
      lastEventAt |-> atEnd(LatestOf(log, timed)),
      outcome     |-> Outcome(log, I, now),
      steps       |-> Cardinality(I)]

RunIds(log) == {log[i].run : i \in DOMAIN log}

\* Mutation: events without a run id are left out.
DeriveNamedRuns(log, now) ==
  [r \in RunIds(log) \ {None} |-> RunOf(log, {i \in DOMAIN log : log[i].run = r}, now)]

DeriveRuns(log, now) ==
  [r \in RunIds(log) |-> RunOf(log, {i \in DOMAIN log : log[i].run = r}, now)]

\* Mutation: prompts are dropped with the rest.
RetainWithoutPrompts(log) ==
  Restrict(log, {i \in DOMAIN log : log[i].type \in {"session.started", "tool.call"}})

\* What is kept keeps its place in the file.
RetainForAnalysis(log) ==
  Restrict(log, {i \in DOMAIN log :
                   log[i].type \in {"session.started", "prompt.submitted", "tool.call"}})
===============================================================================
