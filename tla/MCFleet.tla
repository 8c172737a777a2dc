------------------------------- MODULE MCFleet -------------------------------
(***************************************************************************)
(* A small instance of Fleet: agents a and b with two sessions each.  The  *)
(* first of a ends in its own id; those of b use one key, "main".  A       *)
(* behaviour is either about the runs of one session or about handoffs, in *)
(* one of which scans may lack a session of each agent.                    *)
(***************************************************************************)
EXTENDS Fleet

CONSTANTS a, b, a1, a2, b1, b2, keyA, keyA1, keyB, r1

MCAgentOf  == [s \in {a1, a2, b1, b2} |-> IF s \in {a1, a2} THEN a ELSE b]
MCKeyOf    == [s \in {a1, a2, b1, b2} |-> IF s = a1 THEN keyA1 ELSE IF s = a2 THEN keyA ELSE keyB]
MCKeyAgent == [k \in {keyA, keyA1, keyB} |-> IF k = keyB THEN b ELSE a]
MCKeyId    == [k \in {keyA, keyA1, keyB} |-> IF k = keyA1 THEN a1 ELSE None]

Plain(type) == [type |-> type, run |-> r1, fail |-> FALSE, target |-> None, source |-> None]

RunShapes ==
  {[Plain(type) EXCEPT !.run = run] : type \in {"session.started", "session.ended"}, run \in {r1, None}}
    \cup {[Plain(type) EXCEPT !.run = run, !.fail = fail] :
            type \in {"tool.result", "model.completed"}, run \in {r1, None}, fail \in BOOLEAN}

HandoffShapes(targets, sources) ==
  {Plain("session.started"), Plain("session.ended")}
    \cup {[Plain("tool.call") EXCEPT !.target = t] : t \in targets}
    \cup {[Plain("prompt.submitted") EXCEPT !.source = k] : k \in sources}

MCScopes ==
  {[may |-> [s \in {a1, a2, b1, b2} |-> IF s = a1 THEN RunShapes ELSE {}],
    max |-> 3, late |-> TRUE, lacks |-> {}],
   [may |-> [s \in {a1, a2, b1, b2} |->
               (IF s \in {a1, a2} THEN HandoffShapes({b}, {keyB}) ELSE HandoffShapes({}, {keyA, keyA1}))
                 \ {Plain("session.ended")}],
    max |-> 5, late |-> FALSE, lacks |-> {}],
   [may |-> [s \in {a1, a2, b1, b2} |->
               CASE s = a1 -> HandoffShapes({}, {keyB}) \ {Plain("session.ended")}
                 [] s = a2 -> {}
                 [] s = b1 -> {Plain("session.started")}
                 [] s = b2 -> HandoffShapes({a}, {}) \ {Plain("session.ended")}],
    max |-> 5, late |-> TRUE, lacks |-> {}],
   [may |-> [s \in {a1, a2, b1, b2} |-> IF s \in {a1, a2} THEN HandoffShapes({b}, {})
                                         ELSE HandoffShapes({}, {keyA, keyA1})],
    max |-> 4, late |-> FALSE, lacks |-> {a1, b1}]}
===============================================================================
