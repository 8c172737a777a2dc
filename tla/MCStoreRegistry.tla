--------------------------- MODULE MCStoreRegistry ---------------------------
(* A small instance of StoreRegistry: a Claw with two pods and one with one. *)
EXTENDS StoreRegistry, TLC

CONSTANTS claw1, claw2

MCClawOf == [p \in Pods |-> IF p = 3 THEN claw2 ELSE claw1]

Alike == Permutations(Requests) \cup Permutations(Credentials)
===============================================================================
