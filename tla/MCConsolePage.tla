---------------------------- MODULE MCConsolePage ----------------------------
(* Small instances of ConsolePage, two in one run, with sessions of the    *)
(* first Claw only: openings that overlap while the loop refreshes alone,  *)
(* and clicks beside the loop with one opening at a time.                  *)
EXTENDS ConsolePage

CONSTANTS A

MCHome == [k \in Keys |-> A]

VARIABLE scope  (* what takes part in a behaviour: chosen at the start     *)

MCInit == Init /\ scope \in {"openings", "clicks"}

Within == IF scope = "clicks" THEN Len(loads') <= 1
          ELSE \A t \in Clicks : ticks'[t].at = "idle"

MCNext == Next /\ Within /\ UNCHANGED scope

MCFairSpec == MCInit /\ [][MCNext]_<<vars, scope>> /\ Fairness
===============================================================================
