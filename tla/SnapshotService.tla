--------------------------- MODULE SnapshotService ---------------------------
(***************************************************************************)
(* What Store.snapshot promises the HTTP handlers that call it, with the   *)
(* lock, the channel and the round trips into the pod left out:            *)
(*                                                                         *)
(*   - at most one caller at a time is refreshing;                         *)
(*   - a refresh ends by publishing one snapshot, which is also the answer *)
(*     of the caller that made it;                                         *)
(*   - every other answer is the snapshot published last, so a caller is   *)
(*     never answered before something has been published.                 *)
(*                                                                         *)
(* SessionStore implements this specification.                             *)
(***************************************************************************)
CONSTANTS
  Callers,    (* the goroutines serving HTTP requests                      *)
  None        (* no caller, no snapshot                                   *)

VARIABLES
  refresher,  (* the caller that is refreshing, or None                    *)
  published,  (* the snapshot published last, or None                      *)
  answer      (* each caller's last answer, or None                        *)

vars == <<refresher, published, answer>>

Init ==
  /\ refresher = None
  /\ published = None
  /\ answer = [c \in Callers |-> None]

Begin(c) ==
  /\ refresher = None
  /\ refresher' = c
  /\ UNCHANGED <<published, answer>>

Publish(c) ==
  /\ refresher = c
  /\ refresher' = None
  /\ published' # None
  /\ answer' = [answer EXCEPT ![c] = published']

Serve(c) ==
  /\ published # None
  /\ answer' = [answer EXCEPT ![c] = published]
  /\ UNCHANGED <<refresher, published>>

Next == \E c \in Callers : Begin(c) \/ Publish(c) \/ Serve(c)

Spec == Init /\ [][Next]_vars
==============================================================================
