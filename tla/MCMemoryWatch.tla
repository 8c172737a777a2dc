---------------------------- MODULE MCMemoryWatch ----------------------------
(* Small instances of MemoryWatch, three in one run: requests that overlap *)
(* over one note of two lines; one request over a note of two lines and    *)
(* one of one line, or over the first alone, in a console that restarts;   *)
(* and one request over one note longer than a read returns.  Saves fail   *)
(* where the console restarts: nothing else asks what the file holds.      *)
EXTENDS MemoryWatch, TLC

CONSTANT Few   (* the lines of a note that a read returns whole           *)

VARIABLE scope  (* what takes part in a behaviour: chosen at the start     *)

\* `lines` is what each note may say, none of a note that takes no part.
Scope == [reqs : SUBSET Requests, lines : [Notes -> SUBSET Lines], restarts : BOOLEAN]

Sizes(s) == [n \in Notes |-> Cardinality(s.lines[n])]

Short(s) == \A n \in Notes : s.lines[n] \subseteq Few

Overlap == {s \in Scope : Short(s) /\ s.reqs = Requests /\ ~s.restarts
                          /\ Range(Sizes(s)) = {0, 2}}

Restarts == {s \in Scope : Short(s) /\ Cardinality(s.reqs) = 1 /\ s.restarts
                           /\ Range(Sizes(s)) \in {{0, 2}, {1, 2}}}

Long == {s \in Scope : Cardinality(s.reqs) = 1 /\ ~s.restarts
                       /\ Range(Sizes(s)) = {0, 3}}

Within(v) == \A n \in Notes : v[n] # None => v[n].lines \subseteq scope.lines[n] /\ scope.lines[n] # {}

WritesIn(s) == IF s.restarts /\ 0 \notin Range(Sizes(s)) THEN MaxWrites - 1 ELSE MaxWrites

MCInit ==
  /\ scope \in Overlap \cup Restarts \cup Long
  /\ Init
  /\ Within(vault)

MCNext ==
  /\ \/ \E n \in Notes : WriteNote(n) /\ Within(vault') /\ writes' <= WritesIn(scope)
     \/ \E n \in Notes : DeleteNote(n)
     \/ \E r \in scope.reqs : List(r) \/ Pending(r) \/ Read(r) \/ Observe(r)
     \/ Recent
     \/ scope.restarts /\ Restart
  /\ scope.restarts \/ ~unsaved'
  /\ UNCHANGED scope

MCSpec == MCInit /\ [][MCNext]_<<vars, scope>>

Symmetry == Permutations(Requests) \cup Permutations(Notes) \cup Permutations(Few)
===============================================================================
