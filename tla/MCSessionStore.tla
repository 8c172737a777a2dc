---- MODULE MCSessionStore ----
(* SessionStore for TLC: the sessions, and the callers, are interchangeable. *)
EXTENDS SessionStore, TLC

Symmetric == Permutations(Sessions)
====
