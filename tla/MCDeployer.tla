------------------------------ MODULE MCDeployer ------------------------------
(***************************************************************************)
(* The deployer on small instances.  `part` tells what a behaviour is      *)
(* about: requests on one Claw, call by call (ClawProvision), or the page, *)
(* the Claws it shows and the requests it sends (ProvisionForm).           *)
(***************************************************************************)
EXTENDS ClawProvision, ProvisionForm, TLC

VARIABLE part

\* A Claw made with nothing but a key, and one with two providers.
OpenRouter == <<"openrouter", "m">>
Gemini     == <<"google", "m">>

MCMade ==
  {[providers |-> {"openrouter"}, primary |-> <<>>, models |-> {}],
   [providers |-> {"openrouter", "google-vertex"}, primary |-> Gemini,
    models |-> {OpenRouter, Gemini}]}

MCTyped == {<<>>, <<"m">>}

Providing(c) ==
  IF spec[c] = Absent THEN {} ELSE {p \in ModelProviders : spec[c].creds[p] # Absent}

\* The part a behaviour is not about stays as it starts.  The Claws the page shows
\* differ, and one of them has both providers.  Where the other is yet to be made, the
\* page is about to make it, with the first provider of its list.
MCInit ==
  /\ part \in {"calls", "form"}
  /\ Init
  /\ FormInit
  /\ part = "calls" => spec = [c \in Claws |-> Absent] /\ fields.provider = "openrouter"
  /\ part = "form" => /\ \A c, d \in Claws : c # d => Providing(c) # Providing(d)
                      /\ \E c \in Claws : Providing(c) = ModelProviders
                      /\ (\E c \in Claws : spec[c] = Absent)
                           => spec[selected] = Absent /\ fields.provider = "openrouter"

MCNext ==
  \/ part = "calls" /\ Next /\ UNCHANGED <<part, formVars>>
  \/ part = "form" /\ FormNext /\ UNCHANGED <<part, vars>>

MCSpec == MCInit /\ [][MCNext]_<<part, vars, formVars>>

\* Requests are alike, and so are Claws.
Symmetry == Permutations(Requests) \cup Permutations(Claws)
===============================================================================
