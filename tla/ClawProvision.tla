----------------------------- MODULE ClawProvision -----------------------------
(***************************************************************************)
(* The deployer's requests on one Claw: provisioning (create or update),   *)
(* idling, uploading agent files and deleting.  The deployer keeps no      *)
(* state: each handler is a sequence of calls to the API server, which     *)
(* other handlers' calls interleave with, and each call may fail, a write  *)
(* that is reported as failed (a timeout) having taken effect or not.      *)
(*                                                                         *)
(* The Claw's spec is abstracted to the secret each of its entries refers  *)
(* to (the credentials list; auth, webSearch and repoAccess next to it)    *)
(* and to spec.idle.  An entry has the secret the deployer names after it, *)
(* or one the user names.                                                  *)
(***************************************************************************)
EXTENDS Naturals, FiniteSets

CONSTANTS
  Requests,     (* handlers running at the same time                       *)
  Entries,      (* what a spec may configure; also the secrets named after *)
                (* each, openclaw-<claw>-<entry>                           *)
  Providers,    (* the entries that are model-provider credentials         *)
  ByName,       (* the entries removed by their name alone: the providers  *)
                (* and the channels under their default names              *)
  TopLevel,     (* the entries outside spec.credentials                    *)
  Foreign,      (* secrets the user made                                   *)
  Files,        (* the ConfigMap openclaw-<claw>-agentfiles                *)
  None,
  MaxRequests   (* bound: provisions and deletes started                   *)

Secrets == Entries \cup Foreign
Objects == Secrets \cup {Files}

\* "managed" is an object carrying the deployer's and the Claw's labels.
Labels == {"absent", "foreign", "managed"}

Refs == [Entries -> Secrets \cup {None}]

\* A Claw.  idleBy tells which field managers own spec.idle: the deployer's
\* apply, or the merge patch of an idle request.  Owned by none, it is absent.
Claw == [refs : Refs, idle : BOOLEAN, idleBy : SUBSET {"apply", "patch"}]

ProvisionStages == {"secrets", "spec", "toplevel", "claw"}
DeleteStages    == {"remove", "list", "check", "drop"}

\* What a request asks of each entry: nothing, its removal, or a secret for it.
Change == [Entries -> Secrets \cup {"keep", "drop"}]

\* A provision: the secrets it has still to write, and what it read of the Claw.
Provision == [todo : SUBSET Entries, change : Change, refs : Refs, idle : BOOLEAN]

\* A delete: the objects to look at, the one it found managed, and a failure seen.
Delete == [todo : SUBSET Objects, target : Objects \cup {None}, failed : BOOLEAN]

ASSUME ProvisionAssumption ==
  /\ Providers \subseteq ByName /\ ByName \subseteq Entries
  /\ TopLevel \subseteq Entries \ ByName
  /\ Entries \cap Foreign = {} /\ Files \notin Secrets
  /\ None \notin Objects \cup Claw \cup Provision \cup Delete
  /\ {"keep", "drop"} \cap (Secrets \cup {None}) = {}
  /\ MaxRequests \in Nat

VARIABLES
  claw,      (* the Claw object, or None                                   *)
  objs,      (* the labels of each secret, and of the ConfigMap            *)
  pc,
  req,       (* what a handler holds                                       *)
  started,   (* provisions and deletes started                             *)
  \* to state properties with
  expected,  (* refs and idle as the requests ask, one after the other     *)
  mixed,     (* a delete ran at the same time as a provision or an upload  *)
  raced,     (* so did a provision and any other request on the Claw       *)
  written,   (* objects the deployer has ever written                      *)
  cleaned    (* a delete has completed without a failure, nothing since    *)

ghosts == <<expected, mixed, raced, written, cleaned>>
vars   == <<claw, objs, pc, req, started, ghosts>>

NoRefs == [e \in Entries |-> None]

Provisioning == {r \in Requests : pc[r] \in ProvisionStages}
Deleting     == {r \in Requests : pc[r] \in DeleteStages}

Finish(r) ==
  /\ pc' = [pc EXCEPT ![r] = "idle"]
  /\ req' = [req EXCEPT ![r] = None]

Goto(r, stage) == pc' = [pc EXCEPT ![r] = stage]

(***************************************************************************)
(* handleProvision.  A request without any provider credential is only     *)
(* accepted for a Claw that exists.  A secret named without a value is one *)
(* the user has seen.                                                      *)
(***************************************************************************)
\* Which secret an entry may be given: its own, or one of the user's.
Sensible(change) ==
  \A e \in Entries : change[e] \in {"keep", "drop", e} \cup Foreign

BeginProvision(r) ==
  /\ pc[r] = "idle" /\ started < MaxRequests
  /\ \E change \in Change, todo \in SUBSET Entries :
       LET given == {e \in Entries : change[e] \in Secrets} IN
       /\ Sensible(change)
       /\ todo \subseteq given
       /\ \A e \in given \ todo : objs[change[e]] # "absent"
       /\ given \cap Providers # {} \/ claw # None
       /\ req' = [req EXCEPT ![r] =
                    [todo |-> todo, change |-> change, refs |-> NoRefs, idle |-> FALSE]]
       /\ Goto(r, IF todo = {} THEN "spec" ELSE "secrets")
  /\ started' = started + 1
  /\ mixed' = (mixed \/ Deleting # {})
  /\ raced' = (raced \/ Deleting # {} \/ Provisioning # {})
  /\ cleaned' = FALSE
  /\ UNCHANGED <<claw, objs, expected, written>>

\* Mutation: an error writing a secret is ignored.
ApplySecretAnyway(r) ==
  /\ pc[r] = "secrets"
  /\ \E e \in req[r].todo :
       LET s == req[r].change[e]
           rest == req[r].todo \ {e} IN
       /\ \/ objs' = [objs EXCEPT ![s] = "managed"] /\ written' = written \cup {s}
          \/ UNCHANGED <<objs, written>>
       /\ req' = [req EXCEPT ![r].todo = rest]
       /\ Goto(r, IF rest = {} THEN "spec" ELSE "secrets")
  /\ UNCHANGED <<claw, started, expected, mixed, raced, cleaned>>

\* applySecret, applyIntegrationSecrets: one apply for each value, those of the
\* providers first.  The labels go on any secret written, the user's included.
ApplySecret(r) ==
  /\ pc[r] = "secrets"
  /\ \E e \in req[r].todo :
       LET s == req[r].change[e]
           rest == req[r].todo \ {e} IN
       /\ req[r].todo \cap Providers # {} => e \in Providers
       /\ \/ /\ objs' = [objs EXCEPT ![s] = "managed"]
             /\ written' = written \cup {s}
             /\ \/ /\ req' = [req EXCEPT ![r].todo = rest]
                   /\ Goto(r, IF rest = {} THEN "spec" ELSE "secrets")
                \/ Finish(r)
          \/ Finish(r) /\ UNCHANGED <<objs, written>>
  /\ UNCHANGED <<claw, started, expected, mixed, raced, cleaned>>

(***************************************************************************)
(* applyClaw reads the Claw twice, once for spec.credentials and once for  *)
(* what is next to it, works out the new spec and applies all of it.       *)
(***************************************************************************)
CurrentRefs == IF claw = None THEN NoRefs ELSE claw.refs

ReadSpec(r) ==
  /\ pc[r] = "spec"
  /\ \/ /\ req' = [req EXCEPT ![r].refs =
                     [e \in Entries |-> IF e \in TopLevel THEN None ELSE CurrentRefs[e]]]
        /\ Goto(r, "toplevel")
     \/ Finish(r)
  /\ UNCHANGED <<claw, objs, started, ghosts>>

\* Mutation: what is next to the credentials is not read back.
ReadNothing(r) ==
  /\ pc[r] = "toplevel"
  /\ Goto(r, "claw") \/ Finish(r)
  /\ UNCHANGED <<claw, objs, req, started, ghosts>>

ReadTop(r) ==
  /\ pc[r] = "toplevel"
  /\ \/ /\ req' = [req EXCEPT
                     ![r].refs = [e \in Entries |-> IF e \in TopLevel THEN CurrentRefs[e]
                                                                     ELSE req[r].refs[e]],
                     ![r].idle = claw # None /\ claw.idle]
        /\ Goto(r, "claw")
     \/ Finish(r)
  /\ UNCHANGED <<claw, objs, started, ghosts>>

\* Mutation: an entry to be removed is kept as the request has it.
ChangedVerbatim(refs, change) ==
  [e \in Entries |-> IF change[e] = "keep" THEN refs[e] ELSE change[e]]

\* Anything not removed by its name only goes with the deployer's own secret.
Changed(refs, change) ==
  [e \in Entries |->
     IF change[e] \in Secrets THEN change[e]
     ELSE IF change[e] = "drop" /\ (e \in ByName \/ refs[e] = e) THEN None
     ELSE refs[e]]

\* The server's side of a forced apply by one field manager: the fields applied
\* are taken over, the fields it alone owned and applies no longer are removed.
Applied(refs, idle) ==
  LET owners == IF claw = None THEN {} ELSE claw.idleBy
      was    == claw # None /\ claw.idle
  IN IF idle
     THEN [refs |-> refs, idle |-> TRUE,
           idleBy |-> IF was THEN owners \cup {"apply"} ELSE {"apply"}]
     ELSE [refs |-> refs, idle |-> was /\ owners # {"apply"},
           idleBy |-> owners \ {"apply"}]

ApplyClaw(r) ==
  /\ pc[r] = "claw"
  /\ \/ /\ claw' = Applied(Changed(req[r].refs, req[r].change), req[r].idle)
        /\ expected' = [expected EXCEPT !.refs = Changed(@, req[r].change)]
     \/ UNCHANGED <<claw, expected>>
  /\ Finish(r)
  /\ UNCHANGED <<objs, started, mixed, raced, written, cleaned>>

(***************************************************************************)
(* handleIdle and handleAgentFiles: one write each.                        *)
(***************************************************************************)
SetIdle(v) ==
  /\ claw # None
  /\ claw' = [claw EXCEPT !.idle = v,
                          !.idleBy = IF claw.idle = v /\ @ # {} THEN @ ELSE {"patch"}]
  /\ expected' = [expected EXCEPT !.idle = v]
  /\ raced' = (raced \/ Provisioning # {})
  /\ UNCHANGED <<objs, pc, req, started, mixed, written, cleaned>>

Upload ==
  /\ objs' = [objs EXCEPT ![Files] = "managed"]
  /\ written' = written \cup {Files}
  /\ mixed' = (mixed \/ Deleting # {})
  /\ raced' = (raced \/ Deleting # {})
  /\ cleaned' = FALSE
  /\ UNCHANGED <<claw, pc, req, started, expected>>

(***************************************************************************)
(* handleDelete: note the secrets the Claw refers to, remove the Claw, add *)
(* the secrets labelled for it, then delete each one that still carries    *)
(* the labels, and the ConfigMap likewise.  Once the Claw is gone, errors  *)
(* are ignored.                                                            *)
(***************************************************************************)
BeginDelete(r) ==
  /\ pc[r] = "idle" /\ started < MaxRequests
  /\ \E names \in {IF claw = None THEN Providers
                   ELSE {claw.refs[e] : e \in Entries} \ {None}, Providers} :
       req' = [req EXCEPT ![r] =
                 [todo |-> names \cup {Files}, target |-> None, failed |-> FALSE]]
  /\ Goto(r, "remove")
  /\ started' = started + 1
  /\ mixed' = (mixed \/ Provisioning # {})
  /\ raced' = (raced \/ Provisioning # {})
  /\ UNCHANGED <<claw, objs, expected, written, cleaned>>

RemoveClaw(r) ==
  /\ pc[r] = "remove"
  /\ \/ /\ claw' = None
        /\ expected' = [refs |-> NoRefs, idle |-> FALSE]
        /\ (Goto(r, "list") /\ UNCHANGED req) \/ Finish(r)
     \/ Finish(r) /\ UNCHANGED <<claw, expected>>
  /\ UNCHANGED <<objs, started, mixed, raced, written, cleaned>>

ManagedSecrets == {s \in Secrets : objs[s] = "managed"}

\* Mutation: the labelled secrets are not looked up.
ListNothing(r) ==
  /\ pc[r] = "list"
  /\ Goto(r, "check")
  /\ UNCHANGED <<claw, objs, req, started, ghosts>>

ListManaged(r) ==
  /\ pc[r] = "list"
  /\ \/ req' = [req EXCEPT ![r].todo = @ \cup ManagedSecrets]
     \/ req' = [req EXCEPT ![r].failed = TRUE]
  /\ Goto(r, "check")
  /\ UNCHANGED <<claw, objs, started, ghosts>>

\* Moves on to the next object, or completes.
Advance(r, rest, failed) ==
  IF rest = {}
  THEN Finish(r) /\ cleaned' = (cleaned \/ ~failed)
  ELSE /\ req' = [req EXCEPT ![r] = [todo |-> rest, target |-> None, failed |-> failed]]
       /\ Goto(r, "check")
       /\ UNCHANGED cleaned

\* Mutation: the labels are not looked at.
CheckNothing(r) ==
  /\ pc[r] = "check"
  /\ \E o \in req[r].todo : req' = [req EXCEPT ![r].target = o]
  /\ Goto(r, "drop")
  /\ UNCHANGED <<claw, objs, started, expected, mixed, raced, written, cleaned>>

Check(r) ==
  /\ pc[r] = "check"
  /\ \E o \in req[r].todo :
       LET rest == req[r].todo \ {o} IN
       /\ o = Files => rest = {}
       /\ \/ /\ objs[o] = "managed"
             /\ req' = [req EXCEPT ![r].target = o]
             /\ Goto(r, "drop")
             /\ UNCHANGED cleaned
          \/ objs[o] # "managed" /\ Advance(r, rest, req[r].failed)
          \/ Advance(r, rest, TRUE)
  /\ UNCHANGED <<claw, objs, started, expected, mixed, raced, written>>

Drop(r) ==
  /\ pc[r] = "drop"
  /\ LET o == req[r].target
         rest == req[r].todo \ {o} IN
     \/ /\ objs' = [objs EXCEPT ![o] = "absent"]
        /\ \E failed \in {req[r].failed, TRUE} : Advance(r, rest, failed)
     \/ UNCHANGED objs /\ Advance(r, rest, TRUE)
  /\ UNCHANGED <<claw, started, expected, mixed, raced, written>>

Init ==
  /\ claw = None
  /\ objs = [o \in Objects |-> IF o \in Foreign THEN "foreign" ELSE "absent"]
  /\ pc = [r \in Requests |-> "idle"]
  /\ req = [r \in Requests |-> None]
  /\ started = 0
  /\ expected = [refs |-> NoRefs, idle |-> FALSE]
  /\ mixed = FALSE /\ raced = FALSE /\ written = {} /\ cleaned = FALSE

ProvisionStep(r) ==
  BeginProvision(r) \/ ApplySecret(r) \/ ReadSpec(r) \/ ReadTop(r) \/ ApplyClaw(r)

DeleteStep(r) ==
  BeginDelete(r) \/ RemoveClaw(r) \/ ListManaged(r) \/ Check(r) \/ Drop(r)

Next ==
  \/ \E r \in Requests : ProvisionStep(r) \/ DeleteStep(r)
  \/ \E v \in BOOLEAN : SetIdle(v)
  \/ Upload

Spec == Init /\ [][Next]_vars

--------------------------------------------------------------------------------
(***************************************************************************)
(* Properties                                                              *)
(***************************************************************************)
\* What a handler holds is what its stage needs.
HandlersOK ==
  /\ pc \in [Requests -> {"idle"} \cup ProvisionStages \cup DeleteStages]
  /\ req \in [Requests -> Provision \cup Delete \cup {None}]
  /\ \A r \in Requests :
       /\ pc[r] \in ProvisionStages =>
            req[r] \in Provision /\ \A e \in req[r].todo : req[r].change[e] \in Secrets
       /\ pc[r] \in DeleteStages => req[r] \in Delete
       /\ pc[r] = "drop" => req[r].target \in req[r].todo

\* Every object, request and record has its type.
TypeOK ==
  /\ claw \in Claw \cup {None}
  /\ objs \in [Objects -> Labels]
  /\ HandlersOK
  /\ started \in 0..MaxRequests
  /\ expected \in [refs : Refs, idle : BOOLEAN]
  /\ {mixed, raced, cleaned} \subseteq BOOLEAN
  /\ written \subseteq Objects

\* Secrets come first: a Claw never refers to a secret that does not exist,
\* whatever fails halfway and whichever provisions overlap, unless a delete ran
\* while a provision did (handlers.go:258-283 writes the secrets before the Claw).
ReferencesResolve ==
  ~mixed /\ claw # None =>
    \A e \in Entries : claw.refs[e] # None => objs[claw.refs[e]] # "absent"

\* A delete in which no call failed leaves neither the Claw nor anything labelled
\* for it, secrets of earlier provisions that failed before the Claw included.
DeleteCleans ==
  ~mixed /\ cleaned => claw = None /\ \A o \in Objects : objs[o] # "managed"

\* A secret the deployer never wrote is never deleted, although the Claw refers to
\* it and the labels are read by one call and the secret deleted by the next.
ForeignSurvives ==
  \A s \in Foreign \ written : objs[s] = "foreign"

\* Requests one after the other add up: an update keeps what it does not mention,
\* idle included, out of two reads and one apply, failures halfway included.
UpdatesAccumulate ==
  ~raced /\ claw # None => claw.refs = expected.refs /\ claw.idle = expected.idle
================================================================================
