-------------------------- MODULE ClawProvisionProofs --------------------------
(***************************************************************************)
(* Proofs about ClawProvision: types; what the user made and the deployer  *)
(* never wrote survives; a Claw refers to secrets that exist; requests one *)
(* after the other add up; a delete without a failure leaves nothing.      *)
(***************************************************************************)
EXTENDS ClawProvision, TLAPS

USE ProvisionAssumption

(***************************************************************************)
(* Types                                                                   *)
(***************************************************************************)
\* What applyClaw applies, and the server makes of it, is a Claw.
LEMMA ChangedType ==
  ASSUME NEW refs \in Refs, NEW change \in Change
  PROVE  Changed(refs, change) \in Refs
  BY DEF Changed, Refs, Change

LEMMA AppliedType ==
  ASSUME NEW refs \in Refs, NEW idle \in BOOLEAN, claw \in Claw \cup {None}
  PROVE  Applied(refs, idle) \in Claw
<1> DEFINE owners == IF claw = None THEN {} ELSE claw.idleBy
<1>1. owners \in SUBSET {"apply", "patch"} BY DEF Claw
<1> HIDE DEF owners
<1>2. CASE idle
  <2>1. Applied(refs, idle) =
          [refs |-> refs, idle |-> TRUE,
           idleBy |-> IF claw # None /\ claw.idle THEN owners \cup {"apply"} ELSE {"apply"}]
    BY <1>2 DEF Applied, owners
  <2> QED BY <1>1, <2>1 DEF Claw
<1>3. CASE ~idle
  <2>1. Applied(refs, idle) =
          [refs |-> refs, idle |-> (claw # None /\ claw.idle) /\ owners # {"apply"},
           idleBy |-> owners \ {"apply"}]
    BY <1>3 DEF Applied, owners
  <2>2. ((claw # None /\ claw.idle) /\ owners # {"apply"}) \in BOOLEAN OBVIOUS
  <2>3. owners \ {"apply"} \in SUBSET {"apply", "patch"} BY <1>1
  <2> QED BY <2>1, <2>2, <2>3 DEF Claw
<1> QED BY <1>2, <1>3

LEMMA NoRefsType == NoRefs \in Refs /\ [refs |-> NoRefs, idle |-> FALSE] \in [refs : Refs, idle : BOOLEAN]
  BY DEF NoRefs, Refs

LEMMA CurrentRefsType == claw \in Claw \cup {None} => CurrentRefs \in Refs
  BY NoRefsType DEF CurrentRefs, Claw

LEMMA InitTypes == Init => TypeOK
<1> SUFFICES ASSUME Init PROVE TypeOK OBVIOUS
<1>1. objs \in [Objects -> Labels] BY DEF Init, Labels
<1>2. HandlersOK BY DEF Init, HandlersOK, ProvisionStages, DeleteStages
<1>3. expected \in [refs : Refs, idle : BOOLEAN] BY NoRefsType DEF Init
<1>4. started \in 0..MaxRequests BY DEF Init
<1> QED BY <1>1, <1>2, <1>3, <1>4 DEF Init, TypeOK

\* A handler that ends, and one that moves on with a record of the right kind,
\* leave the handlers well typed.
LEMMA FinishType ==
  ASSUME TypeOK, NEW r \in Requests, Finish(r)
  PROVE  HandlersOK'
  BY DEF TypeOK, HandlersOK, Finish, ProvisionStages, DeleteStages

LEMMA ProvisionMoves ==
  ASSUME TypeOK, NEW r \in Requests, NEW stage \in ProvisionStages,
         NEW p \in Provision, \A e \in p.todo : p.change[e] \in Secrets,
         req' = [req EXCEPT ![r] = p], Goto(r, stage)
  PROVE  HandlersOK'
  BY DEF TypeOK, HandlersOK, Goto, ProvisionStages, DeleteStages

LEMMA DeleteMoves ==
  ASSUME TypeOK, NEW r \in Requests, NEW stage \in DeleteStages,
         NEW d \in Delete, stage = "drop" => d.target \in d.todo,
         req' = [req EXCEPT ![r] = d], Goto(r, stage)
  PROVE  HandlersOK'
  BY DEF TypeOK, HandlersOK, Goto, ProvisionStages, DeleteStages

LEMMA AdvanceType ==
  ASSUME TypeOK, NEW r \in Requests, NEW rest \in SUBSET Objects, NEW failed \in BOOLEAN,
         Advance(r, rest, failed)
  PROVE  HandlersOK' /\ cleaned' \in BOOLEAN
<1>1. CASE rest = {}
  <2>1. Finish(r) BY <1>1 DEF Advance
  <2>2. cleaned' \in BOOLEAN BY <1>1 DEF Advance, TypeOK
  <2> QED BY <2>1, <2>2, FinishType
<1>2. CASE rest # {}
  <2> DEFINE d == [todo |-> rest, target |-> None, failed |-> failed]
  <2>1. d \in Delete BY DEF Delete
  <2>2. req' = [req EXCEPT ![r] = d] /\ Goto(r, "check") BY <1>2 DEF Advance
  <2>3. cleaned' \in BOOLEAN BY <1>2 DEF Advance, TypeOK
  <2>4. "check" \in DeleteStages BY DEF DeleteStages
  <2> HIDE DEF d
  <2> QED BY <2>1, <2>2, <2>3, <2>4, DeleteMoves
<1> QED BY <1>1, <1>2

\* Each handler step, and each single write, keeps the types.
LEMMA StepTypes == TypeOK /\ [Next]_vars => TypeOK'
<1> SUFFICES ASSUME TypeOK, [Next]_vars PROVE TypeOK' OBVIOUS
<1>1. ASSUME NEW r \in Requests, BeginProvision(r) PROVE TypeOK'
  <2>1. PICK change \in Change, todo \in SUBSET Entries :
          LET given == {e \in Entries : change[e] \in Secrets} IN
          /\ todo \subseteq given
          /\ req' = [req EXCEPT ![r] =
                       [todo |-> todo, change |-> change, refs |-> NoRefs, idle |-> FALSE]]
          /\ Goto(r, IF todo = {} THEN "spec" ELSE "secrets")
    BY <1>1 DEF BeginProvision
  <2> DEFINE p == [todo |-> todo, change |-> change, refs |-> NoRefs, idle |-> FALSE]
             stage == IF todo = {} THEN "spec" ELSE "secrets"
  <2>2. p \in Provision BY NoRefsType DEF Provision
  <2>3. \A e \in p.todo : p.change[e] \in Secrets BY <2>1
  <2>4. stage \in ProvisionStages BY DEF ProvisionStages
  <2>5. req' = [req EXCEPT ![r] = p] /\ Goto(r, stage) BY <2>1
  <2> HIDE DEF p, stage
  <2>6. HandlersOK' BY <2>2, <2>3, <2>4, <2>5, ProvisionMoves
  <2>7. started' \in 0..MaxRequests BY <1>1 DEF BeginProvision, TypeOK
  <2> QED BY <1>1, <2>6, <2>7 DEF BeginProvision, TypeOK
<1>2. ASSUME NEW r \in Requests, ApplySecret(r) PROVE TypeOK'
  <2>1. PICK e \in req[r].todo :
          LET s == req[r].change[e]
              rest == req[r].todo \ {e} IN
          \/ /\ objs' = [objs EXCEPT ![s] = "managed"]
             /\ written' = written \cup {s}
             /\ \/ /\ req' = [req EXCEPT ![r].todo = rest]
                   /\ Goto(r, IF rest = {} THEN "spec" ELSE "secrets")
                \/ Finish(r)
          \/ Finish(r) /\ UNCHANGED <<objs, written>>
    BY <1>2 DEF ApplySecret
  <2>2. /\ req[r] \in Provision /\ req[r].change[e] \in Secrets
        /\ \A f \in req[r].todo : req[r].change[f] \in Secrets
    BY <1>2 DEF ApplySecret, TypeOK, HandlersOK, ProvisionStages
  <2> DEFINE rest == req[r].todo \ {e}
             p == [req[r] EXCEPT !.todo = rest]
             stage == IF rest = {} THEN "spec" ELSE "secrets"
  <2>3. objs' \in [Objects -> Labels] /\ written' \subseteq Objects
    BY <2>1, <2>2 DEF TypeOK, Labels, Objects
  <2>4. HandlersOK'
    <3>1. CASE Finish(r) BY <3>1, FinishType
    <3>2. CASE req' = [req EXCEPT ![r].todo = rest] /\ Goto(r, stage)
      <4>1. p \in Provision BY <2>2 DEF Provision
      <4>2. \A f \in p.todo : p.change[f] \in Secrets BY <2>2 DEF Provision
      <4>3. stage \in ProvisionStages BY DEF ProvisionStages
      <4>4. req' = [req EXCEPT ![r] = p] BY <3>2 DEF TypeOK, HandlersOK
      <4> HIDE DEF p, stage
      <4> QED BY <3>2, <4>1, <4>2, <4>3, <4>4, ProvisionMoves
    <3> QED BY <2>1, <3>1, <3>2
  <2> QED BY <1>2, <2>3, <2>4 DEF ApplySecret, TypeOK
<1>3. ASSUME NEW r \in Requests, ReadSpec(r) PROVE TypeOK'
  <2>1. req[r] \in Provision /\ \A f \in req[r].todo : req[r].change[f] \in Secrets
    BY <1>3 DEF ReadSpec, TypeOK, HandlersOK, ProvisionStages
  <2> DEFINE refs == [e \in Entries |-> IF e \in TopLevel THEN None ELSE CurrentRefs[e]]
             p == [req[r] EXCEPT !.refs = refs]
  <2>2. HandlersOK'
    <3>1. CASE Finish(r) BY <3>1, FinishType
    <3>2. CASE req' = [req EXCEPT ![r].refs = refs] /\ Goto(r, "toplevel")
      <4>1. refs \in Refs BY CurrentRefsType DEF TypeOK, Refs
      <4> HIDE DEF refs
      <4>2. p \in Provision BY <2>1, <4>1 DEF Provision
      <4>3. \A f \in p.todo : p.change[f] \in Secrets BY <2>1 DEF Provision
      <4>4. req' = [req EXCEPT ![r] = p] BY <3>2 DEF TypeOK, HandlersOK
      <4>5. "toplevel" \in ProvisionStages BY DEF ProvisionStages
      <4> HIDE DEF p
      <4> QED BY <3>2, <4>2, <4>3, <4>4, <4>5, ProvisionMoves
    <3> QED BY <1>3, <3>1, <3>2 DEF ReadSpec
  <2> QED BY <1>3, <2>2 DEF ReadSpec, TypeOK, ghosts
<1>4. ASSUME NEW r \in Requests, ReadTop(r) PROVE TypeOK'
  <2>1. req[r] \in Provision /\ \A f \in req[r].todo : req[r].change[f] \in Secrets
    BY <1>4 DEF ReadTop, TypeOK, HandlersOK, ProvisionStages
  <2> DEFINE refs == [e \in Entries |-> IF e \in TopLevel THEN CurrentRefs[e] ELSE req[r].refs[e]]
             idle == claw # None /\ claw.idle
             p == [req[r] EXCEPT !.refs = refs, !.idle = idle]
  <2>2. HandlersOK'
    <3>1. CASE Finish(r) BY <3>1, FinishType
    <3>2. CASE req' = [req EXCEPT ![r].refs = refs, ![r].idle = idle] /\ Goto(r, "claw")
      <4>1. refs \in Refs BY <2>1, CurrentRefsType DEF TypeOK, Refs, Provision
      <4>2. idle \in BOOLEAN BY DEF TypeOK, Claw
      <4> HIDE DEF refs, idle
      <4>3. p \in Provision BY <2>1, <4>1, <4>2 DEF Provision
      <4>4. \A f \in p.todo : p.change[f] \in Secrets BY <2>1 DEF Provision
      <4>5. req' = [req EXCEPT ![r] = p] BY <3>2 DEF TypeOK, HandlersOK
      <4>6. "claw" \in ProvisionStages BY DEF ProvisionStages
      <4> HIDE DEF p
      <4> QED BY <3>2, <4>3, <4>4, <4>5, <4>6, ProvisionMoves
    <3> QED BY <1>4, <3>1, <3>2 DEF ReadTop
  <2> QED BY <1>4, <2>2 DEF ReadTop, TypeOK, ghosts
<1>5. ASSUME NEW r \in Requests, ApplyClaw(r) PROVE TypeOK'
  <2>1. req[r] \in Provision BY <1>5 DEF ApplyClaw, TypeOK, HandlersOK, ProvisionStages
  <2>2. Changed(req[r].refs, req[r].change) \in Refs BY <2>1, ChangedType DEF Provision
  <2>3. Changed(expected.refs, req[r].change) \in Refs BY <2>1, ChangedType DEF Provision, TypeOK
  <2>4. claw' \in Claw \cup {None}
    BY <1>5, <2>1, <2>2, AppliedType DEF ApplyClaw, TypeOK, Provision
  <2>5. expected' \in [refs : Refs, idle : BOOLEAN] BY <1>5, <2>3 DEF ApplyClaw, TypeOK
  <2>6. HandlersOK' BY <1>5, FinishType DEF ApplyClaw
  <2> QED BY <1>5, <2>4, <2>5, <2>6 DEF ApplyClaw, TypeOK
<1>6. ASSUME NEW r \in Requests, BeginDelete(r) PROVE TypeOK'
  <2>1. PICK names \in {IF claw = None THEN Providers
                        ELSE {claw.refs[e] : e \in Entries} \ {None}, Providers} :
          req' = [req EXCEPT ![r] =
                    [todo |-> names \cup {Files}, target |-> None, failed |-> FALSE]]
    BY <1>6 DEF BeginDelete
  <2>2. names \subseteq Secrets
    <3>1. Providers \subseteq Secrets BY DEF Secrets
    <3>2. claw # None => {claw.refs[e] : e \in Entries} \ {None} \subseteq Secrets
      BY DEF TypeOK, Claw, Refs
    <3> QED BY <3>1, <3>2
  <2> DEFINE d == [todo |-> names \cup {Files}, target |-> None, failed |-> FALSE]
  <2>3. d \in Delete BY <2>2 DEF Delete, Objects
  <2>4. "remove" \in DeleteStages /\ "remove" # "drop" BY DEF DeleteStages
  <2>5. Goto(r, "remove") BY <1>6 DEF BeginDelete
  <2>6. req' = [req EXCEPT ![r] = d] BY <2>1
  <2> HIDE DEF d
  <2>7. HandlersOK' BY <2>3, <2>4, <2>5, <2>6, DeleteMoves
  <2>8. started' \in 0..MaxRequests BY <1>6 DEF BeginDelete, TypeOK
  <2> QED BY <1>6, <2>7, <2>8 DEF BeginDelete, TypeOK
<1>7. ASSUME NEW r \in Requests, RemoveClaw(r) PROVE TypeOK'
  <2>1. req[r] \in Delete BY <1>7 DEF RemoveClaw, TypeOK, HandlersOK, DeleteStages
  <2>2. HandlersOK'
    <3>1. CASE Finish(r) BY <3>1, FinishType
    <3>2. CASE Goto(r, "list") /\ UNCHANGED req
      BY <2>1, <3>2 DEF Goto, TypeOK, HandlersOK, ProvisionStages, DeleteStages
    <3> QED BY <1>7, <3>1, <3>2 DEF RemoveClaw
  <2>3. expected' \in [refs : Refs, idle : BOOLEAN] BY <1>7, NoRefsType DEF RemoveClaw, TypeOK
  <2> QED BY <1>7, <2>2, <2>3 DEF RemoveClaw, TypeOK
<1>8. ASSUME NEW r \in Requests, ListManaged(r) PROVE TypeOK'
  <2>1. req[r] \in Delete BY <1>8 DEF ListManaged, TypeOK, HandlersOK, DeleteStages
  <2>2. PICK d \in Delete : req' = [req EXCEPT ![r] = d]
    <3> DEFINE d1 == [req[r] EXCEPT !.todo = @ \cup ManagedSecrets]
               d2 == [req[r] EXCEPT !.failed = TRUE]
    <3>1. d1 \in Delete /\ d2 \in Delete BY <2>1 DEF Delete, ManagedSecrets, Objects
    <3>2. req' = [req EXCEPT ![r] = d1] \/ req' = [req EXCEPT ![r] = d2]
      BY <1>8 DEF ListManaged, TypeOK, HandlersOK
    <3> HIDE DEF d1, d2
    <3> QED BY <3>1, <3>2
  <2>3. "check" \in DeleteStages /\ "check" # "drop" BY DEF DeleteStages
  <2>4. Goto(r, "check") BY <1>8 DEF ListManaged
  <2>5. HandlersOK' BY <2>2, <2>3, <2>4, DeleteMoves
  <2> QED BY <1>8, <2>5 DEF ListManaged, TypeOK, ghosts
<1>9. ASSUME NEW r \in Requests, Check(r) PROVE TypeOK'
  <2>1. req[r] \in Delete BY <1>9 DEF Check, TypeOK, HandlersOK, DeleteStages
  <2>2. PICK o \in req[r].todo :
          \/ /\ req' = [req EXCEPT ![r].target = o]
             /\ Goto(r, "drop")
             /\ UNCHANGED cleaned
          \/ Advance(r, req[r].todo \ {o}, req[r].failed)
          \/ Advance(r, req[r].todo \ {o}, TRUE)
    BY <1>9 DEF Check
  <2>3. HandlersOK' /\ cleaned' \in BOOLEAN
    <3>1. CASE req' = [req EXCEPT ![r].target = o] /\ Goto(r, "drop") /\ UNCHANGED cleaned
      <4> DEFINE d == [req[r] EXCEPT !.target = o]
      <4>1. d \in Delete /\ d.target \in d.todo BY <2>1, <2>2 DEF Delete
      <4>2. req' = [req EXCEPT ![r] = d] BY <3>1 DEF TypeOK, HandlersOK
      <4>3. "drop" \in DeleteStages BY DEF DeleteStages
      <4> HIDE DEF d
      <4> QED BY <3>1, <4>1, <4>2, <4>3, DeleteMoves DEF TypeOK
    <3>2. req[r].todo \ {o} \in SUBSET Objects /\ req[r].failed \in BOOLEAN BY <2>1 DEF Delete
    <3>3. CASE \E failed \in BOOLEAN : Advance(r, req[r].todo \ {o}, failed)
      BY <3>2, <3>3, AdvanceType
    <3> QED BY <2>2, <3>1, <3>2, <3>3
  <2> QED BY <1>9, <2>3 DEF Check, TypeOK
<1>10. ASSUME NEW r \in Requests, Drop(r) PROVE TypeOK'
  <2>1. req[r] \in Delete BY <1>10 DEF Drop, TypeOK, HandlersOK, DeleteStages
  <2>2. objs' \in [Objects -> Labels] BY <1>10 DEF Drop, TypeOK, Labels
  <2>3. HandlersOK' /\ cleaned' \in BOOLEAN
    <3> DEFINE rest == req[r].todo \ {req[r].target}
    <3>1. rest \in SUBSET Objects /\ req[r].failed \in BOOLEAN BY <2>1 DEF Delete
    <3>2. \E failed \in BOOLEAN : Advance(r, rest, failed) BY <1>10, <3>1 DEF Drop
    <3> HIDE DEF rest
    <3> QED BY <3>1, <3>2, AdvanceType
  <2> QED BY <1>10, <2>2, <2>3 DEF Drop, TypeOK
<1>11. ASSUME NEW v \in BOOLEAN, SetIdle(v) PROVE TypeOK'
  <2>1. claw' \in Claw BY <1>11 DEF SetIdle, TypeOK, Claw
  <2>2. expected' \in [refs : Refs, idle : BOOLEAN] BY <1>11 DEF SetIdle, TypeOK
  <2>3. HandlersOK' BY <1>11 DEF SetIdle, TypeOK, HandlersOK
  <2> QED BY <1>11, <2>1, <2>2, <2>3 DEF SetIdle, TypeOK
<1>12. CASE Upload
  <2>1. objs' \in [Objects -> Labels] BY <1>12 DEF Upload, TypeOK, Labels
  <2>2. HandlersOK' BY <1>12 DEF Upload, TypeOK, HandlersOK
  <2> QED BY <1>12, <2>1, <2>2 DEF Upload, TypeOK, Objects
<1>13. CASE UNCHANGED vars
  <2>1. HandlersOK' BY <1>13 DEF vars, ghosts, TypeOK, HandlersOK
  <2> QED BY <1>13, <2>1 DEF vars, ghosts, TypeOK
<1> QED
  BY <1>1, <1>2, <1>3, <1>4, <1>5, <1>6, <1>7, <1>8, <1>9, <1>10, <1>11, <1>12, <1>13
  DEF Next, ProvisionStep, DeleteStep

\* Every variable has its type: a handler at each stage holds what the stage needs.
THEOREM TypeCorrect == Spec => []TypeOK
<1>1. Init => TypeOK BY InitTypes
<1>2. TypeOK /\ [Next]_vars => TypeOK' BY StepTypes
<1> QED BY <1>1, <1>2, PTL DEF Spec

(***************************************************************************)
(* What the user made                                                      *)
(***************************************************************************)
\* Only objects the deployer has written carry its labels, and a delete only takes
\* up objects that carried them.
OwnInv ==
  /\ \A o \in Objects : objs[o] = "managed" => o \in written
  /\ \A r \in Requests : pc[r] = "drop" => req[r].target \in written
  /\ ForeignSurvives

LEMMA OwnInit == Init => OwnInv
  BY DEF Init, OwnInv, ForeignSurvives, Objects, Secrets

\* Handlers that end, or move on to another stage, take up nothing.
LEMMA FinishOwn ==
  ASSUME TypeOK, OwnInv, NEW r \in Requests, Finish(r)
  PROVE  \A q \in Requests : pc'[q] = "drop" => req'[q].target \in written
  BY DEF Finish, OwnInv, TypeOK, HandlersOK

LEMMA MoveOwn ==
  ASSUME TypeOK, OwnInv, NEW r \in Requests, NEW stage, stage # "drop", Goto(r, stage),
         NEW h, req' = [req EXCEPT ![r] = h]
  PROVE  \A q \in Requests : pc'[q] = "drop" => req'[q].target \in written
  BY DEF Goto, OwnInv, TypeOK, HandlersOK

LEMMA AdvanceOwn ==
  ASSUME TypeOK, OwnInv, NEW r \in Requests, NEW rest, NEW failed, Advance(r, rest, failed)
  PROVE  \A q \in Requests : pc'[q] = "drop" => req'[q].target \in written
<1>1. CASE rest = {} BY <1>1, FinishOwn DEF Advance
<1>2. CASE rest # {}
  <2>1. PICK h : req' = [req EXCEPT ![r] = h] BY <1>2 DEF Advance
  <2>2. Goto(r, "check") BY <1>2 DEF Advance
  <2> QED BY <2>1, <2>2, MoveOwn
<1> QED BY <1>1, <1>2

LEMMA OwnStep == TypeOK /\ OwnInv /\ [Next]_vars => OwnInv'
<1> SUFFICES ASSUME TypeOK, OwnInv, [Next]_vars PROVE OwnInv' OBVIOUS
<1>1. ASSUME NEW r \in Requests, BeginProvision(r) PROVE OwnInv'
  <2>1. PICK h, stage : req' = [req EXCEPT ![r] = h] /\ Goto(r, stage) /\ stage # "drop"
    <3>1. PICK change \in Change, todo \in SUBSET Entries :
            /\ req' = [req EXCEPT ![r] =
                         [todo |-> todo, change |-> change, refs |-> NoRefs, idle |-> FALSE]]
            /\ Goto(r, IF todo = {} THEN "spec" ELSE "secrets")
      BY <1>1 DEF BeginProvision
    <3> QED BY <3>1
  <2> QED BY <1>1, <2>1, MoveOwn DEF BeginProvision, OwnInv, ForeignSurvives
<1>2. ASSUME NEW r \in Requests, ApplySecret(r) PROVE OwnInv'
  <2>1. PICK e \in req[r].todo :
          LET s == req[r].change[e]
              rest == req[r].todo \ {e} IN
          \/ /\ objs' = [objs EXCEPT ![s] = "managed"]
             /\ written' = written \cup {s}
             /\ \/ /\ req' = [req EXCEPT ![r].todo = rest]
                   /\ Goto(r, IF rest = {} THEN "spec" ELSE "secrets")
                \/ Finish(r)
          \/ Finish(r) /\ UNCHANGED <<objs, written>>
    BY <1>2 DEF ApplySecret
  <2>2. \A q \in Requests : pc'[q] = "drop" => req'[q].target \in written
    <3>1. CASE Finish(r) BY <3>1, FinishOwn
    <3>2. ASSUME NEW rest, req' = [req EXCEPT ![r].todo = rest],
                 Goto(r, IF rest = {} THEN "spec" ELSE "secrets")
          PROVE  \A q \in Requests : pc'[q] = "drop" => req'[q].target \in written
      BY <3>2 DEF Goto, OwnInv, TypeOK, HandlersOK
    <3> QED BY <2>1, <3>1, <3>2
  <2>3. written \subseteq written' BY <2>1
  <2>4. \A o \in Objects : objs'[o] = "managed" => o \in written'
    BY <2>1 DEF OwnInv, TypeOK
  <2>5. ForeignSurvives'
    BY <2>1 DEF OwnInv, ForeignSurvives, TypeOK, Objects, Secrets
  <2> QED BY <2>2, <2>3, <2>4, <2>5 DEF OwnInv
<1>3. ASSUME NEW r \in Requests, ReadSpec(r) PROVE OwnInv'
  <2>1. \A q \in Requests : pc'[q] = "drop" => req'[q].target \in written
    <3>1. CASE Finish(r) BY <3>1, FinishOwn
    <3>2. ASSUME NEW refs, req' = [req EXCEPT ![r].refs = refs], Goto(r, "toplevel")
          PROVE  \A q \in Requests : pc'[q] = "drop" => req'[q].target \in written
      BY <3>2 DEF Goto, OwnInv, TypeOK, HandlersOK
    <3> QED BY <1>3, <3>1, <3>2 DEF ReadSpec
  <2> QED BY <1>3, <2>1 DEF ReadSpec, OwnInv, ForeignSurvives, ghosts
<1>4. ASSUME NEW r \in Requests, ReadTop(r) PROVE OwnInv'
  <2>1. \A q \in Requests : pc'[q] = "drop" => req'[q].target \in written
    <3>1. CASE Finish(r) BY <3>1, FinishOwn
    <3>2. CASE Goto(r, "claw") /\ \A q \in Requests \ {r} : req'[q] = req[q]
      BY <3>2 DEF Goto, OwnInv, TypeOK, HandlersOK
    <3> QED BY <1>4, <3>1, <3>2 DEF ReadTop, TypeOK, HandlersOK
  <2> QED BY <1>4, <2>1 DEF ReadTop, OwnInv, ForeignSurvives, ghosts
<1>5. ASSUME NEW r \in Requests, ApplyClaw(r) PROVE OwnInv'
  BY <1>5, FinishOwn DEF ApplyClaw, OwnInv, ForeignSurvives
<1>6. ASSUME NEW r \in Requests, BeginDelete(r) PROVE OwnInv'
  <2>1. PICK h : req' = [req EXCEPT ![r] = h] BY <1>6 DEF BeginDelete
  <2>2. Goto(r, "remove") BY <1>6 DEF BeginDelete
  <2> QED BY <1>6, <2>1, <2>2, MoveOwn DEF BeginDelete, OwnInv, ForeignSurvives
<1>7. ASSUME NEW r \in Requests, RemoveClaw(r) PROVE OwnInv'
  <2>1. CASE Finish(r) BY <1>7, <2>1, FinishOwn DEF RemoveClaw, OwnInv, ForeignSurvives
  <2>2. CASE Goto(r, "list") /\ UNCHANGED req
    BY <1>7, <2>2 DEF Goto, RemoveClaw, OwnInv, ForeignSurvives, TypeOK, HandlersOK
  <2> QED BY <1>7, <2>1, <2>2 DEF RemoveClaw
<1>8. ASSUME NEW r \in Requests, ListManaged(r) PROVE OwnInv'
  <2>1. \A q \in Requests \ {r} : req'[q] = req[q] BY <1>8 DEF ListManaged, TypeOK, HandlersOK
  <2>2. Goto(r, "check") BY <1>8 DEF ListManaged
  <2> QED
    BY <1>8, <2>1, <2>2
    DEF Goto, ListManaged, OwnInv, ForeignSurvives, ghosts, TypeOK, HandlersOK
<1>9. ASSUME NEW r \in Requests, Check(r) PROVE OwnInv'
  <2>1. PICK o \in req[r].todo :
          \/ /\ objs[o] = "managed"
             /\ req' = [req EXCEPT ![r].target = o]
             /\ Goto(r, "drop")
          \/ \E failed : Advance(r, req[r].todo \ {o}, failed)
    BY <1>9 DEF Check
  <2>2. o \in Objects BY <1>9 DEF Check, TypeOK, HandlersOK, DeleteStages, Delete
  <2>3. req[r] \in Delete BY <1>9 DEF Check, TypeOK, HandlersOK, DeleteStages
  <2>4. \A q \in Requests : pc'[q] = "drop" => req'[q].target \in written
    <3>1. CASE objs[o] = "managed" /\ req' = [req EXCEPT ![r].target = o] /\ Goto(r, "drop")
      <4>1. req'[r].target = o /\ \A q \in Requests \ {r} : req'[q] = req[q]
        BY <2>3, <3>1 DEF TypeOK, HandlersOK, Delete
      <4>2. o \in written BY <2>2, <3>1 DEF OwnInv
      <4> QED BY <3>1, <4>1, <4>2 DEF Goto, OwnInv, TypeOK, HandlersOK
    <3>2. CASE \E failed : Advance(r, req[r].todo \ {o}, failed) BY <3>2, AdvanceOwn
    <3> QED BY <2>1, <3>1, <3>2
  <2> QED BY <1>9, <2>4 DEF Check, OwnInv, ForeignSurvives
<1>10. ASSUME NEW r \in Requests, Drop(r) PROVE OwnInv'
  <2>1. \A q \in Requests : pc'[q] = "drop" => req'[q].target \in written
    <3>1. \E rest, failed : Advance(r, rest, failed) BY <1>10 DEF Drop
    <3> QED BY <3>1, AdvanceOwn
  <2>2. req[r].target \in written BY <1>10 DEF Drop, OwnInv
  <2>3. written' = written BY <1>10 DEF Drop
  <2>4. \A s \in Secrets : s # req[r].target => objs'[s] = objs[s]
    <3>1. objs' = objs \/ objs' = [objs EXCEPT ![req[r].target] = "absent"] BY <1>10 DEF Drop
    <3> QED BY <3>1 DEF TypeOK, Objects
  <2>5. \A o \in Objects : objs'[o] = "managed" => o \in written'
    <3>1. objs' = objs \/ objs' = [objs EXCEPT ![req[r].target] = "absent"] BY <1>10 DEF Drop
    <3> QED BY <2>3, <3>1 DEF TypeOK, OwnInv
  <2> QED BY <2>1, <2>2, <2>3, <2>4, <2>5 DEF OwnInv, ForeignSurvives, Secrets
<1>11. ASSUME NEW v \in BOOLEAN, SetIdle(v) PROVE OwnInv'
  BY <1>11 DEF SetIdle, OwnInv, ForeignSurvives
<1>12. CASE Upload
  BY <1>12 DEF Upload, OwnInv, ForeignSurvives, TypeOK, Objects, Secrets
<1>13. CASE UNCHANGED vars
  BY <1>13 DEF vars, ghosts, OwnInv, ForeignSurvives
<1> QED
  BY <1>1, <1>2, <1>3, <1>4, <1>5, <1>6, <1>7, <1>8, <1>9, <1>10, <1>11, <1>12, <1>13
  DEF Next, ProvisionStep, DeleteStep

\* No delete ever takes a secret that the deployer has not written.
THEOREM DeletesOnlyItsOwn == Spec => []ForeignSurvives
<1>1. Init => OwnInv BY OwnInit
<1>2. TypeOK /\ OwnInv /\ [Next]_vars => OwnInv' BY OwnStep
<1>3. OwnInv => ForeignSurvives BY DEF OwnInv
<1> QED BY <1>1, <1>2, <1>3, TypeCorrect, PTL DEF Spec

(***************************************************************************)
(* References                                                              *)
(***************************************************************************)
Resolved(refs) == \A e \in Entries : refs[e] # None => objs[refs[e]] # "absent"

\* The secrets a handler has read references to, or has written, or was told of.
Backed(p) ==
  /\ Resolved(p.refs)
  /\ \A e \in Entries \ p.todo : p.change[e] \in Secrets => objs[p.change[e]] # "absent"

\* As long as no delete has met a provision, a Claw that is being deleted is gone
\* by the time its secrets go, and no provision can bring it back.
RefInv ==
  ~mixed =>
    /\ Provisioning # {} => Deleting = {}
    /\ claw # None => Resolved(claw.refs)
    /\ \A r \in Provisioning : Backed(req[r]) /\ (pc[r] # "secrets" => req[r].todo = {})
    /\ \A r \in Requests : pc[r] \in {"list", "check", "drop"} => claw = None

LEMMA RefInit == Init => RefInv
  BY DEF Init, RefInv, Provisioning, ProvisionStages

LEMMA ChangedResolved ==
  ASSUME NEW p \in Provision, Backed(p), p.todo = {}
  PROVE  Resolved(Changed(p.refs, p.change))
  BY DEF Resolved, Backed, Changed, Provision, Refs, Change

\* Nothing but the last step of a delete makes an object absent.
Grows == \A o \in Objects : objs[o] # "absent" => objs'[o] # "absent"

LEMMA GrowsResolved ==
  ASSUME Grows, NEW refs \in Refs, Resolved(refs)
  PROVE  \A e \in Entries : refs[e] # None => objs'[refs[e]] # "absent"
  BY DEF Grows, Resolved, Refs, Objects

LEMMA GrowsBacked ==
  ASSUME Grows, NEW p \in Provision, Backed(p)
  PROVE  /\ \A e \in Entries : p.refs[e] # None => objs'[p.refs[e]] # "absent"
         /\ \A e \in Entries \ p.todo :
              p.change[e] \in Secrets => objs'[p.change[e]] # "absent"
  BY DEF Grows, Backed, Resolved, Refs, Provision, Objects

LEMMA RefStep == TypeOK /\ TypeOK' /\ RefInv /\ [Next]_vars => RefInv'
<1> SUFFICES ASSUME TypeOK, TypeOK', RefInv, [Next]_vars, ~mixed' PROVE RefInv' BY DEF RefInv
<1> USE DEF Provisioning, Deleting, ProvisionStages, DeleteStages
<1>1. ASSUME NEW r \in Requests, BeginProvision(r) PROVE RefInv'
  <2>1. ~mixed /\ Deleting = {} BY <1>1 DEF BeginProvision, TypeOK
  <2>2. PICK change \in Change, todo \in SUBSET Entries :
          LET given == {e \in Entries : change[e] \in Secrets} IN
          /\ \A e \in given \ todo : objs[change[e]] # "absent"
          /\ req' = [req EXCEPT ![r] =
                       [todo |-> todo, change |-> change, refs |-> NoRefs, idle |-> FALSE]]
          /\ Goto(r, IF todo = {} THEN "spec" ELSE "secrets")
    BY <1>1 DEF BeginProvision
  <2>3. UNCHANGED <<claw, objs>> BY <1>1 DEF BeginProvision
  <2>4. Deleting' = {} BY <2>1, <2>2 DEF Goto, TypeOK, HandlersOK
  <2>5. \A q \in Provisioning' :
          Backed(req[q])' /\ (pc'[q] # "secrets" => req'[q].todo = {})
    <3> SUFFICES ASSUME NEW q \in Provisioning'
                 PROVE  Backed(req[q])' /\ (pc'[q] # "secrets" => req'[q].todo = {})
      OBVIOUS
    <3>1. CASE q = r
      <4>1. req'[r] = [todo |-> todo, change |-> change, refs |-> NoRefs, idle |-> FALSE]
        BY <2>2 DEF TypeOK, HandlersOK
      <4>2. pc'[r] # "secrets" => todo = {} BY <2>2 DEF Goto, TypeOK, HandlersOK
      <4> QED BY <2>2, <2>3, <3>1, <4>1, <4>2 DEF Backed, Resolved, NoRefs
    <3>2. CASE q # r
      <4>1. req'[q] = req[q] /\ pc'[q] = pc[q] /\ q \in Provisioning
        BY <2>2, <3>2 DEF Goto, TypeOK, HandlersOK
      <4> QED BY <2>1, <2>3, <4>1 DEF RefInv, Backed, Resolved
    <3> QED BY <3>1, <3>2
  <2>6. claw' # None => Resolved(claw.refs)' BY <2>1, <2>3 DEF RefInv, Resolved
  <2> QED BY <2>4, <2>5, <2>6 DEF RefInv
<1>2. ASSUME NEW r \in Requests, ApplySecret(r) PROVE RefInv'
  <2>1. ~mixed /\ r \in Provisioning /\ Deleting = {} /\ pc[r] = "secrets"
    BY <1>2 DEF ApplySecret, RefInv
  <2>2. PICK e \in req[r].todo :
          LET s == req[r].change[e]
              rest == req[r].todo \ {e} IN
          \/ /\ objs' = [objs EXCEPT ![s] = "managed"]
             /\ \/ /\ req' = [req EXCEPT ![r].todo = rest]
                   /\ Goto(r, IF rest = {} THEN "spec" ELSE "secrets")
                \/ Finish(r)
          \/ Finish(r) /\ UNCHANGED objs
    BY <1>2 DEF ApplySecret
  <2>3. Grows BY <2>2 DEF Grows, TypeOK
  <2>4. claw' # None => Resolved(claw.refs)'
    BY <1>2, <2>1, <2>3, GrowsResolved DEF ApplySecret, RefInv, Resolved, TypeOK, Claw
  <2>5. \A q \in Requests \ {r} : req'[q] = req[q] /\ pc'[q] = pc[q]
    BY <2>2 DEF Goto, Finish, TypeOK, HandlersOK
  <2>6. Deleting' = {} BY <2>1, <2>2, <2>5 DEF Goto, Finish, TypeOK, HandlersOK
  <2>7. req[r] \in Provision /\ Backed(req[r]) BY <2>1 DEF RefInv, TypeOK, HandlersOK
  <2>8. \A q \in Provisioning' :
          Backed(req[q])' /\ (pc'[q] # "secrets" => req'[q].todo = {})
    <3> SUFFICES ASSUME NEW q \in Provisioning'
                 PROVE  Backed(req[q])' /\ (pc'[q] # "secrets" => req'[q].todo = {})
      OBVIOUS
    <3>1. CASE q # r
      <4>1. req'[q] = req[q] /\ q \in Provisioning /\ pc'[q] = pc[q] BY <2>5, <3>1
      <4>2. req[q] \in Provision /\ Backed(req[q]) /\ (pc[q] # "secrets" => req[q].todo = {})
        BY <2>1, <4>1 DEF RefInv, TypeOK, HandlersOK
      <4> QED BY <2>3, <4>1, <4>2, GrowsBacked DEF Backed, Resolved
    <3>2. CASE q = r
      <4> DEFINE rest == req[r].todo \ {e}
      <4>1. /\ objs' = [objs EXCEPT ![req[r].change[e]] = "managed"]
            /\ req' = [req EXCEPT ![r].todo = rest]
            /\ Goto(r, IF rest = {} THEN "spec" ELSE "secrets")
        BY <2>2, <3>2 DEF Finish, TypeOK, HandlersOK
      <4>2. /\ req'[r].todo = rest /\ req'[r].refs = req[r].refs
            /\ req'[r].change = req[r].change
        BY <2>7, <4>1 DEF TypeOK, HandlersOK, Provision
      <4>3. pc'[r] # "secrets" => rest = {} BY <4>1 DEF Goto, TypeOK, HandlersOK
      <4>4. e \in Entries BY <2>7 DEF Provision
      <4>5. req[r].change[e] \in Objects
        BY <2>1, <2>7, <4>4 DEF Provision, Change, Objects, TypeOK, HandlersOK
      <4>6. objs'[req[r].change[e]] = "managed" BY <4>1, <4>5 DEF TypeOK
      <4>7. \A f \in Entries \ rest :
              req[r].change[f] \in Secrets => objs'[req[r].change[f]] # "absent"
        BY <2>3, <2>7, <4>6, GrowsBacked
      <4>8. \A f \in Entries : req[r].refs[f] # None => objs'[req[r].refs[f]] # "absent"
        BY <2>3, <2>7, GrowsBacked
      <4> HIDE DEF rest
      <4> QED BY <3>2, <4>2, <4>3, <4>7, <4>8 DEF Backed, Resolved
    <3> QED BY <3>1, <3>2
  <2> QED BY <2>4, <2>6, <2>8 DEF RefInv
<1>3. ASSUME NEW r \in Requests, ReadSpec(r) \/ ReadTop(r) PROVE RefInv'
  <2>1. ~mixed /\ r \in Provisioning /\ Deleting = {} /\ pc[r] # "secrets"
    BY <1>3 DEF ReadSpec, ReadTop, RefInv, ghosts
  <2>2. UNCHANGED <<claw, objs>> BY <1>3 DEF ReadSpec, ReadTop
  <2>3. req[r] \in Provision /\ Backed(req[r]) /\ req[r].todo = {}
    BY <2>1 DEF RefInv, TypeOK, HandlersOK
  <2>4. \A q \in Requests \ {r} : req'[q] = req[q] /\ pc'[q] = pc[q]
    BY <1>3 DEF ReadSpec, ReadTop, Goto, Finish, TypeOK, HandlersOK
  <2>5. pc'[r] \in {"idle", "toplevel", "claw"}
    BY <1>3 DEF ReadSpec, ReadTop, Goto, Finish, TypeOK, HandlersOK
  <2>6. Deleting' = {} BY <2>1, <2>4, <2>5
  <2>7. Resolved(CurrentRefs) BY <2>1 DEF RefInv, CurrentRefs, NoRefs, Resolved
  <2>8. pc'[r] # "idle" => req'[r].todo = {} /\ req'[r].change = req[r].change
                           /\ Resolved(req'[r].refs)
    <3>1. CASE ReadSpec(r)
      <4> DEFINE refs == [f \in Entries |-> IF f \in TopLevel THEN None ELSE CurrentRefs[f]]
      <4>1. Resolved(refs) BY <2>7 DEF Resolved
      <4>2. pc'[r] # "idle" => req' = [req EXCEPT ![r].refs = refs]
        BY <3>1 DEF ReadSpec, Finish, TypeOK, HandlersOK
      <4> HIDE DEF refs
      <4> QED BY <2>3, <4>1, <4>2 DEF TypeOK, HandlersOK, Provision
    <3>2. CASE ReadTop(r)
      <4> DEFINE refs == [f \in Entries |-> IF f \in TopLevel THEN CurrentRefs[f]
                                                              ELSE req[r].refs[f]]
                 idle == claw # None /\ claw.idle
      <4>1. Resolved(refs) BY <2>3, <2>7 DEF Resolved, Backed
      <4>2. pc'[r] # "idle" => req' = [req EXCEPT ![r].refs = refs, ![r].idle = idle]
        BY <3>2 DEF ReadTop, Finish, TypeOK, HandlersOK
      <4> HIDE DEF refs, idle
      <4> QED BY <2>3, <4>1, <4>2 DEF TypeOK, HandlersOK, Provision
    <3> QED BY <1>3, <3>1, <3>2
  <2>9. \A q \in Provisioning' :
          Backed(req[q])' /\ (pc'[q] # "secrets" => req'[q].todo = {})
    <3> SUFFICES ASSUME NEW q \in Provisioning'
                 PROVE  Backed(req[q])' /\ (pc'[q] # "secrets" => req'[q].todo = {})
      OBVIOUS
    <3>1. CASE q = r BY <2>2, <2>3, <2>8, <3>1 DEF Backed, Resolved
    <3>2. CASE q # r BY <2>1, <2>2, <2>4, <3>2 DEF RefInv, Backed, Resolved
    <3> QED BY <3>1, <3>2
  <2>10. claw' # None => Resolved(claw.refs)' BY <2>1, <2>2 DEF RefInv, Resolved
  <2> QED BY <2>6, <2>9, <2>10 DEF RefInv
<1>4. ASSUME NEW r \in Requests, ApplyClaw(r) PROVE RefInv'
  <2>1. ~mixed /\ r \in Provisioning /\ Deleting = {} /\ pc[r] # "secrets"
    BY <1>4 DEF ApplyClaw, RefInv
  <2>2. objs' = objs /\ Finish(r) BY <1>4 DEF ApplyClaw
  <2>3. req[r] \in Provision /\ Backed(req[r]) /\ req[r].todo = {}
    BY <2>1 DEF RefInv, TypeOK, HandlersOK
  <2>4. Resolved(Changed(req[r].refs, req[r].change)) BY <2>3, ChangedResolved
  <2>5. claw' # None => Resolved(claw'.refs)
    <3>1. claw' = claw \/ claw'.refs = Changed(req[r].refs, req[r].change)
      BY <1>4 DEF ApplyClaw, Applied
    <3> QED BY <2>1, <2>4, <3>1 DEF RefInv
  <2>6. \A q \in Requests \ {r} : req'[q] = req[q] /\ pc'[q] = pc[q]
    BY <2>2 DEF Finish, TypeOK, HandlersOK
  <2>7. pc'[r] = "idle" BY <2>2 DEF Finish, TypeOK, HandlersOK
  <2>8. Deleting' = {} BY <2>1, <2>6, <2>7
  <2>9. \A q \in Provisioning' :
          Backed(req[q])' /\ (pc'[q] # "secrets" => req'[q].todo = {})
    BY <2>1, <2>2, <2>6, <2>7 DEF RefInv, Backed, Resolved
  <2>10. claw' # None => Resolved(claw.refs)' BY <2>2, <2>5 DEF Resolved
  <2> QED BY <2>8, <2>9, <2>10 DEF RefInv
<1>5. ASSUME NEW r \in Requests, DeleteStep(r) PROVE RefInv'
  <2>1. ~mixed /\ Provisioning = {}
    <3>1. CASE BeginDelete(r)
      <4>1. mixed' = (mixed \/ Provisioning # {}) BY <3>1 DEF BeginDelete
      <4> QED BY <4>1
    <3>2. CASE RemoveClaw(r) \/ ListManaged(r) \/ Check(r) \/ Drop(r)
      <4>1. mixed' = mixed BY <3>2 DEF RemoveClaw, ListManaged, Check, Drop, ghosts
      <4>2. r \in Deleting
        BY <3>2 DEF RemoveClaw, ListManaged, Check, Drop
      <4> QED BY <4>1, <4>2 DEF RefInv
    <3> QED BY <1>5, <3>1, <3>2 DEF DeleteStep
  <2>2. \A q \in Requests \ {r} : pc'[q] = pc[q]
    BY <1>5 DEF DeleteStep, BeginDelete, RemoveClaw, ListManaged, Check, Drop, Advance, Goto,
                Finish, TypeOK, HandlersOK
  <2>3. pc'[r] \in {"idle"} \cup DeleteStages
    BY <1>5 DEF DeleteStep, BeginDelete, RemoveClaw, ListManaged, Check, Drop, Advance, Goto,
                Finish, TypeOK, HandlersOK
  <2>4. Provisioning' = {} BY <2>1, <2>2, <2>3
  <2>5. claw' = claw \/ claw' = None
    BY <1>5 DEF DeleteStep, BeginDelete, RemoveClaw, ListManaged, Check, Drop
  <2>6. pc'[r] \in {"list", "check", "drop"} => claw' = None
    <3>1. CASE BeginDelete(r) BY <3>1 DEF BeginDelete, Goto, TypeOK, HandlersOK
    <3>2. CASE RemoveClaw(r) BY <3>2 DEF RemoveClaw, Goto, Finish, TypeOK, HandlersOK
    <3>3. CASE ListManaged(r) \/ Check(r) \/ Drop(r)
      <4>1. claw = None BY <2>1, <3>3 DEF ListManaged, Check, Drop, RefInv
      <4> QED BY <2>5, <4>1
    <3> QED BY <1>5, <3>1, <3>2, <3>3 DEF DeleteStep
  <2>7. claw' # None => objs' = objs
    BY <1>5, <2>1, <2>5 DEF DeleteStep, BeginDelete, RemoveClaw, ListManaged, Check, Drop, RefInv
  <2>8. claw' # None => Resolved(claw.refs)' BY <2>1, <2>5, <2>7 DEF RefInv, Resolved
  <2>9. \A q \in Requests : pc'[q] \in {"list", "check", "drop"} => claw' = None
    BY <2>1, <2>2, <2>5, <2>6 DEF RefInv
  <2> QED BY <2>4, <2>8, <2>9 DEF RefInv
<1>6. ASSUME NEW v \in BOOLEAN, SetIdle(v) PROVE RefInv'
  <2>1. claw \in Claw /\ claw' \in Claw /\ claw'.refs = claw.refs
    BY <1>6 DEF SetIdle, TypeOK, Claw
  <2>2. UNCHANGED <<objs, pc, req, mixed>> BY <1>6 DEF SetIdle
  <2>3. claw # None BY <1>6 DEF SetIdle
  <2> QED BY <2>1, <2>2, <2>3 DEF RefInv, Backed, Resolved
<1>7. CASE Upload
  <2>1. ~mixed /\ Grows BY <1>7 DEF Upload, Grows, TypeOK
  <2>2. UNCHANGED <<claw, pc, req>> BY <1>7 DEF Upload
  <2>3. claw' # None => Resolved(claw.refs)'
    BY <2>1, <2>2, GrowsResolved DEF RefInv, Resolved, TypeOK, Claw
  <2>4. \A q \in Provisioning' :
          Backed(req[q])' /\ (pc'[q] # "secrets" => req'[q].todo = {})
    <3> SUFFICES ASSUME NEW q \in Provisioning'
                 PROVE  Backed(req[q])' /\ (pc'[q] # "secrets" => req'[q].todo = {})
      OBVIOUS
    <3>1. req[q] \in Provision /\ Backed(req[q]) /\ (pc[q] # "secrets" => req[q].todo = {})
      BY <2>1, <2>2 DEF RefInv, TypeOK, HandlersOK
    <3> QED BY <2>1, <2>2, <3>1, GrowsBacked DEF Backed, Resolved
  <2> QED BY <2>1, <2>2, <2>3, <2>4 DEF RefInv
<1>8. CASE UNCHANGED vars
  BY <1>8 DEF vars, ghosts, RefInv, Backed, Resolved
<1> QED
  BY <1>1, <1>2, <1>3, <1>4, <1>5, <1>6, <1>7, <1>8 DEF Next, ProvisionStep

\* Secrets come first: a Claw refers to secrets that exist, unless a delete has run
\* at the same time as a provision.
THEOREM SecretsComeFirst == Spec => []ReferencesResolve
<1>1. Init => RefInv BY RefInit
<1>2. TypeOK /\ TypeOK' /\ RefInv /\ [Next]_vars => RefInv' BY RefStep
<1>3. RefInv => ReferencesResolve BY DEF RefInv, ReferencesResolve, Resolved
<1> QED BY <1>1, <1>2, <1>3, TypeCorrect, PTL DEF Spec

(***************************************************************************)
(* Updates                                                                 *)
(***************************************************************************)
CurrentIdle == IF claw = None THEN FALSE ELSE claw.idle

\* As long as a provision has had the Claw to itself, what it has read so far is what
\* the Claw is, and the Claw is what the requests before it asked for.
UpdateInv ==
  ~raced =>
    /\ \A r, q \in Provisioning : r = q
    /\ Provisioning # {} => Deleting = {}
    /\ expected.refs = CurrentRefs /\ expected.idle = CurrentIdle
    /\ \A r \in Provisioning :
         /\ pc[r] = "toplevel" => \A e \in Entries \ TopLevel : req[r].refs[e] = CurrentRefs[e]
         /\ pc[r] = "claw" => req[r].refs = CurrentRefs /\ req[r].idle = CurrentIdle

LEMMA UpdateInit == Init => UpdateInv
  BY DEF Init, UpdateInv, Provisioning, ProvisionStages, CurrentRefs, CurrentIdle

\* What a delete does to the handlers: its own moves on, or ends.
LEMMA DeleteOnly ==
  ASSUME TypeOK, NEW r \in Requests,
         BeginDelete(r) \/ RemoveClaw(r) \/ ListManaged(r) \/ Check(r) \/ Drop(r)
  PROVE  /\ Provisioning' \subseteq Provisioning
         /\ pc[r] # "idle" => r \in Deleting
<1>1. ASSUME NEW stage \in DeleteStages \cup {"idle"}, Goto(r, stage)
      PROVE  Provisioning' \subseteq Provisioning
  BY <1>1 DEF Goto, Provisioning, ProvisionStages, DeleteStages, TypeOK, HandlersOK
<1>2. \E stage \in DeleteStages \cup {"idle"} : Goto(r, stage)
  <2>1. CASE BeginDelete(r) \/ RemoveClaw(r) \/ ListManaged(r)
    BY <2>1 DEF BeginDelete, RemoveClaw, ListManaged, Goto, Finish, DeleteStages
  <2>2. CASE Check(r) \/ Drop(r)
    <3>1. Goto(r, "drop") \/ \E rest, failed : Advance(r, rest, failed)
      BY <2>2 DEF Check, Drop
    <3> QED BY <3>1 DEF Advance, Goto, Finish, DeleteStages
  <2> QED BY <2>1, <2>2
<1>3. pc[r] # "idle" => r \in Deleting
  BY DEF BeginDelete, RemoveClaw, ListManaged, Check, Drop, Deleting, DeleteStages
<1> QED BY <1>1, <1>2, <1>3

LEMMA UpdateStep == TypeOK /\ TypeOK' /\ UpdateInv /\ [Next]_vars => UpdateInv'
<1> SUFFICES ASSUME TypeOK, TypeOK', UpdateInv, [Next]_vars, ~raced' PROVE UpdateInv'
  BY DEF UpdateInv
<1>0. /\ pc \in [Requests -> {"idle"} \cup ProvisionStages \cup DeleteStages]
      /\ req \in [Requests -> Provision \cup Delete \cup {None}]
  BY DEF TypeOK, HandlersOK
<1>1. ASSUME NEW r \in Requests, BeginProvision(r) PROVE UpdateInv'
  <2>1. /\ ~raced /\ Provisioning = {} /\ Deleting = {}
        /\ UNCHANGED <<claw, expected>>
    BY <1>1 DEF BeginProvision
  <2>2. \E stage \in {"spec", "secrets"} : pc' = [pc EXCEPT ![r] = stage]
    BY <1>1 DEF BeginProvision, Goto
  <2>3. Provisioning' = {r} /\ Deleting' = {} /\ pc'[r] \in {"spec", "secrets"}
    BY <1>0, <2>1, <2>2 DEF Provisioning, Deleting, ProvisionStages, DeleteStages
  <2> QED BY <2>1, <2>3 DEF UpdateInv, CurrentRefs, CurrentIdle
<1>2. ASSUME NEW r \in Requests,
             ApplySecret(r) \/ ReadSpec(r) \/ ReadTop(r) \/ ApplyClaw(r)
      PROVE  UpdateInv'
  <2>1. ~raced /\ r \in Provisioning
    BY <1>2 DEF ApplySecret, ReadSpec, ReadTop, ApplyClaw, ghosts, Provisioning, ProvisionStages
  <2>2. Provisioning = {r} /\ Deleting = {}
    BY <2>1 DEF UpdateInv
  <2>3. expected.refs = CurrentRefs /\ expected.idle = CurrentIdle
    BY <2>1 DEF UpdateInv
  <2>4. ASSUME NEW stage \in {"idle"} \cup ProvisionStages, Goto(r, stage)
        PROVE  Provisioning' \subseteq {r} /\ Deleting' = {} /\ pc'[r] = stage
    BY <1>0, <2>2, <2>4 DEF Goto, Provisioning, Deleting, ProvisionStages, DeleteStages
  <2>5. ASSUME Finish(r), expected'.refs = CurrentRefs', expected'.idle = CurrentIdle'
        PROVE  UpdateInv'
    <3>1. Provisioning' \subseteq {r} /\ Deleting' = {} /\ pc'[r] = "idle"
      BY <2>4, <2>5 DEF Finish, Goto
    <3>2. Provisioning' = {}
      BY <3>1 DEF Provisioning, ProvisionStages
    <3> QED BY <2>5, <3>2 DEF UpdateInv
  <2>6. CASE ApplySecret(r)
    <3>1. UNCHANGED <<claw, expected>>
      BY <2>6 DEF ApplySecret
    <3>2. CASE Finish(r)
      BY <2>3, <2>5, <3>1, <3>2 DEF CurrentRefs, CurrentIdle
    <3>3. CASE ~Finish(r)
      <4>1. \E stage \in {"spec", "secrets"} : Goto(r, stage)
        BY <2>6, <3>3 DEF ApplySecret
      <4>2. Provisioning' \subseteq {r} /\ Deleting' = {} /\ pc'[r] \in {"spec", "secrets"}
        BY <2>4, <4>1 DEF ProvisionStages
      <4> QED BY <2>3, <3>1, <4>2 DEF UpdateInv, CurrentRefs, CurrentIdle
    <3> QED BY <3>2, <3>3
  <2>7. CASE ReadSpec(r) \/ ReadTop(r)
    <3>1. UNCHANGED <<claw, expected>>
      BY <2>7 DEF ReadSpec, ReadTop, ghosts
    <3>2. CASE Finish(r)
      BY <2>3, <2>5, <3>1, <3>2 DEF CurrentRefs, CurrentIdle
    <3>3. CASE ReadSpec(r) /\ ~Finish(r)
      <4>1. /\ req' = [req EXCEPT ![r].refs =
                        [e \in Entries |-> IF e \in TopLevel THEN None ELSE CurrentRefs[e]]]
            /\ Goto(r, "toplevel")
        BY <3>3 DEF ReadSpec
      <4>2. Provisioning' \subseteq {r} /\ Deleting' = {} /\ pc'[r] = "toplevel"
        BY <2>4, <4>1 DEF ProvisionStages
      <4>3. req[r] \in Provision
        BY <2>1 DEF TypeOK, HandlersOK, Provisioning
      <4>4. \A e \in Entries \ TopLevel : req'[r].refs[e] = CurrentRefs[e]
        BY <1>0, <4>1, <4>3 DEF Provision
      <4> QED BY <2>3, <3>1, <4>2, <4>4 DEF UpdateInv, CurrentRefs, CurrentIdle
    <3>4. CASE ReadTop(r) /\ ~Finish(r)
      <4>1. /\ pc[r] = "toplevel" /\ Goto(r, "claw")
            /\ req' = [req EXCEPT
                        ![r].refs = [e \in Entries |-> IF e \in TopLevel THEN CurrentRefs[e]
                                                                        ELSE req[r].refs[e]],
                        ![r].idle = claw # None /\ claw.idle]
        BY <3>4 DEF ReadTop
      <4>2. Provisioning' \subseteq {r} /\ Deleting' = {} /\ pc'[r] = "claw"
        BY <2>4, <4>1 DEF ProvisionStages
      <4>3. req[r] \in Provision /\ CurrentRefs \in Refs
        BY <2>1, CurrentRefsType DEF TypeOK, HandlersOK, Provisioning
      <4>4. \A e \in Entries \ TopLevel : req[r].refs[e] = CurrentRefs[e]
        BY <2>1, <4>1 DEF UpdateInv
      <4>5. /\ req'[r].refs = [e \in Entries |-> IF e \in TopLevel THEN CurrentRefs[e]
                                                                 ELSE req[r].refs[e]]
            /\ req'[r].idle = CurrentIdle
        <5>1. req'[r].idle = (claw # None /\ claw.idle)
          BY <1>0, <4>1, <4>3 DEF Provision
        <5>2. claw # None => claw.idle \in BOOLEAN
          BY DEF TypeOK, Claw
        <5>3. req'[r].idle = CurrentIdle
          BY <5>1, <5>2 DEF CurrentIdle
        <5> QED BY <1>0, <4>1, <4>3, <5>3 DEF Provision
      <4>6. req'[r].refs = CurrentRefs
        BY <4>3, <4>4, <4>5 DEF Refs
      <4> QED BY <2>3, <3>1, <4>2, <4>5, <4>6 DEF UpdateInv, CurrentRefs, CurrentIdle
    <3> QED BY <2>7, <3>2, <3>3, <3>4
  <2>8. CASE ApplyClaw(r)
    <3>1. pc[r] = "claw" /\ Finish(r)
      BY <2>8 DEF ApplyClaw
    <3>2. CASE UNCHANGED <<claw, expected>>
      BY <2>3, <2>5, <3>1, <3>2 DEF CurrentRefs, CurrentIdle
    <3>3. CASE /\ claw' = Applied(Changed(req[r].refs, req[r].change), req[r].idle)
               /\ expected' = [expected EXCEPT !.refs = Changed(@, req[r].change)]
      <4>1. req[r].refs = CurrentRefs /\ req[r].idle = CurrentIdle
        BY <2>1, <3>1 DEF UpdateInv
      <4>2. /\ expected'.refs = Changed(CurrentRefs, req[r].change)
            /\ expected'.idle = CurrentIdle
        BY <2>3, <3>3 DEF TypeOK
      <4>3. /\ claw'.refs = Changed(CurrentRefs, req[r].change)
            /\ claw'.idle = CurrentIdle
        <5>1. claw = None \/ claw.idle \in BOOLEAN
          BY DEF TypeOK, Claw
        <5>2. CASE CurrentIdle = TRUE
          BY <3>3, <4>1, <5>2 DEF Applied
        <5>3. CASE CurrentIdle = FALSE
          BY <3>3, <4>1, <5>1, <5>3 DEF Applied, CurrentIdle
        <5> QED BY <5>1, <5>2, <5>3 DEF CurrentIdle
      <4>4. claw' # None
        <5>1. /\ req[r] \in Provision
          BY <2>1 DEF TypeOK, HandlersOK, Provisioning
        <5>2. Changed(req[r].refs, req[r].change) \in Refs /\ req[r].idle \in BOOLEAN
          BY <5>1, ChangedType DEF Provision
        <5>3. claw' \in Claw
          BY <3>3, <5>2, AppliedType DEF TypeOK
        <5> QED BY <5>3
      <4> QED BY <2>5, <3>1, <4>2, <4>3, <4>4 DEF CurrentRefs, CurrentIdle, TypeOK, Claw
    <3> QED BY <2>8, <3>2, <3>3 DEF ApplyClaw
  <2> QED BY <1>2, <2>6, <2>7, <2>8
<1>3. ASSUME NEW v \in BOOLEAN, SetIdle(v) PROVE UpdateInv'
  <2>1. /\ ~raced /\ Provisioning = {} /\ claw # None /\ UNCHANGED <<pc, req>>
        /\ claw' = [claw EXCEPT !.idle = v,
                                !.idleBy = IF claw.idle = v /\ @ # {} THEN @ ELSE {"patch"}]
        /\ expected' = [expected EXCEPT !.idle = v]
    BY <1>3 DEF SetIdle
  <2>2. claw \in Claw /\ claw' # None
    <3>1. claw \in Claw
      BY <2>1 DEF TypeOK
    <3>2. PICK by \in SUBSET {"apply", "patch"} : claw' = [claw EXCEPT !.idle = v, !.idleBy = by]
      <4>1. (IF claw.idle = v /\ claw.idleBy # {} THEN claw.idleBy ELSE {"patch"})
              \in SUBSET {"apply", "patch"}
        BY <3>1 DEF Claw
      <4> QED BY <2>1, <4>1
    <3>3. claw' \in Claw
      BY <3>1, <3>2 DEF Claw
    <3> QED BY <3>1, <3>3
  <2>3. claw'.refs = claw.refs /\ claw'.idle = v
    BY <2>1, <2>2 DEF Claw
  <2>4. expected'.refs = expected.refs /\ expected'.idle = v
    BY <2>1 DEF TypeOK
  <2>5. Provisioning' = {}
    BY <2>1 DEF Provisioning
  <2> QED BY <2>1, <2>2, <2>3, <2>4, <2>5 DEF UpdateInv, CurrentRefs, CurrentIdle
<1>4. ASSUME NEW r \in Requests,
             BeginDelete(r) \/ RemoveClaw(r) \/ ListManaged(r) \/ Check(r) \/ Drop(r)
      PROVE  UpdateInv'
  <2>1. ~raced
    BY <1>4 DEF BeginDelete, RemoveClaw, ListManaged, Check, Drop, ghosts
  <2>2. Provisioning = {}
    <3>1. CASE BeginDelete(r)
      BY <3>1 DEF BeginDelete
    <3>2. CASE ~BeginDelete(r)
      <4>1. pc[r] # "idle"
        BY <1>4, <3>2 DEF RemoveClaw, ListManaged, Check, Drop
      <4> QED BY <1>4, <2>1, <4>1, DeleteOnly DEF UpdateInv
    <3> QED BY <3>1, <3>2
  <2>3. Provisioning' = {}
    BY <1>4, <2>2, DeleteOnly
  <2>4. \/ UNCHANGED <<claw, expected>>
        \/ claw' = None /\ expected' = [refs |-> NoRefs, idle |-> FALSE]
    <3>1. CASE RemoveClaw(r)
      BY <3>1 DEF RemoveClaw
    <3>2. CASE BeginDelete(r) \/ ListManaged(r) \/ Check(r) \/ Drop(r)
      BY <3>2 DEF BeginDelete, ListManaged, Check, Drop, ghosts
    <3> QED BY <1>4, <3>1, <3>2
  <2>5. expected'.refs = CurrentRefs' /\ expected'.idle = CurrentIdle'
    <3>1. CASE UNCHANGED <<claw, expected>>
      BY <2>1, <3>1 DEF UpdateInv, CurrentRefs, CurrentIdle
    <3>2. CASE claw' = None /\ expected' = [refs |-> NoRefs, idle |-> FALSE]
      BY <3>2 DEF CurrentRefs, CurrentIdle, NoRefs
    <3> QED BY <2>4, <3>1, <3>2
  <2> QED BY <2>3, <2>5 DEF UpdateInv
<1>5. CASE Upload \/ UNCHANGED vars
  <2>1. ~raced /\ UNCHANGED <<claw, pc, req, expected>>
    <3>1. CASE Upload
      BY <3>1 DEF Upload
    <3>2. CASE UNCHANGED vars
      BY <3>2 DEF vars, ghosts
    <3> QED BY <1>5, <3>1, <3>2
  <2> QED BY <2>1 DEF UpdateInv, Provisioning, Deleting, CurrentRefs, CurrentIdle
<1> QED
  BY <1>1, <1>2, <1>3, <1>4, <1>5 DEF Next, ProvisionStep, DeleteStep

\* A provision that nothing overlaps keeps all it does not mention, whichever of the
\* requests before it failed halfway (claw.go:275, 983-1076).
THEOREM UpdatesAddUp == Spec => []UpdatesAccumulate
<1>1. Init => UpdateInv BY UpdateInit
<1>2. TypeOK /\ TypeOK' /\ UpdateInv /\ [Next]_vars => UpdateInv' BY UpdateStep
<1>3. UpdateInv => UpdatesAccumulate
  BY DEF UpdateInv, UpdatesAccumulate, CurrentRefs, CurrentIdle
<1> QED BY <1>1, <1>2, <1>3, TypeCorrect, PTL DEF Spec

(***************************************************************************)
(* Deletes                                                                 *)
(***************************************************************************)
Managed == {o \in Objects : objs[o] = "managed"}

\* A delete that has seen no failure still has everything labelled in its hands.
CleanInv ==
  ~mixed =>
    /\ cleaned => Provisioning = {} /\ claw = None /\ Managed = {}
    /\ \A r \in Requests :
         /\ pc[r] \in {"remove", "list"} => Files \in req[r].todo
         /\ pc[r] \in {"check", "drop"} /\ ~req[r].failed => Managed \subseteq req[r].todo

LEMMA CleanInit == Init => CleanInv
  BY DEF Init, CleanInv

\* Going on without the object just dealt with, or completing.
LEMMA AdvanceClean ==
  ASSUME TypeOK, TypeOK', RefInv, CleanInv, ~mixed, NEW r \in Deleting, NEW o,
         pc[r] \in {"check", "drop"},
         NEW failed \in BOOLEAN, req[r].failed => failed,
         Advance(r, req[r].todo \ {o}, failed),
         Managed' \subseteq Managed, ~failed => o \notin Managed', UNCHANGED <<claw, mixed>>
  PROVE  CleanInv'
<1>0. /\ pc \in [Requests -> {"idle"} \cup ProvisionStages \cup DeleteStages]
      /\ req \in [Requests -> Provision \cup Delete \cup {None}]
      /\ r \in Requests /\ req[r] \in Delete
  BY DEF TypeOK, HandlersOK, Deleting
<1>1. ~failed => Managed' \subseteq req[r].todo \ {o}
  BY <1>0 DEF CleanInv
<1>2. Provisioning = {} /\ claw = None
  BY <1>0 DEF RefInv
<1>3. \E stage \in {"idle", "check"} : pc' = [pc EXCEPT ![r] = stage]
  BY DEF Advance, Finish, Goto
<1>4. Provisioning' = {}
  BY <1>0, <1>2, <1>3 DEF Provisioning, ProvisionStages
<1>5. ASSUME NEW q \in Requests, q # r
      PROVE  /\ pc'[q] \in {"remove", "list"} => Files \in req'[q].todo
             /\ pc'[q] \in {"check", "drop"} /\ ~req'[q].failed => Managed' \subseteq req'[q].todo
  <2>1. pc'[q] = pc[q] /\ req'[q] = req[q]
    BY <1>0, <1>5 DEF Advance, Finish, Goto
  <2> QED BY <2>1 DEF CleanInv
<1>6. CASE req[r].todo \ {o} = {}
  <2>1. pc'[r] = "idle" /\ cleaned' = (cleaned \/ ~failed)
    BY <1>0, <1>6 DEF Advance, Finish
  <2>2. cleaned' => Managed' = {}
    BY <1>1, <1>6, <2>1 DEF CleanInv
  <2> QED BY <1>2, <1>4, <1>5, <2>1, <2>2 DEF CleanInv
<1>7. CASE req[r].todo \ {o} # {}
  <2>1. /\ pc'[r] = "check" /\ cleaned' = cleaned
        /\ req'[r].todo = req[r].todo \ {o} /\ req'[r].failed = failed
    BY <1>0, <1>7 DEF Advance, Goto
  <2>2. cleaned' => Managed' = {}
    BY <2>1 DEF CleanInv
  <2> QED BY <1>1, <1>2, <1>4, <1>5, <2>1, <2>2 DEF CleanInv
<1> QED BY <1>6, <1>7

LEMMA CleanStep ==
  TypeOK /\ TypeOK' /\ RefInv /\ CleanInv /\ [Next]_vars => CleanInv'
<1> SUFFICES ASSUME TypeOK, TypeOK', RefInv, CleanInv, [Next]_vars, ~mixed' PROVE CleanInv'
  BY DEF CleanInv
<1>0. /\ pc \in [Requests -> {"idle"} \cup ProvisionStages \cup DeleteStages]
      /\ req \in [Requests -> Provision \cup Delete \cup {None}]
  BY DEF TypeOK, HandlersOK
<1>1. ASSUME NEW r \in Requests, BeginProvision(r) PROVE CleanInv'
  <2>1. /\ ~mixed /\ ~cleaned' /\ objs' = objs
        /\ \E stage \in {"spec", "secrets"} : pc' = [pc EXCEPT ![r] = stage]
        /\ \A q \in Requests \ {r} : req'[q] = req[q]
    BY <1>0, <1>1 DEF BeginProvision, Goto
  <2> QED BY <1>0, <2>1 DEF CleanInv, Managed
<1>2. ASSUME NEW r \in Requests,
             ApplySecret(r) \/ ReadSpec(r) \/ ReadTop(r) \/ ApplyClaw(r)
      PROVE  CleanInv'
  <2>1. /\ ~mixed /\ r \in Provisioning /\ UNCHANGED <<mixed, cleaned>>
        /\ \A q \in Requests \ {r} : pc'[q] = pc[q] /\ req'[q] = req[q]
    BY <1>0, <1>2 DEF ApplySecret, ReadSpec, ReadTop, ApplyClaw, ghosts, Finish, Goto,
                      Provisioning, ProvisionStages
  <2>2. Deleting = {} /\ ~cleaned
    BY <2>1 DEF RefInv, CleanInv
  <2>3. pc'[r] \in {"idle"} \cup ProvisionStages
    BY <1>0, <1>2, <2>1 DEF ApplySecret, ReadSpec, ReadTop, ApplyClaw, Finish, Goto,
                            ProvisionStages
  <2>4. \A q \in Requests : pc'[q] \notin DeleteStages
    BY <1>0, <2>1, <2>2, <2>3 DEF Deleting, ProvisionStages, DeleteStages
  <2> QED BY <2>1, <2>2, <2>4 DEF CleanInv, DeleteStages
<1>3. ASSUME NEW v \in BOOLEAN, SetIdle(v) PROVE CleanInv'
  BY <1>3 DEF SetIdle, CleanInv, Managed
<1>4. CASE Upload
  <2>1. ~mixed /\ Deleting = {} /\ ~cleaned' /\ UNCHANGED <<pc, req>>
    BY <1>4 DEF Upload
  <2> QED BY <2>1 DEF CleanInv, Deleting, DeleteStages
<1>5. ASSUME NEW r \in Requests, BeginDelete(r) PROVE CleanInv'
  <2>1. /\ ~mixed /\ Provisioning = {} /\ UNCHANGED <<claw, objs, cleaned>>
        /\ pc' = [pc EXCEPT ![r] = "remove"] /\ Files \in req'[r].todo
        /\ \A q \in Requests \ {r} : req'[q] = req[q]
    <3>1. PICK names : req' = [req EXCEPT ![r] =
                          [todo |-> names \cup {Files}, target |-> None, failed |-> FALSE]]
      BY <1>5 DEF BeginDelete
    <3>2. Files \in req'[r].todo /\ \A q \in Requests \ {r} : req'[q] = req[q]
      BY <1>0, <3>1
    <3> QED BY <1>5, <3>2 DEF BeginDelete, Goto
  <2>2. Provisioning' = {}
    BY <1>0, <2>1 DEF Provisioning, ProvisionStages
  <2> QED BY <1>0, <2>1, <2>2 DEF CleanInv, Managed
<1>6. ASSUME NEW r \in Requests, RemoveClaw(r) PROVE CleanInv'
  <2>1. /\ ~mixed /\ UNCHANGED <<objs, cleaned>> /\ claw' \in {None, claw}
        /\ pc[r] = "remove"
        /\ \/ pc' = [pc EXCEPT ![r] = "list"] /\ req' = req
           \/ Finish(r)
    BY <1>6 DEF RemoveClaw, Goto
  <2>2. Provisioning' \subseteq Provisioning
    BY <1>6, DeleteOnly
  <2> QED BY <1>0, <2>1, <2>2 DEF CleanInv, Managed, Finish
<1>7. ASSUME NEW r \in Requests, ListManaged(r) PROVE CleanInv'
  <2>1. /\ ~mixed /\ UNCHANGED <<claw, objs, cleaned>> /\ pc[r] = "list"
        /\ pc' = [pc EXCEPT ![r] = "check"] /\ Files \in req[r].todo
        /\ \A q \in Requests \ {r} : req'[q] = req[q]
    BY <1>0, <1>7 DEF ListManaged, Goto, ghosts, CleanInv
  <2>2. Provisioning' \subseteq Provisioning
    BY <1>7, DeleteOnly
  <2>3. req[r] \in Delete
    BY <2>1 DEF TypeOK, HandlersOK, DeleteStages
  <2>4. ~req'[r].failed => Managed \subseteq req'[r].todo
    <3>1. CASE req' = [req EXCEPT ![r].todo = @ \cup ManagedSecrets]
      <4>1. req'[r].todo = req[r].todo \cup ManagedSecrets
        BY <1>0, <2>3, <3>1 DEF Delete
      <4> QED BY <2>1, <4>1 DEF Managed, ManagedSecrets, Objects
    <3>2. CASE req' = [req EXCEPT ![r].failed = TRUE]
      BY <1>0, <2>3, <3>2 DEF Delete
    <3> QED BY <1>7, <3>1, <3>2 DEF ListManaged
  <2> QED BY <1>0, <2>1, <2>2, <2>4 DEF CleanInv, Managed
<1>8. ASSUME NEW r \in Requests, Check(r) PROVE CleanInv'
  <2>1. /\ ~mixed /\ UNCHANGED <<claw, objs, mixed>> /\ pc[r] = "check"
    BY <1>8 DEF Check
  <2>2. req[r] \in Delete /\ r \in Deleting
    BY <2>1 DEF TypeOK, HandlersOK, DeleteStages, Deleting
  <2>3. PICK o \in req[r].todo :
          \/ /\ req' = [req EXCEPT ![r].target = o]
             /\ Goto(r, "drop") /\ UNCHANGED cleaned
          \/ objs[o] # "managed" /\ Advance(r, req[r].todo \ {o}, req[r].failed)
          \/ Advance(r, req[r].todo \ {o}, TRUE)
    BY <1>8 DEF Check
  <2>4. CASE req' = [req EXCEPT ![r].target = o] /\ Goto(r, "drop") /\ UNCHANGED cleaned
    <3>1. req'[r].todo = req[r].todo /\ req'[r].failed = req[r].failed
      BY <1>0, <2>2, <2>4 DEF Delete
    <3>2. \A q \in Requests \ {r} : req'[q] = req[q] /\ pc'[q] = pc[q]
      BY <1>0, <2>4 DEF Goto
    <3>3. Provisioning' \subseteq Provisioning
      BY <1>8, DeleteOnly
    <3>4. pc'[r] = "drop"
      BY <1>0, <2>4 DEF Goto
    <3> QED BY <2>1, <2>4, <3>1, <3>2, <3>3, <3>4 DEF CleanInv, Managed
  <2>5. Managed' = Managed
    BY <2>1 DEF Managed
  <2>6. CASE objs[o] # "managed" /\ Advance(r, req[r].todo \ {o}, req[r].failed)
    <3>1. o \notin Managed' /\ req[r].failed \in BOOLEAN
      BY <2>2, <2>5, <2>6 DEF Managed, Delete
    <3> QED BY <2>1, <2>2, <2>5, <2>6, <3>1, AdvanceClean
  <2>7. CASE Advance(r, req[r].todo \ {o}, TRUE)
    <3>1. PICK failed \in BOOLEAN : failed = TRUE
      OBVIOUS
    <3>2. /\ Advance(r, req[r].todo \ {o}, failed)
          /\ req[r].failed => failed
          /\ ~failed => o \notin Managed'
      BY <2>7, <3>1
    <3> QED BY <2>1, <2>2, <2>5, <3>2, AdvanceClean
  <2> QED BY <2>3, <2>4, <2>6, <2>7
<1>9. ASSUME NEW r \in Requests, Drop(r) PROVE CleanInv'
  <2> DEFINE o == req[r].target
  <2>1. /\ ~mixed /\ UNCHANGED <<claw, mixed>> /\ pc[r] = "drop"
    BY <1>9 DEF Drop
  <2>2. req[r] \in Delete /\ r \in Deleting
    BY <2>1 DEF TypeOK, HandlersOK, DeleteStages, Deleting
  <2>3. CASE UNCHANGED objs /\ Advance(r, req[r].todo \ {o}, TRUE)
    <3>1. Managed' = Managed
      BY <2>3 DEF Managed
    <3>2. PICK failed \in BOOLEAN : failed = TRUE
      OBVIOUS
    <3>3. /\ Advance(r, req[r].todo \ {o}, failed)
          /\ req[r].failed => failed
          /\ ~failed => o \notin Managed'
      BY <2>3, <3>2
    <3> QED BY <2>1, <2>2, <3>1, <3>3, AdvanceClean
  <2>4. ASSUME objs' = [objs EXCEPT ![o] = "absent"],
               NEW failed \in {req[r].failed, TRUE}, Advance(r, req[r].todo \ {o}, failed)
        PROVE  CleanInv'
    <3>1. Managed' = Managed \ {o}
      BY <2>4 DEF Managed, TypeOK
    <3>2. failed \in BOOLEAN /\ (req[r].failed => failed)
      BY <2>2 DEF Delete
    <3> QED BY <2>1, <2>2, <2>4, <3>1, <3>2, AdvanceClean
  <2> QED BY <1>9, <2>3, <2>4 DEF Drop
<1>10. CASE UNCHANGED vars
  BY <1>10 DEF vars, ghosts, CleanInv, Managed, Provisioning
<1> QED
  BY <1>1, <1>2, <1>3, <1>4, <1>5, <1>6, <1>7, <1>8, <1>9, <1>10
  DEF Next, ProvisionStep, DeleteStep

\* A delete that no call failed, and that no provision or upload overlapped, leaves
\* neither the Claw nor anything carrying its labels (handlers.go:386-474).
THEOREM DeletesClean == Spec => []DeleteCleans
<1>1. Init => RefInv /\ CleanInv BY RefInit, CleanInit
<1>2. TypeOK /\ TypeOK' /\ RefInv /\ CleanInv /\ [Next]_vars => RefInv' /\ CleanInv'
  BY RefStep, CleanStep
<1>3. CleanInv => DeleteCleans BY DEF CleanInv, DeleteCleans, Managed
<1> QED BY <1>1, <1>2, <1>3, TypeCorrect, PTL DEF Spec

================================================================================
