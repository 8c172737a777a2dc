-------------------------- MODULE ProvisionFormProofs --------------------------
(***************************************************************************)
(* Proofs about ProvisionForm, for any Claws, providers, models and bounds. *)
(***************************************************************************)
EXTENDS ProvisionForm, SequenceTheorems, TLAPS

CONSTANT Segments   (* what the names of models are made of *)

Model == Seq(Segments)

ClawSpec == [creds : [ModelProviders -> Claws \cup {Absent}], primary : Model, models : SUBSET Model]
Shown    == [Claws -> ClawSpec \cup {Absent}]

ModelRow == [model : Model, secret : Claws \cup {Absent}, key : BOOLEAN, gcp : BOOLEAN,
             named : BOOLEAN]
RowList  == [ModelProviders -> ModelRow \cup {Absent}]
Removed  == SUBSET (ModelProviders \X Model)

Post == [status : {"sent", "ok", "failed", "refreshing"}, claw : Claws, provider : ModelProviders,
         model : Model, key : BOOLEAN, secret : Claws \cup {Absent}, fresh : BOOLEAN,
         list : RowList, removed : Removed, configure : BOOLEAN, asShown : ClawSpec \cup {Absent}]

Listing == [claws : Shown, old : BOOLEAN]

Fields == [provider : ModelProviders, model : Model, key : BOOLEAN, secret : Claws \cup {Absent}]

\* What the theorems take the constants to be; Absent is none of the values.
FormAssumption ==
  /\ ModelProviders \cup {"google", "default"} \subseteq Segments
  /\ Typed \subseteq Model
  /\ Made \subseteq [providers : SUBSET ModelProviders, primary : Model, models : SUBSET Model]
  /\ Absent \notin Claws \cup Made \cup ClawSpec \cup ModelRow \cup Post \cup Listing
  /\ Own \in Listings

TypeOK ==
  /\ spec \in Shown /\ known \in Shown /\ selected \in Claws /\ scope \in Claws
  /\ list \in RowList /\ removed \in Removed /\ dirty \in BOOLEAN
  /\ fields \in Fields
  /\ post \in Post \cup {Absent}
  /\ gets \in [Listings -> Listing \cup {Absent}]
  /\ {hasty, outdated, sent, resent, strayed, overtaken} \subseteq BOOLEAN
  /\ old \in [known : BOOLEAN, rows : BOOLEAN]
  /\ edits \in [added : SUBSET ModelProviders, removed : SUBSET ModelProviders]

(***************************************************************************)
(* Models and rows.                                                        *)
(***************************************************************************)
\* Names of models stay names of models.
LEMMA NormalTyped ==
  ASSUME FormAssumption, NEW p \in ModelProviders, NEW m \in Model
  PROVE  NormalizeModelRef(p, m) \in Model
<1>1. p \in Segments /\ ModelProvider(p) \in Segments
  BY DEF FormAssumption, ModelProvider
<1>2. <<p>> \o m \in Model /\ <<ModelProvider(p)>> \o m \in Model
  BY <1>1, ConcatProperties DEF Model
<1>3. ASSUME m # <<>> PROVE <<p>> \o Tail(m) \in Model
  <2>1. Tail(m) \in Model
    BY <1>3, HeadTailProperties DEF Model
  <2> QED
    BY <1>1, <2>1, ConcatProperties DEF Model
<1>4. Len(m) \in Nat /\ (~(Len(m) < 2) => m # <<>>)
  BY DEF Model
<1> QED
  BY <1>2, <1>3, <1>4 DEF NormalizeModelRef

\* The model of a row is one that is configured, or blank.
LEMMA ModelsForTyped ==
  ASSUME NEW p \in ModelProviders, NEW s \in ClawSpec
  PROVE  ModelsFor(p, s) \subseteq Model
<1> <<>> \in Model
  BY DEF Model
<1> QED
  BY DEF ModelsFor, ClawSpec

LEMMA ConfiguredTyped ==
  ASSUME NEW s \in ClawSpec
  PROVE  Configured(s) \subseteq Model
BY DEF Configured, ClawSpec

\* What a listing tells of a Claw: a row for each of its credentials, with its secret.
LEMMA RowsTyped ==
  ASSUME FormAssumption, NEW s \in ClawSpec, NEW r \in Rows(s)
  PROVE  /\ r \in RowList
         /\ \A p \in ModelProviders : r[p] # Absent => r[p].secret = s.creds[p] /\ s.creds[p] # Absent
<1> DEFINE R == [model : Configured(s) \cup {<<>>}, secret : Claws, key : {FALSE}, gcp : {FALSE}, named : {FALSE}]
<1>1. <<>> \in Model
  BY DEF Model
<1>2. R \subseteq ModelRow
  BY <1>1, ConfiguredTyped DEF ModelRow
<1>3. r \in [ModelProviders -> {Absent} \cup R]
  BY DEF Rows
<1>4. r \in RowList
  BY <1>2, <1>3 DEF RowList
<1>5. \A p \in ModelProviders : r[p] # Absent => r[p].secret = s.creds[p] /\ s.creds[p] # Absent
  BY DEF Rows
<1> QED
  BY <1>4, <1>5

LEMMA NoRowsTyped == NoRows \in RowList
BY DEF NoRows, RowList

LEMMA HeldTyped ==
  ASSUME FormAssumption, TypeOK, NEW same \in BOOLEAN, NEW s \in ClawSpec \cup {Absent},
         NEW held \in Held(same, s)
  PROVE  held.rows \in RowList /\ held.removed \in Removed /\ held.dirty \in BOOLEAN
<1> USE NoRowsTyped DEF TypeOK
<1> {} \in Removed
  BY DEF Removed
<1>1. CASE same /\ dirty
  BY <1>1 DEF Held
<1>2. CASE ~(same /\ dirty) /\ s # Absent
  <2>1. held.rows \in Rows(s) /\ held.removed = {} /\ held.dirty = FALSE
    BY <1>2 DEF Held
  <2> QED
    BY <1>2, <2>1, RowsTyped
<1>3. CASE ~(same /\ dirty) /\ s = Absent
  BY <1>3 DEF Held
<1> QED
  BY <1>1, <1>2, <1>3

(***************************************************************************)
(* Types.                                                                  *)
(***************************************************************************)
LEMMA TypeInit == ASSUME FormAssumption, FormInit PROVE TypeOK
<1> USE DEF FormAssumption
<1>1. PICK made \in [Claws -> Made \cup {Absent}] :
        spec = [c \in Claws |->
          IF made[c] = Absent THEN Absent
          ELSE [creds |-> [p \in ModelProviders |-> IF p \in made[c].providers THEN c ELSE Absent],
                primary |-> made[c].primary, models |-> made[c].models]]
  BY DEF FormInit
<1>2. spec \in Shown
  <2> SUFFICES ASSUME NEW c \in Claws PROVE spec[c] \in ClawSpec \cup {Absent}
    BY <1>1 DEF Shown
  <2>1. CASE made[c] = Absent
    BY <1>1, <2>1
  <2>2. CASE made[c] # Absent
    <3>1. made[c] \in [providers : SUBSET ModelProviders, primary : Model, models : SUBSET Model]
      BY <2>2
    <3> QED
      BY <1>1, <2>2, <3>1 DEF ClawSpec
  <2> QED
    BY <2>1, <2>2
<1>3. known \in Shown
  BY DEF FormInit, Shown
<1>4. fields \in Fields
  BY DEF FormInit, Model, Fields
<1>5. list \in RowList /\ removed \in Removed
  BY NoRowsTyped DEF FormInit, Removed
<1> QED
  BY <1>2, <1>3, <1>4, <1>5 DEF FormInit, TypeOK, NoEdits

LEMMA RenderTyped ==
  ASSUME FormAssumption, TypeOK, NEW claws \in Shown, NEW c \in Claws, NEW before \in BOOLEAN,
         Render(claws, c, before)
  PROVE  /\ known' \in Shown /\ scope' \in Claws
         /\ list' \in RowList /\ removed' \in Removed /\ dirty' \in BOOLEAN
         /\ fields' \in Fields
         /\ old' \in [known : BOOLEAN, rows : BOOLEAN]
         /\ edits' \in [added : SUBSET ModelProviders, removed : SUBSET ModelProviders]
<1>1. claws[c] \in ClawSpec \cup {Absent}
  BY DEF Shown
<1>2. PICK held \in Held(scope = c, claws[c]), m \in ModelShown(claws[c]) :
        /\ list' = held.rows /\ removed' = held.removed /\ dirty' = held.dirty
        /\ fields' = [fields EXCEPT !.model = m]
  BY DEF Render
<1>3. list' \in RowList /\ removed' \in Removed /\ dirty' \in BOOLEAN
  BY <1>1, <1>2, HeldTyped
<1>4. m \in Model
  BY <1>1 DEF ModelShown, ClawSpec, TypeOK, Model, Fields
<1>5. fields' \in Fields
  BY <1>2, <1>4 DEF TypeOK, Fields
<1>6. edits' \in [added : SUBSET ModelProviders, removed : SUBSET ModelProviders]
  BY DEF Render, TypeOK, NoEdits
<1>7. old' \in [known : BOOLEAN, rows : BOOLEAN]
  BY <1>3 DEF Render, TypeOK
<1> QED
  BY <1>3, <1>5, <1>6, <1>7 DEF Render

\* A save leaves a Claw of its type.
LEMMA AppliedTyped ==
  ASSUME FormAssumption, TypeOK, NEW b \in Post
  PROVE  /\ Credentials(b) \in [ModelProviders -> Claws \cup {Absent}]
         /\ AppliedSpec(b) \in ClawSpec /\ AppliedSpec(b).creds = Credentials(b)
<1> DEFINE s     == Current(b.claw)
           model == NormalizeModelRef(b.provider, b.model)
           keep  == (RowModels(b) \cup {model}) \ {<<>>}
<1>1. b.claw \in Claws /\ b.provider \in ModelProviders /\ b.model \in Model /\ b.list \in RowList
      /\ b.removed \in Removed /\ b.secret \in Claws \cup {Absent}
  BY DEF Post
<1>2. s \in ClawSpec
  <2>1. Blank \in ClawSpec
    BY DEF Blank, ClawSpec, Model
  <2> QED
    BY <1>1, <2>1 DEF Current, TypeOK, Shown
<1>3. \A p \in ModelProviders : b.list[p] # Absent => b.list[p] \in ModelRow
  BY <1>1 DEF RowList
<1>4. Credentials(b) \in [ModelProviders -> Claws \cup {Absent}]
  <2>1. \A p \in ModelProviders : s.creds[p] \in Claws \cup {Absent}
    BY <1>2 DEF ClawSpec
  <2>3. \A secret \in Claws \cup {Absent} : SecretName(b.claw, secret) \in Claws
    BY <1>1 DEF SecretName
  <2>2. \A p \in ModelProviders : HasCredential(b.list[p]) => b.list[p].secret \in Claws \cup {Absent}
    BY <1>3 DEF HasCredential, ModelRow
  <2> QED
    BY <1>1, <2>1, <2>2, <2>3 DEF Credentials
<1>5. model \in Model
  BY <1>1, NormalTyped
<1>6. RowModels(b) \subseteq Model
  <2>1. \A p \in ModelProviders : b.list[p] # Absent => NormalizeModelRef(p, b.list[p].model) \in Model
    BY <1>3, NormalTyped DEF ModelRow
  <2> QED
    BY <2>1 DEF RowModels
<1>7. Models(s.models, RemovedModels(b), keep) \subseteq Model
  BY <1>2, <1>5, <1>6 DEF Models, ClawSpec
<1>8. [creds |-> Credentials(b), primary |-> model,
       models |-> Models(s.models, RemovedModels(b), keep)] \in ClawSpec
  BY <1>4, <1>5, <1>7 DEF ClawSpec
<1>9. [s EXCEPT !.creds = Credentials(b)] \in ClawSpec
      /\ [s EXCEPT !.creds = Credentials(b)].creds = Credentials(b)
  BY <1>2, <1>4 DEF ClawSpec
<1> QED
  BY <1>4, <1>8, <1>9 DEF AppliedSpec

LEMMA KeylessTyped ==
  ASSUME FormAssumption, NEW rows \in RowList
  PROVE  /\ Keyless(rows) \in RowList
         /\ \A p \in ModelProviders : /\ Keyless(rows)[p] # Absent <=> rows[p] # Absent
                                      /\ rows[p] # Absent => /\ Keyless(rows)[p].secret = rows[p].secret
                                                             /\ Keyless(rows)[p].named = rows[p].named
<1> SUFFICES ASSUME NEW p \in ModelProviders
             PROVE  /\ Keyless(rows)[p] \in ModelRow \cup {Absent}
                    /\ Keyless(rows)[p] # Absent <=> rows[p] # Absent
                    /\ rows[p] # Absent => /\ Keyless(rows)[p].secret = rows[p].secret
                                           /\ Keyless(rows)[p].named = rows[p].named
  BY DEF Keyless, RowList
<1>1. CASE rows[p] = Absent
  BY <1>1 DEF Keyless
<1>2. CASE rows[p] # Absent
  <2>1. rows[p] \in ModelRow
    BY <1>2 DEF RowList
  <2>2. [rows[p] EXCEPT !.key = FALSE] \in ModelRow
        /\ [rows[p] EXCEPT !.key = FALSE].secret = rows[p].secret
        /\ [rows[p] EXCEPT !.key = FALSE].named = rows[p].named
    BY <2>1 DEF ModelRow
  <2> QED
    BY <1>2, <2>2 DEF Keyless, FormAssumption
<1> QED
  BY <1>1, <1>2

\* A row as added is a row.
LEMMA AddedTyped ==
  ASSUME FormAssumption, TypeOK, NEW gcp \in BOOLEAN, NEW p \in ModelProviders
  PROVE  Row(IF fields.model = <<>> THEN Default(p) ELSE fields.model, fields.secret, fields.key, gcp)
           \in ModelRow
<1>1. ModelProvider(p) \in Segments /\ "default" \in Segments
  BY DEF FormAssumption, ModelProvider
<1>2. Default(p) \in Model
  BY <1>1 DEF Default, Model
<1>3. (IF fields.model = <<>> THEN Default(p) ELSE fields.model) \in Model
  BY <1>2 DEF TypeOK, Fields
<1> QED
  BY <1>3 DEF Row, ModelRow, TypeOK, Fields

LEMMA TypeStep ==
  ASSUME FormAssumption, TypeOK, [FormNext]_formVars
  PROVE  TypeOK'
<1>0. <<>> \in Model
  BY DEF Model
<1>1. ASSUME NEW g \in Listings, Listed(g) PROVE TypeOK'
  <2>1. [claws |-> spec, old |-> FALSE] \in Listing
    BY DEF Listing, TypeOK
  <2> QED
    BY <1>1, <2>1 DEF Listed, TypeOK, server, form, formGhosts
<1>2. ASSUME NEW g \in Listings, Lands(g) PROVE TypeOK'
  <2>1. gets[g] \in Listing
    BY <1>2 DEF Lands, TypeOK
  <2>2. PICK claws \in {gets[g].claws, [c \in Claws |-> Absent]} : Render(claws, selected, gets[g].old)
    BY <1>2 DEF Lands
  <2>3. claws \in Shown /\ gets[g].old \in BOOLEAN /\ selected \in Claws
    BY <2>1 DEF Listing, Shown, TypeOK
  <2>4. gets' \in [Listings -> Listing \cup {Absent}] /\ post' \in Post \cup {Absent}
    BY <1>2 DEF Lands, TypeOK
  <2> QED
    BY <1>2, <2>2, <2>3, <2>4, RenderTyped DEF Lands, TypeOK, server
<1>3. ASSUME NEW c \in Claws, Rename(c) PROVE TypeOK'
  BY <1>3 DEF Rename, Acts, TypeOK, server, form
<1>4. ASSUME NEW c \in Claws, PickRow(c) PROVE TypeOK'
  <2>1. Render(known, c, old.known) /\ known \in Shown /\ old.known \in BOOLEAN
    BY <1>4 DEF PickRow, TypeOK
  <2> QED
    BY <1>4, <2>1, RenderTyped DEF PickRow, Acts, TypeOK, server
<1>5. ASSUME NEW p \in ModelProviders, PickProvider(p) PROVE TypeOK'
  <2>1. fields' \in Fields
    BY <1>0, <1>5 DEF PickProvider, TypeOK, Fields
  <2> QED
    BY <1>5, <2>1 DEF PickProvider, Edit, Acts, TypeOK, server
<1>6. ASSUME NEW m \in Typed, TypeModel(m) PROVE TypeOK'
  <2>1. fields' \in Fields
    BY <1>6 DEF TypeModel, TypeOK, Fields, FormAssumption
  <2> QED
    BY <1>6, <2>1 DEF TypeModel, Edit, Acts, TypeOK, server
<1>7. CASE TypeKey
  <2>1. fields' \in Fields
    BY <1>7 DEF TypeKey, TypeOK, Fields
  <2> QED
    BY <1>7, <2>1 DEF TypeKey, Edit, Acts, TypeOK, server
<1>8. ASSUME NEW gcp \in BOOLEAN, Add(gcp) PROVE TypeOK'
  <2>1. fields.provider \in ModelProviders
    BY DEF TypeOK, Fields
  <2>2. list' \in RowList
    BY <1>8, <2>1, AddedTyped DEF Add, TypeOK, RowList
  <2>3. removed' \in Removed
    BY <1>8 DEF Add, TypeOK, Removed
  <2>4. fields' \in Fields /\ dirty' \in BOOLEAN
    BY <1>0, <1>8 DEF Add, TypeOK, Fields
  <2>5. edits' \in [added : SUBSET ModelProviders, removed : SUBSET ModelProviders]
    BY <1>8, <2>1 DEF Add, TypeOK
  <2> QED
    BY <1>8, <2>2, <2>3, <2>4, <2>5 DEF Add, Edit, Acts, TypeOK, server
<1>14. ASSUME NEW secret \in Claws \cup {Absent}, NameSecret(secret) PROVE TypeOK'
  <2>1. fields' \in Fields
    BY <1>14 DEF NameSecret, TypeOK, Fields
  <2> QED
    BY <1>14, <2>1 DEF NameSecret, Edit, Acts, TypeOK, server
<1>9. ASSUME NEW p \in ModelProviders, Remove(p) PROVE TypeOK'
  <2>1. list[p] \in ModelRow
    BY <1>9 DEF Remove, TypeOK, RowList
  <2>2. list' \in RowList
    BY <1>9 DEF Remove, TypeOK, RowList
  <2>3. removed' \in Removed
    BY <1>9, <2>1 DEF Remove, TypeOK, Removed, ModelRow
  <2>4. edits' \in [added : SUBSET ModelProviders, removed : SUBSET ModelProviders] /\ dirty' \in BOOLEAN
    BY <1>9 DEF Remove, TypeOK
  <2> QED
    BY <1>9, <2>2, <2>3, <2>4 DEF Remove, Edit, Acts, TypeOK, server
<1>10. CASE Save
  <2>1. Exists \in BOOLEAN
    BY DEF Exists
  <2>2. AsShown \in ClawSpec \cup {Absent}
    BY DEF AsShown, TypeOK, Shown
  <2>3. post' \in Post
    BY <1>10, <2>1, <2>2 DEF Save, Post, TypeOK, Fields
  <2> QED
    BY <1>10, <2>3 DEF Save, TypeOK, server, form
<1>11. CASE Handle
  <2>1. post \in Post
    BY <1>11 DEF Handle, TypeOK
  <2>2. post' \in Post
    BY <1>11, <2>1 DEF Handle, Post
  <2>3. spec' \in Shown
    BY <1>11, <2>1, AppliedTyped DEF Handle, TypeOK, Shown, server
  <2>4. gets' \in [Listings -> Listing \cup {Absent}]
    <3>1. \A g \in Listings : gets[g] # Absent => [gets[g] EXCEPT !.old = TRUE] \in Listing
      BY DEF TypeOK, Listing
    <3> QED
      BY <1>11, <3>1 DEF Handle, TypeOK
  <2>5. old' \in [known : BOOLEAN, rows : BOOLEAN]
    <3>1. old' = old \/ \E r \in BOOLEAN : old' = [known |-> TRUE, rows |-> r]
      BY <1>11 DEF Handle
    <3>2. ASSUME NEW b \in BOOLEAN PROVE [known |-> TRUE, rows |-> b] \in [known : BOOLEAN, rows : BOOLEAN]
      OBVIOUS
    <3>3. old \in [known : BOOLEAN, rows : BOOLEAN]
      BY DEF TypeOK
    <3> QED
      BY <3>1, <3>2, <3>3
  <2> QED
    BY <1>11, <2>2, <2>3, <2>4, <2>5 DEF Handle, TypeOK, form
<1>12. CASE SaveAnswered
  <2>1. post \in Post
    BY <1>12 DEF SaveAnswered, TypeOK
  <2>2. post' \in Post \cup {Absent} /\ selected' \in Claws
    BY <1>12, <2>1 DEF SaveAnswered, Post, TypeOK
  <2> DEFINE Edited == [added : SUBSET ModelProviders, removed : SUBSET ModelProviders]
  <2>3. CASE post.status = "ok"
    <3>1. list' = Keyless(list) /\ removed' = {} /\ dirty' = FALSE
          /\ fields' = [fields EXCEPT !.key = FALSE] /\ edits' \in {NoEdits, edits}
          /\ overtaken' \in BOOLEAN
      BY <1>12, <2>3 DEF SaveAnswered, TypeOK
    <3>2. list' \in RowList
      BY <3>1, KeylessTyped DEF TypeOK
    <3>5. NoEdits \in Edited /\ edits \in Edited
      BY DEF NoEdits, TypeOK
    <3>3. removed' \in Removed /\ dirty' \in BOOLEAN /\ edits' \in Edited
      BY <3>1, <3>5 DEF Removed
    <3>4. fields' \in Fields
      BY <3>1 DEF TypeOK, Fields
    <3> QED
      BY <1>12, <2>2, <3>1, <3>2, <3>3, <3>4 DEF SaveAnswered, TypeOK, server
  <2>4. CASE post.status # "ok"
    BY <1>12, <2>2, <2>4 DEF SaveAnswered, TypeOK, server, form
  <2> QED
    BY <2>3, <2>4
<1>13. CASE UNCHANGED formVars
  BY <1>13 DEF formVars, server, form, formGhosts, TypeOK
<1> QED
  BY <1>1, <1>2, <1>3, <1>4, <1>5, <1>6, <1>7, <1>8, <1>9, <1>10, <1>11, <1>12, <1>13, <1>14
     DEF FormNext

\* Every variable keeps its type.
THEOREM TypeCorrect == ASSUME FormAssumption PROVE FormSpec => []TypeOK
<1>1. FormInit => TypeOK
  BY TypeInit
<1>2. TypeOK /\ [FormNext]_formVars => TypeOK'
  BY TypeStep
<1> QED
  BY <1>1, <1>2, PTL DEF FormSpec

(***************************************************************************)
(* Edits.                                                                  *)
(***************************************************************************)
\* Where nothing was edited there is nothing to lose.
EditsInv == EditsSurvive /\ (~overtaken /\ ~dirty => edits.added = {} /\ edits.removed = {})

LEMMA RenderKeepsEdits ==
  ASSUME TypeOK, EditsInv, NEW claws, NEW c, NEW before, Render(claws, c, before),
         overtaken' = overtaken
  PROVE  EditsInv'
<1>1. CASE scope = c /\ dirty
  <2>1. list' = list /\ removed' = removed /\ dirty' = dirty /\ edits' = edits
    BY <1>1 DEF Render, Held
  <2> QED
    BY <2>1 DEF EditsInv, EditsSurvive, Lost
<1>2. CASE ~(scope = c /\ dirty)
  <2>1. ~overtaken => edits'.added = {} /\ edits'.removed = {}
    BY <1>2 DEF Render, EditsInv, NoEdits, TypeOK
  <2> QED
    BY <2>1 DEF EditsInv, EditsSurvive
<1> QED
  BY <1>1, <1>2

LEMMA EditsStep ==
  ASSUME FormAssumption, TypeOK, EditsInv, [FormNext]_formVars
  PROVE  EditsInv'
<1> DEFINE Same == UNCHANGED <<list, removed, dirty, edits, overtaken>>
<1>1. ASSUME Same PROVE EditsInv'
  BY <1>1 DEF EditsInv, EditsSurvive, Lost
<1>2. ASSUME NEW g \in Listings, Listed(g) PROVE EditsInv'
  BY <1>1, <1>2 DEF Listed, form, formGhosts
<1>3. ASSUME NEW g \in Listings, Lands(g) PROVE EditsInv'
  BY <1>3, RenderKeepsEdits DEF Lands
<1>4. ASSUME NEW c \in Claws, Rename(c) PROVE EditsInv'
  BY <1>1, <1>4 DEF Rename, Acts, form
<1>5. ASSUME NEW c \in Claws, PickRow(c) PROVE EditsInv'
  BY <1>5, RenderKeepsEdits DEF PickRow, Acts
<1>6. ASSUME NEW p \in ModelProviders, PickProvider(p) PROVE EditsInv'
  BY <1>1, <1>6 DEF PickProvider, Edit, Acts
<1>7. ASSUME NEW m \in Typed, TypeModel(m) PROVE EditsInv'
  BY <1>1, <1>7 DEF TypeModel, Edit, Acts
<1>8. CASE TypeKey
  BY <1>1, <1>8 DEF TypeKey, Edit, Acts
<1>15. ASSUME NEW secret \in Claws \cup {Absent}, NameSecret(secret) PROVE EditsInv'
  BY <1>1, <1>15 DEF NameSecret, Edit, Acts
<1>9. ASSUME NEW gcp \in BOOLEAN, Add(gcp) PROVE EditsInv'
  <2> DEFINE p == fields.provider
             row == Row(IF fields.model = <<>> THEN Default(p) ELSE fields.model, fields.secret,
                       fields.key, gcp)
  <2>1. p \in ModelProviders /\ list \in RowList
    BY DEF TypeOK, Fields
  <2>2. row # Absent
    BY <2>1, AddedTyped DEF FormAssumption
  <2>3. list' = [list EXCEPT ![p] = row] /\ removed' = {r \in removed : r[1] # p} /\ dirty' = TRUE
        /\ edits' = [added |-> edits.added \cup {p}, removed |-> edits.removed \ {p}]
        /\ overtaken' = overtaken
    BY <1>9 DEF Add, Edit, Acts
  <2>4. Lost(removed') = Lost(removed) \ {p}
    BY <2>3 DEF Lost
  <2>5. list'[p] # Absent /\ \A q \in ModelProviders : q # p => list'[q] = list[q]
    BY <2>1, <2>2, <2>3 DEF RowList
  <2>6. edits.added \subseteq ModelProviders /\ edits.removed \subseteq ModelProviders
    BY DEF TypeOK
  <2> QED
    BY <2>3, <2>4, <2>5, <2>6 DEF EditsInv, EditsSurvive
<1>10. ASSUME NEW p \in ModelProviders, Remove(p) PROVE EditsInv'
  <2>1. list' = [list EXCEPT ![p] = Absent] /\ removed' = removed \cup {<<p, list[p].model>>}
        /\ dirty' = TRUE
        /\ edits' = [added |-> edits.added \ {p}, removed |-> edits.removed \cup {p}]
        /\ overtaken' = overtaken
    BY <1>10 DEF Remove, Edit, Acts
  <2>2. Lost(removed') = Lost(removed) \cup {p}
    <3>1. <<p, list[p].model>>[1] = p
      OBVIOUS
    <3>2. {x[1] : x \in removed \cup {<<p, list[p].model>>}}
            = {x[1] : x \in removed} \cup {<<p, list[p].model>>[1]}
      OBVIOUS
    <3> QED
      BY <2>1, <3>1, <3>2 DEF Lost
  <2>3. list'[p] = Absent /\ \A q \in ModelProviders : q # p => list'[q] = list[q]
    BY <2>1 DEF TypeOK, RowList
  <2>4. edits.added \subseteq ModelProviders /\ edits.removed \subseteq ModelProviders
    BY DEF TypeOK
  <2> QED
    BY <2>1, <2>2, <2>3, <2>4 DEF EditsInv, EditsSurvive
<1>11. CASE Save
  BY <1>1, <1>11 DEF Save, form
<1>12. CASE Handle
  BY <1>1, <1>12 DEF Handle, form
<1>13. CASE SaveAnswered
  <2>1. CASE post.status = "ok"
    <3>1. ~overtaken' => edits' = NoEdits
      BY <1>13, <2>1 DEF SaveAnswered
    <3>2. NoEdits.added = {} /\ NoEdits.removed = {}
      BY DEF NoEdits
    <3> QED
      BY <3>1, <3>2 DEF EditsInv, EditsSurvive
  <2>2. CASE post.status # "ok"
    BY <1>1, <1>13, <2>2 DEF SaveAnswered, form
  <2> QED
    BY <2>1, <2>2
<1>14. CASE UNCHANGED formVars
  BY <1>1, <1>14 DEF formVars, form, formGhosts
<1> QED
  BY <1>2, <1>3, <1>4, <1>5, <1>6, <1>7, <1>8, <1>9, <1>10, <1>11, <1>12, <1>13, <1>14, <1>15
     DEF FormNext

\* What the reader adds and removes is neither lost to a refresh, of whatever age, nor to a
\* save that fails, unless it was edited while a save was under way.
THEOREM EditsStay == ASSUME FormAssumption PROVE FormSpec => []EditsSurvive
<1>1. ASSUME FormInit PROVE TypeOK /\ EditsInv
  <2>1. edits.added = {} /\ edits.removed = {}
    BY <1>1 DEF FormInit, NoEdits
  <2> QED
    BY <1>1, <2>1, TypeInit DEF EditsInv, EditsSurvive
<1>2. TypeOK /\ EditsInv /\ [FormNext]_formVars => (TypeOK /\ EditsInv)'
  BY TypeStep, EditsStep
<1>3. EditsInv => EditsSurvive
  BY DEF EditsInv
<1> QED
  BY <1>1, <1>2, <1>3, PTL DEF FormSpec

(***************************************************************************)
(* Secrets.                                                                *)
(***************************************************************************)
\* Of each Claw, its own Secrets only.
OwnOnly(claws) ==
  \A c \in Claws : claws[c] # Absent => \A p \in ModelProviders : claws[c].creds[p] \in {c, Absent}

\* The rows are of Claw c.
RowsOf(rows, c) == \A p \in ModelProviders : rows[p] # Absent => rows[p].secret \in {c, Absent}

SecretsInv ==
  /\ OwnOnly(spec) /\ OwnOnly(known) /\ \A g \in Listings : gets[g] # Absent => OwnOnly(gets[g].claws)
  /\ RowsOf(list, scope)
  /\ post # Absent /\ post.status = "sent" =>
       RowsOf(post.list, post.claw) /\ post.secret \in {post.claw, Absent}

LEMMA RenderKeepsSecrets ==
  ASSUME FormAssumption, TypeOK, SecretsInv, NEW claws \in Shown, NEW c \in Claws, NEW before,
         OwnOnly(claws), Render(claws, c, before)
  PROVE  OwnOnly(known') /\ RowsOf(list', scope')
<1>1. known' = claws /\ scope' = c
  BY DEF Render
<1>2. PICK held \in Held(scope = c, claws[c]) : list' = held.rows
  BY DEF Render
<1>3. RowsOf(NoRows, c)
  BY DEF RowsOf, NoRows
<1>4. CASE held.rows \in {list, NoRows} /\ (held.rows = list => scope = c)
  BY <1>1, <1>2, <1>3, <1>4 DEF SecretsInv
<1>5. CASE claws[c] # Absent /\ held.rows \in Rows(claws[c])
  <2>1. claws[c] \in ClawSpec
    BY <1>5 DEF Shown
  <2>2. \A p \in ModelProviders : held.rows[p] # Absent =>
          held.rows[p].secret = claws[c].creds[p] /\ claws[c].creds[p] # Absent
    BY <1>5, <2>1, RowsTyped
  <2> QED
    BY <1>1, <1>2, <1>5, <2>2 DEF RowsOf, OwnOnly
<1>6. \/ held.rows \in {list, NoRows} /\ (held.rows = list /\ held.rows # NoRows => scope = c)
      \/ claws[c] # Absent /\ held.rows \in Rows(claws[c])
  BY DEF Held
<1>7. CASE held.rows = NoRows
  BY <1>1, <1>2, <1>3, <1>7
<1> QED
  BY <1>1, <1>4, <1>5, <1>6, <1>7

\* A save of rows of the Claw it is for gives that Claw its own Secrets.
LEMMA AppliedOwn ==
  ASSUME FormAssumption, TypeOK, OwnOnly(spec), NEW b \in Post, RowsOf(b.list, b.claw),
         b.secret \in {b.claw, Absent}
  PROVE  \A p \in ModelProviders : AppliedSpec(b).creds[p] \in {b.claw, Absent}
<1>1. AppliedSpec(b).creds = Credentials(b)
  BY AppliedTyped
<1>2. \A p \in ModelProviders : Current(b.claw).creds[p] \in {b.claw, Absent}
  BY DEF Current, Blank, OwnOnly, Post
<1>3. \A p \in ModelProviders : Credentials(b)[p] \in {b.claw, Absent}
  BY <1>2 DEF Credentials, RowsOf, HasCredential, SecretName
<1> QED
  BY <1>1, <1>3

\* What is recorded of saves is never taken back.
LEMMA StepsAdd ==
  ASSUME TypeOK, [FormNext]_formVars
  PROVE  /\ (hasty => hasty') /\ (outdated => outdated')
         /\ (strayed => strayed') /\ (resent => resent')
<1>1. CASE Save
  BY <1>1, Zenon DEF Save
<1>2. ASSUME NEW gcp \in BOOLEAN, Add(gcp)
      PROVE  UNCHANGED <<hasty, outdated, resent>> /\ (strayed => strayed')
  BY <1>2, Zenon DEF Add, Edit, Acts
<1>3. \/ Save \/ UNCHANGED <<hasty, outdated, strayed, resent>>
      \/ \E gcp \in BOOLEAN : Add(gcp)
  BY DEF FormNext, Listed, Lands, Rename, PickRow, PickProvider, TypeModel, TypeKey, NameSecret,
         Remove, Handle, SaveAnswered, Acts, Edit, formGhosts, formVars
<1> QED
  BY <1>1, <1>2, <1>3

LEMMA SecretsStep ==
  ASSUME FormAssumption, TypeOK, ~hasty /\ ~strayed => SecretsInv, [FormNext]_formVars,
         ~hasty' /\ ~strayed'
  PROVE  SecretsInv'
<1> DEFINE Rest == UNCHANGED <<spec, known, gets>>
           Page == UNCHANGED <<list, scope>>
           Sent == post' = post
<1>1. ~hasty /\ ~strayed
  BY StepsAdd
<1>2. SecretsInv
  BY <1>1
<1>3. ASSUME Rest, Page, Sent PROVE SecretsInv'
  BY <1>2, <1>3 DEF SecretsInv, OwnOnly, RowsOf
<1>4. ASSUME NEW g \in Listings, Listed(g) PROVE SecretsInv'
  <2>1. \A h \in Listings : gets'[h] = IF h = g THEN [claws |-> spec, old |-> FALSE] ELSE gets[h]
    BY <1>4 DEF Listed, TypeOK
  <2>2. \A h \in Listings : gets'[h] # Absent => OwnOnly(gets'[h].claws)
    BY <1>2, <2>1 DEF SecretsInv
  <2> QED
    BY <1>2, <1>4, <2>2 DEF Listed, SecretsInv, server, form, OwnOnly, RowsOf
<1>5. ASSUME NEW g \in Listings, Lands(g) PROVE SecretsInv'
  <2>1. gets[g] \in Listing /\ OwnOnly(gets[g].claws)
    BY <1>2, <1>5 DEF Lands, TypeOK, SecretsInv
  <2>2. PICK claws \in {gets[g].claws, [c \in Claws |-> Absent]} : Render(claws, selected, gets[g].old)
    BY <1>5 DEF Lands
  <2>3. claws \in Shown /\ selected \in Claws
    BY <2>1 DEF Listing, Shown, TypeOK
  <2>4. OwnOnly(claws)
    BY <2>1, <2>2 DEF OwnOnly
  <2>5. OwnOnly(known') /\ RowsOf(list', scope')
    BY <1>2, <2>2, <2>3, <2>4, RenderKeepsSecrets
  <2>6. \A h \in Listings : gets'[h] # Absent => OwnOnly(gets'[h].claws)
    BY <1>2, <1>5 DEF Lands, TypeOK, SecretsInv
  <2>7. spec' = spec /\ (post' = Absent \/ post' = post)
    BY <1>5 DEF Lands, server
  <2> QED
    BY <1>2, <2>5, <2>6, <2>7 DEF SecretsInv, OwnOnly
<1>6. ASSUME NEW c \in Claws, Rename(c) PROVE SecretsInv'
  BY <1>3, <1>6 DEF Rename, server, form
<1>7. ASSUME NEW c \in Claws, PickRow(c) PROVE SecretsInv'
  <2>1. Render(known, c, old.known) /\ known \in Shown /\ OwnOnly(known)
    BY <1>2, <1>7 DEF PickRow, TypeOK, SecretsInv
  <2>2. OwnOnly(known') /\ RowsOf(list', scope')
    BY <1>2, <2>1, RenderKeepsSecrets
  <2>3. UNCHANGED <<spec, post, gets>>
    BY <1>7 DEF PickRow, server
  <2> QED
    BY <1>2, <2>2, <2>3 DEF SecretsInv, OwnOnly
<1>8. ASSUME NEW p \in ModelProviders, PickProvider(p) PROVE SecretsInv'
  BY <1>3, <1>8 DEF PickProvider, Edit, server
<1>9. ASSUME NEW m \in Typed, TypeModel(m) PROVE SecretsInv'
  BY <1>3, <1>9 DEF TypeModel, Edit, server
<1>10. CASE TypeKey
  BY <1>3, <1>10 DEF TypeKey, Edit, server
<1>17. ASSUME NEW secret \in Claws \cup {Absent}, NameSecret(secret) PROVE SecretsInv'
  BY <1>3, <1>17 DEF NameSecret, Edit, server
<1>11. ASSUME NEW gcp \in BOOLEAN, Add(gcp) PROVE SecretsInv'
  <2>1. \A q \in ModelProviders : list'[q] = list[q] \/ list'[q].secret \in {scope, Absent}
    <3>1. fields.secret \in {scope, Absent}
      BY <1>11 DEF Add
    <3> QED
      BY <1>11, <3>1 DEF Add, Row, TypeOK, RowList
  <2>2. RowsOf(list, scope) /\ UNCHANGED <<spec, known, scope, post, gets>>
    BY <1>2, <1>11 DEF Add, Edit, server, SecretsInv
  <2>3. RowsOf(list', scope')
    BY <2>1, <2>2 DEF RowsOf
  <2> QED
    BY <1>2, <2>2, <2>3 DEF SecretsInv, OwnOnly
<1>12. ASSUME NEW p \in ModelProviders, Remove(p) PROVE SecretsInv'
  <2>1. \A q \in ModelProviders : list'[q] = list[q] \/ list'[q] = Absent
    BY <1>12 DEF Remove, TypeOK, RowList
  <2>2. RowsOf(list, scope) /\ UNCHANGED <<spec, known, scope, post, gets>>
    BY <1>2, <1>12 DEF Remove, Edit, server, SecretsInv
  <2>3. RowsOf(list', scope')
    BY <2>1, <2>2 DEF RowsOf
  <2> QED
    BY <1>2, <2>2, <2>3 DEF SecretsInv, OwnOnly
<1>13. CASE Save
  <2>1. scope = selected /\ UNCHANGED <<spec, known, gets, list, scope>>
    BY <1>13 DEF Save, server, form
  <2>2. post'.list = list /\ post'.claw = selected /\ post'.secret \in {selected, Absent}
    BY <1>13 DEF Save
  <2> QED
    BY <1>2, <2>1, <2>2 DEF SecretsInv, OwnOnly, RowsOf
<1>14. CASE Handle
  <2>1. /\ post \in Post /\ RowsOf(post.list, post.claw) /\ post.secret \in {post.claw, Absent}
        /\ OwnOnly(spec)
    BY <1>2, <1>14 DEF Handle, SecretsInv, TypeOK
  <2>2. UNCHANGED <<known, list, scope>> /\ post'.status # "sent"
    BY <1>14, <2>1 DEF Handle, form, Post
  <2>3. CASE UNCHANGED <<spec, gets>>
    BY <1>2, <2>2, <2>3 DEF SecretsInv, OwnOnly, RowsOf
  <2>4. CASE /\ spec' = [spec EXCEPT ![post.claw] = AppliedSpec(post)]
             /\ gets' = [g \in Listings |-> IF gets[g] = Absent THEN Absent
                                            ELSE [gets[g] EXCEPT !.old = TRUE]]
    <3>1. OwnOnly(spec')
      <4>1. \A p \in ModelProviders : AppliedSpec(post).creds[p] \in {post.claw, Absent}
        BY <2>1, AppliedOwn
      <4> QED
        BY <2>1, <2>4, <4>1 DEF OwnOnly, TypeOK, Shown
    <3>2. \A g \in Listings : gets'[g] # Absent => OwnOnly(gets'[g].claws)
      <4>1. \A g \in Listings : gets[g] # Absent => [gets[g] EXCEPT !.old = TRUE].claws = gets[g].claws
        BY DEF TypeOK, Listing
      <4> QED
        BY <1>2, <2>4, <4>1 DEF SecretsInv
    <3> QED
      BY <1>2, <2>2, <3>1, <3>2 DEF SecretsInv, OwnOnly, RowsOf
  <2> QED
    BY <1>14, <2>3, <2>4 DEF Handle, server
<1>15. CASE SaveAnswered
  <2>1. UNCHANGED <<spec, known, gets, scope>>
    BY <1>15 DEF SaveAnswered, server
  <2>2. RowsOf(list', scope)
    <3>1. list' = Keyless(list) \/ list' = list
      BY <1>15 DEF SaveAnswered, form
    <3> QED
      BY <1>2, <3>1, KeylessTyped DEF SecretsInv, RowsOf, TypeOK
  <2>3. post' # Absent => post'.status # "sent"
    <3>1. post \in Post
      BY <1>15 DEF SaveAnswered, TypeOK
    <3> QED
      BY <1>15, <3>1 DEF SaveAnswered, Post
  <2> QED
    BY <1>2, <2>1, <2>2, <2>3 DEF SecretsInv, OwnOnly
<1>16. CASE UNCHANGED formVars
  BY <1>3, <1>16 DEF formVars, server, form
<1> QED
  BY <1>4, <1>5, <1>6, <1>7, <1>8, <1>9, <1>10, <1>11, <1>12, <1>13, <1>14, <1>15, <1>16,
     <1>17 DEF FormNext

LEMMA SecretsInit == ASSUME FormInit PROVE SecretsInv
<1>1. OwnOnly(spec)
  <2>1. PICK made \in [Claws -> Made \cup {Absent}] :
          spec = [c \in Claws |->
            IF made[c] = Absent THEN Absent
            ELSE [creds |-> [p \in ModelProviders |-> IF p \in made[c].providers THEN c ELSE Absent],
                  primary |-> made[c].primary, models |-> made[c].models]]
    BY DEF FormInit
  <2> QED
    BY <2>1 DEF OwnOnly
<1>2. OwnOnly(known) /\ \A g \in Listings : gets[g] = Absent
  BY DEF FormInit, OwnOnly
<1>3. RowsOf(list, scope) /\ post = Absent
  BY DEF FormInit, NoRows, RowsOf
<1> QED
  BY <1>1, <1>2, <1>3 DEF SecretsInv

\* As long as no save is sent before the rows of its Claw are shown, nor the name of a
\* Secret used that was typed for another Claw, no Claw is ever given the Secret of another.
THEOREM SecretsKept == ASSUME FormAssumption PROVE FormSpec => []OwnSecretsOnceShown
<1> DEFINE Inv == TypeOK /\ (~hasty /\ ~strayed => SecretsInv)
<1>1. FormInit => Inv
  BY TypeInit, SecretsInit
<1>2. Inv /\ [FormNext]_formVars => Inv'
  BY TypeStep, SecretsStep
<1>3. Inv => OwnSecretsOnceShown
  BY DEF OwnSecretsOnceShown, OwnSecrets, SecretsInv, OwnOnly
<1> QED
  BY <1>1, <1>2, <1>3, PTL DEF FormSpec

(***************************************************************************)
(* Removals.                                                               *)
(***************************************************************************)
\* A provider removed has no row, on the page and in what is sent.
LostInv ==
  /\ gone \in [Claws -> SUBSET ModelProviders]
  /\ \A p \in Lost(removed) : list[p] = Absent
  /\ post # Absent /\ post.status = "sent" => \A p \in Lost(post.removed) : post.list[p] = Absent

\* The Claws have none of the providers whose removal was saved.
Cleared(claws) ==
  \A c \in Claws : claws[c] # Absent => \A p \in gone[c] : claws[c].creds[p] = Absent

\* Nor have the rows of Claw c, unless they were added anew.
ClearedRows(rows, c) ==
  \A p \in gone[c] : rows[p] # Absent => rows[p].secret = Absent \/ rows[p].named

\* What is not older than the last save that took effect knows of every removal.
GoneInv ==
  /\ Cleared(spec)
  /\ ~old.known => Cleared(known)
  /\ \A g \in Listings : gets[g] # Absent /\ ~gets[g].old => Cleared(gets[g].claws)
  /\ ~old.rows => ClearedRows(list, scope)
  /\ post # Absent /\ post.status = "sent" =>
       /\ ClearedRows(post.list, post.claw)
       /\ post.key \/ post.secret # Absent => post.fresh

LEMMA LostTyped ==
  ASSUME NEW r \in Removed
  PROVE  Lost(r) \subseteq ModelProviders
BY DEF Lost, Removed

LEMMA RenderKeepsLost ==
  ASSUME TypeOK, LostInv, NEW claws, NEW c, NEW before, Render(claws, c, before)
  PROVE  \A p \in Lost(removed') : list'[p] = Absent
<1>1. PICK held \in Held(scope = c, claws[c]) : list' = held.rows /\ removed' = held.removed
  BY DEF Render
<1>2. Lost(removed) \subseteq ModelProviders
  BY LostTyped DEF TypeOK
<1>3. \/ held.removed = {}
      \/ held.removed = removed /\ held.rows \in {list, NoRows}
  BY DEF Held
<1>4. CASE held.removed = {}
  BY <1>1, <1>4 DEF Lost
<1>5. CASE held.removed = removed /\ held.rows \in {list, NoRows}
  BY <1>1, <1>2, <1>5 DEF LostInv, NoRows
<1> QED
  BY <1>3, <1>4, <1>5

LEMMA LostStep ==
  ASSUME FormAssumption, TypeOK, LostInv, [FormNext]_formVars
  PROVE  LostInv'
<1>1. ASSUME UNCHANGED <<gone, list, removed, post>> PROVE LostInv'
  BY <1>1 DEF LostInv
<1>2. ASSUME NEW g \in Listings, Listed(g) PROVE LostInv'
  BY <1>1, <1>2 DEF Listed, server, form
<1>3. ASSUME NEW g \in Listings, Lands(g) PROVE LostInv'
  <2>1. \A p \in Lost(removed') : list'[p] = Absent
    BY <1>3, RenderKeepsLost DEF Lands
  <2>2. gone' = gone /\ (post' = Absent \/ post' = post)
    BY <1>3 DEF Lands, server
  <2> QED
    BY <2>1, <2>2 DEF LostInv
<1>4. ASSUME NEW c \in Claws, Rename(c) PROVE LostInv'
  BY <1>1, <1>4 DEF Rename, server, form
<1>5. ASSUME NEW c \in Claws, PickRow(c) PROVE LostInv'
  <2>1. \A p \in Lost(removed') : list'[p] = Absent
    BY <1>5, RenderKeepsLost DEF PickRow
  <2>2. UNCHANGED <<gone, post>>
    BY <1>5 DEF PickRow, server
  <2> QED
    BY <2>1, <2>2 DEF LostInv
<1>6. ASSUME NEW p \in ModelProviders, PickProvider(p) PROVE LostInv'
  BY <1>1, <1>6 DEF PickProvider, Edit, server
<1>7. ASSUME NEW m \in Typed, TypeModel(m) PROVE LostInv'
  BY <1>1, <1>7 DEF TypeModel, Edit, server
<1>8. CASE TypeKey
  BY <1>1, <1>8 DEF TypeKey, Edit, server
<1>15. ASSUME NEW secret \in Claws \cup {Absent}, NameSecret(secret) PROVE LostInv'
  BY <1>1, <1>15 DEF NameSecret, Edit, server
<1>9. ASSUME NEW gcp \in BOOLEAN, Add(gcp) PROVE LostInv'
  <2>1. UNCHANGED <<gone, post>>
    BY <1>9 DEF Add, Edit, server
  <2>2. removed' = {r \in removed : r[1] # fields.provider}
        /\ \A q \in ModelProviders \ {fields.provider} : list'[q] = list[q]
    BY <1>9 DEF Add, TypeOK, RowList
  <2>3. \A q \in Lost(removed') : q \in Lost(removed) /\ q # fields.provider
    BY <2>2 DEF Lost
  <2>4. Lost(removed) \subseteq ModelProviders
    BY LostTyped DEF TypeOK
  <2> QED
    BY <2>1, <2>2, <2>3, <2>4 DEF LostInv
<1>10. ASSUME NEW p \in ModelProviders, Remove(p) PROVE LostInv'
  <2>1. UNCHANGED <<gone, post>>
    BY <1>10 DEF Remove, Edit, server
  <2>2. removed' = removed \cup {<<p, list[p].model>>}
        /\ \A q \in ModelProviders : list'[q] = IF q = p THEN Absent ELSE list[q]
    BY <1>10 DEF Remove, TypeOK, RowList
  <2>3. ASSUME NEW q \in Lost(removed') PROVE q \in Lost(removed) \/ q = p
    <3>1. PICK r \in removed' : q = r[1]
      BY DEF Lost
    <3>2. CASE r \in removed
      BY <3>1, <3>2 DEF Lost
    <3>3. CASE r = <<p, list[p].model>>
      BY <3>1, <3>3
    <3> QED
      BY <2>2, <3>2, <3>3
  <2>4. Lost(removed) \subseteq ModelProviders
    BY LostTyped DEF TypeOK
  <2> QED
    BY <2>1, <2>2, <2>3, <2>4 DEF LostInv
<1>11. CASE Save
  <2>1. UNCHANGED <<gone, list, removed>>
    BY <1>11 DEF Save, server, form
  <2>2. post'.list = list /\ post'.removed = removed
    BY <1>11 DEF Save
  <2> QED
    BY <2>1, <2>2 DEF LostInv
<1>12. CASE Handle
  <2>1. UNCHANGED <<list, removed>> /\ post \in Post /\ post'.status # "sent"
    BY <1>12 DEF Handle, form, TypeOK, Post
  <2>2. gone' \in [Claws -> SUBSET ModelProviders]
    <3>1. Lost(post.removed) \subseteq ModelProviders
      BY <2>1, LostTyped DEF Post
    <3> QED
      BY <1>12, <3>1 DEF Handle, LostInv, server
  <2> QED
    BY <2>1, <2>2 DEF LostInv
<1>13. CASE SaveAnswered
  <2>1. gone' = gone
    BY <1>13 DEF SaveAnswered, server
  <2>2. post' # Absent => post'.status # "sent"
    <3>1. post \in Post
      BY <1>13 DEF SaveAnswered, TypeOK
    <3> QED
      BY <1>13, <3>1 DEF SaveAnswered, Post
  <2>3. removed' = {} \/ UNCHANGED <<list, removed>>
    BY <1>13 DEF SaveAnswered, form
  <2> QED
    BY <2>1, <2>2, <2>3 DEF LostInv, Lost
<1>14. CASE UNCHANGED formVars
  BY <1>1, <1>14 DEF formVars, server, form
<1> QED
  BY <1>2, <1>3, <1>4, <1>5, <1>6, <1>7, <1>8, <1>9, <1>10, <1>11, <1>12, <1>13, <1>14,
     <1>15 DEF FormNext

LEMMA RenderKeepsGone ==
  ASSUME FormAssumption, TypeOK, LostInv, GoneInv, NEW claws \in Shown, NEW c \in Claws,
         NEW before \in BOOLEAN, ~before => Cleared(claws), Render(claws, c, before), gone' = gone
  PROVE  (~old.known => Cleared(known))' /\ (~old.rows => ClearedRows(list, scope))'
<1>1. /\ known' = claws /\ scope' = c
      /\ old'.known = before
      /\ old'.rows = IF claws[c] # Absent /\ ~dirty' THEN before ELSE scope = c /\ old.rows
  BY DEF Render
<1>2. (~old.known => Cleared(known))'
  BY <1>1 DEF Cleared
<1>3. PICK held \in Held(scope = c, claws[c]) : list' = held.rows /\ dirty' = held.dirty
  BY DEF Render
<1>4. CASE scope = c /\ held.rows = list /\ (claws[c] = Absent \/ dirty')
  BY <1>1, <1>2, <1>3, <1>4 DEF GoneInv, ClearedRows
<1>5. CASE held.rows = NoRows
  <2>1. gone[c] \subseteq ModelProviders
    BY DEF LostInv
  <2> QED
    BY <1>1, <1>2, <1>3, <1>5, <2>1 DEF ClearedRows, NoRows
<1>6. CASE claws[c] # Absent /\ ~dirty' /\ held.rows \in Rows(claws[c])
  <2>1. claws[c] \in ClawSpec /\ gone[c] \subseteq ModelProviders
    BY <1>6 DEF Shown, LostInv
  <2>2. \A p \in gone[c] : held.rows[p] # Absent => claws[c].creds[p] # Absent
    BY <1>6, <2>1, RowsTyped
  <2>3. ~before => \A p \in gone[c] : claws[c].creds[p] = Absent
    BY <1>6 DEF Cleared
  <2> QED
    BY <1>1, <1>2, <1>3, <1>6, <2>2, <2>3 DEF ClearedRows
<1>7. \/ scope = c /\ held.rows = list /\ (claws[c] = Absent \/ dirty')
      \/ held.rows = NoRows
      \/ claws[c] # Absent /\ ~dirty' /\ held.rows \in Rows(claws[c])
  BY <1>3 DEF Held
<1> QED
  BY <1>2, <1>4, <1>5, <1>6, <1>7

\* A save gives back no provider removed before it, but those a key or Secret was given
\* for anew, and none that it removes.
LEMMA AppliedGone ==
  ASSUME FormAssumption, TypeOK, LostInv, Cleared(spec), post \in Post, post.status = "sent",
         ClearedRows(post.list, post.claw), post.key \/ post.secret # Absent => post.fresh,
         NEW p \in (gone[post.claw] \ Rekeyed(post)) \cup Lost(post.removed)
  PROVE  AppliedSpec(post).creds[p] = Absent
<1>1. AppliedSpec(post).creds = Credentials(post)
  BY AppliedTyped
<1>2. post \in Post /\ post # Absent /\ post.claw \in Claws
  BY DEF Post, FormAssumption
<1>3. p \in ModelProviders
  <2>1. gone[post.claw] \subseteq ModelProviders
    BY <1>2 DEF LostInv
  <2>2. Lost(post.removed) \subseteq ModelProviders
    BY LostTyped DEF Post
  <2> QED
    BY <2>1, <2>2
<1>4. CASE p \in Lost(post.removed)
  <2>1. post.list[p] = Absent
    BY <1>2, <1>4 DEF LostInv
  <2> QED
    BY <1>1, <1>3, <1>4, <2>1 DEF Credentials, HasCredential
<1>5. CASE p \in gone[post.claw] /\ p \notin Rekeyed(post) /\ p \notin Lost(post.removed)
  <2>1. ~GivenFor(post, p) /\ ~(post.list[p] # Absent /\ (post.list[p].key \/ post.list[p].named))
    BY <1>3, <1>5 DEF Rekeyed, GivenFor
  <2>2. ~HasCredential(post.list[p])
    BY <1>5, <2>1 DEF ClearedRows, HasCredential
  <2>3. Current(post.claw).creds[p] = Absent
    BY <1>2, <1>3, <1>5 DEF Current, Blank, Cleared
  <2> QED
    BY <1>1, <1>3, <1>5, <2>1, <2>2, <2>3 DEF Credentials
<1> QED
  BY <1>4, <1>5

LEMMA GoneStep ==
  ASSUME FormAssumption, TypeOK, LostInv, ~hasty /\ ~strayed => SecretsInv,
         ~hasty /\ ~outdated /\ ~strayed /\ ~resent => GoneInv, [FormNext]_formVars,
         ~hasty' /\ ~outdated' /\ ~strayed' /\ ~resent'
  PROVE  GoneInv'
<1>1. ~hasty /\ ~outdated /\ ~strayed /\ ~resent
  BY StepsAdd
<1>2. GoneInv /\ SecretsInv
  BY <1>1
<1>3. ASSUME UNCHANGED <<spec, gone, known, gets, old, list, scope, post>> PROVE GoneInv'
  BY <1>2, <1>3 DEF GoneInv, Cleared, ClearedRows
<1>4. ASSUME NEW g \in Listings, Listed(g) PROVE GoneInv'
  <2>1. \A h \in Listings : gets'[h] = IF h = g THEN [claws |-> spec, old |-> FALSE] ELSE gets[h]
    BY <1>4 DEF Listed, TypeOK
  <2>2. \A h \in Listings : gets'[h] # Absent /\ ~gets'[h].old => Cleared(gets'[h].claws)
    BY <1>2, <2>1 DEF GoneInv
  <2>3. UNCHANGED <<spec, gone, known, old, list, scope, post>>
    BY <1>4 DEF Listed, server, form, formGhosts
  <2> QED
    BY <1>2, <2>2, <2>3 DEF GoneInv, Cleared, ClearedRows
<1>5. ASSUME NEW g \in Listings, Lands(g) PROVE GoneInv'
  <2>1. gets[g] \in Listing
    BY <1>5 DEF Lands, TypeOK
  <2>2. PICK claws \in {gets[g].claws, [c \in Claws |-> Absent]} : Render(claws, selected, gets[g].old)
    BY <1>5 DEF Lands
  <2>3. claws \in Shown /\ selected \in Claws /\ gets[g].old \in BOOLEAN
    BY <2>1 DEF Listing, Shown, TypeOK
  <2>4. ~gets[g].old => Cleared(claws)
    BY <1>2, <1>5, <2>2 DEF Lands, GoneInv, Cleared
  <2>5. UNCHANGED <<spec, gone>> /\ (post' = Absent \/ post' = post)
    BY <1>5 DEF Lands, server
  <2>6. (~old.known => Cleared(known))' /\ (~old.rows => ClearedRows(list, scope))'
    BY <1>2, <2>2, <2>3, <2>4, <2>5, RenderKeepsGone
  <2>7. \A h \in Listings : gets'[h] # Absent => gets'[h] = gets[h]
    BY <1>5 DEF Lands, TypeOK
  <2> QED
    BY <1>2, <2>5, <2>6, <2>7 DEF GoneInv, Cleared, ClearedRows
<1>6. ASSUME NEW c \in Claws, Rename(c) PROVE GoneInv'
  BY <1>3, <1>6 DEF Rename, server, form
<1>7. ASSUME NEW c \in Claws, PickRow(c) PROVE GoneInv'
  <2>1. Render(known, c, old.known) /\ known \in Shown /\ old.known \in BOOLEAN
    BY <1>7 DEF PickRow, TypeOK
  <2>2. UNCHANGED <<spec, gone, post, gets>>
    BY <1>7 DEF PickRow, server
  <2>3. (~old.known => Cleared(known))' /\ (~old.rows => ClearedRows(list, scope))'
    BY <1>2, <2>1, <2>2, RenderKeepsGone DEF GoneInv
  <2> QED
    BY <1>2, <2>2, <2>3 DEF GoneInv, Cleared, ClearedRows
<1>8. ASSUME NEW p \in ModelProviders, PickProvider(p) PROVE GoneInv'
  BY <1>3, <1>8 DEF PickProvider, Edit, server
<1>9. ASSUME NEW m \in Typed, TypeModel(m) PROVE GoneInv'
  BY <1>3, <1>9 DEF TypeModel, Edit, server
<1>10. CASE TypeKey
  BY <1>3, <1>10 DEF TypeKey, Edit, server
<1>18. ASSUME NEW secret \in Claws \cup {Absent}, NameSecret(secret) PROVE GoneInv'
  BY <1>3, <1>18 DEF NameSecret, Edit, server
<1>11. ASSUME UNCHANGED <<spec, gone, known, gets, old, scope, post>>,
              \A q \in ModelProviders :
                \/ list'[q] = list[q] \/ list'[q] = Absent
                \/ list'[q].secret = Absent \/ list'[q].named
       PROVE  GoneInv'
  <2>1. gone[scope] \subseteq ModelProviders
    BY DEF LostInv, TypeOK
  <2>2. ~old.rows => \A q \in gone[scope] :
                       list'[q] # Absent => list'[q].secret = Absent \/ list'[q].named
    BY <1>2, <1>11, <2>1 DEF GoneInv, ClearedRows
  <2> QED
    BY <1>2, <1>11, <2>2 DEF GoneInv, Cleared, ClearedRows
<1>12. ASSUME NEW gcp \in BOOLEAN, Add(gcp) PROVE GoneInv'
  <2>1. \A q \in ModelProviders :
          list'[q] = list[q] \/ list'[q].secret = Absent \/ list'[q].named
    BY <1>12 DEF Add, Row, TypeOK, RowList
  <2> QED
    BY <1>11, <1>12, <2>1 DEF Add, Edit, server
<1>13. ASSUME NEW p \in ModelProviders, Remove(p) PROVE GoneInv'
  <2>1. \A q \in ModelProviders : list'[q] = list[q] \/ list'[q] = Absent
    BY <1>13 DEF Remove, TypeOK, RowList
  <2> QED
    BY <1>11, <1>13, <2>1 DEF Remove, Edit, server
<1>14. CASE Save
  <2>1. scope = selected /\ ~old.rows /\ UNCHANGED <<spec, gone, known, gets, old, list, scope>>
    BY <1>14 DEF Save, server, form
  <2>2. /\ post'.list = list /\ post'.claw = selected
        /\ post'.fresh = (post'.secret = Absent \/ (fields.secret = selected /\ ~sent))
        /\ post'.secret = fields.secret
    BY <1>14 DEF Save
  <2>3. fields.secret \in {selected, Absent} /\ ~(fields.secret # Absent /\ sent)
    BY <1>14 DEF Save
  <2> QED
    BY <1>2, <2>1, <2>2, <2>3 DEF GoneInv, Cleared, ClearedRows
<1>15. CASE Handle
  <2>1. post \in Post /\ post # Absent /\ post.status = "sent"
    BY <1>15 DEF Handle, TypeOK
  <2>2. UNCHANGED <<known, list, scope>> /\ post'.status # "sent"
    BY <1>15, <2>1 DEF Handle, form, Post
  <2>3. CASE UNCHANGED <<spec, gone, old, gets>>
    BY <1>2, <2>2, <2>3 DEF GoneInv, Cleared, ClearedRows
  <2>4. CASE /\ spec' = [spec EXCEPT ![post.claw] = AppliedSpec(post)]
             /\ gone' = [gone EXCEPT ![post.claw] = (@ \ Rekeyed(post)) \cup Lost(post.removed)]
             /\ old' = [known |-> TRUE, rows |-> list # post.list \/ removed # post.removed]
             /\ gets' = [g \in Listings |-> IF gets[g] = Absent THEN Absent
                                            ELSE [gets[g] EXCEPT !.old = TRUE]]
    <3>1. post.claw \in Claws /\ ClearedRows(post.list, post.claw) /\ RowsOf(post.list, post.claw)
      BY <1>2, <2>1 DEF GoneInv, SecretsInv, Post
    <3>2. \A c \in Claws : gone'[c] = IF c = post.claw
                                      THEN (gone[c] \ Rekeyed(post)) \cup Lost(post.removed)
                                      ELSE gone[c]
      BY <2>4 DEF LostInv
    <3>3. \A c \in Claws : spec'[c] = IF c = post.claw THEN AppliedSpec(post) ELSE spec[c]
      BY <2>4 DEF TypeOK, Shown
    <3>4. Cleared(spec)'
      <4>1. \A p \in (gone[post.claw] \ Rekeyed(post)) \cup Lost(post.removed) :
              AppliedSpec(post).creds[p] = Absent
        BY <1>2, <2>1, <3>1, AppliedGone DEF GoneInv
      <4>2. Cleared(spec)
        BY <1>2 DEF GoneInv
      <4>3. SUFFICES ASSUME NEW c \in Claws, spec'[c] # Absent, NEW p \in gone'[c]
                     PROVE  spec'[c].creds[p] = Absent
        BY DEF Cleared
      <4>4. CASE c = post.claw
        <5>1. gone'[c] = (gone[post.claw] \ Rekeyed(post)) \cup Lost(post.removed)
          BY <3>2, <4>4
        <5>2. spec'[c] = AppliedSpec(post)
          BY <3>3, <4>4
        <5> QED
          BY <5>1, <5>2, <4>1
      <4>5. CASE c # post.claw
        <5>1. gone'[c] = gone[c] /\ spec'[c] = spec[c]
          BY <3>2, <3>3, <4>5
        <5>2. spec[c] # Absent /\ p \in gone[c]
          BY <4>3, <5>1
        <5>3. spec[c].creds[p] = Absent
          BY <4>2, <5>2 DEF Cleared
        <5> QED
          BY <5>1, <5>3
      <4> QED
        BY <4>4, <4>5
    <3>5. \A g \in Listings : gets'[g] # Absent => gets'[g].old
      <4>1. \A g \in Listings : gets[g] # Absent => [gets[g] EXCEPT !.old = TRUE].old
        BY DEF TypeOK, Listing
      <4> QED
        BY <2>4, <4>1
    <3>6. (~old.rows => ClearedRows(list, scope))'
      <4>1. SUFFICES ASSUME list = post.list, NEW p \in gone'[scope], list[p] # Absent
                     PROVE  list[p].secret = Absent \/ list[p].named
        BY <2>2, <2>4 DEF ClearedRows
      <4>2. CASE scope = post.claw
        <5>1. p \in gone[post.claw] \cup Lost(post.removed)
          BY <3>1, <3>2, <4>1, <4>2
        <5>2. p \notin Lost(post.removed)
          BY <2>1, <4>1 DEF LostInv
        <5> QED
          BY <3>1, <4>1, <5>1, <5>2 DEF ClearedRows
      <4>3. CASE scope # post.claw
        <5>1. p \in ModelProviders /\ scope \in Claws
          BY <3>2, <4>1, <4>3 DEF LostInv, TypeOK
        <5>2. list[p].secret \in {scope, Absent} /\ list[p].secret \in {post.claw, Absent}
          BY <1>2, <3>1, <4>1, <5>1 DEF SecretsInv, RowsOf
        <5> QED
          BY <4>3, <5>2
      <4> QED
        BY <4>2, <4>3
    <3>7. old'.known
      BY <2>4
    <3> QED
      BY <2>2, <3>4, <3>5, <3>6, <3>7 DEF GoneInv
  <2> QED
    BY <1>15, <2>3, <2>4 DEF Handle, server
<1>16. CASE SaveAnswered
  <2>1. UNCHANGED <<spec, gone, known, gets, old, scope>>
    BY <1>16 DEF SaveAnswered, server, formGhosts
  <2>2. ~old.rows => ClearedRows(list', scope)
    <3>1. list' = Keyless(list) \/ list' = list
      BY <1>16 DEF SaveAnswered, form
    <3>2. gone[scope] \subseteq ModelProviders /\ list \in RowList
      BY DEF LostInv, TypeOK
    <3> QED
      BY <1>2, <3>1, <3>2, KeylessTyped DEF GoneInv, ClearedRows
  <2>3. post' # Absent => post'.status # "sent"
    <3>1. post \in Post
      BY <1>16 DEF SaveAnswered, TypeOK
    <3> QED
      BY <1>16, <3>1 DEF SaveAnswered, Post
  <2> QED
    BY <1>2, <2>1, <2>2, <2>3 DEF GoneInv, Cleared, ClearedRows
<1>17. CASE UNCHANGED formVars
  BY <1>3, <1>17 DEF formVars, server, form, formGhosts
<1> QED
  BY <1>4, <1>5, <1>6, <1>7, <1>8, <1>9, <1>10, <1>12, <1>13, <1>14, <1>15, <1>16, <1>17,
     <1>18 DEF FormNext

\* A provider whose removal was saved does not come back with a later save that was given
\* neither a key nor a Secret for it, as long as none is sent before the rows of its Claw
\* are shown, from rows older than the save before, or with the name of a Secret left in its
\* field by an earlier save or typed for another Claw.
THEOREM RemovalsKept == ASSUME FormAssumption PROVE FormSpec => []RemovalStays
<1> DEFINE Inv == /\ TypeOK /\ LostInv /\ (~hasty /\ ~strayed => SecretsInv)
                  /\ (~hasty /\ ~outdated /\ ~strayed /\ ~resent => GoneInv)
<1>1. ASSUME FormInit PROVE Inv
  <2>1. gone = [c \in Claws |-> {}] /\ post = Absent /\ \A g \in Listings : gets[g] = Absent
    BY <1>1 DEF FormInit
  <2>2. LostInv
    BY <1>1, <2>1 DEF FormInit, LostInv, Lost
  <2>3. \A c \in Claws : gone[c] = {}
    BY <2>1
  <2>4. scope \in Claws
    BY <1>1 DEF FormInit
  <2>5. GoneInv
    BY <2>1, <2>3, <2>4 DEF GoneInv, Cleared, ClearedRows
  <2> QED
    BY <1>1, <2>2, <2>5, TypeInit, SecretsInit
<1>2. Inv /\ [FormNext]_formVars => Inv'
  BY TypeStep, LostStep, SecretsStep, GoneStep
<1>3. Inv => RemovalStays
  BY DEF RemovalStays, GoneInv, Cleared
<1> QED
  BY <1>1, <1>2, <1>3, PTL DEF FormSpec

(***************************************************************************)
(* A save of what is shown.                                                *)
(***************************************************************************)
\* A form sent as it shows a Claw holds what the listing told of that Claw, and no more.
ShownInv ==
  /\ ~dirty => removed = {}
  /\ post # Absent /\ post.status = "sent" /\ post.asShown # Absent =>
       /\ post.list \in Rows(post.asShown) /\ post.removed = {} /\ ~post.key
       /\ post.secret = Absent /\ post.model = post.asShown.primary
       /\ post.configure => post.model # <<>>

LEMMA RenderKeepsShown ==
  ASSUME TypeOK, ShownInv, NEW claws, NEW c, NEW before, Render(claws, c, before)
  PROVE  ~dirty' => removed' = {}
<1>1. PICK held \in Held(scope = c, claws[c]) : removed' = held.removed /\ dirty' = held.dirty
  BY DEF Render
<1>2. held.dirty \/ held.removed = {}
  BY DEF Held, ShownInv, TypeOK
<1> QED
  BY <1>1, <1>2

LEMMA ShownStep ==
  ASSUME FormAssumption, TypeOK, ShownInv, [FormNext]_formVars
  PROVE  ShownInv'
<1>1. ASSUME UNCHANGED <<removed, dirty, post>> PROVE ShownInv'
  BY <1>1 DEF ShownInv
<1>2. ASSUME ~dirty' => removed' = {},
             post' = post \/ post' = Absent \/ (post' # Absent /\ post'.status # "sent")
      PROVE  ShownInv'
  BY <1>2 DEF ShownInv
<1>3. ASSUME NEW g \in Listings, Listed(g) PROVE ShownInv'
  BY <1>1, <1>3 DEF Listed, form
<1>4. ASSUME NEW g \in Listings, Lands(g) PROVE ShownInv'
  BY <1>2, <1>4, RenderKeepsShown DEF Lands
<1>5. ASSUME NEW c \in Claws, Rename(c) PROVE ShownInv'
  BY <1>1, <1>5 DEF Rename, form
<1>6. ASSUME NEW c \in Claws, PickRow(c) PROVE ShownInv'
  BY <1>2, <1>6, RenderKeepsShown DEF PickRow
<1>7. ASSUME NEW p \in ModelProviders, PickProvider(p) PROVE ShownInv'
  BY <1>1, <1>7 DEF PickProvider, Edit
<1>8. ASSUME NEW m \in Typed, TypeModel(m) PROVE ShownInv'
  BY <1>1, <1>8 DEF TypeModel, Edit
<1>9. CASE TypeKey
  BY <1>1, <1>9 DEF TypeKey, Edit
<1>16. ASSUME NEW secret \in Claws \cup {Absent}, NameSecret(secret) PROVE ShownInv'
  BY <1>1, <1>16 DEF NameSecret, Edit
<1>10. ASSUME NEW gcp \in BOOLEAN, Add(gcp) PROVE ShownInv'
  BY <1>2, <1>10 DEF Add, Edit
<1>11. ASSUME NEW p \in ModelProviders, Remove(p) PROVE ShownInv'
  BY <1>2, <1>11 DEF Remove, Edit
<1>12. CASE Save
  <2>1. UNCHANGED <<removed, dirty>>
    BY <1>12 DEF Save, form
  <2>2. /\ post'.list = list /\ post'.removed = removed /\ post'.key = fields.key
        /\ post'.model = fields.model /\ post'.asShown = AsShown /\ post'.secret = fields.secret
        /\ post'.configure = (~Exists \/ fields.model # <<>>)
    BY <1>12 DEF Save
  <2>3. ASSUME AsShown # Absent
        PROVE  /\ Exists /\ ~dirty /\ ~fields.key /\ list \in Rows(AsShown)
               /\ fields.model = AsShown.primary /\ fields.secret = Absent
    BY <2>3 DEF AsShown
  <2> QED
    BY <2>1, <2>2, <2>3 DEF ShownInv
<1>13. CASE Handle
  <2>1. UNCHANGED <<removed, dirty>> /\ post \in Post
    BY <1>13 DEF Handle, form, TypeOK
  <2>2. post'.status # "sent"
    BY <1>13, <2>1 DEF Handle, Post
  <2> QED
    BY <2>1, <2>2 DEF ShownInv
<1>14. CASE SaveAnswered
  <2>1. (~dirty => removed = {})'
    BY <1>14 DEF SaveAnswered, form, ShownInv
  <2>2. post' # Absent => post'.status # "sent"
    <3>1. post \in Post
      BY <1>14 DEF SaveAnswered, TypeOK
    <3> QED
      BY <1>14, <3>1 DEF SaveAnswered, Post
  <2> QED
    BY <2>1, <2>2 DEF ShownInv
<1>15. CASE UNCHANGED formVars
  BY <1>1, <1>15 DEF formVars, form
<1> QED
  BY <1>3, <1>4, <1>5, <1>6, <1>7, <1>8, <1>9, <1>10, <1>11, <1>12, <1>13, <1>14, <1>15,
     <1>16 DEF FormNext

\* What such a save makes of a Claw that is still as it was shown.
LEMMA AppliedAsShown ==
  ASSUME FormAssumption, TypeOK, ShownInv, post \in Post, post.status = "sent",
         post.asShown # Absent, post.asShown = spec[post.claw],
         NormalizeModelRef(post.provider, post.model) = post.model
  PROVE  LET was == spec[post.claw]
             now == AppliedSpec(post)
         IN  now.creds = was.creds /\ now.primary = was.primary /\ was.models \subseteq now.models
<1> DEFINE s    == spec[post.claw]
           keep == (RowModels(post) \cup {post.model}) \ {<<>>}
<1>1. post # Absent /\ post.claw \in Claws /\ s \in ClawSpec /\ Current(post.claw) = s
  BY DEF Post, FormAssumption, TypeOK, Shown, Current
<1>2. /\ post.list \in Rows(s) /\ post.removed = {} /\ ~post.key /\ post.secret = Absent
      /\ post.model = s.primary /\ (post.configure => post.model # <<>>)
  BY <1>1 DEF ShownInv
<1>3. Lost(post.removed) = {} /\ RemovedModels(post) = {}
  BY <1>2 DEF Lost, RemovedModels
<1>4. Credentials(post) = s.creds
  <2>1. ASSUME NEW p \in ModelProviders PROVE Credentials(post)[p] = s.creds[p]
    <3>1. CASE s.creds[p] = Absent
      <4>1. post.list[p] = Absent
        BY <1>2, <3>1 DEF Rows
      <4> QED
        BY <1>1, <1>2, <1>3, <4>1 DEF Credentials, HasCredential, GivenFor, SecretName
    <3>2. CASE s.creds[p] # Absent
      <4>1. post.list[p] # Absent /\ post.list[p].secret = s.creds[p]
        BY <1>2, <3>2 DEF Rows
      <4> QED
        BY <3>2, <4>1 DEF Credentials, HasCredential, GivenFor, SecretName
    <3> QED
      BY <3>1, <3>2
  <2>2. s.creds \in [ModelProviders -> Claws \cup {Absent}]
        /\ Credentials(post) \in [ModelProviders -> Claws \cup {Absent}]
    BY <1>1, AppliedTyped DEF ClawSpec
  <2> QED
    BY <2>1, <2>2
<1>5. CASE post.configure \/ RowModels(post) # {} \/ RemovedModels(post) # {}
  <2>1. keep # {}
    <3>1. <<>> \notin RowModels(post)
      BY DEF RowModels
    <3> QED
      BY <1>2, <1>3, <1>5, <3>1
  <2>2. /\ AppliedSpec(post).creds = Credentials(post)
        /\ AppliedSpec(post).primary = post.model
        /\ AppliedSpec(post).models = Models(s.models, RemovedModels(post), keep)
    BY <1>1, <1>5 DEF AppliedSpec
  <2>3. s.models \subseteq Models(s.models, RemovedModels(post), keep)
    BY <1>3, <2>1 DEF Models
  <2> QED
    BY <1>2, <1>4, <2>2, <2>3
<1>6. CASE ~(post.configure \/ RowModels(post) # {} \/ RemovedModels(post) # {})
  <2>1. AppliedSpec(post) = [s EXCEPT !.creds = Credentials(post)]
    BY <1>1, <1>6 DEF AppliedSpec
  <2> QED
    BY <1>1, <1>4, <2>1 DEF ClawSpec
<1> QED
  BY <1>5, <1>6

\* A form saved as it is shown, with no key and no Secret named, keeps the credentials, the primary model and the models of a
\* Claw that has not changed since.
THEOREM ShownIsKept == ASSUME FormAssumption PROVE FormSpec => SavedAsShown
<1> DEFINE Inv  == TypeOK /\ ShownInv
           Kept == post # Absent /\ post.asShown # Absent /\ post.asShown = spec[post.claw]
                     /\ NormalizeModelRef(post.provider, post.model) = post.model
                   => /\ spec'[post.claw].creds = spec[post.claw].creds
                      /\ spec'[post.claw].primary = spec[post.claw].primary
                      /\ spec[post.claw].models \subseteq spec'[post.claw].models
<1>1. FormInit => Inv
  BY TypeInit DEF FormInit, ShownInv
<1>2. Inv /\ [FormNext]_formVars => Inv'
  BY TypeStep, ShownStep
<1>3. Inv /\ [FormNext]_formVars => [Kept]_spec
  <2> SUFFICES ASSUME Inv, [FormNext]_formVars, spec' # spec PROVE Kept
    OBVIOUS
  <2>1. Handle
    BY DEF FormNext, Listed, Lands, Rename, PickRow, PickProvider, TypeModel, TypeKey, NameSecret,
           Add, Remove, Save, SaveAnswered, Acts, Edit, server, formVars
  <2>2. /\ post \in Post /\ post.status = "sent"
        /\ spec' = [spec EXCEPT ![post.claw] = AppliedSpec(post)]
    BY <2>1 DEF Handle, TypeOK, server
  <2>3. spec'[post.claw] = AppliedSpec(post)
    BY <2>2 DEF TypeOK, Post, Shown
  <2> QED
    BY <2>2, <2>3, AppliedAsShown
<1> QED
  BY <1>1, <1>2, <1>3, PTL DEF FormSpec, SavedAsShown
===============================================================================
