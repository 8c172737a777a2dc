---------------------------- MODULE ProvisionForm ----------------------------
(***************************************************************************)
(* The deployer's form (cmd/deployer/static/app.js) and what handleProvision *)
(* and applyClaw make of it: the model providers and the models of a Claw, *)
(* shown, edited and sent back as a whole.                                 *)
(*                                                                         *)
(* The page lists all Claws, on a timer and after each click, and shows the *)
(* one that is selected.  Lists and saves are answered in any order, and   *)
(* may fail; the reader selects and edits meanwhile.  Requests that run at *)
(* the same time on the server are the subject of ClawProvision: a save    *)
(* takes effect here in one step.                                          *)
(*                                                                         *)
(* A model is its segments, <<"openai", "gpt">> for openai/gpt, and <<>> is *)
(* a blank.  A Secret is told by the Claw it is of: the deployer names one  *)
(* after the Claw and the provider, and the reader, in the field for a     *)
(* Secret that exists, one of the Claw selected.                           *)
(***************************************************************************)
EXTENDS Naturals, Sequences

CONSTANTS
  Claws,
  ModelProviders,  (* of the keys of `providers` in helpers.go              *)
  Typed,           (* what may be typed for a model                        *)
  Made,            (* the Claws there may be: providers, primary, models   *)
  Absent,          (* no Claw, no row, no request                          *)
  Own,             (* the listing a save ends with                         *)
  Listings,        (* all listings that may be under way                   *)
  MaxSaves,        (* bound: saves sent                                    *)
  MaxActs          (* bound: what else the reader does                     *)

VARIABLES
  spec,      (* Claw -> what of its spec is modelled, or Absent            *)
  known,     (* state.claws                                                *)
  selected,  (* state.selectedName, and the name field                     *)
  scope,     (* state.integrationScope: whose lists the page holds         *)
  list,      (* state.modelProviders                                       *)
  removed,   (* state.removedModelProviders: providers with their models   *)
  dirty,     (* state.integrationsDirty                                    *)
  fields,    (* the fields: provider, model, whether a key is typed, and   *)
             (* the name of a Secret                                       *)
  post,      (* the save under way, until its listing has been shown       *)
  gets,      (* the listings under way                                     *)
  \* to state properties with
  saves,     (* saves sent                                                 *)
  acts,      (* what the reader did                                        *)
  hasty,     (* one was sent for a Claw whose lists were not shown yet     *)
  old,       (* whether known, and the rows, are from before the last save *)
  outdated,  (* old rows were sent                                         *)
  sent,      (* whether the name in fields.secret has been saved           *)
  resent,    (* such a name was sent once more                             *)
  strayed,   (* one typed for a Claw was sent for, or added to, another    *)
  overtaken, (* there were edits that the save just answered did not hold  *)
  edits,     (* providers added and removed, neither saved nor left behind *)
  gone       (* Claw -> providers whose removal has been saved             *)

server     == <<spec, gone>>
form       == <<list, removed, dirty, fields, edits>>
formGhosts == <<saves, acts, hasty, old, outdated, sent, resent, strayed, overtaken>>
formVars   == <<server, known, selected, scope, form, post, gets, formGhosts>>

(***************************************************************************)
(* helpers.go: the table of providers, and names of models.                *)
(***************************************************************************)
ModelProvider(p) == IF p = "google-vertex" THEN "google" ELSE p
RequiresGCP(p)   == p \in {"google-vertex", "anthropic-vertex"}

Of(p, m) == m # <<>> /\ Head(m) = ModelProvider(p)

NormalizeModelRef(p, m) ==
  IF Len(m) < 2 THEN IF m = <<>> THEN m ELSE <<ModelProvider(p)>> \o m
  ELSE IF p = "openrouter" /\ Head(m) # p THEN <<p>> \o m
  ELSE IF p = "anthropic-vertex" /\ Head(m) = "anthropic" THEN <<p>> \o Tail(m)
  ELSE m

\* modelDefaults.
Default(p) == <<ModelProvider(p), "default">>

(***************************************************************************)
(* What the page is told of a Claw: stateFromClaw().                       *)
(***************************************************************************)
\* spec.credentials by the Claw their secret is named after, and of spec.config.raw the
\* primary model and the names of the models.
Configured(s) == (s.models \cup {s.primary}) \ {<<>>}

\* modelForProvider takes the primary first, then the others as they come.
ModelsFor(p, s) ==
  IF Of(p, s.primary) THEN {s.primary}
  ELSE IF \E m \in s.models : Of(p, m) THEN {m \in s.models : Of(p, m)} ELSE {<<>>}

\* named: the reader named the Secret, no listing told it; to state properties with.
Row(m, secret, key, gcp) ==
  [model |-> m, secret |-> secret, key |-> key, gcp |-> gcp, named |-> secret # Absent]

NoRows == [p \in ModelProviders |-> Absent]

\* The providers among those removed.
Lost(gone_) == {r[1] : r \in gone_}

\* modelProvidersFromClaw: neither a key nor the project and location come back.
Rows(s) ==
  {rows \in [ModelProviders -> {Absent} \cup [model : Configured(s) \cup {<<>>}, secret : Claws,
                                       key : {FALSE}, gcp : {FALSE}, named : {FALSE}]] :
     \A p \in ModelProviders :
       IF s.creds[p] = Absent THEN rows[p] = Absent
       ELSE rows[p] # Absent /\ rows[p].secret = s.creds[p] /\ rows[p].model \in ModelsFor(p, s)}

Exists == known[scope] # Absent

NoEdits == [added |-> {}, removed |-> {}]

(***************************************************************************)
(* refresh() asks, renderList() shows.                                     *)
(***************************************************************************)
\* A listing is asked for on a timer, after each click and at the end of a save (Own), so
\* one may be taken at any time; it is shown when its answer lands.
Listed(g) ==
  /\ gets[g] = Absent /\ (g = Own => post # Absent /\ post.status = "refreshing")
  /\ gets' = [gets EXCEPT ![g] = [claws |-> spec, old |-> FALSE]]
  /\ UNCHANGED <<server, known, selected, scope, form, post, formGhosts>>

\* Mutation: a refresh shows the Claw's providers over those being edited.
HeldOverwritten(same, s) ==
  IF s # Absent THEN [rows : Rows(s), removed : {{}}, dirty : {FALSE}]
  ELSE [rows : {IF same THEN list ELSE NoRows}, removed : {IF same THEN removed ELSE {}},
        dirty : {same /\ dirty}]

\* Mutation: a refresh shows the Claw's providers next to those removed.
HeldNextToRemoved(same, s) ==
  IF s # Absent THEN [rows : Rows(s), removed : {IF same THEN removed ELSE {}},
                      dirty : {same /\ dirty}]
  ELSE [rows : {IF same THEN list ELSE NoRows}, removed : {IF same THEN removed ELSE {}},
        dirty : {same /\ dirty}]

\* Mutation: edits are kept whatever is selected.
HeldAlways(same, s) ==
  IF dirty THEN [rows : {list}, removed : {removed}, dirty : {TRUE}]
  ELSE IF s # Absent THEN [rows : Rows(s), removed : {{}}, dirty : {FALSE}]
  ELSE [rows : {list, NoRows}, removed : {{}}, dirty : {FALSE}]

\* What is held of Claw s: edits are, until another Claw is selected.  Of a Claw that is
\* not listed nothing is, or what was held (it goes only when there are integrations).
Held(same, s) ==
  IF same /\ dirty THEN [rows : {list}, removed : {removed}, dirty : {TRUE}]
  ELSE IF s # Absent THEN [rows : Rows(s), removed : {{}}, dirty : {FALSE}]
  ELSE [rows : IF same THEN {list, NoRows} ELSE {NoRows}, removed : {IF same THEN removed ELSE {}},
        dirty : {FALSE}]

\* The primary model is shown; if there is none, what is being typed may stay.
ModelShown(s) ==
  IF s = Absent THEN {fields.model}
  ELSE IF s.primary # <<>> THEN {s.primary} ELSE {<<>>, fields.model}

Render(claws, c, before) ==
  /\ known' = claws /\ scope' = c
  /\ \E held \in Held(scope = c, claws[c]), m \in ModelShown(claws[c]) :
       /\ list' = held.rows /\ removed' = held.removed /\ dirty' = held.dirty
       /\ fields' = [fields EXCEPT !.model = m]
  /\ edits' = IF scope = c THEN edits ELSE NoEdits
  /\ old' = [known |-> before,
             rows |-> IF claws[c] # Absent /\ ~dirty' THEN before ELSE scope = c /\ old.rows]

\* Of a listing that fails, no Claws are shown.
Lands(g) ==
  /\ gets[g] # Absent
  /\ \E claws \in {gets[g].claws, [c \in Claws |-> Absent]} : Render(claws, selected, gets[g].old)
  /\ gets' = [gets EXCEPT ![g] = Absent]
  /\ post' = IF g = Own THEN Absent ELSE post
  /\ UNCHANGED <<server, selected, saves, acts, hasty, outdated, sent, resent, strayed, overtaken>>

(***************************************************************************)
(* The reader.                                                             *)
(***************************************************************************)
Acts ==
  /\ acts < MaxActs /\ acts' = acts + 1
  /\ UNCHANGED <<saves, hasty, outdated, resent, overtaken>>

\* Another name in the name field: what is held of it is shown when a listing lands.
Rename(c) ==
  /\ c # selected
  /\ selected' = c
  /\ Acts /\ UNCHANGED <<server, known, scope, form, post, gets, old, sent, strayed>>

\* A click on a row of the table shows what is known.
PickRow(c) ==
  /\ known[c] # Absent
  /\ selected' = c
  /\ Render(known, c, old.known)
  /\ Acts /\ UNCHANGED <<server, post, gets, sent, strayed>>

\* What an edit of the form leaves alone.
Edit == Acts /\ UNCHANGED <<server, known, selected, scope, post, gets, old>>

PickProvider(p) ==
  /\ p # fields.provider
  /\ fields' = [fields EXCEPT !.provider = p, !.model = <<>>]
  /\ Edit /\ UNCHANGED <<list, removed, dirty, edits, sent, strayed>>

TypeModel(m) ==
  /\ m # fields.model
  /\ fields' = [fields EXCEPT !.model = m]
  /\ Edit /\ UNCHANGED <<list, removed, dirty, edits, sent, strayed>>

TypeKey ==
  /\ ~fields.key
  /\ fields' = [fields EXCEPT !.key = TRUE]
  /\ Edit /\ UNCHANGED <<list, removed, dirty, edits, sent, strayed>>

\* The name of a Secret that exists, of the Claw selected, is typed or cleared.  It stays
\* in its field when another provider or another Claw is selected, and when it is saved.
NameSecret(secret) ==
  /\ secret \in {selected, Absent} /\ secret # fields.secret
  /\ fields' = [fields EXCEPT !.secret = secret] /\ sent' = FALSE
  /\ Edit /\ UNCHANGED <<list, removed, dirty, edits, strayed>>

Add(gcp) ==
  LET p == fields.provider IN
  /\ fields.key \/ fields.secret # Absent
  /\ list[p] = Absent /\ (gcp => RequiresGCP(p))
  /\ Exists /\ p \notin Lost(removed) => known[scope].creds[p] = Absent
  /\ list' = [list EXCEPT ![p] =
       Row(IF fields.model = <<>> THEN Default(p) ELSE fields.model, fields.secret, fields.key, gcp)]
  /\ removed' = {r \in removed : r[1] # p} /\ dirty' = TRUE
  /\ fields' = [fields EXCEPT !.model = <<>>, !.key = FALSE, !.secret = Absent]
  /\ edits' = [added |-> edits.added \cup {p}, removed |-> edits.removed \ {p}]
  /\ strayed' = (strayed \/ fields.secret \notin {scope, Absent})
  /\ Edit /\ UNCHANGED sent

Remove(p) ==
  /\ list[p] # Absent
  /\ list' = [list EXCEPT ![p] = Absent]
  /\ removed' = removed \cup {<<p, list[p].model>>} /\ dirty' = TRUE
  /\ edits' = [added |-> edits.added \ {p}, removed |-> edits.removed \cup {p}]
  /\ Edit /\ UNCHANGED <<fields, sent, strayed>>

(***************************************************************************)
(* A save: the click, handleProvision and applyClaw, and the answer.       *)
(***************************************************************************)
\* The Claw the form shows, unedited, or Absent; to state properties with.
AsShown ==
  IF /\ Exists /\ scope = selected /\ ~dirty /\ ~fields.key /\ fields.secret = Absent
     /\ list \in Rows(known[scope]) /\ fields.model = known[scope].primary
  THEN known[scope] ELSE Absent

\* The rows go with what the fields hold; validate() has seen to it that the project and
\* location of a provider which needs them are typed when its key or Secret is.
\* fresh: the Secret, if one is named, was named for this Claw and not saved before.
Save ==
  /\ post = Absent /\ saves < MaxSaves
  /\ fields.key \/ fields.secret # Absent \/ list # NoRows \/ Exists
  /\ post' = [status |-> "sent", claw |-> selected, provider |-> fields.provider,
              model |-> fields.model, key |-> fields.key, secret |-> fields.secret,
              fresh |-> fields.secret = Absent \/ (fields.secret = selected /\ ~sent),
              list |-> list, removed |-> removed,
              configure |-> ~Exists \/ fields.model # <<>>, asShown |-> AsShown]
  /\ saves' = saves + 1
  /\ hasty' = (hasty \/ scope # selected)
  /\ outdated' = (outdated \/ old.rows)
  /\ strayed' = (strayed \/ fields.secret \notin {selected, Absent})
  /\ resent' = (resent \/ (fields.secret # Absent /\ sent))
  /\ UNCHANGED <<server, known, selected, scope, form, gets, acts, old, sent, overtaken>>

HasCredential(row) == row # Absent /\ (row.key \/ row.secret # Absent)

\* Whether the fields give a credential, and for whom.
GivenFor(b, p) == b.provider = p /\ (b.key \/ b.secret # Absent)

Given(b) == {p \in ModelProviders : GivenFor(b, p) \/ HasCredential(b.list[p])}

\* A row with a credential needs the project and location; a new Claw needs a credential.
Refused(b) ==
  \/ \E p \in ModelProviders : RequiresGCP(p) /\ HasCredential(b.list[p]) /\ ~b.list[p].gcp
  \/ Given(b) = {} /\ spec[b.claw] = Absent

Blank == [creds |-> [p \in ModelProviders |-> Absent], primary |-> <<>>, models |-> {}]

Current(c) == IF spec[c] = Absent THEN Blank ELSE spec[c]

\* credentialSecretName: the one named, or else the one named after the Claw.
SecretName(c, secret) == IF secret = Absent THEN c ELSE secret

\* upsertProvisionCredential and pruneRemovedModelProviderCredentials: what the fields
\* give the provider selected, less the providers removed, and the rows.
Credentials(b) ==
  [p \in ModelProviders |->
     IF HasCredential(b.list[p]) THEN SecretName(b.claw, b.list[p].secret)
     ELSE IF p \in Lost(b.removed) THEN Absent
     ELSE IF GivenFor(b, p) THEN SecretName(b.claw, b.secret)
     ELSE Current(b.claw).creds[p]]

RowModels(b) ==
  {NormalizeModelRef(p, b.list[p].model) : p \in {p \in ModelProviders : b.list[p] # Absent}} \ {<<>>}

\* Of a provider removed, the model its row had, and all that are configured.
RemovedModels(b) ==
  ({NormalizeModelRef(r[1], r[2]) : r \in b.removed} \ {<<>>})
    \cup {m \in Configured(Current(b.claw)) : \E p \in Lost(b.removed) : Of(p, m)}

\* Mutation: the models are those of the request.
ModelsReplaced(models, gone_, keep) == keep

\* The models left by applyAgentConfig: none at all when the request names none.
Models(models, gone_, keep) == IF keep = {} THEN {} ELSE (models \ gone_) \cup keep

\* applyClaw.
AppliedSpec(b) ==
  LET s     == Current(b.claw)
      model == NormalizeModelRef(b.provider, b.model)
      keep  == (RowModels(b) \cup {model}) \ {<<>>}
  IN IF b.configure \/ RowModels(b) # {} \/ RemovedModels(b) # {}
     THEN [creds |-> Credentials(b), primary |-> model,
           models |-> Models(s.models, RemovedModels(b), keep)]
     ELSE [s EXCEPT !.creds = Credentials(b)]

\* ModelProviders the reader has given a key or a Secret for, for this save.
Rekeyed(b) ==
  {p \in ModelProviders : \/ GivenFor(b, p) /\ b.fresh
                          \/ b.list[p] # Absent /\ (b.list[p].key \/ b.list[p].named)}

\* The answer to a save that took effect may be lost.
Handle ==
  /\ post # Absent /\ post.status = "sent"
  /\ \/ /\ ~Refused(post)
        /\ spec' = [spec EXCEPT ![post.claw] = AppliedSpec(post)]
        /\ gone' = [gone EXCEPT ![post.claw] = (@ \ Rekeyed(post)) \cup Lost(post.removed)]
        /\ sent' = (fields.secret # Absent /\ (sent \/ fields.secret = post.secret))
        /\ old' = [known |-> TRUE, rows |-> list # post.list \/ removed # post.removed]
        /\ gets' = [g \in Listings |-> IF gets[g] = Absent THEN Absent
                                       ELSE [gets[g] EXCEPT !.old = TRUE]]
        /\ \E status \in {"ok", "failed"} : post' = [post EXCEPT !.status = status]
     \/ /\ UNCHANGED <<server, old, gets, sent>>
        /\ post' = [post EXCEPT !.status = "failed"]
  /\ UNCHANGED <<known, selected, scope, form, saves, acts, hasty, outdated, resent, strayed, overtaken>>

\* What the page forgets of a list that has been saved: the keys.
Keyless(rows) ==
  [p \in ModelProviders |-> IF rows[p] = Absent THEN Absent ELSE [rows[p] EXCEPT !.key = FALSE]]

\* Whether the page still holds what was sent: if not, the answer counts as saved what
\* was not, and the listing it asks for replaces it.
AsSent == list = post.list /\ removed = post.removed /\ scope = post.claw

SaveAnswered ==
  /\ post # Absent /\ post.status \in {"ok", "failed"}
  /\ IF post.status = "ok"
     THEN /\ post' = [post EXCEPT !.status = "refreshing"]
          /\ list' = Keyless(list) /\ removed' = {} /\ dirty' = FALSE
          /\ fields' = [fields EXCEPT !.key = FALSE]
          /\ edits' = IF AsSent THEN NoEdits ELSE edits
          /\ overtaken' = (overtaken \/ edits' # NoEdits)
          /\ selected' = post.claw
     ELSE post' = Absent /\ UNCHANGED <<form, selected, overtaken>>
  /\ UNCHANGED <<server, known, scope, gets, saves, acts, hasty, old, outdated, sent, resent, strayed>>

FormInit ==
  /\ \E made \in [Claws -> Made \cup {Absent}] :
       spec = [c \in Claws |->
         IF made[c] = Absent THEN Absent
         ELSE [creds |-> [p \in ModelProviders |-> IF p \in made[c].providers THEN c ELSE Absent],
               primary |-> made[c].primary, models |-> made[c].models]]
  /\ known = [c \in Claws |-> Absent]
  /\ selected \in Claws /\ scope = selected
  /\ list = NoRows /\ removed = {} /\ dirty = FALSE
  /\ \E p \in ModelProviders : fields = [provider |-> p, model |-> <<>>, key |-> FALSE, secret |-> Absent]
  /\ post = Absent /\ gets = [g \in Listings |-> Absent]
  /\ saves = 0 /\ acts = 0 /\ hasty = FALSE /\ outdated = FALSE
  /\ sent = FALSE /\ resent = FALSE /\ strayed = FALSE /\ overtaken = FALSE
  /\ old = [known |-> FALSE, rows |-> FALSE]
  /\ edits = NoEdits
  /\ gone = [c \in Claws |-> {}]

FormNext ==
  \/ \E g \in Listings : Listed(g) \/ Lands(g)
  \/ \E c \in Claws : PickRow(c) \/ Rename(c)
  \/ \E p \in ModelProviders : PickProvider(p) \/ Remove(p)
  \/ \E m \in Typed : TypeModel(m)
  \/ \E gcp \in BOOLEAN : Add(gcp)
  \/ TypeKey
  \/ \E secret \in Claws \cup {Absent} : NameSecret(secret)
  \/ Save \/ Handle \/ SaveAnswered

FormSpec == FormInit /\ [][FormNext]_formVars

-------------------------------------------------------------------------------
(***************************************************************************)
(* Properties.                                                             *)
(***************************************************************************)
\* "For each Claw, the deployer creates ... a provider API key Secret named
\* openclaw-<name>-<provider>-api-key" (config/deployer/README.md): no Claw is given the
\* Secret of another.  Not so: a save right after another name was typed sends the rows
\* of the Claw before, Secrets included.  What the reader names is left out (strayed): the
\* name of a Secret typed for one Claw stays in its field when another is selected or one
\* is saved (app.js:655-663, 1642-1644), and goes with the next save.
OwnSecrets ==
  ~strayed => \A c \in Claws : spec[c] # Absent =>
                \A p \in ModelProviders : spec[c].creds[p] \in {c, Absent}

\* Once the rows of the Claw selected are shown, no save mixes two Claws, whatever was
\* being edited when the other was selected and whichever listing comes late, unless a
\* name typed for the other went with it.
OwnSecretsOnceShown == ~hasty => OwnSecrets

\* A form that is saved as it is shown, with neither a key nor the name of a Secret typed,
\* keeps the Claw's credentials, its primary model and its models, unless the provider
\* selected reads the model's name in another way.
SavedAsShown ==
  [][ post # Absent /\ post.asShown # Absent /\ post.asShown = spec[post.claw]
      /\ NormalizeModelRef(post.provider, post.model) = post.model
      => LET was == spec[post.claw]
             now == spec'[post.claw] IN
         /\ now.creds = was.creds /\ now.primary = was.primary
         /\ was.models \subseteq now.models ]_spec

\* A removal that was saved is not undone by a later save, unless a key or a Secret was
\* given again.  It may be when a listing older than the save was still to come, and when
\* the name of a Secret is still in its field, saved before (resent) or typed for another
\* Claw: it goes with every save, for the provider selected (claw.go:287).
RemovalStays ==
  ~hasty /\ ~outdated /\ ~strayed /\ ~resent =>
    \A c \in Claws : spec[c] # Absent => \A p \in gone[c] : spec[c].creds[p] = Absent

\* What the reader adds and removes stays on the page until it is saved or another Claw
\* is selected, however often the page is refreshed and saves fail.  What is edited while
\* a save is under way does not: its answer takes all edits for saved, and the listing
\* that follows drops them (app.js:1646-1656).
EditsSurvive ==
  ~overtaken => /\ \A p \in edits.added : list[p] # Absent /\ p \notin Lost(removed)
                /\ \A p \in edits.removed : list[p] = Absent /\ p \in Lost(removed)
===============================================================================
