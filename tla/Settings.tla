-------------------------------- MODULE Settings --------------------------------
(***************************************************************************)
(* The master settings (SettingsService over KyselySettingsRepository):    *)
(* one document per section with its version, the encrypted secrets that   *)
(* are kept beside it, and the history of changes.                         *)
(*                                                                         *)
(* A document is reduced to two fields: `enabled', whose check needs a     *)
(* secret, and in tls a certificate, and `other' for the rest.  An         *)
(* update reads the document and the names of the secrets with two         *)
(* statements at once, validates against them, and saves in a transaction  *)
(* that locks the document if there is one already.  The administrator     *)
(* edits what the last load of the page showed.                            *)
(***************************************************************************)
EXTENDS Integers, FiniteSets

CONSTANTS
  Section,               \* MASTER_SETTINGS_SECTIONS
  SecretSection,         \* those with an entry in secretFields
  Value,                 \* what `other' may be
  Default,               \* the value of defaultSettings
  Uncertified,           \* Uncertified[s]: the values of `other' that do not do
                         \* for enabling s; of tls, those without certificatePath
  Request,               \* bound: updates at one time
  MaxVersion,            \* bound: saves of one section
  None

ASSUME SettingsAssumption ==
  /\ SecretSection \subseteq Section /\ Default \in Value /\ MaxVersion \in Nat \ {0}
  /\ Uncertified \in [SecretSection -> SUBSET Value]
  /\ None \notin [value : [enabled : BOOLEAN, other : Value], version : 1..MaxVersion]
  /\ None \notin [enabled : BOOLEAN, other : Value]

VARIABLES
  rows,       \* master_settings
  secrets,    \* the sections whose secret is in master_setting_secrets
  history,    \* the newest row of settings_change_history of each section, and
              \* whether its update had validated against other data
  reqs        \* the updates in progress

vars == <<rows, secrets, history, reqs>>

-----------------------------------------------------------------------------
Document == [enabled : BOOLEAN, other : Value]
Field == {"enabled", "other", "secret"}
Row == [value : Document, version : 1..MaxVersion]
defaultSettings == [enabled |-> FALSE, other |-> Default]

\* What is typed into the field of the secret: the sentinel that preserves
\* it, nothing, or a new one.
SecretInput == {"preserve", "clear", "set"}

\* parsed: the defaults under the stored document, of which a section that was
\* never saved has none.
Parsed(row) == IF row = None THEN defaultSettings ELSE row.value

\* before_metadata of a section that was never saved is empty.
Before(row) == IF row = None THEN None ELSE row.value

Changed(from, to) == {f \in {"enabled", "other"} : from = None \/ from[f] # to[f]}

In(r, stage) == r \in DOMAIN reqs /\ reqs[r].stage = stage
End(r) == reqs' = [q \in DOMAIN reqs \ {r} |-> reqs[q]]
Go(r, t) == reqs' = [q \in DOMAIN reqs \cup {r} |-> IF q = r THEN t ELSE reqs[q]]
Tables == <<rows, secrets, history>>

-----------------------------------------------------------------------------
\* update
Begin(r, s, value, input) ==
  /\ r \notin DOMAIN reqs
  /\ Go(r, [stage |-> "read", section |-> s, value |-> value, input |-> input])
  /\ UNCHANGED Tables

\* PATCH of a section, of which one without secrets has no such field.
Patch(r) == \E s \in Section, value \in Document, input \in SecretInput :
  /\ s \notin SecretSection => input = "preserve"
  /\ Begin(r, s, value, input)

\* The update to the defaults, whose secrets are empty.
Reset(r) == \E s \in Section :
  Begin(r, s, defaultSettings, IF s \in SecretSection THEN "clear" ELSE "preserve")

\* The two reads, of which either comes first.
ReadRow(r) ==
  /\ In(r, "read") /\ "current" \notin DOMAIN reqs[r]
  /\ LET t == reqs[r] IN
     Go(r, [f \in DOMAIN t \cup {"current"} |-> IF f = "current" THEN Parsed(rows[t.section]) ELSE t[f]])
  /\ UNCHANGED Tables

ReadSecrets(r) ==
  /\ In(r, "read") /\ "configured" \notin DOMAIN reqs[r]
  /\ LET t == reqs[r] IN
     Go(r, [f \in DOMAIN t \cup {"configured"} |-> IF f = "configured" THEN t.section \in secrets ELSE t[f]])
  /\ UNCHANGED Tables

\* willConfigure
WillConfigure(t) == t.input = "set" \/ (t.input = "preserve" /\ t.configured)

\* Mutant: a secret that is taken away still counts.
AcceptedWithOld(t) ==
  t.section \in SecretSection =>
    /\ t.input = "preserve" => t.configured
    /\ t.value.enabled => /\ t.configured \/ t.input = "set"
                          /\ t.value.other \notin Uncertified[t.section]

\* normalizeSecrets and the checks of telegram, email and tls
Accepted(t) ==
  t.section \in SecretSection =>
    /\ t.input = "preserve" => t.configured
    /\ t.value.enabled => WillConfigure(t) /\ t.value.other \notin Uncertified[t.section]

\* Mutant: a new secret is not a change.
ChangedFieldsOpen(t) == Changed(t.current, t.value)

ChangedFields(t) ==
  Changed(t.current, t.value) \cup (IF t.input = "preserve" THEN {} ELSE {"secret"})

Saved(t) == [stage |-> "save", section |-> t.section, value |-> t.value, input |-> t.input,
             changed |-> ChangedFields(t), current |-> t.current, configured |-> t.configured]

\* An update that changes nothing is answered without a save.
Validate(r) ==
  /\ In(r, "read") /\ {"current", "configured"} \subseteq DOMAIN reqs[r]
  /\ LET t == reqs[r] IN
     IF ~Accepted(t) \/ ChangedFields(t) = {} THEN End(r)
     ELSE Go(r, Saved(t))
  /\ UNCHANGED Tables

\* What the transaction writes, `found' being the row its select returned.
Write(r, found) ==
  LET t == reqs[r]
      s == t.section
      version == IF found = None THEN 1 ELSE found.version + 1
  IN /\ version <= MaxVersion
     /\ rows' = [rows EXCEPT ![s] = [value |-> t.value, version |-> version]]
     /\ secrets' = IF t.input = "set" THEN secrets \cup {s}
                   ELSE IF t.input = "clear" THEN secrets \ {s} ELSE secrets
     /\ history' = [history EXCEPT ![s] =
          [before |-> Before(found), changed |-> t.changed, found |-> found # None,
           staleRow |-> t.current # Parsed(found), staleSecret |-> t.configured # (s \in secrets)]]
     /\ End(r)

Locks(s) == rows[s] # None

\* The select finds the row and locks it up to the commit, or finds none and
\* locks nothing.
Save(r) ==
  /\ In(r, "save")
  /\ IF Locks(reqs[r].section) THEN Write(r, rows[reqs[r].section])
     ELSE /\ LET t == reqs[r] IN
             Go(r, [f \in DOMAIN t \cup {"found"} |->
                      IF f = "found" THEN rows[t.section] ELSE IF f = "stage" THEN "insert" ELSE t[f]])
          /\ UNCHANGED Tables

\* INSERT ... ON CONFLICT DO UPDATE
Insert(r) == In(r, "insert") /\ Write(r, reqs[r].found)

\* An error or a restart of the API.
CutOff(r) == r \in DOMAIN reqs /\ End(r) /\ UNCHANGED Tables

-----------------------------------------------------------------------------
Init ==
  /\ rows = [s \in Section |-> None] /\ secrets = {}
  /\ history = [s \in Section |-> None] /\ reqs = [r \in {} |-> {}]

Next == \E r \in Request :
  \/ Patch(r) \/ Reset(r) \/ ReadRow(r) \/ ReadSecrets(r) \/ Validate(r) \/ Save(r) \/ Insert(r) \/ CutOff(r)

Spec == Init /\ [][Next]_vars

-----------------------------------------------------------------------------
(* What the page shows, as of one moment *)

\* publicValue: a secret is shown as the sentinel, or as nothing.
PublicSecret(s) == IF s \in SecretSection /\ s \notin secrets THEN "clear" ELSE "preserve"

\* envelope
Envelope(s) ==
  [value |-> Parsed(rows[s]), input |-> PublicSecret(s),
   version |-> IF rows[s] = None THEN 1 ELSE rows[s].version]

Snapshot == [s \in Section |-> Envelope(s)]

\* An update with what the page shows of a section, nothing else coming between.
Resubmitted(s) ==
  [section |-> s, value |-> Snapshot[s].value, input |-> Snapshot[s].input,
   current |-> Parsed(rows[s]), configured |-> s \in secrets]

-----------------------------------------------------------------------------
(* Properties *)

Entry == [before : Document \cup {None}, changed : (SUBSET Field) \ {{}}, found : BOOLEAN,
          staleRow : BOOLEAN, staleSecret : BOOLEAN]

\* The shape of the state.  A section has a history once it was saved.
TypeOK ==
  /\ rows \in [Section -> Row \cup {None}] /\ secrets \subseteq SecretSection
  /\ history \in [Section -> Entry \cup {None}]
  /\ \A s \in Section : IF rows[s] = None THEN history[s] = None ELSE history[s] \in Entry
  /\ \A r \in DOMAIN reqs :
       /\ r \in Request /\ reqs[r].section \in Section
       /\ reqs[r].value \in Document /\ reqs[r].input \in SecretInput
       /\ reqs[r].stage \in {"read", "save", "insert"}
       /\ reqs[r].stage # "read" => reqs[r].changed \in (SUBSET Field) \ {{}}

\* A section that is enabled without its secret was last saved by an update
\* that had looked for the secrets before another one changed them: the
\* checks of the updates are sound one at a time.  What is checked within the
\* document itself, as the certificate of tls, holds however they overlap.
UnbackedIsExplained == \A s \in SecretSection :
  rows[s] # None /\ rows[s].value.enabled =>
    /\ s \notin secrets => history[s].staleSecret
    /\ rows[s].value.other \notin Uncertified[s]

\* Saving the page as it is shown changes no field of the document and takes no
\* secret away; it is refused only where updates that overlapped have left the
\* section enabled without its secret.
PageRoundTrips == \A s \in Section :
  LET t == Resubmitted(s) IN
  /\ Changed(t.current, t.value) = {}
  /\ s \in SecretSection => (WillConfigure(t) <=> s \in secrets)
  /\ ~Accepted(t) => rows[s] # None /\ history[s].staleSecret

Complete(s) ==
  rows[s] # None /\ rows'[s] # rows[s] /\ history'[s].found /\ ~history'[s].staleRow
  => /\ Changed(rows[s].value, rows'[s].value) \subseteq history'[s].changed
     /\ (s \in secrets) # (s \in secrets') => "secret" \in history'[s].changed

\* The history names every field that a save changed, if the document it
\* locked is the one its update had compared with.
HistoryIsComplete == [][\A s \in Section : Complete(s)]_vars

Overwritten(s) ==
  rows[s] # None /\ rows'[s] # rows[s] /\ history'[s].found
  => /\ rows'[s].version = rows[s].version + 1
     /\ history'[s].before = rows[s].value

\* Saves that overlap are counted: one that found the document goes one version
\* above the document it overwrites.
FoundIsOverwritten == [][\A s \in Section : Overwritten(s)]_vars
=============================================================================
