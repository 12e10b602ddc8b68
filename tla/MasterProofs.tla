---------------------------- MODULE MasterProofs -----------------------------
(***************************************************************************)
(* The master itself.  What overlapping updates of its settings leave, for any *)
(* sections, values and requests; and what overlapping, stopped and repeated *)
(* installers leave of its database, its disk and its containers, for any  *)
(* shells and releases.                                                    *)
(***************************************************************************)
EXTENDS Settings, Deployment, WellFoundedInduction, TLAPS

-----------------------------------------------------------------------------
(* The inductive invariant: an update that saves was accepted, and inserts  *)
(* only if it found no document.                                            *)

\* What every update carries.
Begun(t) ==
  /\ {"stage", "section", "value", "input"} \subseteq DOMAIN t
  /\ t.section \in Section /\ t.value \in Document /\ t.input \in SecretInput
  /\ t.section \notin SecretSection => t.input = "preserve"

HasRead(t) ==
  /\ "current" \in DOMAIN t => t.current \in Document
  /\ "configured" \in DOMAIN t => t.configured \in BOOLEAN

Checked(t) ==
  /\ {"changed", "current", "configured"} \subseteq DOMAIN t
  /\ Accepted(t)
  /\ t.changed = ChangedFields(t) /\ t.changed # {}

ReqShape(t) ==
  /\ Begun(t) /\ HasRead(t)
  /\ t.stage \in {"read", "save", "insert"}
  /\ t.stage # "read" => Checked(t)
  /\ t.stage = "insert" => t.found = None

Requests == \A r \in DOMAIN reqs : r \in Request /\ ReqShape(reqs[r])

IInv == TypeOK /\ Requests /\ UnbackedIsExplained

\* A step that leaves the tables alone.
Still == UNCHANGED <<rows, secrets, history>>

-----------------------------------------------------------------------------
(* The fields of a change that is saved.                                    *)
LEMMA ChangedType ==
  ASSUME NEW t, Checked(t)
  PROVE  t.changed \in (SUBSET Field) \ {{}}
BY DEF Checked, ChangedFields, Changed, Field

LEMMA RequestsType ==
  ASSUME NEW q \in DOMAIN reqs, Requests
  PROVE  /\ q \in Request /\ reqs[q].section \in Section
         /\ reqs[q].value \in Document /\ reqs[q].input \in SecretInput
         /\ reqs[q].stage \in {"read", "save", "insert"}
         /\ reqs[q].stage # "read" => reqs[q].changed \in (SUBSET Field) \ {{}}
BY ChangedType DEF Requests, ReqShape, Begun

(* A step forward of one update leaves the others as they are.              *)
LEMMA GoRequests ==
  ASSUME Requests, NEW r \in Request, NEW t, Go(r, t), ReqShape(t)
  PROVE  Requests'
<1>1. \A q \in DOMAIN reqs' : q \in Request /\ ReqShape(reqs'[q])
  BY DEF Requests, Go
<1> QED BY <1>1 DEF Requests

LEMMA EndRequests ==
  ASSUME Requests, NEW r, End(r)
  PROVE  Requests'
<1>1. \A q \in DOMAIN reqs' : q \in Request /\ ReqShape(reqs'[q])
  BY DEF Requests, End
<1> QED BY <1>1 DEF Requests

(* While the tables are left alone, the requests are all there is to show.  *)
LEMMA StillIInv ==
  ASSUME IInv, Requests', Still
  PROVE  IInv'
<1>1. \A q \in DOMAIN reqs' :
         /\ q \in Request /\ reqs'[q].section \in Section
         /\ reqs'[q].value \in Document /\ reqs'[q].input \in SecretInput
         /\ reqs'[q].stage \in {"read", "save", "insert"}
         /\ reqs'[q].stage # "read" => reqs'[q].changed \in (SUBSET Field) \ {{}}
  BY ChangedType DEF Requests, ReqShape, Begun
<1> QED BY <1>1 DEF IInv, TypeOK, UnbackedIsExplained, Still

LEMMA InitIInv == Init => IInv
<1> SUFFICES ASSUME Init PROVE IInv
  OBVIOUS
<1>1. DOMAIN reqs = {} /\ secrets = {}
  BY DEF Init
<1>2. rows = [s \in Section |-> None] /\ history = [s \in Section |-> None]
  BY DEF Init
<1>3. TypeOK
  BY <1>1, <1>2 DEF TypeOK
<1>4. Requests
  BY <1>1 DEF Requests
<1>5. UnbackedIsExplained
  BY <1>2, SettingsAssumption DEF UnbackedIsExplained
<1> QED BY <1>3, <1>4, <1>5 DEF IInv

-----------------------------------------------------------------------------
(* PATCH or reset: the values are parsed before anything is read.           *)
LEMMA BeginRequests ==
  ASSUME Requests, NEW r \in Request, NEW s \in Section, NEW value \in Document, NEW input \in SecretInput,
         s \notin SecretSection => input = "preserve",
         Begin(r, s, value, input)
  PROVE  Requests' /\ Still
<1> DEFINE t == [stage |-> "read", section |-> s, value |-> value, input |-> input]
<1>1. ReqShape(t)
  BY DEF ReqShape, Begun, HasRead
<1>2. Go(r, t) /\ Still
  BY DEF Begin, Still, Tables
<1> HIDE DEF t
<1> QED BY <1>1, <1>2, GoRequests

LEMMA ParsedType ==
  ASSUME TypeOK, NEW s \in Section
  PROVE  Parsed(rows[s]) \in Document
BY SettingsAssumption DEF TypeOK, Parsed, defaultSettings, Document, Row

LEMMA ReadRowRequests ==
  ASSUME IInv, NEW r \in Request, ReadRow(r)
  PROVE  Requests' /\ Still
<1> DEFINE b == reqs[r]
           t == [f \in DOMAIN b \cup {"current"} |-> IF f = "current" THEN Parsed(rows[b.section]) ELSE b[f]]
<1>1. r \in DOMAIN reqs /\ b.stage = "read" /\ ReqShape(b)
  BY DEF ReadRow, In, IInv, Requests
<1>2. Parsed(rows[b.section]) \in Document
  BY <1>1, ParsedType DEF IInv, ReqShape, Begun
<1>3. ReqShape(t)
  BY <1>1, <1>2 DEF ReqShape, Begun, HasRead
<1>4. Go(r, t) /\ Still
  BY DEF ReadRow, Still, Tables
<1> HIDE DEF t
<1> QED BY <1>3, <1>4, GoRequests DEF IInv

LEMMA ReadSecretsRequests ==
  ASSUME IInv, NEW r \in Request, ReadSecrets(r)
  PROVE  Requests' /\ Still
<1> DEFINE b == reqs[r]
           t == [f \in DOMAIN b \cup {"configured"} |-> IF f = "configured" THEN b.section \in secrets ELSE b[f]]
<1>1. r \in DOMAIN reqs /\ b.stage = "read" /\ ReqShape(b)
  BY DEF ReadSecrets, In, IInv, Requests
<1>2. ReqShape(t)
  BY <1>1 DEF ReqShape, Begun, HasRead
<1>3. Go(r, t) /\ Still
  BY DEF ReadSecrets, Still, Tables
<1> HIDE DEF t
<1> QED BY <1>2, <1>3, GoRequests DEF IInv

LEMMA ValidateRequests ==
  ASSUME IInv, NEW r \in Request, Validate(r)
  PROVE  Requests' /\ Still
<1> DEFINE b == reqs[r]
           t == Saved(b)
<1>1. /\ r \in DOMAIN reqs /\ ReqShape(b)
      /\ "current" \in DOMAIN b /\ "configured" \in DOMAIN b
  BY DEF Validate, In, IInv, Requests
<1>2. Still
  BY DEF Validate, Still, Tables
<1>3. CASE End(r)
  BY <1>2, <1>3, EndRequests DEF IInv
<1>4. CASE Go(r, t) /\ Accepted(b) /\ ChangedFields(b) # {}
  <2>1. /\ Begun(t) /\ HasRead(t) /\ t.stage = "save"
        /\ {"changed", "current", "configured"} \subseteq DOMAIN t
    BY <1>1 DEF Saved, ReqShape, Begun, HasRead
  <2>2. Accepted(t)
    BY <1>4 DEF Accepted, WillConfigure, Saved
  <2>3. t.changed = ChangedFields(t) /\ t.changed # {}
    BY <1>4 DEF ChangedFields, Saved
  <2>4. ReqShape(t)
    BY <2>1, <2>2, <2>3 DEF ReqShape, Checked
  <2> HIDE DEF t
  <2> QED BY <1>2, <1>4, <2>4, GoRequests DEF IInv
<1> QED BY <1>3, <1>4 DEF Validate

-----------------------------------------------------------------------------
(* The two ways a save leaves the document of a section: over the document  *)
(* it found, or over whatever there is when it found none.                  *)
LEMMA WriteEffect ==
  ASSUME IInv, NEW r \in Request, r \in DOMAIN reqs, reqs[r].stage # "read",
         NEW found, found = None \/ found = rows[reqs[r].section],
         Write(r, found)
  PROVE  /\ IInv'
         /\ \A s \in Section : Complete(s) /\ Overwritten(s)
<1> DEFINE t == reqs[r]
           w == t.section
           version == IF found = None THEN 1 ELSE found.version + 1
           row == [value |-> t.value, version |-> version]
           entry == [before |-> Before(found), changed |-> t.changed, found |-> found # None,
                     staleRow |-> t.current # Parsed(found), staleSecret |-> t.configured # (w \in secrets)]
<1>1. Begun(t) /\ HasRead(t) /\ Checked(t)
  BY DEF IInv, Requests, ReqShape
<1>2. w \in Section /\ t.value \in Document /\ t.input \in SecretInput /\ t.configured \in BOOLEAN
      /\ (w \notin SecretSection => t.input = "preserve")
  BY <1>1 DEF Begun, HasRead, Checked
<1>3. rows \in [Section -> Row \cup {None}] /\ history \in [Section -> Entry \cup {None}]
      /\ secrets \subseteq SecretSection
  BY DEF IInv, TypeOK
<1>4. found # None => found \in Row /\ found = rows[w]
  BY <1>2, <1>3
<1>5. /\ version <= MaxVersion
      /\ rows' = [rows EXCEPT ![w] = row]
      /\ secrets' = IF t.input = "set" THEN secrets \cup {w}
                    ELSE IF t.input = "clear" THEN secrets \ {w} ELSE secrets
      /\ history' = [history EXCEPT ![w] = entry]
      /\ End(r)
  BY DEF Write
<1>6. row \in Row /\ row # None
  <2>1. version \in 1..MaxVersion
    BY <1>4, <1>5, SettingsAssumption DEF Row
  <2> QED BY <1>2, <2>1, SettingsAssumption DEF Row, Document
<1>7. entry \in Entry
  <2>1. Before(found) \in Document \cup {None}
    BY <1>4 DEF Before, Row
  <2>2. t.changed \in (SUBSET Field) \ {{}}
    BY <1>1, ChangedType
  <2> QED BY <2>1, <2>2 DEF Entry
<1>8. /\ rows'[w] = row /\ history'[w] = entry
      /\ \A s \in Section \ {w} : /\ rows'[s] = rows[s] /\ history'[s] = history[s]
                                  /\ s \in secrets' <=> s \in secrets
  BY <1>2, <1>3, <1>5
<1>9. /\ row.value = t.value /\ row.version = version
      /\ entry.before = Before(found) /\ entry.changed = t.changed /\ entry.found = (found # None)
      /\ entry.staleRow = (t.current # Parsed(found)) /\ entry.staleSecret = (t.configured # (w \in secrets))
  OBVIOUS
<1>10. Requests'
  BY <1>5, EndRequests DEF IInv
<1> HIDE DEF row, entry
<1>11. TypeOK'
  <2>1. rows' \in [Section -> Row \cup {None}] /\ history' \in [Section -> Entry \cup {None}]
    BY <1>2, <1>3, <1>5, <1>6, <1>7
  <2>2. secrets' \subseteq SecretSection
    BY <1>2, <1>3, <1>5
  <2>3. \A s \in Section : IF rows'[s] = None THEN history'[s] = None ELSE history'[s] \in Entry
    BY <1>6, <1>7, <1>8 DEF IInv, TypeOK
  <2>4. \A q \in DOMAIN reqs' :
          /\ q \in Request /\ reqs'[q].section \in Section
          /\ reqs'[q].value \in Document /\ reqs'[q].input \in SecretInput
          /\ reqs'[q].stage \in {"read", "save", "insert"}
          /\ reqs'[q].stage # "read" => reqs'[q].changed \in (SUBSET Field) \ {{}}
    BY <1>10, ChangedType DEF Requests, ReqShape, Begun
  <2> QED BY <2>1, <2>2, <2>3, <2>4 DEF TypeOK
<1>12. UnbackedIsExplained'
  <2> SUFFICES ASSUME NEW s \in SecretSection, rows'[s] # None, rows'[s].value.enabled
               PROVE  /\ s \notin secrets' => history'[s].staleSecret
                      /\ rows'[s].value.other \notin Uncertified[s]
    BY DEF UnbackedIsExplained
  <2>1. s \in Section
    BY SettingsAssumption
  <2>2. CASE s # w
    BY <1>8, <2>1, <2>2 DEF IInv, UnbackedIsExplained
  <2>3. CASE s = w
    <3>1. WillConfigure(t) /\ t.value.other \notin Uncertified[w]
      BY <1>1, <1>8, <1>9, <2>3 DEF Checked, Accepted
    <3>2. ASSUME s \notin secrets' PROVE t.input = "preserve" /\ t.configured /\ w \notin secrets
      BY <1>5, <2>3, <3>1, <3>2 DEF WillConfigure
    <3> QED BY <1>8, <1>9, <2>3, <3>1, <3>2
  <2> QED BY <2>2, <2>3
<1>13. ASSUME NEW s \in Section PROVE Complete(s) /\ Overwritten(s)
  <2>1. CASE s # w
    BY <1>8, <2>1 DEF Complete, Overwritten
  <2>2. CASE s = w /\ found = None
    BY <1>8, <1>9, <2>2 DEF Complete, Overwritten
  <2>3. CASE s = w /\ found # None
    <3>1. found = rows[s]
      BY <1>4, <2>3
    <3>2. Overwritten(s)
      BY <1>8, <1>9, <2>3, <3>1 DEF Overwritten, Before
    <3>3. t.current = Parsed(found) => Changed(rows[s].value, t.value) \subseteq t.changed
      BY <1>1, <2>3, <3>1 DEF Checked, ChangedFields, Parsed
    <3>4. (s \in secrets) # (s \in secrets') => "secret" \in t.changed
      BY <1>1, <1>5, <2>3 DEF Checked, ChangedFields
    <3>5. Complete(s)
      BY <1>8, <1>9, <2>3, <3>3, <3>4 DEF Complete
    <3> QED BY <3>2, <3>5
  <2> QED BY <2>1, <2>2, <2>3
<1> QED BY <1>10, <1>11, <1>12, <1>13 DEF IInv

LEMMA StillSteps ==
  ASSUME Still
  PROVE  \A s \in Section : Complete(s) /\ Overwritten(s)
BY DEF Still, Complete, Overwritten

LEMMA SaveEffect ==
  ASSUME IInv, NEW r \in Request, Save(r)
  PROVE  IInv' /\ \A s \in Section : Complete(s) /\ Overwritten(s)
<1> DEFINE b == reqs[r]
           t == [f \in DOMAIN b \cup {"found"} |->
                   IF f = "found" THEN rows[b.section] ELSE IF f = "stage" THEN "insert" ELSE b[f]]
<1>1. r \in DOMAIN reqs /\ b.stage = "save" /\ ReqShape(b)
  BY DEF Save, In, IInv, Requests
<1>2. CASE Locks(b.section)
  <2>1. Write(r, rows[b.section])
    BY <1>2 DEF Save
  <2> QED BY <1>1, <2>1, WriteEffect
<1>3. CASE ~Locks(b.section)
  <2>1. rows[b.section] = None
    BY <1>3 DEF Locks
  <2>2. /\ {"stage", "section", "value", "input", "changed", "current", "configured"} \subseteq DOMAIN t
        /\ t.section = b.section /\ t.value = b.value /\ t.input = b.input /\ t.changed = b.changed
        /\ t.current = b.current /\ t.configured = b.configured
        /\ t.stage = "insert" /\ t.found = None
    BY <1>1, <2>1 DEF ReqShape, Begun, Checked
  <2>3. Go(r, t) /\ Still
    BY <1>3 DEF Save, Still, Tables
  <2> HIDE DEF t
  <2>4. Begun(t) /\ HasRead(t)
    BY <1>1, <2>2 DEF ReqShape, Begun, HasRead, Checked
  <2>5. Accepted(t) /\ t.changed = ChangedFields(t) /\ t.changed # {}
    BY <1>1, <2>2 DEF ReqShape, Checked, Accepted, WillConfigure, ChangedFields
  <2>6. ReqShape(t)
    BY <2>2, <2>4, <2>5 DEF ReqShape, Checked
  <2> QED BY <2>3, <2>6, GoRequests, StillIInv, StillSteps DEF IInv
<1> QED BY <1>2, <1>3

LEMMA InsertEffect ==
  ASSUME IInv, NEW r \in Request, Insert(r)
  PROVE  IInv' /\ \A s \in Section : Complete(s) /\ Overwritten(s)
<1>1. r \in DOMAIN reqs /\ reqs[r].stage = "insert" /\ reqs[r].found = None
  BY DEF Insert, In, IInv, Requests, ReqShape
<1>2. Write(r, reqs[r].found)
  BY DEF Insert
<1> QED BY <1>1, <1>2, WriteEffect

LEMMA NextEffect ==
  ASSUME IInv, [Next]_vars
  PROVE  IInv' /\ \A s \in Section : Complete(s) /\ Overwritten(s)
<1>1. ASSUME Requests', Still
      PROVE  IInv' /\ \A s \in Section : Complete(s) /\ Overwritten(s)
  BY <1>1, StillIInv, StillSteps
<1>2. ASSUME NEW r \in Request, Patch(r) PROVE Requests' /\ Still
  <2>1. PICK s \in Section, value \in Document, input \in SecretInput :
          (s \notin SecretSection => input = "preserve") /\ Begin(r, s, value, input)
    BY <1>2 DEF Patch
  <2> QED BY <2>1, BeginRequests DEF IInv
<1>3. ASSUME NEW r \in Request, Reset(r) PROVE Requests' /\ Still
  <2> DEFINE input(s) == IF s \in SecretSection THEN "clear" ELSE "preserve"
  <2>1. PICK s \in Section : Begin(r, s, defaultSettings, input(s))
    BY <1>3 DEF Reset
  <2>2. defaultSettings \in Document
    BY SettingsAssumption DEF defaultSettings, Document
  <2>3. input(s) \in SecretInput /\ (s \notin SecretSection => input(s) = "preserve")
    BY DEF SecretInput
  <2> HIDE DEF input
  <2> QED BY <2>1, <2>2, <2>3, BeginRequests DEF IInv
<1>4. ASSUME NEW r \in Request, CutOff(r) PROVE Requests' /\ Still
  BY <1>4, EndRequests DEF CutOff, IInv, Still, Tables
<1>5. CASE UNCHANGED vars
  BY <1>1, <1>5 DEF vars, Still, IInv, Requests
<1> QED
  BY <1>1, <1>2, <1>3, <1>4, <1>5, ReadRowRequests, ReadSecretsRequests, ValidateRequests,
     SaveEffect, InsertEffect DEF Next

LEMMA InvariantHolds == Spec => []IInv
<1>1. IInv /\ [Next]_vars => IInv'
  BY NextEffect
<1> QED BY <1>1, InitIInv, PTL DEF Spec

-----------------------------------------------------------------------------
(* The tables and the updates are well formed: a section has a history      *)
(* exactly once it was saved, and every save changes something.             *)
THEOREM TypeCorrect == Spec => []TypeOK
<1>1. IInv => TypeOK
  BY DEF IInv
<1> QED BY <1>1, InvariantHolds, PTL

(* The checks of the updates (willConfigure) are sound one at a time: only  *)
(* an update that overlapped another leaves a section enabled without its   *)
(* secret.                                                                  *)
THEOREM UnbackedAlwaysExplained == Spec => []UnbackedIsExplained
<1>1. IInv => UnbackedIsExplained
  BY DEF IInv
<1> QED BY <1>1, InvariantHolds, PTL

(* A save of a document it found unchanged records every field it changes.  *)
THEOREM HistoryAlwaysComplete == Spec => HistoryIsComplete
<1>1. IInv /\ [Next]_vars => [\A s \in Section : Complete(s)]_vars
  BY NextEffect
<1> QED BY <1>1, InvariantHolds, PTL DEF Spec, HistoryIsComplete

(* A save that found the document counts one up from what it overwrites,    *)
(* and records it (the lock of the select in save).                         *)
THEOREM FoundAlwaysOverwritten == Spec => FoundIsOverwritten
<1>1. IInv /\ [Next]_vars => [\A s \in Section : Overwritten(s)]_vars
  BY NextEffect
<1> QED BY <1>1, InvariantHolds, PTL DEF Spec, FoundIsOverwritten

LEMMA InvariantRoundTrips == IInv => PageRoundTrips
<1> SUFFICES ASSUME IInv, NEW s \in Section
             PROVE  /\ Changed(Resubmitted(s).current, Resubmitted(s).value) = {}
                    /\ s \in SecretSection => (WillConfigure(Resubmitted(s)) <=> s \in secrets)
                    /\ ~Accepted(Resubmitted(s)) => rows[s] # None /\ history[s].staleSecret
  BY DEF PageRoundTrips
<1> DEFINE t == Resubmitted(s)
<1>1. /\ t.section = s /\ t.value = Parsed(rows[s]) /\ t.current = Parsed(rows[s])
      /\ t.input = PublicSecret(s) /\ t.configured = (s \in secrets)
  BY DEF Resubmitted, Snapshot, Envelope
<1> HIDE DEF t
<1>2. rows[s] = None => ~t.value.enabled
  BY <1>1 DEF Parsed, defaultSettings
<1>3. rows[s] # None => t.value = rows[s].value
  BY <1>1 DEF Parsed
<1>4. Changed(t.current, t.value) = {}
  <2>1. t.current # None
    <3>1. t.current \in Document
      BY <1>1, SettingsAssumption DEF IInv, TypeOK, Parsed, Row, Document, defaultSettings
    <3> QED BY <3>1, SettingsAssumption DEF Document
  <2> QED BY <1>1, <2>1 DEF Changed
<1>5. s \in SecretSection => (WillConfigure(t) <=> s \in secrets)
  BY <1>1 DEF WillConfigure, PublicSecret
<1>6. ~Accepted(t) => rows[s] # None /\ history[s].staleSecret
  BY <1>1, <1>2, <1>3, <1>5 DEF Accepted, PublicSecret, IInv, UnbackedIsExplained
<1> QED BY <1>4, <1>5, <1>6 DEF t

(* What the page shows of a section (snapshot, envelope, publicValue) can be *)
(* saved as it is, in every state that updates lead to: the sentinel keeps   *)
(* each secret, and only a section that updates left enabled without its     *)
(* secret is refused.                                                        *)
THEOREM PageAlwaysRoundTrips == Spec => []PageRoundTrips
BY InvariantRoundTrips, InvariantHolds, PTL

------------------------------------------------------------------------------
(* Deployment: the installers of the master, its migrations and its OWNER.  *)

Busy(i) == run[i].at # "idle"

\* Before compose.env is written.
Early == {"linked", "sourced"}

\* What install.sh has put on the disk by then.
Prepared(i) ==
  Busy(i) => /\ run[i].version \in Release /\ disk.current # 0
             /\ run[i].at # "linked" => run[i].image \in Release
             /\ run[i].at \notin Early => disk.compose # 0

\* The file a migration is at: the ones before it are applied.
FileNext(i) ==
  run[i].at \in {"execute", "insert"} =>
    /\ run[i].file \in Release
    /\ \A m \in Release : m < run[i].file => applied[m] = 1
    /\ run[i].at = "insert" => applied[run[i].file] = 0

Migrated == {"owner", "create", "up", "health", "node", "finish"}
SchemaReady(i) == run[i].at \in Migrated => \A m \in Files(run[i].image) : applied[m] = 1

\* The transactions that exclude each other.
OneWrites ==
  /\ \A i, j \in Installer :
       run[i].at = "insert" /\ run[j].at = "insert" /\ run[i].file = run[j].file => i = j
  /\ \A i, j \in Installer : run[i].at = "create" /\ run[j].at = "create" => i = j
  /\ \A i \in Installer : run[i].at = "create" => owners = 0

\* What rollback_release of an installer alone would put back.
Undoes(i) ==
  /\ \A j \in Installer : Busy(j) => j = i
  /\ run[i].target = run[i].before.current
  /\ disk.result = run[i].before.result /\ disk.cli = run[i].before.cli
  /\ IF run[i].at = "linked" THEN disk.compose = run[i].before.compose
     ELSE run[i].before.compose # 0 => run[i].image = run[i].before.compose
AloneUndoes(i) == Busy(i) /\ run[i].alone => Undoes(i)

DeployInv ==
  /\ DeployTypeOK /\ OneOwner /\ AppliedOnceInOrder /\ OneWrites
  /\ \A i \in Installer : Prepared(i) /\ FileNext(i) /\ SchemaReady(i) /\ AloneUndoes(i)

(* Every file without a row has a first one.                                *)
LEMMA FirstMissing ==
  ASSUME NEW S \in SUBSET Nat, S # {}
  PROVE  Min(S) \in S /\ \A m \in S : Min(S) <= m
<1>1. PICK least \in S : \A m \in S : ~(<<m, least>> \in OpToRel(<, Nat))
  BY NatLessThanWellFounded, WFMin
<1>2. ASSUME NEW m \in S PROVE least <= m
  <2>1. ~(<<m, least>> \in {p \in Nat \X Nat : p[1] < p[2]})
    BY <1>1 DEF OpToRel
  <2>2. least \in Nat /\ m \in Nat
    OBVIOUS
  <2>3. ~(m < least)
    BY <2>1, <2>2
  <2> QED BY <2>2, <2>3
<1> QED BY <1>2 DEF Min

(* A step of one shell.                                                     *)
LEMMA OneShell ==
  ASSUME DeployInv, NEW i \in Installer, NEW t \in Shell, run' = [run EXCEPT ![i] = t]
  PROVE  /\ run' \in [Installer -> Shell] /\ run'[i] = t
         /\ \A j \in Installer : j # i => run'[j] = run[j]
BY DEF DeployInv, DeployTypeOK

(* What a step keeps that changes neither the disk nor the database: the      *)
(* shell goes on, or ends.                                                  *)
LEMMA QuietKeeps ==
  ASSUME DeployInv, NEW i \in Installer, NEW t \in Shell, run' = [run EXCEPT ![i] = t],
         UNCHANGED <<disk, applied, owners>>, running' \in Versions,
         t.at # "idle" =>
           /\ run[i].at \notin Early \cup {"idle"} /\ t.at \notin Early
           /\ t.version = run[i].version /\ t.image = run[i].image /\ t.target = run[i].target
           /\ t.before = run[i].before /\ t.alone = run[i].alone,
         t.at \in {"execute", "insert"} =>
           /\ t.file \in Release
           /\ \A m \in Release : m < t.file => applied[m] = 1,
         t.at = "insert" =>
           applied[t.file] = 0 /\ \A j \in Installer : run[j].at = "insert" => run[j].file # t.file,
         t.at = "create" => owners = 0 /\ \A j \in Installer : run[j].at # "create",
         t.at \in Migrated => \A m \in Files(run[i].image) : applied[m] = 1
  PROVE  DeployInv'
<1>1. /\ run' \in [Installer -> Shell] /\ run'[i] = t
      /\ \A j \in Installer : j # i => run'[j] = run[j]
  BY OneShell
<1>2. DeployTypeOK' /\ OneOwner' /\ AppliedOnceInOrder'
  BY <1>1 DEF DeployInv, DeployTypeOK, OneOwner, AppliedOnceInOrder
<1>3. OneWrites'
  BY <1>1 DEF DeployInv, OneWrites, Early
<1>4. ASSUME NEW j \in Installer PROVE Prepared(j)' /\ FileNext(j)' /\ SchemaReady(j)'
  <2>1. CASE j = i
    <3>1. Prepared(j)'
      BY <1>1, <2>1 DEF DeployInv, Prepared, Busy, Early
    <3>2. FileNext(j)'
      BY <1>1, <2>1 DEF FileNext
    <3>3. SchemaReady(j)'
      <4>1. t.at \in Migrated => t.at # "idle"
        BY DEF Migrated
      <4> QED BY <1>1, <2>1, <4>1 DEF SchemaReady
    <3> QED BY <3>1, <3>2, <3>3
  <2>2. CASE j # i
    BY <1>1, <2>2 DEF DeployInv, Prepared, Busy, FileNext, SchemaReady
  <2> QED BY <2>1, <2>2
<1>5. ASSUME NEW j \in Installer PROVE AloneUndoes(j)'
  <2>1. \A k \in Installer : Busy(k)' => Busy(k)
    BY <1>1 DEF Busy
  <2>2. CASE j = i
    <3> SUFFICES ASSUME t.at # "idle", t.alone PROVE Undoes(i)'
      BY <1>1, <2>2 DEF AloneUndoes, Busy
    <3>1. Undoes(i)
      BY DEF DeployInv, AloneUndoes, Busy, Early
    <3> QED BY <1>1, <2>1, <3>1 DEF Undoes, Early
  <2>3. CASE j # i
    BY <1>1, <2>1, <2>3 DEF DeployInv, AloneUndoes, Undoes, Busy
  <2> QED BY <2>2, <2>3
<1> QED BY <1>2, <1>3, <1>4, <1>5 DEF DeployInv

LEMMA InitDeploy ==
  ASSUME DeployInit PROVE DeployInv
<1>1. /\ disk = [current |-> 0, compose |-> 0, result |-> 0, cli |-> FALSE]
      /\ \A m \in Release : applied[m] = 0
      /\ owners = 0 /\ \A i \in Installer : run[i].at = "idle"
  BY DEF DeployInit, Fresh, Absent
<1>2. DeployTypeOK
  <2>1. disk \in Disk /\ Fresh \in Disk /\ running \in Versions
    BY <1>1 DEF DeployInit, Disk, Versions, Fresh, Absent
  <2>2. run \in [Installer -> Shell]
    BY <2>1, LatestAssumption DEF DeployInit, Shell, Stage, Versions, Absent
  <2>3. applied \in [Release -> Nat]
    BY DEF DeployInit
  <2> QED BY <1>1, <2>1, <2>2, <2>3 DEF DeployTypeOK, Absent
<1>3. OneOwner /\ AppliedOnceInOrder /\ OneWrites
  BY <1>1 DEF OneOwner, AppliedOnceInOrder, OneWrites
<1>4. \A i \in Installer : Prepared(i) /\ FileNext(i) /\ SchemaReady(i) /\ AloneUndoes(i)
  BY <1>1 DEF Prepared, Busy, FileNext, SchemaReady, Migrated, AloneUndoes
<1> QED BY <1>2, <1>3, <1>4 DEF DeployInv

(* The end of a run.                                                        *)
LEMMA EndedIdle ==
  ASSUME DeployInv, NEW i \in Installer, NEW how \in {"installed", "restored", "failed"},
         run' = Ended(i, how)
  PROVE  \E t \in Shell : t.at = "idle" /\ t.told = how /\ run' = [run EXCEPT ![i] = t]
<1> DEFINE t == [at |-> "idle", version |-> 0, update |-> FALSE, target |-> 0, image |-> 0,
                 file |-> 0, told |-> how, before |-> Fresh, alone |-> TRUE]
<1>1. run[i] \in Shell /\ run \in [Installer -> Shell]
  BY DEF DeployInv, DeployTypeOK
<1>2. Fresh \in Disk
  BY DEF Disk, Versions, Fresh, Absent
<1>3. t \in Shell /\ t.at = "idle" /\ t.told = how
  BY <1>2, LatestAssumption DEF Shell, Stage, Versions, Absent
<1>4. run' = [run EXCEPT ![i] = t]
  BY DEF Ended, Absent
<1> HIDE DEF t
<1> QED BY <1>3, <1>4

\* The shell comes to a stage, and nothing else about its run is new.
Comes(i, at, file) ==
  \E t \in Shell :
    /\ run' = [run EXCEPT ![i] = t]
    /\ t.at = at /\ t.file = file /\ t.version = run[i].version /\ t.image = run[i].image
    /\ t.target = run[i].target /\ t.before = run[i].before /\ t.alone = run[i].alone

LEMMA StageComes ==
  ASSUME DeployInv, NEW i \in Installer, NEW at \in Stage, NEW file \in 0..Latest,
         run' = [run EXCEPT ![i].at = at, ![i].file = file]
  PROVE  Comes(i, at, file)
<1> DEFINE t == [run[i] EXCEPT !.at = at, !.file = file]
<1>1. run[i] \in Shell /\ run' = [run EXCEPT ![i] = t]
  BY DEF DeployInv, DeployTypeOK
<1>2. /\ t \in Shell
      /\ t.at = at /\ t.file = file /\ t.version = run[i].version /\ t.image = run[i].image
      /\ t.target = run[i].target /\ t.before = run[i].before /\ t.alone = run[i].alone
  BY <1>1 DEF Shell
<1> HIDE DEF t
<1> QED BY <1>1, <1>2 DEF Comes

LEMMA GoComes ==
  ASSUME DeployInv, NEW i \in Installer, NEW at \in Stage, Reach(i, at)
  PROVE  Comes(i, at, run[i].file)
<1> DEFINE t == [run[i] EXCEPT !.at = at]
<1>1. run[i] \in Shell /\ run' = [run EXCEPT ![i] = t]
  BY DEF DeployInv, DeployTypeOK, Reach
<1>2. /\ t \in Shell
      /\ t.at = at /\ t.file = run[i].file /\ t.version = run[i].version /\ t.image = run[i].image
      /\ t.target = run[i].target /\ t.before = run[i].before /\ t.alone = run[i].alone
  BY <1>1 DEF Shell
<1> HIDE DEF t
<1> QED BY <1>1, <1>2 DEF Comes

(* Steps of the installer and of the scripts that only decide.              *)
LEMMA QuietDeploy ==
  ASSUME DeployInv, NEW i \in Installer,
         \/ Die(i) \/ Backup(i) \/ Up(i) \/ Healthy(i) \/ NodeInstalled(i)
         \/ Select(i) \/ Execute(i) \/ ReadOwners(i)
  PROVE  DeployInv'
<1>1. /\ run[i] \in Shell /\ run[i].file \in 0..Latest /\ run[i].image \in Versions
      /\ running \in Versions /\ Latest \in Nat
      /\ applied \in [Release -> Nat] /\ \A m \in Release : applied[m] <= 1
      /\ FileNext(i) /\ SchemaReady(i)
  BY LatestAssumption DEF DeployInv, DeployTypeOK, Shell, AppliedOnceInOrder
<1>2. CASE Die(i)
  <2>1. run' = Ended(i, "failed") /\ UNCHANGED <<disk, applied, owners, running>>
    BY <1>2 DEF Die
  <2>2. PICK t \in Shell : t.at = "idle" /\ run' = [run EXCEPT ![i] = t]
    BY <1>1, <2>1, EndedIdle
  <2> QED BY <1>1, <2>1, <2>2, QuietKeeps DEF Migrated
<1>3. ASSUME NEW at \in Stage \ (Early \cup {"idle"}), NEW file, Comes(i, at, file),
             run[i].at \notin Early \cup {"idle"},
             UNCHANGED <<disk, applied, owners>>, running' \in Versions,
             at \in {"execute", "insert"} =>
               /\ file \in Release
               /\ \A m \in Release : m < file => applied[m] = 1,
             at = "insert" =>
               applied[file] = 0 /\ \A j \in Installer : run[j].at = "insert" => run[j].file # file,
             at = "create" => owners = 0 /\ \A j \in Installer : run[j].at # "create",
             at \in Migrated => \A m \in Files(run[i].image) : applied[m] = 1
      PROVE  DeployInv'
  <2>1. PICK t \in Shell :
          /\ run' = [run EXCEPT ![i] = t]
          /\ t.at = at /\ t.file = file /\ t.version = run[i].version /\ t.image = run[i].image
          /\ t.target = run[i].target /\ t.before = run[i].before /\ t.alone = run[i].alone
    BY <1>3 DEF Comes
  <2>2. t.at # "idle" =>
           /\ run[i].at \notin Early \cup {"idle"} /\ t.at \notin Early
           /\ t.version = run[i].version /\ t.image = run[i].image /\ t.target = run[i].target
           /\ t.before = run[i].before /\ t.alone = run[i].alone
    BY <1>3, <2>1
  <2>3. /\ t.at \in {"execute", "insert"} =>
             /\ t.file \in Release
             /\ \A m \in Release : m < t.file => applied[m] = 1
        /\ t.at = "insert" =>
             applied[t.file] = 0 /\ \A j \in Installer : run[j].at = "insert" => run[j].file # t.file
    BY <1>3, <2>1
  <2>4. /\ t.at = "create" => owners = 0 /\ \A j \in Installer : run[j].at # "create"
        /\ t.at \in Migrated => \A m \in Files(run[i].image) : applied[m] = 1
    BY <1>3, <2>1
  <2> QED BY <1>3, <2>1, <2>2, <2>3, <2>4, QuietKeeps
<1>4. CASE Backup(i)
  <2>1. Comes(i, "migrate", run[i].file)
    BY <1>4, GoComes DEF Backup, Stage
  <2> QED BY <1>1, <1>3, <1>4, <2>1 DEF Backup, At, Stage, Migrated, Early
<1>5. CASE Up(i)
  <2>1. Comes(i, "health", run[i].file)
    BY <1>5, GoComes DEF Up, Stage
  <2> QED BY <1>1, <1>3, <1>5, <2>1 DEF Early, Up, At, Stage, Migrated, SchemaReady
<1>6. CASE Healthy(i) \/ NodeInstalled(i)
  <2>1. PICK at \in {"finish", "node"} : Comes(i, at, run[i].file)
    <3>1. PICK at \in {"finish", "node"} : Reach(i, at)
      BY <1>6 DEF Healthy, NodeInstalled
    <3> QED BY <3>1, GoComes DEF Stage
  <2> QED BY <1>1, <1>3, <1>6, <2>1 DEF Early, Healthy, NodeInstalled, At, Stage, Migrated,
                                       SchemaReady
<1>7. CASE Select(i)
  <2> DEFINE S == Missing(i)
  <2>1. /\ run[i].at = "migrate" /\ UNCHANGED <<disk, applied, owners, running>>
        /\ run' = [run EXCEPT ![i].at = IF S # {} THEN "execute" ELSE IF run[i].update THEN "up" ELSE "owner",
                              ![i].file = IF S = {} THEN 0 ELSE Min(S)]
    BY <1>7 DEF Select, At
  <2>2. Files(run[i].image) \subseteq Release /\ Release \subseteq Nat
    BY <1>1 DEF Files, Release, Versions, Absent
  <2>3. S = {m \in Files(run[i].image) : applied[m] = 0}
    BY DEF Missing
  <2> HIDE DEF S
  <2>4. ASSUME NEW m \in Files(run[i].image), m \notin S PROVE applied[m] = 1
    <3>1. applied[m] \in Nat /\ applied[m] <= 1 /\ applied[m] # 0
      BY <1>1, <2>2, <2>3, <2>4
    <3> QED BY <3>1
  <2>5. CASE S = {}
    <3>1. PICK at \in {"up", "owner"} : run' = [run EXCEPT ![i].at = at, ![i].file = 0]
      BY <2>1, <2>5
    <3>2. Comes(i, at, 0)
      <4>1. at \in Stage /\ 0 \in 0..Latest
        BY <1>1 DEF Stage
      <4> QED BY <3>1, <4>1, StageComes
    <3> QED BY <1>1, <1>3, <2>1, <2>4, <2>5, <3>2 DEF Early, Stage
  <2>6. CASE S # {}
    <3> DEFINE f == Min(S)
    <3>1. f \in S /\ \A m \in S : f <= m
      BY <2>2, <2>3, <2>6, FirstMissing
    <3>2. run' = [run EXCEPT ![i].at = "execute", ![i].file = f]
      BY <2>1, <2>6
    <3> HIDE DEF f
    <3>3. f \in Release /\ f \in 0..Latest /\ f \in Files(run[i].image)
      BY <2>2, <2>3, <3>1 DEF Release
    <3>4. ASSUME NEW m \in Release, m < f PROVE applied[m] = 1
      <4>1. m \in Files(run[i].image)
        BY <1>1, <3>3, <3>4 DEF Files, Release, Versions, Absent
      <4>2. m \notin S
        BY <2>2, <3>1, <3>3, <3>4
      <4> QED BY <2>4, <4>1, <4>2
    <3>5. Comes(i, "execute", f)
      BY <3>2, <3>3, StageComes DEF Stage
    <3> QED BY <1>1, <1>3, <2>1, <3>3, <3>4, <3>5 DEF Early, Stage, Migrated
  <2> QED BY <2>5, <2>6
<1>8. CASE Execute(i)
  <2>1. Comes(i, "insert", run[i].file)
    BY <1>8, GoComes DEF Execute, Stage
  <2> QED BY <1>1, <1>3, <1>8, <2>1 DEF Early, Execute, At, Stage, Migrated, FileNext
<1>9. CASE ReadOwners(i)
  <2>1. Comes(i, "create", run[i].file)
    BY <1>9, GoComes DEF ReadOwners, Stage
  <2> QED BY <1>1, <1>3, <1>9, <2>1 DEF Early, ReadOwners, At, Stage, Migrated, SchemaReady
<1> QED BY <1>2, <1>4, <1>5, <1>6, <1>7, <1>8, <1>9

(* Insert: the row of the file.                                             *)
LEMMA InsertDeploy ==
  ASSUME DeployInv, NEW i \in Installer, InsertRow(i)
  PROVE  DeployInv'
<1> DEFINE f == run[i].file
<1>1. /\ run[i].at = "insert" /\ applied' = [applied EXCEPT ![f] = @ + 1]
      /\ Reach(i, "migrate") /\ UNCHANGED <<disk, owners, running>>
  BY DEF InsertRow, At
<1>2. /\ f \in Release /\ applied[f] = 0 /\ \A m \in Release : m < f => applied[m] = 1
      /\ applied \in [Release -> Nat] /\ Release \subseteq Int
  BY <1>1 DEF DeployInv, FileNext, DeployTypeOK, Release
<1> HIDE DEF f
<1>3. /\ applied' \in [Release -> Nat] /\ applied'[f] = 1
      /\ \A m \in Release : m # f => applied'[m] = applied[m]
  BY <1>1, <1>2
<1>4. PICK t \in Shell :
        /\ run' = [run EXCEPT ![i] = t] /\ t.at = "migrate"
        /\ t.version = run[i].version /\ t.image = run[i].image
        /\ t.target = run[i].target /\ t.before = run[i].before /\ t.alone = run[i].alone
  BY <1>1, GoComes DEF Comes, Stage
<1>5. /\ run' \in [Installer -> Shell] /\ run'[i] = t
      /\ \A j \in Installer : j # i => run'[j] = run[j]
  BY <1>4, OneShell
<1>6. DeployTypeOK' /\ OneOwner'
  BY <1>1, <1>3, <1>5 DEF DeployInv, DeployTypeOK, OneOwner
<1>7. AppliedOnceInOrder'
  <2>1. \A m \in Release : applied[m] \in Nat /\ applied[m] <= 1
    BY <1>2 DEF DeployInv, AppliedOnceInOrder
  <2>2. ASSUME NEW m \in Release, NEW n \in Release, m <= n PROVE applied'[n] <= applied'[m]
    <3>1. applied[n] <= applied[m]
      BY <2>2 DEF DeployInv, AppliedOnceInOrder
    <3>2. CASE n = f
      BY <1>2, <1>3, <2>2, <3>2
    <3>3. CASE n # f
      BY <1>2, <1>3, <2>1, <3>1, <3>3
    <3> QED BY <3>2, <3>3
  <2> QED BY <1>3, <2>1, <2>2 DEF AppliedOnceInOrder
<1>8. OneWrites'
  BY <1>1, <1>4, <1>5 DEF DeployInv, OneWrites
<1>9. ASSUME NEW j \in Installer PROVE Prepared(j)' /\ AloneUndoes(j)'
  <2>1. \A k \in Installer : Busy(k)' <=> Busy(k)
    BY <1>1, <1>4, <1>5 DEF Busy
  <2>2. Prepared(j)'
    BY <1>1, <1>4, <1>5 DEF Early, DeployInv, Prepared, Busy
  <2>3. AloneUndoes(j)'
    BY <1>1, <1>4, <1>5, <2>1 DEF DeployInv, AloneUndoes, Undoes
  <2> QED BY <2>2, <2>3
<1>10. ASSUME NEW j \in Installer PROVE FileNext(j)' /\ SchemaReady(j)'
  <2>1. CASE j = i
    BY <1>4, <1>5, <2>1 DEF FileNext, SchemaReady, Migrated
  <2>2. CASE j # i
    <3>1. run'[j] = run[j] /\ FileNext(j) /\ SchemaReady(j)
      BY <1>5, <2>2 DEF DeployInv
    <3>2. run[j].at = "insert" => run[j].file # f
      BY <1>1, <2>2 DEF DeployInv, OneWrites, f
    <3>3. FileNext(j)'
      BY <1>2, <1>3, <3>1, <3>2 DEF FileNext
    <3>4. \A m \in Files(run[j].image) : m \in Release
      <4>1. run[j].image \in Versions
        BY DEF DeployInv, DeployTypeOK, Shell
      <4> QED BY <4>1, LatestAssumption DEF Files, Release, Versions, Absent
    <3>5. SchemaReady(j)'
      BY <1>3, <3>1, <3>4 DEF SchemaReady, Files
    <3> QED BY <3>3, <3>5
  <2> QED BY <2>1, <2>2
<1> QED BY <1>6, <1>7, <1>8, <1>9, <1>10 DEF DeployInv

(* CreateOwner: under the lock, the count is still true.                    *)
LEMMA CreateOwnerDeploy ==
  ASSUME DeployInv, NEW i \in Installer, CreateOwner(i)
  PROVE  DeployInv'
<1>1. run[i].at = "create" /\ owners' = owners + 1 /\ Reach(i, "up") /\ UNCHANGED <<disk, applied, running>>
  BY DEF CreateOwner, At
<1>2. owners = 0 /\ \A j \in Installer : run[j].at = "create" => j = i
  BY <1>1 DEF DeployInv, OneWrites
<1>3. PICK t \in Shell :
        /\ run' = [run EXCEPT ![i] = t] /\ t.at = "up"
        /\ t.version = run[i].version /\ t.image = run[i].image
        /\ t.target = run[i].target /\ t.before = run[i].before /\ t.alone = run[i].alone
  BY <1>1, GoComes DEF Comes, Stage
<1>4. /\ run' \in [Installer -> Shell] /\ run'[i] = t
      /\ \A j \in Installer : j # i => run'[j] = run[j]
  BY <1>3, OneShell
<1>5. DeployTypeOK' /\ OneOwner' /\ AppliedOnceInOrder'
  BY <1>1, <1>2, <1>4 DEF DeployInv, DeployTypeOK, OneOwner, AppliedOnceInOrder
<1>6. OneWrites'
  BY <1>2, <1>3, <1>4 DEF DeployInv, OneWrites
<1>7. ASSUME NEW j \in Installer PROVE Prepared(j)' /\ FileNext(j)' /\ SchemaReady(j)' /\ AloneUndoes(j)'
  <2>1. \A k \in Installer : Busy(k)' <=> Busy(k)
    BY <1>1, <1>3, <1>4 DEF Busy
  <2>2. Prepared(j)'
    BY <1>1, <1>3, <1>4 DEF Early, DeployInv, Prepared, Busy
  <2>3. FileNext(j)'
    BY <1>1, <1>3, <1>4 DEF DeployInv, FileNext
  <2>4. SchemaReady(j)'
    BY <1>1, <1>3, <1>4 DEF DeployInv, SchemaReady, Migrated
  <2>5. AloneUndoes(j)'
    BY <1>1, <1>3, <1>4, <2>1 DEF DeployInv, AloneUndoes, Undoes
  <2> QED BY <2>2, <2>3, <2>4, <2>5
<1> QED BY <1>5, <1>6, <1>7 DEF DeployInv

(* A step of one shell, busy until then, that writes the disk.               *)
LEMMA DiskKeeps ==
  ASSUME DeployInv, NEW i \in Installer, NEW t \in Shell, run' = [run EXCEPT ![i] = t],
         UNCHANGED <<applied, owners>>, running' \in Versions, Busy(i),
         disk' \in Disk, disk'.current # 0, disk.compose # 0 => disk'.compose # 0,
         disk'.result # 0 => disk'.compose # 0 /\ disk'.cli,
         t.at \in {"idle", "sourced", "written"},
         t.at = "written" => disk'.compose # 0,
         t.at # "idle" =>
           /\ t.version \in Release /\ t.image \in Release
           /\ run[i].alone = t.alone /\ run[i].before = t.before /\ run[i].target = t.target
           /\ disk'.result = disk.result /\ disk'.cli = disk.cli
           /\ t.alone /\ t.before.compose # 0 => t.image = t.before.compose
  PROVE  DeployInv'
<1>1. /\ run' \in [Installer -> Shell] /\ run'[i] = t
      /\ \A j \in Installer : j # i => run'[j] = run[j]
  BY OneShell
<1>2. DeployTypeOK' /\ OneOwner' /\ AppliedOnceInOrder'
  BY <1>1 DEF DeployInv, DeployTypeOK, OneOwner, AppliedOnceInOrder, Absent
<1>3. OneWrites'
  BY <1>1 DEF DeployInv, OneWrites
<1>4. ASSUME NEW j \in Installer PROVE Prepared(j)' /\ FileNext(j)' /\ SchemaReady(j)'
  <2>1. CASE j = i
    BY <1>1, <2>1 DEF Prepared, Busy, FileNext, SchemaReady, Migrated, Early
  <2>2. CASE j # i
    BY <1>1, <2>2 DEF DeployInv, Prepared, Busy, FileNext, SchemaReady
  <2> QED BY <2>1, <2>2
<1>5. ASSUME NEW j \in Installer PROVE AloneUndoes(j)'
  <2>1. \A k \in Installer : Busy(k)' => Busy(k)
    BY <1>1 DEF Busy
  <2>2. CASE j = i
    <3> SUFFICES ASSUME t.at # "idle", t.alone PROVE Undoes(i)'
      BY <1>1, <2>2 DEF AloneUndoes, Busy
    <3>1. Undoes(i)
      BY DEF DeployInv, AloneUndoes
    <3> QED BY <1>1, <2>1, <3>1 DEF Undoes
  <2>3. CASE j # i
    <3> SUFFICES ASSUME Busy(j), run[j].alone PROVE FALSE
      BY <1>1, <2>3 DEF AloneUndoes, Busy
    <3>1. Undoes(j)
      BY DEF DeployInv, AloneUndoes
    <3> QED BY <2>3, <3>1 DEF Undoes
  <2> QED BY <2>2, <2>3
<1> QED BY <1>2, <1>3, <1>4, <1>5 DEF DeployInv

(* What is known of a busy shell.                                           *)
LEMMA BusyShell ==
  ASSUME DeployInv, NEW i \in Installer, Busy(i)
  PROVE  /\ run[i] \in Shell /\ disk \in Disk /\ running \in Versions
         /\ run[i].version \in Release /\ disk.current # 0
         /\ run[i].at # "linked" => run[i].image \in Release
         /\ run[i].at \notin Early => disk.compose # 0
         /\ run[i].alone => Undoes(i)
         /\ disk.result # 0 => disk.compose # 0 /\ disk.cli
BY DEF DeployInv, DeployTypeOK, Absent, Prepared, AloneUndoes

LEMMA SourceEnvDeploy ==
  ASSUME DeployInv, NEW i \in Installer, SourceEnv(i)
  PROVE  DeployInv'
<1> DEFINE image == IF disk.compose = 0 THEN run[i].version ELSE disk.compose
<1> DEFINE t == [run[i] EXCEPT !.at = "sourced", !.image = image]
<1>1. run[i].at = "linked" /\ UNCHANGED <<disk, applied, owners, running>> /\ Busy(i)
  BY DEF SourceEnv, At, Busy
<1>2. /\ run[i] \in Shell /\ disk \in Disk /\ running \in Versions
      /\ run[i].version \in Release /\ disk.current # 0
      /\ run[i].alone => Undoes(i)
      /\ disk.result # 0 => disk.compose # 0 /\ disk.cli
  BY <1>1, BusyShell
<1>3. image \in Release /\ 0 \notin Release
  BY <1>2, LatestAssumption DEF Disk, Versions, Absent, Release
<1>4. run' = [run EXCEPT ![i] = t]
  BY DEF SourceEnv, Absent, DeployInv, DeployTypeOK
<1>5. run[i].alone /\ run[i].before.compose # 0 => image = run[i].before.compose
  BY <1>1, <1>2 DEF Undoes
<1> HIDE DEF image
<1>6. /\ t \in Shell /\ t.at = "sourced" /\ t.version = run[i].version /\ t.image = image
      /\ t.alone = run[i].alone /\ t.before = run[i].before /\ t.target = run[i].target
  BY <1>2, <1>3 DEF Shell, Stage, Versions
<1> HIDE DEF t
<1>7. /\ t.version \in Release /\ t.image \in Release
      /\ t.alone /\ t.before.compose # 0 => t.image = t.before.compose
  BY <1>2, <1>3, <1>5, <1>6
<1> QED BY <1>1, <1>2, <1>4, <1>6, <1>7, DiskKeeps

LEMMA WriteEnvDeploy ==
  ASSUME DeployInv, NEW i \in Installer, WriteEnv(i)
  PROVE  DeployInv'
<1> DEFINE t == [run[i] EXCEPT !.at = "written"]
<1>1. /\ run[i].at = "sourced" /\ disk' = [disk EXCEPT !.compose = run[i].version]
      /\ UNCHANGED <<applied, owners, running>> /\ Busy(i)
  BY DEF WriteEnv, At, Busy
<1>2. /\ run[i] \in Shell /\ disk \in Disk /\ running \in Versions
      /\ run[i].version \in Release /\ disk.current # 0 /\ run[i].image \in Release
      /\ run[i].alone => Undoes(i)
      /\ disk.result # 0 => disk.compose # 0 /\ disk.cli
  BY <1>1, BusyShell
<1>3. 0 \notin Release
  BY DEF Release
<1>4. run' = [run EXCEPT ![i] = t]
  BY DEF WriteEnv, Reach, DeployInv, DeployTypeOK
<1>5. run[i].alone /\ run[i].before.compose # 0 => run[i].image = run[i].before.compose
  BY <1>1, <1>2 DEF Undoes
<1>6. /\ t \in Shell /\ t.at = "written" /\ t.version = run[i].version /\ t.image = run[i].image
      /\ t.alone = run[i].alone /\ t.before = run[i].before /\ t.target = run[i].target
  BY <1>2 DEF Shell, Stage
<1> HIDE DEF t
<1>7. /\ disk' \in Disk /\ disk'.current # 0 /\ disk'.compose # 0
      /\ disk'.result = disk.result /\ disk'.cli = disk.cli
  BY <1>1, <1>2, <1>3 DEF Disk, Versions
<1>8. /\ t.version \in Release /\ t.image \in Release
      /\ t.alone /\ t.before.compose # 0 => t.image = t.before.compose
  BY <1>2, <1>5, <1>6
<1> QED BY <1>1, <1>2, <1>4, <1>6, <1>7, <1>8, DiskKeeps

LEMMA UnhealthyDeploy ==
  ASSUME DeployInv, NEW i \in Installer, Unhealthy(i)
  PROVE  DeployInv'
<1>1. /\ run[i].at = "health" /\ disk' = Restored(i) /\ UNCHANGED <<applied, owners>>
      /\ running' \in {running, run[i].image} /\ run' = Ended(i, "restored") /\ Busy(i)
  BY DEF Unhealthy, At, Busy
<1>2. /\ run[i] \in Shell /\ disk \in Disk /\ running \in Versions
      /\ disk.current # 0 /\ disk.compose # 0 /\ run[i].image \in Release
      /\ disk.result # 0 => disk.cli
  BY <1>1, BusyShell DEF Early
<1>3. PICK t \in Shell : t.at = "idle" /\ run' = [run EXCEPT ![i] = t]
  BY <1>1, EndedIdle, LatestAssumption
<1>4. run[i].target \in Versions /\ run[i].image # 0 /\ run[i].image \in Versions
  BY <1>2, LatestAssumption DEF Shell, Versions, Release
<1>5. /\ disk' \in Disk /\ disk'.current # 0 /\ disk'.compose # 0
      /\ disk'.result = disk.result /\ disk'.cli = disk.cli
  <2>1. CASE run[i].target = 0
    BY <1>1, <1>2, <2>1 DEF Restored, Absent
  <2>2. CASE run[i].target # 0
    <3>1. disk' = [disk EXCEPT !.current = run[i].target, !.compose = run[i].image]
      BY <1>1, <2>2 DEF Restored, Absent
    <3> QED BY <1>2, <1>4, <2>2, <3>1 DEF Disk
  <2> QED BY <2>1, <2>2
<1> QED BY <1>1, <1>2, <1>3, <1>4, <1>5, DiskKeeps

LEMMA FinishDeploy ==
  ASSUME DeployInv, NEW i \in Installer, Finish(i)
  PROVE  DeployInv'
<1>1. /\ run[i].at = "finish" /\ disk' = [disk EXCEPT !.cli = TRUE, !.result = run[i].version]
      /\ UNCHANGED <<applied, owners, running>> /\ run' = Ended(i, "installed") /\ Busy(i)
  BY DEF Finish, At, Busy
<1>2. /\ run[i] \in Shell /\ disk \in Disk /\ running \in Versions
      /\ disk.current # 0 /\ disk.compose # 0 /\ run[i].version \in Release
  BY <1>1, BusyShell DEF Early
<1>3. PICK t \in Shell : t.at = "idle" /\ run' = [run EXCEPT ![i] = t]
  BY <1>1, EndedIdle, LatestAssumption
<1>4. disk' \in Disk /\ disk'.current # 0 /\ disk'.compose # 0 /\ disk'.cli
  BY <1>1, <1>2 DEF Disk, Versions
<1> QED BY <1>1, <1>2, <1>3, <1>4, DiskKeeps

(* Link: alone only when every other shell was idle.                        *)
LEMMA LinkDeploy ==
  ASSUME DeployInv, NEW i \in Installer, NEW version \in Release,
         NEW update \in BOOLEAN, Link(i, version, update)
  PROVE  DeployInv'
<1> DEFINE alone == \A j \in Installer : run[j].at = "idle"
<1> DEFINE t == [at |-> "linked", version |-> version, update |-> update \/ disk.result # 0,
                 target |-> disk.current, image |-> 0, file |-> 0, told |-> "nothing",
                 before |-> disk, alone |-> alone]
<1>1. /\ disk' = [disk EXCEPT !.current = version] /\ UNCHANGED <<applied, owners, running>>
      /\ run' = [j \in Installer |-> IF j # i THEN [run[j] EXCEPT !.alone = FALSE] ELSE t]
  BY DEF Link, Idle, At, Absent
<1>2. /\ run \in [Installer -> Shell] /\ disk \in Disk
      /\ version # 0 /\ version \in Versions /\ Latest \in Nat
  BY LatestAssumption DEF DeployInv, DeployTypeOK, Versions, Release
<1>3. t \in Shell
  BY <1>2 DEF Shell, Stage, Disk, Versions, Absent
<1>4. /\ t.at = "linked" /\ t.version = version /\ t.target = disk.current /\ t.before = disk
      /\ t.alone = alone
  OBVIOUS
<1> HIDE DEF t, alone
<1>5. run'[i] = t
  BY <1>1
<1>6. ASSUME NEW j \in Installer, j # i
      PROVE  /\ run'[j] \in Shell /\ ~run'[j].alone
             /\ run'[j].at = run[j].at /\ run'[j].version = run[j].version
             /\ run'[j].image = run[j].image /\ run'[j].file = run[j].file
  <2>1. run'[j] = [run[j] EXCEPT !.alone = FALSE] /\ run[j] \in Shell
    BY <1>1, <1>2, <1>6
  <2> QED BY <2>1 DEF Shell
<1>7. run' \in [Installer -> Shell]
  <2>1. DOMAIN run' = Installer /\ run' = [j \in Installer |-> run'[j]]
    BY <1>1
  <2>2. \A j \in Installer : run'[j] \in Shell
    BY <1>3, <1>5, <1>6
  <2> QED BY <2>1, <2>2
<1>8. /\ disk' \in Disk /\ disk'.current # 0 /\ disk'.compose = disk.compose
      /\ disk'.result = disk.result /\ disk'.cli = disk.cli
  BY <1>1, <1>2 DEF Disk
<1>9. DeployTypeOK' /\ OneOwner' /\ AppliedOnceInOrder'
  BY <1>1, <1>7, <1>8 DEF DeployInv, DeployTypeOK, OneOwner, AppliedOnceInOrder, Absent
<1>10. OneWrites'
  <2>1. \A j \in Installer : run'[j].at \in {"insert", "create"} =>
           run'[j].at = run[j].at /\ run'[j].file = run[j].file
    BY <1>4, <1>5, <1>6
  <2> QED BY <1>1, <2>1 DEF DeployInv, OneWrites
<1>11. ASSUME NEW j \in Installer PROVE Prepared(j)' /\ FileNext(j)' /\ SchemaReady(j)' /\ AloneUndoes(j)'
  <2>1. CASE j = i
    <3>1. Prepared(j)' /\ FileNext(j)' /\ SchemaReady(j)'
      BY <1>4, <1>5, <1>8, <2>1 DEF Early, Prepared, FileNext, SchemaReady, Migrated, Busy
    <3>2. AloneUndoes(j)'
      <4> SUFFICES ASSUME alone PROVE Undoes(i)'
        BY <1>4, <1>5, <2>1 DEF AloneUndoes
      <4>1. \A k \in Installer : Busy(k)' => k = i
        BY <1>6 DEF Busy, alone
      <4> QED BY <1>4, <1>5, <1>8, <4>1 DEF Undoes
    <3> QED BY <3>1, <3>2
  <2>2. CASE j # i
    <3>1. Prepared(j) /\ FileNext(j) /\ SchemaReady(j)
      BY DEF DeployInv
    <3>2. Prepared(j)'
      BY <1>6, <1>8, <2>2, <3>1 DEF Prepared, Busy
    <3>3. FileNext(j)' /\ SchemaReady(j)'
      BY <1>1, <1>6, <2>2, <3>1 DEF FileNext, SchemaReady
    <3>4. AloneUndoes(j)'
      BY <1>6, <2>2 DEF AloneUndoes
    <3> QED BY <3>2, <3>3, <3>4
  <2> QED BY <2>1, <2>2
<1> QED BY <1>9, <1>10, <1>11 DEF DeployInv

LEMMA RecreateDeploy ==
  ASSUME DeployInv, Recreate
  PROVE  DeployInv'
<1>1. UNCHANGED <<disk, applied, owners, run>> /\ running' \in Versions
  BY DEF Recreate, DeployInv, DeployTypeOK, Disk
<1>2. DeployTypeOK' /\ OneOwner' /\ AppliedOnceInOrder' /\ OneWrites'
  BY <1>1 DEF DeployInv, DeployTypeOK, OneOwner, AppliedOnceInOrder, OneWrites
<1>3. \A i \in Installer : (Prepared(i) /\ FileNext(i) /\ SchemaReady(i) /\ AloneUndoes(i))'
  BY <1>1 DEF DeployInv, Prepared, FileNext, SchemaReady, AloneUndoes, Undoes, Busy
<1> QED BY <1>2, <1>3 DEF DeployInv

LEMMA NextDeploy ==
  ASSUME DeployInv, [DeployNext]_deployVars
  PROVE  DeployInv'
<1>1. CASE UNCHANGED deployVars
  <2>1. UNCHANGED <<disk, applied, owners, running, run>>
    BY <1>1 DEF deployVars
  <2>2. DeployTypeOK' /\ OneOwner' /\ AppliedOnceInOrder' /\ OneWrites'
    BY <2>1 DEF DeployInv, DeployTypeOK, OneOwner, AppliedOnceInOrder, OneWrites
  <2>3. \A i \in Installer : (Prepared(i) /\ FileNext(i) /\ SchemaReady(i) /\ AloneUndoes(i))'
    BY <2>1 DEF DeployInv, Prepared, FileNext, SchemaReady, AloneUndoes, Undoes, Busy
  <2> QED BY <2>2, <2>3 DEF DeployInv
<1>2. CASE Recreate
  BY <1>2, RecreateDeploy
<1>3. ASSUME NEW i \in Installer, Install(i) PROVE DeployInv'
  <2>1. CASE \E version \in Release, update \in BOOLEAN : Link(i, version, update)
    BY <2>1, LinkDeploy
  <2>2. CASE SourceEnv(i) \/ WriteEnv(i)
    BY <2>2, SourceEnvDeploy, WriteEnvDeploy
  <2>3. CASE Scripts(i)
    BY <2>3, QuietDeploy, InsertDeploy, CreateOwnerDeploy DEF Scripts
  <2>4. CASE Backup(i) \/ Up(i) \/ Healthy(i) \/ NodeInstalled(i) \/ Die(i)
    BY <2>4, QuietDeploy
  <2>5. CASE Unhealthy(i)
    BY <2>5, UnhealthyDeploy
  <2>6. CASE Finish(i)
    BY <2>6, FinishDeploy
  <2> QED BY <1>3, <2>1, <2>2, <2>3, <2>4, <2>5, <2>6 DEF Install
<1> QED BY <1>1, <1>2, <1>3 DEF DeployNext

(* DeployInv holds in every reachable state.                                *)
THEOREM DeployInvariant == DeploySpec => []DeployInv
<1>1. DeployInit => DeployInv
  BY InitDeploy
<1>2. DeployInv /\ [DeployNext]_deployVars => DeployInv'
  BY NextDeploy
<1> QED BY <1>1, <1>2, PTL DEF DeploySpec

(* The types of the disk, the database and the shells, and a disk that never *)
(* has compose.env without a release nor a result file without both.         *)
THEOREM MachineTypeCorrect == DeploySpec => []DeployTypeOK
<1>1. DeployInv => DeployTypeOK
  BY DEF DeployInv
<1> QED BY <1>1, DeployInvariant, PTL

(* bootstrapOwner counts under its advisory lock: one OWNER, however many    *)
(* installers bootstrap, and wherever they are stopped.                      *)
THEOREM OneOwnerAlways == DeploySpec => []OneOwner
<1>1. DeployInv => OneOwner
  BY DEF DeployInv
<1> QED BY <1>1, DeployInvariant, PTL

(* migrate.ts commits a file and its row together: no migration takes effect *)
(* twice, and none before the ones it is built on.                           *)
THEOREM AppliedAlwaysOnceInOrder == DeploySpec => []AppliedOnceInOrder
<1>1. DeployInv => AppliedOnceInOrder
  BY DEF DeployInv
<1> QED BY <1>1, DeployInvariant, PTL

(* A step that starts containers and moves a shell.                         *)
LEMMA StartsMigrated ==
  ASSUME DeployInv, DeployNext, NEW i \in Installer, run'[i] # run[i], running' # running
  PROVE  \A m \in Files(running') : applied[m] = 1
<1>1. PICK k \in Installer : Up(k) \/ Unhealthy(k)
  <2>1. ~Recreate
    BY DEF Recreate
  <2>2. PICK k \in Installer : Install(k)
    BY <2>1 DEF DeployNext
  <2> QED BY <2>2 DEF Install, Scripts, Link, SourceEnv, WriteEnv, Backup, Select,
                 Execute, InsertRow, ReadOwners, CreateOwner, Healthy,
                 NodeInstalled, Finish, Die
<1>2. run[k].at \in {"up", "health"} /\ running' = run[k].image
  BY <1>1 DEF Up, Unhealthy, At
<1>3. SchemaReady(k)
  BY DEF DeployInv
<1> QED BY <1>2, <1>3 DEF SchemaReady, Migrated

(* install.sh runs the migrations before "up -d", in the same image: the     *)
(* containers that an installer starts find every table they use.           *)
THEOREM SchemaAlwaysFirst == DeploySpec => SchemaFirst
<1> DEFINE A == \A i \in Installer : run'[i] # run[i] /\ running' # running =>
                  \A m \in Files(running') : applied[m] = 1
<1>1. DeployInv /\ [DeployNext]_deployVars => [A]_deployVars
  BY StartsMigrated
<1> QED BY <1>1, DeployInvariant, PTL DEF DeploySpec, SchemaFirst

(* A step that tells a shell "restored".                                    *)
LEMMA RestoresBefore ==
  ASSUME DeployInv, DeployNext, NEW i \in Installer,
         run'[i].told = "restored", run[i].told # "restored", run[i].alone,
         run[i].before.current # 0, run[i].before.compose # 0
  PROVE  disk' = run[i].before
<1>1. run \in [Installer -> Shell] /\ disk \in Disk /\ run[i].before \in Disk
  BY DEF DeployInv, DeployTypeOK, Shell
<1>2. ASSUME NEW k \in Installer, NEW t, run' = [run EXCEPT ![k] = t], t.told \in {run[k].told, "installed", "failed"}
      PROVE  FALSE
  <2>1. CASE k = i
    BY <1>1, <1>2, <2>1
  <2>2. CASE k # i
    BY <1>1, <1>2, <2>2
  <2> QED BY <2>1, <2>2
<1>3. PICK k \in Installer : Install(k)
  BY DEF DeployNext, Recreate
<1>4. ASSUME NEW at, Reach(k, at) PROVE FALSE
  <2>1. run' = [run EXCEPT ![k] = [run[k] EXCEPT !.at = at]]
    BY <1>1, <1>4 DEF Reach
  <2>2. [run[k] EXCEPT !.at = at].told = run[k].told
    BY <1>1 DEF Shell
  <2> QED BY <1>2, <2>1, <2>2
<1>5. CASE \E version \in Release, update \in BOOLEAN : Link(k, version, update)
  <2>1. PICK r, alone : run' = [j \in Installer |-> IF j # k THEN [run[j] EXCEPT !.alone = FALSE] ELSE r]
                   /\ r.told = "nothing"
    <3> DEFINE r(version, update) == [at |-> "linked", version |-> version, update |-> update \/ disk.result # 0,
                 target |-> disk.current, image |-> 0, file |-> 0, told |-> "nothing",
                 before |-> disk, alone |-> \A j \in Installer : run[j].at = "idle"]
    <3>1. PICK version \in Release, update \in BOOLEAN : Link(k, version, update)
      BY <1>5
    <3>2. run' = [j \in Installer |-> IF j # k THEN [run[j] EXCEPT !.alone = FALSE] ELSE r(version, update)]
      BY <3>1 DEF Link, Idle, At, Absent
    <3>3. r(version, update).told = "nothing"
      OBVIOUS
    <3> HIDE DEF r
    <3> QED BY <3>2, <3>3
  <2>2. i # k => run'[i].told = run[i].told
    <3> SUFFICES ASSUME i # k PROVE run'[i].told = run[i].told
      OBVIOUS
    <3>1. run'[i] = [run[i] EXCEPT !.alone = FALSE] /\ run[i] \in Shell
      BY <1>1, <2>1
    <3> QED BY <3>1 DEF Shell
  <2>3. i = k => run'[i].told = "nothing"
    BY <2>1
  <2> QED BY <2>2, <2>3
<1>6. CASE SourceEnv(k) \/ Select(k)
  <2>1. PICK t : run' = [run EXCEPT ![k] = t] /\ t.told = run[k].told
    <3>1. CASE SourceEnv(k)
      <4> DEFINE v == IF disk.compose = 0 THEN run[k].version ELSE disk.compose
      <4> DEFINE t == [run[k] EXCEPT !.at = "sourced", !.image = v]
      <4>1. run' = [run EXCEPT ![k] = t]
        BY <1>1, <3>1 DEF SourceEnv, Absent
      <4> HIDE DEF v
      <4>2. t.told = run[k].told
        BY <1>1 DEF Shell
      <4> HIDE DEF t
      <4> QED BY <4>1, <4>2
    <3>2. CASE Select(k)
      <4>1. PICK at, file : run' = [run EXCEPT ![k].at = at, ![k].file = file]
        BY <3>2 DEF Select
      <4> DEFINE t == [run[k] EXCEPT !.at = at, !.file = file]
      <4>2. run' = [run EXCEPT ![k] = t]
        BY <1>1, <4>1
      <4>3. t.told = run[k].told
        BY <1>1 DEF Shell
      <4> HIDE DEF t
      <4> QED BY <4>2, <4>3
    <3> QED BY <1>6, <3>1, <3>2
  <2> QED BY <1>2, <2>1
<1>7. CASE Finish(k) \/ Die(k)
  <2>1. PICK how \in {"installed", "failed"} : run' = Ended(k, how)
    BY <1>7 DEF Finish, Die
  <2>2. PICK t \in Shell : t.told = how /\ run' = [run EXCEPT ![k] = t]
    BY <2>1, EndedIdle, LatestAssumption
  <2> QED BY <1>2, <2>1, <2>2
<1>8. CASE Unhealthy(k)
  <2>1. /\ run[k].at = "health" /\ disk' = Restored(k) /\ run' = Ended(k, "restored")
    BY <1>8 DEF Unhealthy, At
  <2>2. PICK t \in Shell : run' = [run EXCEPT ![k] = t]
    BY <2>1, EndedIdle, LatestAssumption
  <2>3. k = i
    BY <1>1, <2>2
  <2>4. Undoes(i)
    BY <2>1, <2>3 DEF DeployInv, AloneUndoes, Busy
  <2>5. disk' = [disk EXCEPT !.current = run[i].before.current, !.compose = run[i].before.compose]
    BY <2>1, <2>3, <2>4 DEF Undoes, Restored, Absent
  <2> QED BY <1>1, <2>4, <2>5 DEF Undoes, Disk
<1>9. CASE WriteEnv(k) \/ Backup(k) \/ Execute(k) \/ InsertRow(k) \/ ReadOwners(k) \/ CreateOwner(k)
           \/ Up(k) \/ Healthy(k) \/ NodeInstalled(k)
  BY <1>4, <1>9 DEF WriteEnv, Backup, Execute, InsertRow, ReadOwners, CreateOwner, Up,
                    Healthy, NodeInstalled
<1> QED BY <1>3, <1>5, <1>6, <1>7, <1>8, <1>9 DEF Install, Scripts

(* rollback_release of an installer that had the machine to itself puts back *)
(* what it found: the pointer and the version in compose.env; the result     *)
(* file and the CLI it has not touched.                                      *)
THEOREM RestoredIsAlwaysBefore == DeploySpec => RestoredIsBefore
<1> DEFINE A == \A i \in Installer :
       (/\ run'[i].told = "restored" /\ run[i].told # "restored" /\ run[i].alone
        /\ run[i].before.current # Absent /\ run[i].before.compose # Absent)
       => disk' = run[i].before
<1>1. DeployInv /\ [DeployNext]_deployVars => [A]_deployVars
  BY RestoresBefore DEF Absent
<1> QED BY <1>1, DeployInvariant, PTL DEF DeploySpec, RestoredIsBefore

==============================================================================
