------------------------- MODULE EnrollmentLifecycle -------------------------
(***************************************************************************)
(* What the enrollment of a server promises, without requests, rows or     *)
(* locks: one outstanding join token at a time, an exchange that spends    *)
(* it and replaces the credential, and a status that follows the           *)
(* heartbeats of the newest credential only.  ServerEnrollment implements  *)
(* it, and so does NodeInstall, where several hosts run the command.       *)
(***************************************************************************)
EXTENDS Naturals

CONSTANTS Token, Credential

VARIABLES
  status,       \* lifecycle status of the server
  issued,       \* the join tokens generated so far
  outstanding,  \* the ones that can still be exchanged, but for their age
  minted,       \* the credentials generated so far
  holder,       \* the credential the master accepts
  heard         \* its heartbeats, counted up to two

vars == <<status, issued, outstanding, minted, holder, heard>>

Joinable == {"PENDING_INSTALL", "REGISTERED", "CONNECTING", "ERROR", "OFFLINE"}

Init ==
  /\ status = "ABSENT" /\ heard = 0
  /\ issued = {} /\ outstanding = {} /\ minted = {} /\ holder = {}

Create ==
  /\ status = "ABSENT" /\ status' = "PENDING_INSTALL"
  /\ UNCHANGED <<issued, outstanding, minted, holder, heard>>

\* A new token is the only outstanding one.
Issue ==
  /\ status \in Joinable
  /\ \E t \in Token \ issued : outstanding' = {t} /\ issued' = issued \cup {t}
  /\ UNCHANGED <<status, minted, holder, heard>>

\* The outstanding token buys a new credential, unheard so far.
Enroll ==
  /\ outstanding # {} /\ outstanding' = {}
  /\ \E c \in Credential \ minted : holder' = {c} /\ minted' = minted \cup {c}
  /\ status' = "REGISTERED" /\ heard' = 0
  /\ UNCHANGED issued

\* The first heartbeat connects, a later one reports a health.
Observe ==
  /\ holder # {}
  /\ status' \in IF heard = 0 THEN {"CONNECTING"} ELSE {"ONLINE", "ERROR"}
  /\ heard' = IF heard = 0 THEN 1 ELSE 2
  /\ UNCHANGED <<issued, outstanding, minted, holder>>

Next == Create \/ Issue \/ Enroll \/ Observe

Spec == Init /\ [][Next]_vars
=============================================================================
