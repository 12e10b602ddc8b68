------------------------------ MODULE NodeInstall ------------------------------
(***************************************************************************)
(* The way of a host into the panel: the install command that the servers  *)
(* page shows, the script node-install.sh, the systemd unit and the agent  *)
(* it starts, and the answers of the master to them.                       *)
(*                                                                         *)
(* One server of the panel, and the hosts on which the command is pasted.  *)
(* A run of the script is a process; each group of its commands that ends  *)
(* in something that lasts is one action.  The requests it makes are       *)
(* atomic here: ServerEnrollment has them lock by lock.                    *)
(***************************************************************************)
EXTENDS Naturals, Sequences

CONSTANTS
  Host,        \* machines, one of which is meant to be the server
  Run,         \* runs of node-install.sh
  Token,       \* join tokens, never generated twice
  Credential,  \* agent credentials, likewise
  None,        \* no credential
  Found,       \* by host: what it has of Xray before
  Polls        \* bound: how often a run asks for the status (24 in the script)

XrayFiles == [binary : BOOLEAN, file : {"none", "own", "default"}]

ASSUME NodeAssumption ==
  /\ None \notin Credential /\ Polls \in Nat \ {0}
  /\ Found \in [Host -> XrayFiles]

VARIABLES
  server,       \* servers.status, "ABSENT" before the row is there
  tokens,       \* the tokens issued: "outstanding", "expired", or "over" (used, revoked)
  agents,       \* the credentials that the master accepts
  minted,       \* the credentials generated so far
  maintenance,  \* settings: general.maintenanceMode
  runs,         \* the runs started
  env,          \* by host: the credential in /etc/nr-panel/agent.env
  agent,        \* by host: the credential the running container was given
  flight,       \* by host: the credential of the heartbeat on its way
  xray,         \* by host: the Xray binary, and its configuration file
  heard         \* history: the hosts of the first two heartbeats accepted

master == <<server, tokens, agents, minted, heard>>
node == <<env, agent, flight>>
nodeVars == <<master, maintenance, runs, node, xray>>

-----------------------------------------------------------------------------
Joinable == {"PENDING_INSTALL", "REGISTERED", "CONNECTING", "ERROR", "OFFLINE"}
Ended == {"connected", "dead"}
InstallRun ==
  [host : Host, token : Token, credential : Credential \cup {None}, asked : 0..Polls,
   stage : {"xray", "enroll", "store", "start", "poll"} \cup Ended]

RunAt(r, stage) == r \in DOMAIN runs /\ runs[r].stage = stage
RunGoto(r, stage) == runs' = [runs EXCEPT ![r].stage = stage]

-----------------------------------------------------------------------------
(* The servers page *)

\* Mutant: the earlier tokens are kept.
IssueTokenBesides ==
  \E t \in Token \ DOMAIN tokens :
    tokens' = [u \in DOMAIN tokens \cup {t} |-> IF u = t THEN "outstanding" ELSE tokens[u]]

\* issueJoinToken: the earlier tokens are revoked, the expired ones too.
IssueToken ==
  \E t \in Token \ DOMAIN tokens :
    tokens' = [u \in DOMAIN tokens \cup {t} |-> IF u = t THEN "outstanding" ELSE "over"]

\* The first request of createServer; its second is that of Regenerate.
CreateServer ==
  /\ server = "ABSENT"
  /\ server' = "PENDING_INSTALL"
  /\ UNCHANGED <<tokens, agents, minted, heard, maintenance, runs, node, xray>>

\* The page asks for a first command right after it created the server, and
\* offers a new one in three states, and while the command is still shown; the
\* API decides.
Regenerate ==
  /\ server \in Joinable
  /\ IssueToken
  /\ UNCHANGED <<server, agents, minted, heard, maintenance, runs, node, xray>>

TokenExpires(t) ==
  /\ t \in DOMAIN tokens /\ tokens[t] = "outstanding"
  /\ tokens' = [tokens EXCEPT ![t] = "expired"]
  /\ UNCHANGED <<server, agents, minted, heard, maintenance, runs, node, xray>>

ToggleMaintenance ==
  /\ maintenance' = ~maintenance
  /\ UNCHANGED <<master, runs, node, xray>>

\* In maintenance the hook of the API wants a session or an API token, and the
\* requests of the agents carry neither.
HookPasses == ~maintenance

-----------------------------------------------------------------------------
(* node-install.sh *)

\* The command is pasted into a shell of a host, where no other run is.
Launch(r) ==
  /\ r \in Run \ DOMAIN runs
  /\ \E h \in Host, t \in DOMAIN tokens :
       /\ \A q \in DOMAIN runs : runs[q].host = h => runs[q].stage \in Ended
       /\ runs' = [q \in DOMAIN runs \cup {r} |->
            IF q = r THEN [host |-> h, token |-> t, credential |-> None,
                           asked |-> 0, stage |-> "xray"]
            ELSE runs[q]]
  /\ UNCHANGED <<master, maintenance, node, xray>>

\* A command fails under set -e, a check dies, the shell is closed.
Die(r) ==
  /\ r \in DOMAIN runs /\ runs[r].stage \notin Ended
  /\ RunGoto(r, "dead")
  /\ UNCHANGED <<master, maintenance, node, xray>>

\* The binary is installed, and then the configuration if there is none; the
\* test of the configuration may end the run.
InstallXray(r) ==
  LET h == runs[r].host IN
  /\ RunAt(r, "xray") /\ ~xray[h].binary
  /\ \E written \in BOOLEAN :
       /\ xray' = [xray EXCEPT ![h].binary = TRUE,
                       ![h].file = IF written /\ @ = "none" THEN "default" ELSE @]
       /\ \/ written /\ RunGoto(r, "enroll")
          \/ RunGoto(r, "dead")
  /\ UNCHANGED <<master, maintenance, node>>

\* An Xray that is there is preserved, and --skip-xray wants none.
KeepXray(r) ==
  /\ RunAt(r, "xray") /\ RunGoto(r, "enroll")
  /\ UNCHANGED <<master, maintenance, node, xray>>

\* Mutant: the earlier agent row of the server is kept.
AcceptedBesides(c) == agents \cup {c}

\* enroll deletes the agent row of the server and inserts one.
Accepted(c) == {c}

\* The token is exchanged.  The answer with the credential may be lost.
Enroll(r) ==
  /\ RunAt(r, "enroll")
  /\ HookPasses /\ tokens[runs[r].token] = "outstanding"
  /\ \E c \in Credential \ minted :
       /\ agents' = Accepted(c) /\ minted' = minted \cup {c}
       /\ runs' \in {[runs EXCEPT ![r].stage = "store", ![r].credential = c],
                     [runs EXCEPT ![r].stage = "dead"]}
  /\ tokens' = [tokens EXCEPT ![runs[r].token] = "over"]
  /\ server' = "REGISTERED" /\ heard' = <<>>
  /\ UNCHANGED <<maintenance, node, xray>>

\* agent.env is written, then the unit.
Store(r) ==
  /\ RunAt(r, "store")
  /\ env' = [env EXCEPT ![runs[r].host] = runs[r].credential]
  /\ RunGoto(r, "start")
  /\ UNCHANGED <<master, maintenance, agent, flight, xray>>

\* systemctl enable --now: a unit that is active is left as it is.
StartAgent(r) ==
  LET h == runs[r].host IN
  /\ RunAt(r, "start")
  /\ agent' = [agent EXCEPT ![h] = IF @ = None THEN env[h] ELSE @]
  /\ RunGoto(r, "poll")
  /\ UNCHANGED <<master, maintenance, env, flight, xray>>

\* The status of the server, for the credential of the run.
Status(r) == IF runs[r].credential \in agents THEN server ELSE "401"

\* Mutant: any status will do.
AskAnything(r) ==
  /\ RunAt(r, "poll") /\ Status(r) # "401" /\ RunGoto(r, "connected")
  /\ UNCHANGED <<master, maintenance, node, xray>>

AskOnline(r) ==
  /\ RunAt(r, "poll") /\ Status(r) = "ONLINE" /\ RunGoto(r, "connected")
  /\ UNCHANGED <<master, maintenance, node, xray>>

\* Another status, or none: the run asks again, and gives up in the end.
AskAgain(r) ==
  /\ RunAt(r, "poll")
  /\ IF runs[r].asked = Polls THEN RunGoto(r, "dead")
     ELSE runs' = [runs EXCEPT ![r].asked = @ + 1]
  /\ UNCHANGED <<master, maintenance, node, xray>>

-----------------------------------------------------------------------------
(* The agent, and its unit *)

\* The loop sends nothing while its last heartbeat is on the way.
SendHeartbeat(h) ==
  /\ agent[h] # None /\ flight[h] = None
  /\ flight' = [flight EXCEPT ![h] = agent[h]]
  /\ UNCHANGED <<master, maintenance, runs, env, agent, xray>>

NextStatus(health) == IF server = "REGISTERED" THEN "CONNECTING" ELSE health

Heartbeat(h) ==
  /\ flight[h] \in agents /\ HookPasses
  /\ flight' = [flight EXCEPT ![h] = None]
  /\ server' \in {NextStatus(health) : health \in {"ONLINE", "ERROR"}}
  /\ heard' = IF Len(heard) < 2 THEN Append(heard, h) ELSE heard
  /\ UNCHANGED <<tokens, agents, minted, maintenance, runs, env, agent, xray>>

\* Mutant: after an error the loop still takes itself for running.
HeartbeatFailsAlone(h) ==
  /\ flight[h] # None /\ UNCHANGED nodeVars

\* It is refused, lost, or out of time: the error is logged.
HeartbeatFails(h) ==
  /\ flight[h] # None
  /\ flight' = [flight EXCEPT ![h] = None]
  /\ UNCHANGED <<master, maintenance, runs, env, agent, xray>>

\* systemd or a reboot starts the container again, with the file as it is by
\* now.  A heartbeat that was sent still arrives.
Restart(h) ==
  /\ agent[h] # None
  /\ agent' = [agent EXCEPT ![h] = env[h]]
  /\ UNCHANGED <<master, maintenance, runs, env, flight, xray>>

-----------------------------------------------------------------------------
NodeInit ==
  /\ server = "ABSENT" /\ tokens = [t \in {} |-> {}]
  /\ agents = {} /\ minted = {} /\ heard = <<>>
  /\ maintenance = FALSE
  /\ runs = [r \in {} |-> {}]
  /\ env = [h \in Host |-> None] /\ agent = env /\ flight = env
  /\ xray = Found

Script(r) ==
  \/ InstallXray(r) \/ KeepXray(r) \/ Enroll(r) \/ Store(r)
  \/ StartAgent(r) \/ AskOnline(r) \/ AskAgain(r)

NodeNext ==
  \/ CreateServer \/ Regenerate \/ ToggleMaintenance
  \/ \E t \in Token : TokenExpires(t)
  \/ \E r \in Run : Launch(r) \/ Script(r) \/ Die(r)
  \/ \E h \in Host : SendHeartbeat(h) \/ Heartbeat(h) \/ HeartbeatFails(h) \/ Restart(h)

NodeSpec == NodeInit /\ [][NodeNext]_nodeVars

\* The shell goes on with the script, which dies where it cannot; the loop has
\* a timer, its requests a timeout, and one that is sent for ever arrives.
FairSpec ==
  /\ NodeSpec
  /\ \A r \in Run : WF_nodeVars(Script(r) \/ (RunAt(r, "enroll") /\ Die(r)))
  /\ \A h \in Host :
       WF_nodeVars(SendHeartbeat(h)) /\ WF_nodeVars(HeartbeatFails(h)) /\ SF_nodeVars(Heartbeat(h))

-----------------------------------------------------------------------------
(* Properties *)

\* Types of the master, of the runs and of the hosts.
NodeTypeOK ==
  /\ server \in {"ABSENT", "PENDING_INSTALL", "REGISTERED", "CONNECTING", "ONLINE", "ERROR"}
  /\ DOMAIN tokens \subseteq Token /\ tokens \in [DOMAIN tokens -> {"outstanding", "expired", "over"}]
  /\ agents \subseteq minted /\ minted \subseteq Credential
  /\ heard \in {<<>>} \cup {<<h>> : h \in Host} \cup (Host \X Host)
  /\ maintenance \in BOOLEAN
  /\ DOMAIN runs \subseteq Run /\ runs \in [DOMAIN runs -> InstallRun]
  /\ {env, agent, flight} \subseteq [Host -> Credential \cup {None}]
  /\ xray \in [Host -> XrayFiles]

\* A run that prints CONNECTED ran on the host that the panel shows: until the
\* next exchange, the heartbeats that made the server ONLINE came from there.
ConnectedIsHeard ==
  \A r \in DOMAIN runs :
    (runs[r].stage = "connected" /\ runs[r].credential \in agents)
      => heard = <<runs[r].host, runs[r].host>>

\* The server of the panel is one machine: wherever its command was pasted, no
\* two hosts run an agent that the master accepts.
OneHostIsHeard ==
  \A g, h \in Host : (agent[g] \in agents /\ agent[h] \in agents) => g = h

\* The tokens that neither a run nor a newer command has spent.
Outstanding == {t \in DOMAIN tokens : tokens[t] # "over"}

\* Whatever the runs and the agents on all the hosts do, the master goes through
\* the lifecycle that ServerEnrollment implements: the requests may be taken for
\* atomic here because they are there.
Lifecycle == INSTANCE EnrollmentLifecycle WITH
  status <- server, issued <- DOMAIN tokens, outstanding <- Outstanding,
  holder <- agents, heard <- Len(heard)
InstallFollowsLifecycle == Lifecycle!Spec

\* An agent with the accepted credential is heard in the end, however many of
\* its heartbeats are lost or refused, if the maintenance ends.
AcceptedIsHeard ==
  \A h \in Host :
    (<>[](agent[h] \in agents /\ ~maintenance)) => <>(Len(heard) = 2)

=============================================================================
