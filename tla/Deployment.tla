------------------------------ MODULE Deployment ------------------------------
(***************************************************************************)
(* The master machine: deployment/installer/install.sh, its command line   *)
(* nr-panel, and the two scripts that the installer runs against the       *)
(* database, migrate.ts and bootstrap-owner.ts.                            *)
(*                                                                         *)
(* The installer takes no lock: two shells may run it at once, an          *)
(* installer may be stopped after any of its steps, and whoever runs it    *)
(* again starts from what it left on the disk.  Releases are numbered;     *)
(* release r ships the migrations 1 .. r.                                  *)
(*                                                                         *)
(* Left out: the wording of the files, the secrets (an installer reads     *)
(* the old ones back), ports and paths, which an update may rewrite and a  *)
(* rollback does not restore, the agent of the local server, and           *)
(* "nr-panel uninstall".                                                   *)
(***************************************************************************)
EXTENDS Naturals, FiniteSetsExt

CONSTANTS Installer,   \* shells that run install.sh
          Latest       \* the newest release

ASSUME LatestAssumption == Latest \in Nat \ {0}

Release == 1 .. Latest
Absent == 0
Versions == Release \cup {Absent}

\* The migrations in the image of a release, in the order of their names.
Files(r) == 1 .. r

VARIABLES
  disk,      \* current, compose.env, install-result.env, the installed CLI
  applied,   \* how many times the effect of each migration was committed
  owners,    \* OWNER rows
  running,   \* the release of the running containers api, web and proxy
  run        \* what each shell is doing

deployVars == <<disk, applied, owners, running, run>>

Disk == [current : Versions, compose : Versions, result : Versions, cli : BOOLEAN]

Stage == {"idle", "linked", "sourced", "written", "migrate", "execute", "insert", "owner", "create",
          "up", "health", "node", "finish"}

\* "target" and "image" are PREVIOUS_TARGET and the exported NR_PANEL_VERSION;
\* "told" is how the last run ended; "before" and "alone" remember, for the
\* properties, the disk at its start and whether it had the machine to itself.
Shell == [at : Stage, version : Versions, update : BOOLEAN, target : Versions, image : Versions,
          file : 0 .. Latest, told : {"nothing", "installed", "restored", "failed"},
          before : Disk, alone : BOOLEAN]

Fresh == [current |-> Absent, compose |-> Absent, result |-> Absent, cli |-> FALSE]

DeployInit ==
  /\ disk = Fresh
  /\ applied = [m \in Release |-> 0]
  /\ owners = 0
  /\ running = Absent
  /\ run = [i \in Installer |->
              [at |-> "idle", version |-> Absent, update |-> FALSE, target |-> Absent, image |-> Absent,
               file |-> 0, told |-> "nothing", before |-> Fresh, alone |-> TRUE]]

At(i, stage) == run[i].at = stage
Reach(i, stage) == run' = [run EXCEPT ![i].at = stage]
Idle(i) == At(i, "idle")

\* The end of a run; an open transaction of its scripts is rolled back.
Ended(i, how) ==
  [run EXCEPT ![i] = [at |-> "idle", version |-> Absent, update |-> FALSE, target |-> Absent,
                      image |-> Absent, file |-> 0, told |-> how, before |-> Fresh, alone |-> TRUE]]

\* nr_die, "set -e" at a failed command, or a kill.
Die(i) ==
  /\ ~Idle(i)
  /\ run' = Ended(i, "failed")
  /\ UNCHANGED <<disk, applied, owners, running>>

------------------------------------------------------------------------------
(* install.sh *)

\* The arguments; an existing result file turns a plain run into a repair,
\* an update, or nothing.  The release is unpacked and "current" points to it.
Link(i, version, update) ==
  /\ Idle(i)
  /\ LET alone == \A j \in Installer : Idle(j) IN
     run' = [j \in Installer |->
               IF j # i THEN [run[j] EXCEPT !.alone = FALSE]
               ELSE [at |-> "linked", version |-> version, update |-> update \/ disk.result # Absent,
                     target |-> disk.current, image |-> Absent, file |-> 0, told |-> "nothing",
                     before |-> disk, alone |-> alone]]
  /\ disk' = [disk EXCEPT !.current = version]
  /\ UNCHANGED <<applied, owners, running>>

\* The old files are sourced under "set -a": what compose.env said before
\* stays exported, and docker compose prefers it to the file written next.
\* Before a first install it is the bootstrap script that exports it.
SourceEnv(i) ==
  /\ At(i, "linked")
  /\ run' = [run EXCEPT ![i].at = "sourced",
                        ![i].image = IF disk.compose = Absent THEN run[i].version ELSE disk.compose]
  /\ UNCHANGED <<disk, applied, owners, running>>

WriteEnv(i) ==
  /\ At(i, "sourced")
  /\ disk' = [disk EXCEPT !.compose = run[i].version]
  /\ Reach(i, "written")
  /\ UNCHANGED <<applied, owners, running>>

\* nr-panel backup, then pull, the database up and ready.
Backup(i) ==
  /\ At(i, "written")
  /\ run[i].update /\ run[i].target # Absent => disk.cli
  /\ Reach(i, "migrate")
  /\ UNCHANGED <<disk, applied, owners, running>>

Up(i) ==
  /\ At(i, "up")
  /\ running' = run[i].image
  /\ Reach(i, "health")
  /\ UNCHANGED <<disk, applied, owners>>

Healthy(i) ==
  /\ At(i, "health")
  /\ Reach(i, IF run[i].update THEN "finish" ELSE "node")
  /\ UNCHANGED <<disk, applied, owners, running>>

\* Mutant: a first install is "rolled back" too.
RestoredAlways(i) == [disk EXCEPT !.current = run[i].target, !.compose = run[i].image]

\* Mutant: compose.env keeps the release that failed.
RestoredPointer(i) == IF run[i].target = Absent THEN disk ELSE [disk EXCEPT !.current = run[i].target]

\* rollback_release: pointer, version and containers, the last best effort.
Restored(i) ==
  IF run[i].target = Absent THEN disk
  ELSE [disk EXCEPT !.current = run[i].target, !.compose = run[i].image]

Unhealthy(i) ==
  /\ At(i, "health")
  /\ disk' = Restored(i)
  /\ running' \in {running} \cup (IF run[i].target = Absent THEN {} ELSE {run[i].image})
  /\ run' = Ended(i, "restored")
  /\ UNCHANGED <<applied, owners>>

\* bootstrap-local-server.js and node-install.sh have waited for the agent.
NodeInstalled(i) ==
  /\ At(i, "node")
  /\ Reach(i, "finish")
  /\ UNCHANGED <<disk, applied, owners, running>>

Finish(i) ==
  /\ At(i, "finish")
  /\ disk' = [disk EXCEPT !.cli = TRUE, !.result = run[i].version]
  /\ run' = Ended(i, "installed")
  /\ UNCHANGED <<applied, owners, running>>

------------------------------------------------------------------------------
(* migrate.ts, in the image that docker compose chose *)

Missing(i) == {m \in Files(run[i].image) : applied[m] = 0}

\* Mutant: only a first install migrates.
SelectOnInstall(i) ==
  /\ At(i, "migrate")
  /\ run' = [run EXCEPT ![i].at = IF run[i].update THEN "up" ELSE IF Missing(i) # {} THEN "execute" ELSE "owner",
                        ![i].file = IF run[i].update \/ Missing(i) = {} THEN 0 ELSE Min(Missing(i))]
  /\ UNCHANGED <<disk, applied, owners, running>>

\* The loop passes the files that have a row and stops at the first without.
Select(i) ==
  /\ At(i, "migrate")
  /\ run' = [run EXCEPT ![i].at = IF Missing(i) # {} THEN "execute" ELSE IF run[i].update THEN "up" ELSE "owner",
                        ![i].file = IF Missing(i) = {} THEN 0 ELSE Min(Missing(i))]
  /\ UNCHANGED <<disk, applied, owners, running>>

\* Mutant: no row, or no unique name, stops the second transaction.
ExecuteUnrecorded(i) ==
  /\ At(i, "execute") /\ Reach(i, "insert")
  /\ UNCHANGED <<disk, applied, owners, running>>

\* Two transactions that create the same tables wait for each other; the
\* later one finds them, or the row of the same name, and rolls back.
Execute(i) ==
  /\ At(i, "execute")
  /\ \A j \in Installer : At(j, "insert") => run[j].file # run[i].file
  /\ applied[run[i].file] = 0
  /\ Reach(i, "insert")
  /\ UNCHANGED <<disk, applied, owners, running>>

InsertRow(i) ==
  /\ At(i, "insert")
  /\ applied' = [applied EXCEPT ![run[i].file] = @ + 1]
  /\ Reach(i, "migrate")
  /\ UNCHANGED <<disk, owners, running>>

------------------------------------------------------------------------------
(* bootstrap-owner.ts *)

\* Mutant: the count without the advisory lock.
ReadOwnersUnlocked(i) ==
  /\ At(i, "owner") /\ owners = 0 /\ Reach(i, "create")
  /\ UNCHANGED <<disk, applied, owners, running>>

\* pg_advisory_xact_lock is held to the end of the transaction; the count is
\* read after it is taken.
ReadOwners(i) ==
  /\ At(i, "owner")
  /\ \A j \in Installer : ~At(j, "create")
  /\ owners = 0
  /\ Reach(i, "create")
  /\ UNCHANGED <<disk, applied, owners, running>>

CreateOwner(i) ==
  /\ At(i, "create")
  /\ owners' = owners + 1
  /\ Reach(i, "up")
  /\ UNCHANGED <<disk, applied, running>>

------------------------------------------------------------------------------
(* nr-panel *)

\* change-port and change-path export install-result.env and recreate the
\* containers, "start" reads compose.env; neither runs the migrations.
Recreate ==
  /\ disk.cli /\ disk.result # Absent
  /\ running' \in {disk.result, disk.compose}
  /\ UNCHANGED <<disk, applied, owners, run>>

Scripts(i) == Select(i) \/ Execute(i) \/ InsertRow(i) \/ ReadOwners(i) \/ CreateOwner(i)

Install(i) ==
  \/ \E version \in Release, update \in BOOLEAN : Link(i, version, update)
  \/ SourceEnv(i)
  \/ WriteEnv(i)
  \/ Backup(i)
  \/ Scripts(i)
  \/ Up(i)
  \/ Healthy(i)
  \/ Unhealthy(i)
  \/ NodeInstalled(i)
  \/ Finish(i)
  \/ Die(i)

DeployNext == (\E i \in Installer : Install(i)) \/ Recreate

DeploySpec == DeployInit /\ [][DeployNext]_deployVars

------------------------------------------------------------------------------
(* Properties *)

\* The types, and what the disk never is: compose.env without a release to
\* go with it, or a result file without compose.env and the CLI.
DeployTypeOK ==
  /\ disk \in Disk
  /\ disk.compose # Absent => disk.current # Absent
  /\ disk.result # Absent => disk.compose # Absent /\ disk.cli
  /\ applied \in [Release -> Nat]
  /\ owners \in Nat
  /\ running \in Versions
  /\ run \in [Installer -> Shell]

\* However many installers bootstrap at once, and however often one is
\* started again, there is one OWNER: bootstrapOwner counts under its lock.
OneOwner == owners <= 1

\* No migration takes effect twice, not even when two installers migrate at
\* once or one is killed between two files; and none before the ones it is
\* built on.
AppliedOnceInOrder ==
  /\ \A m \in Release : applied[m] <= 1
  /\ \A m, n \in Release : m <= n => applied[n] <= applied[m]

\* An installer never starts containers of a release whose migrations are
\* not all applied, whichever release the images turn out to be of.
SchemaFirst ==
  [][\A i \in Installer :
       run'[i] # run[i] /\ running' # running => \A m \in Files(running') : applied[m] = 1]_deployVars

\* When the health check of an update fails, an installer that had the
\* machine to itself leaves "current" and the version in compose.env, and
\* with them the result file and the CLI, as it found them.
RestoredIsBefore ==
  [][\A i \in Installer :
       (/\ run'[i].told = "restored" /\ run[i].told # "restored" /\ run[i].alone
        /\ run[i].before.current # Absent /\ run[i].before.compose # Absent)
       => disk' = run[i].before]_deployVars

===============================================================================
