------------------------------ MODULE Release ------------------------------
(***************************************************************************)
(* deploy/release.sh: it puts a staged release in place of the live one,   *)
(* with its unit files and its runtime configuration, and takes all of it  *)
(* back when a command fails (`set -e` and the EXIT trap).  Meanwhile the  *)
(* services run and an administrator saves settings.                       *)
(*                                                                         *)
(* Every command is a step, so that a failure, a signal or a save may come *)
(* before it.  A command that fails has had no effect, except for those of *)
(* systemctl on services.                                                  *)
(***************************************************************************)
EXTENDS Integers, Sequences, FiniteSets

CONSTANTS
    Unit,       \* the units
    Units,      \* UNITS: the order they are treated in
    Api,        \* tmail-api.service, the writer of the configuration
    Started,    \* the units the release enables and starts
    Restarting, \* the units with Restart=always
    Interrupts, \* whether a signal may end the script
    MaxSaves    \* bound on the settings saved

ASSUME UnitAssumption  == /\ Units \in Seq(Unit)
                          /\ \A u \in Unit : \E k \in DOMAIN Units : Units[k] = u
ASSUME ApiAssumption   == Api \in Started /\ Started \subseteq Unit /\ Restarting \subseteq Unit
ASSUME BoundAssumption == Interrupts \in BOOLEAN /\ MaxSaves \in Nat

Release == {"old", "new"}

VARIABLES
    pc,         \* next command
    i,          \* position in Units
    flag,       \* the shell variables that are 1
    status,     \* how the script ends
    rollbackFailed, \* a command of the roll-back has failed
    place,      \* per release: the directory it is in
    unit,       \* per unit: its file in SYSTEMD_DIR
    savedUnit,  \* per unit: its file in the backup
    enabled,    \* the units enabled
    activity,   \* per unit: its service
    runs,       \* per unit: the release its process was started from
    wasEnabled, \* the units recorded as enabled
    wasActive,  \* the units recorded as active
    legacy,     \* the old release keeps its configuration in its own directory
    legacyVer,  \* the settings in there
    runtime,    \* the runtime configuration: who made the file, its settings
    snapshot,   \* the settings in the staged configuration
    latest,     \* history: the last settings saved
    before,     \* history: the state the release began in
    missed      \* history: the units "activating" when they were recorded

script  == <<pc, i, flag, status, rollbackFailed>>
files   == <<place, unit>>
backup  == <<savedUnit, wasEnabled, wasActive>>
systemd == <<enabled, activity, runs>>
config  == <<legacyVer, runtime, snapshot, latest>>
history == <<legacy, before, missed>>
vars    == <<script, files, backup, systemd, config, history>>

-----------------------------------------------------------------------------
Forward == {"backup", "stop", "snapshot", "rm", "install", "save", "saved",
            "promote", "promoted", "runtime", "created", "reload", "enable",
            "restart", "status"}
RollingBack == {"rb stop", "rb disable", "rb config", "rb remove", "rb restore",
                "rb rm", "rb install", "rb reload", "rb enable", "rb start"}

TypeOK ==
    /\ pc \in Forward \cup RollingBack \cup {"exit", "done"}
    /\ i \in DOMAIN Units
    /\ flag \subseteq {"UNITS_BACKED_UP", "OLD_RELEASE", "PROMOTED", "CONFIG_CREATED"}
    /\ status \in {"ok", "failed", "interrupted"}
    /\ rollbackFailed \in BOOLEAN
    /\ place \in [Release -> {"none", "stage", "live", "nested", "backup", "gone"}]
    /\ unit \in [Unit -> {"none", "old", "new"}]
    /\ savedUnit \in [Unit -> {"none", "old"}]
    /\ enabled \subseteq Unit
    /\ activity \in [Unit -> {"active", "waiting", "inactive"}]
    /\ runs \in [Unit -> Release]
    /\ wasEnabled \subseteq Unit
    /\ wasActive \subseteq Unit
    /\ legacy \in BOOLEAN
    /\ legacyVer \in 0 .. MaxSaves
    /\ runtime \in [by : {"none", "earlier", "script", "api"}, ver : 0 .. MaxSaves,
                    same : BOOLEAN]
    /\ snapshot \in 0 .. MaxSaves
    /\ latest \in 0 .. MaxSaves
    /\ missed \subseteq Unit

(* "same": the device and inode of the file are those in CONFIG_ID.         *)
NoRuntime == [by |-> "none", ver |-> 0, same |-> FALSE]

(* A fresh machine, a release with its configuration inside, or one with a  *)
(* runtime configuration, and whatever state its units are in.              *)
Init ==
    /\ pc = "backup" /\ i = 1 /\ flag = {} /\ status = "ok" /\ rollbackFailed = FALSE
    /\ \E old \in {"none", "live"} : place = [old |-> old, new |-> "stage"]
    /\ unit \in [Unit -> {"none", "old"}]
    /\ place["old"] = "none" => unit = [u \in Unit |-> "none"]
    /\ savedUnit = [u \in Unit |-> "none"]
    /\ enabled \in SUBSET {u \in Unit : unit[u] = "old"}
    /\ activity \in [Unit -> {"active", "waiting", "inactive"}]
    /\ \A u \in Unit : \/ activity[u] = "inactive"
                       \/ unit[u] = "old" /\ (activity[u] = "waiting" => u \in Restarting)
    /\ runs = [u \in Unit |-> "old"]
    /\ wasEnabled = {} /\ wasActive = {}
    /\ runtime \in {NoRuntime, [by |-> "earlier", ver |-> 0, same |-> FALSE]}
    /\ legacy = (place["old"] = "live" /\ runtime = NoRuntime)
    /\ legacyVer = 0 /\ snapshot = 0 /\ latest = 0
    /\ before = [place |-> place["old"], unit |-> unit, enabled |-> enabled,
                 up |-> {u \in Unit : activity[u] # "inactive"}, runtime |-> runtime]
    /\ missed = {}

-----------------------------------------------------------------------------
U == Units[i]
LastTooLate == i > Len(Units)           \* mutant: one unit too many
Last == i = Len(Units)

Goto(label) == pc' = label /\ UNCHANGED i

(* The loop over UNITS: from its last command back to its first one or on.  *)
Loop(first, after) ==
    /\ pc' = IF Last THEN after ELSE first
    /\ i' = IF Last THEN 1 ELSE i + 1

Raise(name) == flag' = flag \cup {name}

Succeeding == UNCHANGED <<status, rollbackFailed>>

(* mv to the live path; into the live release, if there is one.             *)
ToLive(r) == [place EXCEPT ![r] = IF \E q \in Release : place[q] = "live" THEN "nested" ELSE "live"]

RecordedActiveNever(u) == FALSE         \* mutant: the state file is not written
RecordedActive(u) == activity[u] = "active"     \* is-active exits with 0

(* One unit: its file, and whether it is enabled and active.  For a unit    *)
(* that waits for its restart is-active says "activating" and fails.        *)
BackUp ==
    /\ pc = "backup"
    /\ savedUnit' = [savedUnit EXCEPT ![U] = unit[U]]
    /\ wasEnabled' = IF U \in enabled THEN wasEnabled \cup {U} ELSE wasEnabled
    /\ wasActive' = IF RecordedActive(U) THEN wasActive \cup {U} ELSE wasActive
    /\ flag' = IF Last THEN {"UNITS_BACKED_UP"} ELSE {}
    /\ missed' = IF activity[U] = "waiting" THEN missed \cup {U} ELSE missed
    /\ Loop("backup", IF legacy THEN "stop" ELSE "rm")
    /\ Succeeding
    /\ UNCHANGED <<files, systemd, config, legacy, before>>

StopWriterNever == FALSE                \* mutant: the old API is left running
StopWriter == Api \in wasActive

StopApi ==
    /\ pc = "stop"
    /\ activity' = IF StopWriter THEN [activity EXCEPT ![Api] = "inactive"] ELSE activity
    /\ Goto("snapshot")
    /\ Succeeding
    /\ UNCHANGED <<flag, files, backup, enabled, runs, config, history>>

(* The final copy of the old release's configuration, once it is valid.     *)
Snapshot ==
    /\ pc = "snapshot"
    /\ snapshot' = legacyVer
    /\ Goto("rm")
    /\ Succeeding
    /\ UNCHANGED <<flag, files, backup, systemd, legacyVer, runtime, latest, history>>

RemoveUnit ==
    /\ pc = "rm"
    /\ unit' = [unit EXCEPT ![U] = "none"]
    /\ Goto("install")
    /\ Succeeding
    /\ UNCHANGED <<flag, place, backup, systemd, config, history>>

InstallUnit ==
    /\ pc = "install"
    /\ unit' = [unit EXCEPT ![U] = "new"]
    /\ Loop("rm", "save")
    /\ Succeeding
    /\ UNCHANGED <<flag, place, backup, systemd, config, history>>

SaveRelease ==
    /\ pc = "save"
    /\ IF place["old"] = "live"
       THEN place' = [place EXCEPT !["old"] = "backup"] /\ Goto("saved")
       ELSE UNCHANGED place /\ Goto("promote")
    /\ Succeeding
    /\ UNCHANGED <<flag, unit, backup, systemd, config, history>>

Saved ==
    /\ pc = "saved"
    /\ Raise("OLD_RELEASE")
    /\ Goto("promote")
    /\ Succeeding
    /\ UNCHANGED <<files, backup, systemd, config, history>>

Promote ==
    /\ pc = "promote"
    /\ place' = ToLive("new")
    /\ Goto("promoted")
    /\ Succeeding
    /\ UNCHANGED <<flag, unit, backup, systemd, config, history>>

Promoted ==
    /\ pc = "promoted"
    /\ Raise("PROMOTED")
    /\ Goto("runtime")
    /\ Succeeding
    /\ UNCHANGED <<files, backup, systemd, config, history>>

(* config.py install-runtime, unless there is a runtime configuration.      *)
InstallRuntime ==
    /\ pc = "runtime"
    /\ IF runtime.by = "none"
       THEN runtime' = [by |-> "script", ver |-> snapshot, same |-> TRUE] /\ Goto("created")
       ELSE UNCHANGED runtime /\ Goto("reload")
    /\ Succeeding
    /\ UNCHANGED <<flag, files, backup, systemd, legacyVer, snapshot, latest, history>>

Created ==
    /\ pc = "created"
    /\ Raise("CONFIG_CREATED")
    /\ Goto("reload")
    /\ Succeeding
    /\ UNCHANGED <<files, backup, systemd, config, history>>

DaemonReload ==
    /\ pc = "reload"
    /\ Goto("enable")
    /\ Succeeding
    /\ UNCHANGED <<flag, files, backup, systemd, config, history>>

Enable ==
    /\ pc = "enable"
    /\ enabled' = enabled \cup Started
    /\ Goto("restart")
    /\ Succeeding
    /\ UNCHANGED <<flag, files, backup, activity, runs, config, history>>

(* A unit starts from the release that is live.                             *)
Start(u) ==
    /\ activity' = [activity EXCEPT ![u] = "active"]
    /\ runs' = [runs EXCEPT ![u] = IF place["new"] = "live" THEN "new" ELSE "old"]

Restart ==
    /\ pc = "restart"
    /\ IF U \in Started THEN Start(U) ELSE UNCHANGED <<activity, runs>>
    /\ Loop("restart", "status")
    /\ Succeeding
    /\ UNCHANGED <<flag, files, backup, enabled, config, history>>

(* systemctl status succeeds when the services are up.                      *)
CheckStatus ==
    /\ pc = "status"
    /\ \A u \in Started : activity[u] = "active"
    /\ Goto("exit")
    /\ Succeeding
    /\ UNCHANGED <<flag, files, backup, systemd, config, history>>

-----------------------------------------------------------------------------
NothingToUndo == "UNITS_BACKED_UP" \notin flag

(* These only set a variable of the shell.                                  *)
Assignment == {"saved", "promoted", "created"}

(* A command fails, and `set -e` ends the script: cleanup() sees a status   *)
(* other than 0.  systemctl may have done its part, or some of it.          *)
Fail ==
    /\ pc \in Forward \ Assignment
    /\ status' = "failed"
    /\ pc' = IF NothingToUndo THEN "exit" ELSE "rb stop"
    /\ i' = 1
    /\ enabled' \in IF pc = "enable" THEN {enabled \cup S : S \in SUBSET Started} ELSE {enabled}
    /\ IF pc = "restart" /\ U \in Started
       THEN \/ Start(U)
            \/ \E s \in {"waiting", "inactive"} : /\ activity' = [activity EXCEPT ![U] = s]
                                                  /\ runs' = [runs EXCEPT ![U] = "new"]
       ELSE /\ activity' \in IF pc = "stop" /\ StopWriter
                             THEN {activity, [activity EXCEPT ![Api] = "inactive"]}
                             ELSE {activity}
            /\ UNCHANGED runs
    /\ UNCHANGED <<flag, rollbackFailed, files, backup, config, history>>

(* SIGHUP or SIGTERM.  bash runs cleanup() with $? = 0, the status of the   *)
(* last command that ended: nothing is undone.  A second signal ends the    *)
(* script at once.                                                          *)
Interrupt ==
    /\ Interrupts
    /\ \/ pc \in Forward /\ pc' = "exit"
       \/ pc \in RollingBack /\ pc' = "done"
    /\ i' = 1
    /\ status' = "interrupted"
    /\ UNCHANGED <<flag, rollbackFailed, files, backup, systemd, config, history>>

-----------------------------------------------------------------------------
(* cleanup(): every command is tried, one that fails is remembered.         *)

Undone == UNCHANGED rollbackFailed
NotUndone == rollbackFailed' = TRUE
InCleanup == UNCHANGED <<flag, status, backup, history>>

(* stop_if_active: it fails too if the state of the unit is inconclusive.   *)
StopIfActive(u) ==
    \/ activity' = [activity EXCEPT ![u] = "inactive"] /\ Undone
    \/ activity' \in {activity, [activity EXCEPT ![u] = "inactive"]} /\ NotUndone

DisableIfEnabled(u) ==
    \/ enabled' = enabled \ {u} /\ Undone
    \/ UNCHANGED enabled /\ NotUndone

RbStop ==
    /\ pc = "rb stop"
    /\ StopIfActive(U)
    /\ Goto("rb disable")
    /\ InCleanup
    /\ UNCHANGED <<files, enabled, runs, config>>

RbDisable ==
    /\ pc = "rb disable"
    /\ DisableIfEnabled(U)
    /\ Loop("rb stop", IF "CONFIG_CREATED" \in flag THEN "rb config" ELSE "rb remove")
    /\ InCleanup
    /\ UNCHANGED <<files, activity, runs, config>>

NoWriterUnasked == TRUE                 \* mutant: unit_activity is not asked
NoWriter == activity[Api] = "inactive"

SameFileAny == TRUE                     \* mutant: the identity is not compared
SameFile == runtime.same

(* config.py remove-runtime, of the file with the identity installed.       *)
RbConfig ==
    /\ pc = "rb config"
    /\ \/ NoWriter /\ SameFile /\ runtime' = NoRuntime /\ Undone
       \/ UNCHANGED runtime /\ NotUndone
    /\ Goto("rb remove")
    /\ InCleanup
    /\ UNCHANGED <<files, systemd, legacyVer, snapshot, latest>>

(* mv of what is live to the backup, as "failed".                           *)
RbRemove ==
    /\ pc = "rb remove"
    /\ IF "PROMOTED" \in flag
       THEN \/ /\ place' = [r \in Release |-> IF place[r] = "live" THEN "backup" ELSE place[r]]
               /\ Undone
            \/ UNCHANGED place /\ NotUndone
       ELSE UNCHANGED place /\ Undone
    /\ Goto("rb restore")
    /\ InCleanup
    /\ UNCHANGED <<unit, systemd, config>>

RbRestore ==
    /\ pc = "rb restore"
    /\ IF "OLD_RELEASE" \in flag /\ place["old"] = "backup"
       THEN \/ place' = ToLive("old") /\ Undone
            \/ UNCHANGED place /\ NotUndone
       ELSE UNCHANGED place /\ Undone
    /\ Goto("rb rm")
    /\ InCleanup
    /\ UNCHANGED <<unit, systemd, config>>

RbRemoveUnit ==
    /\ pc = "rb rm"
    /\ \/ unit' = [unit EXCEPT ![U] = "none"] /\ Undone
       \/ UNCHANGED unit /\ NotUndone
    /\ Goto("rb install")
    /\ InCleanup
    /\ UNCHANGED <<place, systemd, config>>

RestoredUnitNever(u) == unit[u]         \* mutant: the saved file is not copied
RestoredUnit(u) == IF savedUnit[u] = "none" THEN unit[u] ELSE savedUnit[u]

RbInstallUnit ==
    /\ pc = "rb install"
    /\ \/ unit' = [unit EXCEPT ![U] = RestoredUnit(U)] /\ Undone
       \/ UNCHANGED unit /\ NotUndone
    /\ Loop("rb rm", "rb reload")
    /\ InCleanup
    /\ UNCHANGED <<place, systemd, config>>

RbReload ==
    /\ pc = "rb reload"
    /\ Undone \/ NotUndone
    /\ Goto("rb enable")
    /\ InCleanup
    /\ UNCHANGED <<files, systemd, config>>

RbEnable ==
    /\ pc = "rb enable"
    /\ IF U \in wasEnabled
       THEN \/ enabled' = enabled \cup {U} /\ Undone
            \/ UNCHANGED enabled /\ NotUndone
       ELSE DisableIfEnabled(U)
    /\ Goto("rb start")
    /\ InCleanup
    /\ UNCHANGED <<files, activity, runs, config>>

RbStart ==
    /\ pc = "rb start"
    /\ IF U \in wasActive
       THEN \/ Start(U) /\ Undone
            \/ UNCHANGED <<activity, runs>> /\ NotUndone
       ELSE StopIfActive(U) /\ UNCHANGED runs
    /\ Loop("rb enable", "exit")
    /\ InCleanup
    /\ UNCHANGED <<files, enabled, config>>

KeepBackupNever == FALSE                \* mutant: the backup is always removed
KeepBackup == rollbackFailed

(* The backup goes with what is in it, unless the roll-back is incomplete.  *)
Exit ==
    /\ pc = "exit"
    /\ place' = [r \in Release |->
                   IF place[r] = "backup" /\ ~KeepBackup THEN "gone" ELSE place[r]]
    /\ Goto("done")
    /\ InCleanup
    /\ Undone
    /\ UNCHANGED <<unit, systemd, config>>

-----------------------------------------------------------------------------
(* The services.                                                            *)

(* PUT /settings.  The legacy API writes to the configuration in its own    *)
(* release, while that is live; else the runtime configuration is replaced. *)
(* The new file is made before the old one goes, so it has another inode;   *)
(* the inode freed by one save may be that of the next one.                 *)
AdminSaves ==
    /\ latest < MaxSaves
    /\ activity[Api] = "active"
    /\ latest' = latest + 1
    /\ IF legacy /\ runs[Api] = "old"
       THEN place["old"] = "live" /\ legacyVer' = latest' /\ UNCHANGED runtime
       ELSE /\ runtime.by # "none"
            /\ \E same \in IF runtime.by = "api" /\ ~runtime.same THEN BOOLEAN ELSE {FALSE} :
                  runtime' = [by |-> IF runtime.by = "earlier" THEN "earlier" ELSE "api",
                              ver |-> latest', same |-> same]
            /\ UNCHANGED legacyVer
    /\ UNCHANGED <<script, files, backup, systemd, snapshot, history>>

(* Restart=always, RestartSec=5: meanwhile the unit is "activating".        *)
ServiceCrashes(u) ==
    /\ u \in Restarting
    /\ activity[u] = "active"
    /\ activity' = [activity EXCEPT ![u] = "waiting"]
    /\ UNCHANGED <<script, files, backup, enabled, runs, config, history>>

(* It starts from the release that is live then, if that has the            *)
(* configuration it needs.                                                  *)
ServiceRestarts(u) ==
    /\ activity[u] = "waiting"
    /\ place["old"] = "live" \/ (place["new"] = "live" /\ runtime.by # "none")
    /\ Start(u)
    /\ UNCHANGED <<script, files, backup, enabled, config, history>>

-----------------------------------------------------------------------------
Install ==
    \/ BackUp \/ StopApi \/ Snapshot \/ RemoveUnit \/ InstallUnit
    \/ SaveRelease \/ Saved \/ Promote \/ Promoted \/ InstallRuntime \/ Created
    \/ DaemonReload \/ Enable \/ Restart \/ CheckStatus

Cleanup ==
    \/ RbStop \/ RbDisable \/ RbConfig \/ RbRemove \/ RbRestore \/ RbRemoveUnit
    \/ RbInstallUnit \/ RbReload \/ RbEnable \/ RbStart \/ Exit

Next ==
    \/ Install \/ Fail \/ Interrupt \/ Cleanup
    \/ AdminSaves
    \/ \E u \in Unit : ServiceCrashes(u) \/ ServiceRestarts(u)

Spec == Init /\ [][Next]_vars

-----------------------------------------------------------------------------
RolledBack == pc = "done" /\ status = "failed" /\ ~rollbackFailed
Succeeded  == pc = "done" /\ status = "ok"

(* A failed release whose roll-back reports nothing has left no trace: the  *)
(* old release, its unit files and the state of its services are back.  A   *)
(* unit that was waiting for its restart when release.sh:129 asked for it   *)
(* is recorded as not active, and may be left down; no other one is.        *)
FailureLeavesNoTrace ==
    RolledBack =>
        /\ place["old"] = before.place
        /\ place["new"] # "live"
        /\ unit = before.unit
        /\ enabled = before.enabled
        /\ LET up == {u \in Unit : activity[u] # "inactive"}
           IN  up \subseteq before.up /\ before.up \ missed \subseteq up
        /\ runtime.by = "none" <=> before.runtime.by = "none"

(* The old release is never destroyed before the new one runs, whatever     *)
(* fails, the roll-back included: its only copy stays in the backup.        *)
OldReleaseKept ==
    place["old"] = "gone" /\ status # "interrupted" => Succeeded /\ place["new"] = "live"

(* "recovery data retained": the same, however the script ends.             *)
RecoveryDataRetained ==
    place["old"] = "gone" => Succeeded /\ place["new"] = "live"

(* The settings last saved are in force after a release and after a         *)
(* complete roll-back: the legacy configuration moves without losing one.   *)
(* Two cases are excepted.  An old API that was waiting for its restart     *)
(* when it was recorded is not stopped before its settings are copied       *)
(* (release.sh:136), and may save some later.  And settings saved in a      *)
(* runtime configuration that the release itself made go back with it if    *)
(* two saves have given the file its first inode again (config.py:137).     *)
SettingsInForce ==
    /\ Succeeded => /\ runtime.by # "none"
                    /\ runtime.ver = latest \/ (legacy /\ Api \in missed)
    /\ RolledBack /\ legacy =>
          legacyVer = latest \/ ("CONFIG_CREATED" \in flag /\ latest >= snapshot + 2)
    /\ RolledBack /\ before.runtime.by # "none" => runtime.ver = latest

(* "Config removal is safe only after systemd conclusively reports no API   *)
(* writer": the runtime configuration is never removed under a running API, *)
(* nor after an administrator has saved settings in it once: it takes two   *)
(* saves for the file to have the identity again that is compared.          *)
RemovedOnlyUnused ==
    [][runtime.by # "none" /\ runtime'.by = "none"
         => /\ activity[Api] = "inactive"
            /\ runtime.by = "script" \/ runtime.ver >= snapshot + 2]_vars
=============================================================================
