--------------------------- MODULE ReleaseProofs ---------------------------
(* Proofs about Release, for every list of units, whichever of them the     *)
(* release starts, and any number of settings saved.                        *)
EXTENDS Release, TLAPS

-----------------------------------------------------------------------------
(* The inductive invariant, in two parts: where the releases are, and what  *)
(* the roll-back finds in the backup, which units are up, and who made the  *)
(* runtime configuration.                                                   *)

Ended(result) == pc \in {"exit", "done"} /\ status = result

(* The roll-back is at one of these commands, or over, and nothing in it has *)
(* failed.                                                                  *)
Restored(commands) == (pc \in commands \/ Ended("failed")) /\ ~rollbackFailed

BeforeType ==
    /\ before.place \in {"none", "live"}
    /\ before.unit \in [Unit -> {"none", "old"}]
    /\ before.enabled \in SUBSET Unit /\ before.up \in SUBSET Unit
    /\ before.runtime.by \in {"none", "earlier"}
    /\ legacy <=> before.place = "live" /\ before.runtime.by = "none"

ScriptInv ==
    /\ pc \in Forward => status = "ok" /\ ~rollbackFailed
    /\ pc \in RollingBack => status = "failed"
    /\ pc = "backup" => flag = {} /\ unit = before.unit
    /\ pc \in (Forward \ {"backup"}) \cup RollingBack => "UNITS_BACKED_UP" \in flag

(* The old release is in the backup, and the script knows.                  *)
OldAside ==
    IF before.place = "live"
    THEN place["old"] = "backup" /\ "OLD_RELEASE" \in flag
    ELSE place["old"] = "none"
OldStill == place["old"] = before.place /\ "OLD_RELEASE" \notin flag

PlaceInv ==
    /\ pc \in {"backup", "stop", "snapshot", "rm", "install", "save"} =>
          OldStill /\ place["new"] = "stage" /\ "PROMOTED" \notin flag
    /\ pc = "saved" => /\ before.place = "live" /\ place["old"] = "backup"
                       /\ place["new"] = "stage" /\ "PROMOTED" \notin flag
    /\ pc = "promote" => OldAside /\ place["new"] = "stage" /\ "PROMOTED" \notin flag
    /\ pc \in {"promoted", "runtime", "created", "reload", "enable", "restart", "status"} =>
          OldAside /\ place["new"] = "live" /\ (pc = "promoted" \/ "PROMOTED" \in flag)
    /\ pc \in {"rb stop", "rb disable", "rb config", "rb remove"} =>
          /\ OldAside \/ (OldStill /\ "PROMOTED" \notin flag)
          /\ place["new"] = "live" <=> "PROMOTED" \in flag
    /\ pc = "rb restore" =>
          /\ OldAside \/ OldStill
          /\ ~rollbackFailed => place["new"] # "live"
    /\ Restored({"rb rm", "rb install", "rb reload", "rb enable", "rb start"}) =>
          place["old"] = before.place /\ place["new"] # "live"
    /\ Ended("ok") => place["new"] = "live"
    /\ pc # "done" => place["old"] # "gone"

Placed == TypeOK /\ BeforeType /\ ScriptInv /\ PlaceInv /\ OldReleaseKept

(* What is in the backup is what was there.                                 *)
Up == {u \in Unit : activity[u] # "inactive"}

Recorded(u) ==
    /\ savedUnit[u] = before.unit[u]
    /\ u \in wasEnabled <=> u \in before.enabled
    /\ u \in before.up \ missed => u \in wasActive

BackupInv ==
    /\ wasEnabled \subseteq before.enabled /\ wasActive \subseteq before.up
    /\ pc = "backup" => \A k \in 1..(i-1) : Recorded(Units[k])
    /\ "UNITS_BACKED_UP" \in flag => \A u \in Unit : Recorded(u)
    /\ "UNITS_BACKED_UP" \notin flag => unit = before.unit /\ enabled = before.enabled
    /\ "UNITS_BACKED_UP" \notin flag \/ pc = "stop" => Up = before.up

(* What has been restored so far.                                           *)
UnitsInv ==
    /\ pc = "rb rm" /\ ~rollbackFailed =>
          \A k \in 1..(i-1) : unit[Units[k]] = before.unit[Units[k]]
    /\ pc = "rb install" /\ ~rollbackFailed =>
          /\ unit[U] = "none"
          /\ \A k \in 1..(i-1) : Units[k] # U => unit[Units[k]] = before.unit[Units[k]]
    /\ Restored({"rb reload", "rb enable", "rb start"}) => unit = before.unit

EnabledBack(u) == u \in enabled <=> u \in before.enabled
ActiveBack(u) == /\ activity[u] # "inactive" => u \in before.up
                 /\ u \in before.up \ missed => activity[u] # "inactive"

ServicesInv ==
    /\ pc = "rb enable" /\ ~rollbackFailed =>
          \A k \in 1..(i-1) : EnabledBack(Units[k]) /\ ActiveBack(Units[k])
    /\ pc = "rb start" /\ ~rollbackFailed =>
          /\ \A k \in 1..i : EnabledBack(Units[k])
          /\ \A k \in 1..(i-1) : ActiveBack(Units[k])
    /\ Restored({}) => \A u \in Unit : EnabledBack(u) /\ ActiveBack(u)

AtStart == pc \in {"rb config", "rb remove", "rb restore", "rb reload"} => i = 1

(* The runtime configuration: a file that was not there is removed.         *)
RuntimeInv ==
    /\ before.runtime.by # "none" => runtime.by # "none" /\ "CONFIG_CREATED" \notin flag
    /\ pc \in {"created", "reload", "enable", "restart", "status"} => runtime.by # "none"
    /\ pc = "created" => before.runtime.by = "none"
    /\ pc = "rb config" => "CONFIG_CREATED" \in flag
    /\ before.runtime.by = "none" =>
          /\ pc \in {"backup", "stop", "snapshot", "rm", "install", "save", "saved",
                     "promote", "promoted", "runtime"} => runtime.by = "none"
          /\ pc \in {"reload", "enable", "restart", "status"} => "CONFIG_CREATED" \in flag
          /\ pc \in {"rb stop", "rb disable"} /\ "CONFIG_CREATED" \notin flag
                => runtime.by = "none"
          /\ Restored({"rb remove", "rb restore", "rb rm", "rb install", "rb reload",
                       "rb enable", "rb start"}) => runtime.by = "none"
    /\ Ended("ok") => runtime.by # "none"

(* The file: who made it, which settings it has, and that it has the        *)
(* identity of the release's own only if it is that, or after two saves.    *)
FileInv ==
    /\ runtime.by = "script" => runtime.ver = snapshot
    /\ runtime.by = "api" => runtime.ver > snapshot
    /\ runtime.by = "api" /\ runtime.same => runtime.ver >= snapshot + 2
    /\ runtime.by \in {"none", "earlier"} => ~runtime.same
    /\ runtime.by # "none" => runtime.ver <= latest
    /\ before.runtime.by = "none" => runtime.by # "earlier"
    /\ snapshot <= latest /\ legacyVer <= latest

(* The settings: unless it is missed, the old API is down from before they  *)
(* are copied until the new one is started.                                 *)
Uncopied == {"backup", "stop", "snapshot"}
Copied == {"rm", "install", "save", "saved", "promote", "promoted", "runtime"}
Moved  == {"created", "reload", "enable", "restart", "status"}

ReturnedInode == "CONFIG_CREATED" \in flag /\ latest >= snapshot + 2

SettingsInv ==
    /\ pc \in {"stop", "snapshot"} => legacy
    /\ ~legacy => /\ snapshot = 0
                  /\ runtime.by # "none" => runtime.ver = latest
                  /\ pc \in Uncopied \cup Copied /\ runtime.by = "none" => latest = 0
    /\ legacy => /\ pc \in Uncopied => legacyVer = latest
                 /\ legacyVer = latest \/ runtime.by = "api" \/ ReturnedInode
    /\ legacy /\ Api \notin missed =>
                 /\ pc \in Copied => snapshot = latest
                 /\ pc \in {"snapshot"} \cup Copied \cup {"created", "reload", "enable"} =>
                       activity[Api] = "inactive"
                 /\ pc \in Moved => activity[Api] = "inactive" \/ runs[Api] = "new"
                 /\ pc \in Moved \/ Ended("ok") => runtime.ver = latest
                 /\ Ended("ok") => runs[Api] = "new"

Inductive ==
    /\ Placed
    /\ BackupInv /\ UnitsInv /\ ServicesInv /\ AtStart
    /\ RuntimeInv /\ FileInv /\ SettingsInv

-----------------------------------------------------------------------------
USE DEF script, files, backup, systemd, config, history, Goto, Raise, Succeeding,
        InCleanup, Undone, NotUndone

LEMMA UnitsLoop ==
    /\ DOMAIN Units = 1..Len(Units) /\ Len(Units) \in Nat \ {0} /\ 1 \in DOMAIN Units
    /\ \A k \in DOMAIN Units : Units[k] \in Unit
    /\ \A k \in DOMAIN Units : k # Len(Units) => k + 1 \in DOMAIN Units
<1>1. DOMAIN Units = 1..Len(Units) /\ Len(Units) \in Nat
  BY UnitAssumption
<1>2. PICK k \in DOMAIN Units : Units[k] = Api
  BY UnitAssumption, ApiAssumption
<1>3. \A n \in DOMAIN Units : Units[n] \in Unit
  BY UnitAssumption
<1>4. QED
  BY <1>1, <1>2, <1>3

Pcs == Forward \cup RollingBack \cup {"exit", "done"}
ControlOK ==
    /\ pc \in Pcs
    /\ i \in DOMAIN Units
    /\ flag \subseteq {"UNITS_BACKED_UP", "OLD_RELEASE", "PROMOTED", "CONFIG_CREATED"}
    /\ status \in {"ok", "failed", "interrupted"}
    /\ rollbackFailed \in BOOLEAN
Runtimes ==
    [by : {"none", "earlier", "script", "api"}, ver : 0 .. MaxSaves, same : BOOLEAN]
DataOK ==
    /\ place \in [Release -> {"none", "stage", "live", "nested", "backup", "gone"}]
    /\ unit \in [Unit -> {"none", "old", "new"}]
    /\ savedUnit \in [Unit -> {"none", "old"}]
    /\ enabled \subseteq Unit
    /\ activity \in [Unit -> {"active", "waiting", "inactive"}]
    /\ runs \in [Unit -> Release]
    /\ wasEnabled \subseteq Unit
    /\ wasActive \subseteq Unit
    /\ legacy \in BOOLEAN
    /\ legacyVer \in 0 .. MaxSaves
    /\ runtime \in Runtimes
    /\ snapshot \in 0 .. MaxSaves
    /\ latest \in 0 .. MaxSaves
    /\ missed \subseteq Unit

LEMMA PcsAre ==
    /\ Pcs = {"backup", "stop", "snapshot", "rm", "install", "save", "saved",
              "promote", "promoted", "runtime", "created", "reload", "enable",
              "restart", "status", "rb stop", "rb disable", "rb config", "rb remove",
              "rb restore", "rb rm", "rb install", "rb reload", "rb enable", "rb start",
              "exit", "done"}
    /\ TypeOK <=> ControlOK /\ DataOK
    /\ TypeOK' <=> ControlOK' /\ DataOK'
BY DEF Pcs, Forward, RollingBack, TypeOK, ControlOK, DataOK, Runtimes

LEMMA ARuntime ==
    /\ \A b \in {"none", "earlier", "script", "api"}, v \in 0 .. MaxSaves, s \in BOOLEAN :
          [by |-> b, ver |-> v, same |-> s] \in Runtimes
    /\ 0 \in 0 .. MaxSaves /\ NoRuntime \in Runtimes
<1>1. 0 \in 0 .. MaxSaves
  BY BoundAssumption
<1>2. \A b \in {"none", "earlier", "script", "api"}, v \in 0 .. MaxSaves, s \in BOOLEAN :
         [by |-> b, ver |-> v, same |-> s] \in Runtimes
  BY DEF Runtimes
<1>3. NoRuntime \in Runtimes
  BY <1>1, <1>2 DEF NoRuntime
<1>4. QED
  BY <1>1, <1>2, <1>3

LEMMA InitPlaced == Init => Placed
<1> SUFFICES ASSUME Init PROVE Placed
  OBVIOUS
<1>1. ControlOK
  BY UnitsLoop, PcsAre DEF Init, ControlOK
<1>2. DataOK
  <2>1. place \in [Release -> {"none", "stage", "live", "nested", "backup", "gone"}]
    BY DEF Init, Release
  <2>2. activity \in [Unit -> {"active", "waiting", "inactive"}]
    BY DEF Init
  <2>3. unit \in [Unit -> {"none", "old", "new"}]
    BY DEF Init
  <2>4. runtime \in Runtimes
    <3>1. runtime \in {NoRuntime, [by |-> "earlier", ver |-> 0, same |-> FALSE]}
      BY DEF Init
    <3>2. QED
      BY <3>1, ARuntime
  <2>5. enabled \subseteq Unit
    BY DEF Init
  <2>6. QED
    BY <2>1, <2>2, <2>3, <2>4, <2>5, BoundAssumption DEF Init, DataOK, Release
<1>3. BeforeType
  <2>1. place["old"] \in {"none", "live"} /\ runtime.by \in {"none", "earlier"}
        /\ (runtime = NoRuntime <=> runtime.by = "none")
    BY DEF Init, NoRuntime
  <2>2. unit \in [Unit -> {"none", "old"}] /\ enabled \subseteq Unit
    BY DEF Init
  <2>3. QED
    BY <2>1, <2>2 DEF Init, BeforeType
<1>4. ScriptInv
  BY DEF Init, ScriptInv, Forward, RollingBack
<1>5. place["new"] = "stage" /\ place["old"] \in {"none", "live"}
  BY DEF Init
<1>6. PlaceInv /\ OldReleaseKept
  BY <1>5 DEF Init, PlaceInv, OldReleaseKept, OldAside, OldStill, Restored, Ended
<1>7. QED
  BY <1>1, <1>2, <1>3, <1>4, <1>6, PcsAre DEF Placed

(* Every step keeps the types.                                              *)
LEMMA ControlNext == ASSUME ControlOK, [Next]_vars PROVE ControlOK'
<1>1. CASE BackUp
  BY <1>1, UnitsLoop, PcsAre DEF BackUp, RecordedActive, Loop, Last, U, ControlOK
<1>2. CASE StopApi
  BY <1>2, UnitsLoop, PcsAre DEF StopApi, StopWriter, ControlOK
<1>3. CASE Snapshot
  BY <1>3, UnitsLoop, PcsAre DEF Snapshot, ControlOK
<1>4. CASE RemoveUnit
  BY <1>4, UnitsLoop, PcsAre DEF RemoveUnit, U, ControlOK
<1>5. CASE InstallUnit
  BY <1>5, UnitsLoop, PcsAre DEF InstallUnit, U, Loop, Last, ControlOK
<1>6. CASE SaveRelease
  BY <1>6, UnitsLoop, PcsAre DEF SaveRelease, ControlOK
<1>7. CASE Saved
  BY <1>7, UnitsLoop, PcsAre DEF Saved, ControlOK
<1>8. CASE Promote
  BY <1>8, UnitsLoop, PcsAre DEF Promote, ToLive, ControlOK
<1>9. CASE Promoted
  BY <1>9, UnitsLoop, PcsAre DEF Promoted, ControlOK
<1>10. CASE InstallRuntime
  BY <1>10, UnitsLoop, PcsAre DEF InstallRuntime, NoRuntime, ControlOK
<1>11. CASE Created
  BY <1>11, UnitsLoop, PcsAre DEF Created, ControlOK
<1>12. CASE DaemonReload
  BY <1>12, UnitsLoop, PcsAre DEF DaemonReload, ControlOK
<1>13. CASE Enable
  BY <1>13, UnitsLoop, PcsAre DEF Enable, ControlOK
<1>14. CASE Restart
  BY <1>14, UnitsLoop, PcsAre DEF Restart, Start, U, Loop, Last, ControlOK
<1>15. CASE CheckStatus
  BY <1>15, UnitsLoop, PcsAre DEF CheckStatus, ControlOK
<1>16. CASE Fail
  BY <1>16, UnitsLoop, PcsAre DEF Fail, StopWriter, U, Start, NothingToUndo, Assignment, Forward, Release, ControlOK
<1>17. CASE Interrupt
  BY <1>17, UnitsLoop, PcsAre DEF Interrupt, Forward, RollingBack, ControlOK
<1>18. CASE RbStop
  BY <1>18, UnitsLoop, PcsAre DEF RbStop, StopIfActive, U, ControlOK
<1>19. CASE RbDisable
  BY <1>19, UnitsLoop, PcsAre DEF RbDisable, DisableIfEnabled, U, Loop, Last, ControlOK
<1>20. CASE RbConfig
  BY <1>20, UnitsLoop, PcsAre DEF RbConfig, NoWriter, SameFile, NoRuntime, ControlOK
<1>21. CASE RbRemove
  BY <1>21, UnitsLoop, PcsAre DEF RbRemove, Release, ControlOK
<1>22. CASE RbRestore
  BY <1>22, UnitsLoop, PcsAre DEF RbRestore, ToLive, Release, ControlOK
<1>23. CASE RbRemoveUnit
  BY <1>23, UnitsLoop, PcsAre DEF RbRemoveUnit, U, ControlOK
<1>24. CASE RbInstallUnit
  BY <1>24, UnitsLoop, PcsAre DEF RbInstallUnit, U, RestoredUnit, Loop, Last, ControlOK
<1>25. CASE RbReload
  BY <1>25, UnitsLoop, PcsAre DEF RbReload, ControlOK
<1>26. CASE RbEnable
  BY <1>26, UnitsLoop, PcsAre DEF RbEnable, DisableIfEnabled, U, ControlOK
<1>27. CASE RbStart
  BY <1>27, UnitsLoop, PcsAre DEF RbStart, Start, StopIfActive, U, Loop, Last, ControlOK
<1>28. CASE Exit
  BY <1>28, UnitsLoop, PcsAre DEF Exit, KeepBackup, Release, ControlOK
<1>29. CASE AdminSaves
  BY <1>29, UnitsLoop, PcsAre DEF AdminSaves, ControlOK
<1>30. ASSUME NEW u \in Unit, ServiceCrashes(u) PROVE ControlOK'
  BY <1>30, UnitsLoop, PcsAre DEF ServiceCrashes, ControlOK
<1>31. ASSUME NEW u \in Unit, ServiceRestarts(u) PROVE ControlOK'
  BY <1>31, UnitsLoop, PcsAre DEF ServiceRestarts, ControlOK
<1>32. CASE UNCHANGED vars
  BY <1>32, UnitsLoop, PcsAre DEF vars, ControlOK
<1>33. QED
  BY <1>1, <1>2, <1>3, <1>4, <1>5, <1>6, <1>7, <1>8, <1>9, <1>10, <1>11, <1>12, <1>13, <1>14, <1>15, <1>16, <1>17, <1>18, <1>19, <1>20, <1>21, <1>22, <1>23, <1>24, <1>25, <1>26, <1>27, <1>28, <1>29, <1>30, <1>31, <1>32 DEF Next, Install, Cleanup

(* A save, as far as the runtime configuration goes.                        *)
LEMMA SaveMakes ==
    ASSUME AdminSaves
    PROVE  \/ runtime' = runtime
           \/ /\ runtime.by # "none"
              /\ \E s \in BOOLEAN :
                    /\ s => runtime.by = "api" /\ ~runtime.same
                    /\ runtime' = [by |-> IF runtime.by = "earlier" THEN "earlier" ELSE "api",
                                   ver |-> latest', same |-> s]
<1>1. CASE legacy /\ runs[Api] = "old"
  BY <1>1 DEF AdminSaves
<1>2. CASE ~(legacy /\ runs[Api] = "old")
  <2>1. PICK s \in IF runtime.by = "api" /\ ~runtime.same THEN BOOLEAN ELSE {FALSE} :
           runtime' = [by |-> IF runtime.by = "earlier" THEN "earlier" ELSE "api",
                       ver |-> latest', same |-> s]
    BY <1>2 DEF AdminSaves
  <2>2. s \in BOOLEAN /\ (s => runtime.by = "api" /\ ~runtime.same)
    BY <2>1
  <2>3. runtime.by # "none"
    BY <1>2 DEF AdminSaves
  <2>4. QED
    BY <2>1, <2>2, <2>3
<1>3. QED
  BY <1>1, <1>2

(* Every step keeps the types.                                              *)
LEMMA DataNext == ASSUME ControlOK, DataOK, BeforeType, ScriptInv, [Next]_vars PROVE DataOK'
<1>1. CASE BackUp
  <2>1. U \in Unit /\ unit[U] \in {"none", "old"}
    BY <1>1, UnitsLoop DEF BackUp, BeforeType, ScriptInv, ControlOK, U
  <2>2. QED
    BY <1>1, <2>1 DEF BackUp, DataOK
<1>2. CASE StopApi
  BY <1>2, UnitsLoop, BoundAssumption, ApiAssumption DEF StopApi, StopWriter, DataOK, Release
<1>3. CASE Snapshot
  BY <1>3, UnitsLoop, BoundAssumption, ApiAssumption DEF Snapshot, DataOK, Release
<1>4. CASE RemoveUnit
  BY <1>4, UnitsLoop, BoundAssumption, ApiAssumption DEF RemoveUnit, U, DataOK, Release
<1>5. CASE InstallUnit
  BY <1>5, UnitsLoop, BoundAssumption, ApiAssumption DEF InstallUnit, U, Loop, Last, DataOK, Release
<1>6. CASE SaveRelease
  <2>1. place' \in [Release -> {"none", "stage", "live", "nested", "backup", "gone"}]
    BY <1>6 DEF SaveRelease, DataOK, Release
  <2>2. QED
    BY <1>6, <2>1 DEF SaveRelease, DataOK
<1>7. CASE Saved
  BY <1>7, UnitsLoop, BoundAssumption, ApiAssumption DEF Saved, DataOK, Release
<1>8. CASE Promote
  BY <1>8, UnitsLoop, BoundAssumption, ApiAssumption DEF Promote, ToLive, DataOK, Release
<1>9. CASE Promoted
  BY <1>9, UnitsLoop, BoundAssumption, ApiAssumption DEF Promoted, DataOK, Release
<1>10. CASE InstallRuntime
  <2>1. runtime' \in Runtimes
    <3>1. runtime' = runtime \/ runtime' = [by |-> "script", ver |-> snapshot, same |-> TRUE]
      BY <1>10 DEF InstallRuntime
    <3>2. QED
      BY <3>1, ARuntime DEF DataOK
  <2>2. QED
    BY <1>10, <2>1 DEF InstallRuntime, DataOK
<1>11. CASE Created
  BY <1>11, UnitsLoop, BoundAssumption, ApiAssumption DEF Created, DataOK, Release
<1>12. CASE DaemonReload
  BY <1>12, UnitsLoop, BoundAssumption, ApiAssumption DEF DaemonReload, DataOK, Release
<1>13. CASE Enable
  BY <1>13, UnitsLoop, BoundAssumption, ApiAssumption DEF Enable, DataOK, Release
<1>14. CASE Restart
  BY <1>14, UnitsLoop, BoundAssumption, ApiAssumption DEF Restart, Start, U, Loop, Last, DataOK, Release
<1>15. CASE CheckStatus
  BY <1>15, UnitsLoop, BoundAssumption, ApiAssumption DEF CheckStatus, DataOK, Release
<1>16. CASE Fail
  <2>1. U \in Unit
    BY UnitsLoop DEF ControlOK, U
  <2>2. enabled' \subseteq Unit
    <3>1. enabled' = enabled \/ \E S \in SUBSET Started : enabled' = enabled \cup S
      BY <1>16 DEF Fail
    <3>2. QED
      BY <3>1, ApiAssumption DEF DataOK
  <2>3. /\ activity' \in [Unit -> {"active", "waiting", "inactive"}]
        /\ runs' \in [Unit -> Release]
    <3>1. CASE Start(U)
      BY <2>1, <3>1 DEF DataOK, Start, Release
    <3>2. CASE \E s \in {"waiting", "inactive"} :
                 activity' = [activity EXCEPT ![U] = s] /\ runs' = [runs EXCEPT ![U] = "new"]
      BY <2>1, <3>2 DEF DataOK, Release
    <3>3. CASE /\ activity' = activity \/ activity' = [activity EXCEPT ![Api] = "inactive"]
               /\ runs' = runs
      BY <3>3, ApiAssumption DEF DataOK
    <3>4. QED
      BY <1>16, <3>1, <3>2, <3>3 DEF Fail
  <2>4. QED
    BY <1>16, <2>2, <2>3 DEF Fail, DataOK
<1>17. CASE Interrupt
  BY <1>17, UnitsLoop, BoundAssumption, ApiAssumption DEF Interrupt, Forward, RollingBack, DataOK, Release
<1>18. CASE RbStop
  BY <1>18, UnitsLoop, BoundAssumption, ApiAssumption DEF RbStop, StopIfActive, U, DataOK, Release
<1>19. CASE RbDisable
  BY <1>19, UnitsLoop, BoundAssumption, ApiAssumption DEF RbDisable, DisableIfEnabled, U, Loop, Last, DataOK, Release
<1>20. CASE RbConfig
  <2>1. runtime' \in Runtimes
    <3>1. runtime' = NoRuntime \/ runtime' = runtime
      BY <1>20 DEF RbConfig
    <3>2. QED
      BY <3>1, ARuntime DEF DataOK
  <2>2. QED
    BY <1>20, <2>1 DEF RbConfig, DataOK
<1>21. CASE RbRemove
  <2>1. place' \in [Release -> {"none", "stage", "live", "nested", "backup", "gone"}]
    <3>1. \/ place' = [r \in Release |-> IF place[r] = "live" THEN "backup" ELSE place[r]]
          \/ place' = place
      BY <1>21 DEF RbRemove
    <3>2. QED
      BY <3>1 DEF DataOK
  <2>2. QED
    BY <1>21, <2>1 DEF RbRemove, DataOK
<1>22. CASE RbRestore
  <2>1. place' \in [Release -> {"none", "stage", "live", "nested", "backup", "gone"}]
    <3>1. place' = ToLive("old") \/ place' = place
      BY <1>22 DEF RbRestore
    <3>2. QED
      BY <3>1 DEF DataOK, Release, ToLive
  <2>2. QED
    BY <1>22, <2>1 DEF RbRestore, DataOK
<1>23. CASE RbRemoveUnit
  BY <1>23, UnitsLoop, BoundAssumption, ApiAssumption DEF RbRemoveUnit, U, DataOK, Release
<1>24. CASE RbInstallUnit
  <2>1. U \in Unit /\ savedUnit[U] \in {"none", "old"} /\ unit[U] \in {"none", "old", "new"}
    BY UnitsLoop DEF ControlOK, DataOK, U
  <2>2. RestoredUnit(U) \in {"none", "old", "new"}
    BY <2>1 DEF RestoredUnit
  <2>3. unit' \in [Unit -> {"none", "old", "new"}]
    BY <1>24, <2>2 DEF RbInstallUnit, DataOK
  <2>4. QED
    BY <1>24, <2>3 DEF RbInstallUnit, DataOK
<1>25. CASE RbReload
  BY <1>25, UnitsLoop, BoundAssumption, ApiAssumption DEF RbReload, DataOK, Release
<1>26. CASE RbEnable
  <2>1. enabled' = enabled \cup {U} \/ enabled' = enabled \/ enabled' = enabled \ {U}
    BY <1>26 DEF RbEnable, DisableIfEnabled
  <2>2. U \in Unit
    BY UnitsLoop DEF ControlOK, U
  <2>3. QED
    BY <1>26, <2>1, <2>2 DEF RbEnable, DataOK
<1>27. CASE RbStart
  BY <1>27, UnitsLoop, BoundAssumption, ApiAssumption DEF RbStart, Start, StopIfActive, U, Loop, Last, DataOK, Release
<1>28. CASE Exit
  BY <1>28, UnitsLoop, BoundAssumption, ApiAssumption DEF Exit, KeepBackup, Release, DataOK, Release
<1>29. CASE AdminSaves
  <2>1. latest' \in 0 .. MaxSaves /\ legacyVer' \in 0 .. MaxSaves
    <3>1. latest < MaxSaves /\ latest' = latest + 1
          /\ (legacyVer' = latest' \/ legacyVer' = legacyVer)
      BY <1>29 DEF AdminSaves
    <3>2. latest \in 0 .. MaxSaves /\ legacyVer \in 0 .. MaxSaves
      BY DEF DataOK
    <3>3. QED
      BY <3>1, <3>2, BoundAssumption
  <2>2. runtime' \in Runtimes
    <3>1. \/ runtime' = runtime
          \/ \E b \in {"earlier", "api"}, s \in BOOLEAN :
                runtime' = [by |-> b, ver |-> latest', same |-> s]
      BY <1>29, SaveMakes
    <3>2. QED
      BY <2>1, <3>1, ARuntime DEF DataOK
  <2>3. QED
    BY <1>29, <2>1, <2>2 DEF AdminSaves, DataOK
<1>30. ASSUME NEW u \in Unit, ServiceCrashes(u) PROVE DataOK'
  BY <1>30, UnitsLoop, BoundAssumption, ApiAssumption DEF ServiceCrashes, DataOK, Release
<1>31. ASSUME NEW u \in Unit, ServiceRestarts(u) PROVE DataOK'
  BY <1>31, UnitsLoop, BoundAssumption, ApiAssumption DEF ServiceRestarts, Start, DataOK, Release
<1>32. CASE UNCHANGED vars
  BY <1>32, UnitsLoop, BoundAssumption, ApiAssumption DEF vars, DataOK, Release
<1>33. QED
  BY <1>1, <1>2, <1>3, <1>4, <1>5, <1>6, <1>7, <1>8, <1>9, <1>10, <1>11, <1>12, <1>13, <1>14, <1>15, <1>16, <1>17, <1>18, <1>19, <1>20, <1>21, <1>22, <1>23, <1>24, <1>25, <1>26, <1>27, <1>28, <1>29, <1>30, <1>31, <1>32 DEF Next, Install, Cleanup

(* What is not a command of the script.                                     *)
Others ==
    AdminSaves \/ (\E u \in Unit : ServiceCrashes(u) \/ ServiceRestarts(u)) \/ UNCHANGED vars

LEMMA OthersKeep ==
    ASSUME Others
    PROVE  UNCHANGED <<pc, i, flag, status, rollbackFailed, place, unit, savedUnit,
                       wasEnabled, wasActive, enabled, snapshot, legacy, before,
                       missed>>
BY DEF Others, AdminSaves, ServiceCrashes, ServiceRestarts, vars


(* The script: what failed, and what the flags say.                         *)
LEMMA ScriptNext == ASSUME ControlOK, ScriptInv, [Next]_vars PROVE ScriptInv'
<1>1. CASE BackUp
  BY <1>1 DEF BackUp, Loop, Last, ScriptInv, Forward, RollingBack
<1>2. CASE StopApi
  BY <1>2 DEF StopApi, ScriptInv, Forward, RollingBack
<1>3. CASE Snapshot
  BY <1>3 DEF Snapshot, ScriptInv, Forward, RollingBack
<1>4. CASE RemoveUnit
  BY <1>4 DEF RemoveUnit, ScriptInv, Forward, RollingBack
<1>5. CASE InstallUnit
  BY <1>5 DEF InstallUnit, Loop, Last, ScriptInv, Forward, RollingBack
<1>6. CASE SaveRelease
  BY <1>6 DEF SaveRelease, ScriptInv, Forward, RollingBack
<1>7. CASE Saved
  BY <1>7 DEF Saved, ScriptInv, Forward, RollingBack
<1>8. CASE Promote
  BY <1>8 DEF Promote, ToLive, ScriptInv, Forward, RollingBack
<1>9. CASE Promoted
  BY <1>9 DEF Promoted, ScriptInv, Forward, RollingBack
<1>10. CASE InstallRuntime
  BY <1>10 DEF InstallRuntime, ScriptInv, Forward, RollingBack
<1>11. CASE Created
  BY <1>11 DEF Created, ScriptInv, Forward, RollingBack
<1>12. CASE DaemonReload
  BY <1>12 DEF DaemonReload, ScriptInv, Forward, RollingBack
<1>13. CASE Enable
  BY <1>13 DEF Enable, ScriptInv, Forward, RollingBack
<1>14. CASE Restart
  BY <1>14 DEF Restart, Loop, Last, ScriptInv, Forward, RollingBack
<1>15. CASE CheckStatus
  BY <1>15 DEF CheckStatus, ScriptInv, Forward, RollingBack
<1>16. CASE Fail
  BY <1>16 DEF Fail, NothingToUndo, Assignment, Forward, ScriptInv, Forward, RollingBack
<1>17. CASE Interrupt
  BY <1>17 DEF Interrupt, Forward, RollingBack, ScriptInv, Forward, RollingBack
<1>18. CASE RbStop
  BY <1>18 DEF RbStop, ScriptInv, Forward, RollingBack
<1>19. CASE RbDisable
  BY <1>19 DEF RbDisable, Loop, Last, ScriptInv, Forward, RollingBack
<1>20. CASE RbConfig
  BY <1>20 DEF RbConfig, ScriptInv, Forward, RollingBack
<1>21. CASE RbRemove
  BY <1>21 DEF RbRemove, Release, ScriptInv, Forward, RollingBack
<1>22. CASE RbRestore
  BY <1>22 DEF RbRestore, ToLive, Release, ScriptInv, Forward, RollingBack
<1>23. CASE RbRemoveUnit
  BY <1>23 DEF RbRemoveUnit, ScriptInv, Forward, RollingBack
<1>24. CASE RbInstallUnit
  BY <1>24 DEF RbInstallUnit, Loop, Last, ScriptInv, Forward, RollingBack
<1>25. CASE RbReload
  BY <1>25 DEF RbReload, ScriptInv, Forward, RollingBack
<1>26. CASE RbEnable
  BY <1>26 DEF RbEnable, ScriptInv, Forward, RollingBack
<1>27. CASE RbStart
  BY <1>27 DEF RbStart, Loop, Last, ScriptInv, Forward, RollingBack
<1>28. CASE Exit
  BY <1>28 DEF Exit, KeepBackup, Release, ScriptInv, Forward, RollingBack
<1>29. CASE Others
  <2>1. UNCHANGED <<pc, flag, status, rollbackFailed, unit, before>>
    BY <1>29, OthersKeep
  <2>2. QED
    BY <2>1 DEF ScriptInv
<1>30. QED
  BY <1>1, <1>2, <1>3, <1>4, <1>5, <1>6, <1>7, <1>8, <1>9, <1>10, <1>11, <1>12, <1>13, <1>14, <1>15, <1>16, <1>17, <1>18, <1>19, <1>20, <1>21, <1>22, <1>23, <1>24, <1>25, <1>26, <1>27, <1>28, <1>29 DEF Next, Install, Cleanup, Others

LEMMA PlaceNext == ASSUME ControlOK, DataOK, BeforeType, ScriptInv, PlaceInv, [Next]_vars PROVE PlaceInv'
<1>1. CASE BackUp
  BY <1>1 DEF BackUp, Loop, Last, PlaceInv, OldAside, OldStill, Restored, Ended
<1>2. CASE StopApi
  BY <1>2 DEF StopApi, PlaceInv, OldAside, OldStill, Restored, Ended
<1>3. CASE Snapshot
  BY <1>3 DEF Snapshot, PlaceInv, OldAside, OldStill, Restored, Ended
<1>4. CASE RemoveUnit
  BY <1>4 DEF RemoveUnit, PlaceInv, OldAside, OldStill, Restored, Ended
<1>5. CASE InstallUnit
  BY <1>5 DEF InstallUnit, Loop, Last, PlaceInv, OldAside, OldStill, Restored, Ended
<1>6. CASE SaveRelease
  <2>1. /\ pc = "save" /\ pc' = (IF place["old"] = "live" THEN "saved" ELSE "promote")
        /\ UNCHANGED <<flag, before>>
    BY <1>6 DEF SaveRelease, Goto
  <2>2. OldStill /\ place["new"] = "stage" /\ "PROMOTED" \notin flag
    BY <2>1 DEF PlaceInv
  <2>3. before.place \in {"none", "live"}
    BY DEF BeforeType
  <2>4. CASE place["old"] = "live"
    <3>1. place' = [place EXCEPT !["old"] = "backup"]
      BY <1>6, <2>4 DEF SaveRelease
    <3>2. place'["old"] = "backup" /\ place'["new"] = "stage"
      BY <2>2, <3>1 DEF DataOK, Release
    <3>3. before.place = "live"
      BY <2>2, <2>4 DEF OldStill
    <3>4. pc' = "saved"
      BY <2>1, <2>4
    <3>5. QED
      BY <2>1, <2>2, <3>2, <3>3, <3>4 DEF PlaceInv, Restored, Ended
  <2>5. CASE place["old"] # "live"
    <3>1. place' = place
      BY <1>6, <2>5 DEF SaveRelease
    <3>2. before.place = "none" /\ place["old"] = "none"
      BY <2>2, <2>3, <2>5 DEF OldStill
    <3>3. OldAside'
      BY <2>1, <3>1, <3>2 DEF OldAside
    <3>4. pc' = "promote"
      BY <2>1, <2>5
    <3>5. QED
      BY <2>1, <2>2, <3>1, <3>3, <3>4 DEF PlaceInv, Restored, Ended
  <2>6. QED
    BY <2>4, <2>5
<1>7. CASE Saved
  BY <1>7 DEF Saved, PlaceInv, OldAside, OldStill, Restored, Ended
<1>8. CASE Promote
  <2>1. ToLive("new") = [place EXCEPT !["new"] = "live"]
    BY <1>8 DEF Promote, ToLive, Release, PlaceInv, OldAside
  <2>2. QED
    BY <1>8, <2>1 DEF Promote, DataOK, Release, PlaceInv, OldAside, OldStill, Restored, Ended
<1>9. CASE Promoted
  BY <1>9 DEF Promoted, PlaceInv, OldAside, OldStill, Restored, Ended
<1>10. CASE InstallRuntime
  BY <1>10 DEF InstallRuntime, PlaceInv, OldAside, OldStill, Restored, Ended
<1>11. CASE Created
  BY <1>11 DEF Created, PlaceInv, OldAside, OldStill, Restored, Ended
<1>12. CASE DaemonReload
  BY <1>12 DEF DaemonReload, PlaceInv, OldAside, OldStill, Restored, Ended
<1>13. CASE Enable
  BY <1>13 DEF Enable, PlaceInv, OldAside, OldStill, Restored, Ended
<1>14. CASE Restart
  BY <1>14 DEF Restart, Loop, Last, PlaceInv, OldAside, OldStill, Restored, Ended
<1>15. CASE CheckStatus
  BY <1>15 DEF CheckStatus, ScriptInv, Forward, PlaceInv, OldAside, OldStill, Restored, Ended
<1>16. CASE Fail
  BY <1>16 DEF Fail, NothingToUndo, Assignment, Forward, ScriptInv, PlaceInv, OldAside, OldStill, Restored, Ended
<1>17. CASE Interrupt
  BY <1>17 DEF Interrupt, Forward, RollingBack, PlaceInv, OldAside, OldStill, Restored, Ended
<1>18. CASE RbStop
  BY <1>18 DEF RbStop, PlaceInv, OldAside, OldStill, Restored, Ended
<1>19. CASE RbDisable
  BY <1>19 DEF RbDisable, Loop, Last, PlaceInv, OldAside, OldStill, Restored, Ended
<1>20. CASE RbConfig
  BY <1>20 DEF RbConfig, PlaceInv, OldAside, OldStill, Restored, Ended
<1>21. CASE RbRemove
  BY <1>21 DEF RbRemove, Release, PlaceInv, OldAside, OldStill, Restored, Ended
<1>22. CASE RbRestore
  <2>1. CASE rollbackFailed'
    BY <1>22, <2>1 DEF RbRestore, PlaceInv, Restored, Ended, DataOK, ToLive, Release
  <2>2. CASE ~rollbackFailed' /\ "OLD_RELEASE" \in flag /\ place["old"] = "backup"
    <3>1. place' = ToLive("old") /\ ~rollbackFailed
      BY <1>22, <2>2 DEF RbRestore
    <3>2. place["new"] # "live" /\ OldAside
      BY <1>22, <2>2, <3>1 DEF RbRestore, PlaceInv, OldStill, BeforeType
    <3>3. ToLive("old") = [place EXCEPT !["old"] = "live"]
      BY <2>2, <3>2 DEF ToLive, Release
    <3>4. place'["old"] = "live" /\ place'["new"] = place["new"]
      BY <3>1, <3>3 DEF DataOK, Release
    <3>5. before.place = "live"
      BY <2>2, <3>2 DEF OldAside
    <3>6. pc' = "rb rm" /\ before' = before
      BY <1>22 DEF RbRestore
    <3>7. QED
      BY <3>2, <3>4, <3>5, <3>6 DEF PlaceInv, Restored, Ended
  <2>3. CASE ~rollbackFailed' /\ ~("OLD_RELEASE" \in flag /\ place["old"] = "backup")
    BY <1>22, <2>3 DEF RbRestore, BeforeType, PlaceInv, OldAside, OldStill, Restored, Ended
  <2>4. QED
    BY <2>1, <2>2, <2>3
<1>23. CASE RbRemoveUnit
  BY <1>23 DEF RbRemoveUnit, PlaceInv, OldAside, OldStill, Restored, Ended
<1>24. CASE RbInstallUnit
  BY <1>24 DEF RbInstallUnit, Loop, Last, PlaceInv, OldAside, OldStill, Restored, Ended
<1>25. CASE RbReload
  BY <1>25 DEF RbReload, PlaceInv, OldAside, OldStill, Restored, Ended
<1>26. CASE RbEnable
  BY <1>26 DEF RbEnable, DisableIfEnabled, PlaceInv, OldAside, OldStill, Restored, Ended
<1>27. CASE RbStart
  <2>1. rollbackFailed => rollbackFailed'
    BY <1>27 DEF RbStart, StopIfActive
  <2>2. /\ UNCHANGED <<place, flag, status, before>> /\ pc = "rb start"
        /\ pc' \in {"rb enable", "exit"}
    BY <1>27 DEF RbStart, Loop
  <2>3. QED
    BY <2>1, <2>2 DEF ScriptInv, RollingBack, ControlOK, PlaceInv, OldAside, OldStill, Restored, Ended
<1>28. CASE Exit
  <2>1. \A r \in Release : place'[r] = IF place[r] = "backup" /\ ~rollbackFailed THEN "gone" ELSE place[r]
    BY <1>28 DEF Exit, KeepBackup
  <2>2. UNCHANGED <<status, flag, rollbackFailed, before>> /\ pc = "exit" /\ pc' = "done"
    BY <1>28 DEF Exit
  <2>3. QED
    BY <2>1, <2>2 DEF Release, BeforeType, PlaceInv, OldAside, OldStill, Restored, Ended
<1>29. CASE Others
  BY <1>29, OthersKeep DEF PlaceInv, OldAside, OldStill, Restored, Ended
<1>30. QED
  BY <1>1, <1>2, <1>3, <1>4, <1>5, <1>6, <1>7, <1>8, <1>9, <1>10, <1>11, <1>12, <1>13, <1>14, <1>15, <1>16, <1>17, <1>18, <1>19, <1>20, <1>21, <1>22, <1>23, <1>24, <1>25, <1>26, <1>27, <1>28, <1>29 DEF Next, Install, Cleanup, Others

LEMMA HistoryStays == ASSUME [Next]_vars PROVE UNCHANGED <<before, legacy>> /\ missed \subseteq missed'
BY OthersKeep DEF Next, Install, Cleanup, Others, BackUp, StopApi, Snapshot, RemoveUnit,
   InstallUnit, SaveRelease, Saved, Promote, Promoted, InstallRuntime, Created,
   DaemonReload, Enable, Restart, CheckStatus, Fail, Interrupt, RbStop, RbDisable,
   RbConfig, RbRemove, RbRestore, RbRemoveUnit, RbInstallUnit, RbReload, RbEnable,
   RbStart, Exit

(* Only the removal of the backup destroys a release.                       *)
LEMMA KeptNext ==
    ASSUME ControlOK, DataOK, BeforeType, ScriptInv, PlaceInv, OldReleaseKept, [Next]_vars
    PROVE  OldReleaseKept'
<1>1. PlaceInv' /\ ScriptInv' /\ ControlOK' /\ BeforeType'
  BY PlaceNext, ScriptNext, ControlNext, HistoryStays DEF BeforeType
<1>2. CASE Exit
  <2>1. place'["old"] = "gone" => place["old"] \in {"backup", "gone"} /\ ~rollbackFailed
    BY <1>2 DEF Exit, KeepBackup, Release, PlaceInv
  <2>2. UNCHANGED status /\ pc = "exit" /\ pc' = "done" /\ place["old"] # "gone"
    BY <1>2 DEF Exit, PlaceInv
  <2>3. place["old"] = "backup" /\ ~rollbackFailed => status # "failed"
    BY <2>2 DEF PlaceInv, Restored, Ended, BeforeType
  <2>4. status = "ok" => place'["new"] = "live"
    BY <1>1, <2>2 DEF PlaceInv, Ended
  <2>5. QED
    BY <2>1, <2>2, <2>3, <2>4 DEF OldReleaseKept, Succeeded, ControlOK
<1>3. CASE pc' # "done"
  BY <1>1, <1>3 DEF PlaceInv, OldReleaseKept
<1>4. CASE pc' = "done" /\ ~Exit
  <2>1. UNCHANGED <<place, status, pc>> \/ status' = "interrupted"
    <3>1. CASE Others
      BY <3>1, OthersKeep
    <3>2. CASE Interrupt
      BY <3>2 DEF Interrupt
    <3>3. CASE Install \/ Fail \/ (Cleanup /\ ~Exit)
      BY <1>4, <3>3 DEF Install, Cleanup, BackUp, StopApi, Snapshot, RemoveUnit,
         InstallUnit, SaveRelease, Saved, Promote, Promoted, InstallRuntime, Created,
         DaemonReload, Enable, Restart, CheckStatus, Fail, RbStop, RbDisable,
         RbConfig, RbRemove, RbRestore, RbRemoveUnit, RbInstallUnit, RbReload, RbEnable,
         RbStart, Loop
    <3>4. QED
      BY <1>4, <3>1, <3>2, <3>3 DEF Next, Others, Cleanup
  <2>2. QED
    BY <2>1 DEF OldReleaseKept, Succeeded
<1>5. QED
  BY <1>2, <1>3, <1>4

LEMMA PlacedNext == Placed /\ [Next]_vars => Placed'
<1> SUFFICES ASSUME Placed, [Next]_vars PROVE Placed'
  OBVIOUS
<1>1. ControlOK /\ DataOK /\ BeforeType /\ ScriptInv /\ PlaceInv /\ OldReleaseKept
  BY PcsAre DEF Placed
<1>2. ControlOK' /\ DataOK' /\ ScriptInv' /\ PlaceInv' /\ OldReleaseKept'
  BY <1>1, ControlNext, DataNext, ScriptNext, PlaceNext, KeptNext
<1>3. BeforeType'
  BY <1>1, HistoryStays DEF BeforeType
<1>4. QED
  BY <1>2, <1>3, PcsAre DEF Placed

LEMMA PlacedInvariant == Spec => []Placed
BY InitPlaced, PlacedNext, PTL DEF Spec

(* Every variable has its type.                                             *)
THEOREM TypeCorrect == Spec => []TypeOK
<1>1. Placed => TypeOK
  BY DEF Placed
<1>2. QED
  BY <1>1, PlacedInvariant, PTL

(* Whatever fails, the roll-back included, the old release is not destroyed *)
(* before the new one is in its place and the script ends well.              *)
THEOREM NothingLost == Spec => []OldReleaseKept
<1>1. Placed => OldReleaseKept
  BY DEF Placed
<1>2. QED
  BY <1>1, PlacedInvariant, PTL

-----------------------------------------------------------------------------
(* The second part.  A crash does not change which services are meant to be *)
(* up.                                                                      *)
LEMMA OthersUp ==
    ASSUME DataOK, Others
    PROVE  /\ \A u \in Unit : activity'[u] # "inactive" <=> activity[u] # "inactive"
           /\ Up' = Up
           /\ \A u \in Unit : /\ activity[u] = "inactive" => activity'[u] = "inactive"
                             /\ \/ runs'[u] = runs[u]
                                \/ activity[u] = "waiting" /\ (place["new"] = "live" => runs'[u] = "new")
<1>1. UNCHANGED <<activity, runs>> \/ \E u \in Unit : ServiceCrashes(u) \/ ServiceRestarts(u)
  BY DEF Others, AdminSaves, vars
<1>2. ASSUME NEW u \in Unit, ServiceCrashes(u) \/ ServiceRestarts(u)
      PROVE  /\ activity[u] # "inactive" /\ activity' = [activity EXCEPT ![u] = activity'[u]]
             /\ activity'[u] # "inactive"
             /\ \/ runs' = runs
                \/ /\ activity[u] = "waiting"
                   /\ runs' = [runs EXCEPT ![u] = IF place["new"] = "live" THEN "new" ELSE "old"]
  BY <1>2 DEF ServiceCrashes, ServiceRestarts, Start, DataOK
<1>3. \A u \in Unit : activity'[u] # "inactive" <=> activity[u] # "inactive"
  BY <1>1, <1>2 DEF DataOK
<1>4. ASSUME NEW u \in Unit
      PROVE  \/ runs'[u] = runs[u]
             \/ activity[u] = "waiting" /\ (place["new"] = "live" => runs'[u] = "new")
  BY <1>1, <1>2 DEF DataOK
<1>5. QED
  BY <1>3, <1>4 DEF Up

LEMMA BackupNext ==
    ASSUME ControlOK, DataOK, BeforeType, ScriptInv, BackupInv, [Next]_vars
    PROVE  BackupInv'
<1>1. CASE BackUp
  <2>1. /\ U \in Unit /\ unit = before.unit /\ enabled = before.enabled
        /\ \A k \in 1..(i-1) : Recorded(Units[k])
        /\ activity[U] # "inactive" <=> U \in before.up
        /\ Up = before.up /\ i \in 1..Len(Units) /\ flag = {}
    BY <1>1, UnitsLoop DEF BackUp, ControlOK, DataOK, ScriptInv, BackupInv, Up, U
  <2>2. /\ wasEnabled' \subseteq before.enabled /\ wasActive' \subseteq before.up
        /\ UNCHANGED <<unit, enabled, activity, before>>
        /\ \A u \in Unit : u = U \/ Recorded(u) => Recorded(u)'
    <3>1. /\ UNCHANGED <<unit, enabled, activity, before>>
          /\ savedUnit' = [savedUnit EXCEPT ![U] = unit[U]]
          /\ wasEnabled' = IF U \in enabled THEN wasEnabled \cup {U} ELSE wasEnabled
          /\ wasActive' = IF activity[U] = "active" THEN wasActive \cup {U} ELSE wasActive
          /\ missed' = IF activity[U] = "waiting" THEN missed \cup {U} ELSE missed
      BY <1>1 DEF BackUp, RecordedActive
    <3>2. wasEnabled \subseteq before.enabled /\ wasActive \subseteq before.up
      BY DEF BackupInv
    <3>3. wasEnabled' \subseteq before.enabled /\ wasActive' \subseteq before.up
      BY <2>1, <3>1, <3>2
    <3>4. savedUnit'[U] = before.unit[U] /\ \A u \in Unit : u # U => savedUnit'[u] = savedUnit[u]
      BY <2>1, <3>1 DEF DataOK
    <3>5. ASSUME NEW u \in Unit, u = U \/ Recorded(u) PROVE Recorded(u)'
      <4>1. CASE u = U
        <5>1. savedUnit'[u] = before'.unit[u] /\ (u \in wasEnabled' <=> u \in before'.enabled)
          BY <2>1, <3>1, <3>2, <3>4, <4>1
        <5>2. activity[u] = "active" \/ activity[u] = "waiting" \/ activity[u] = "inactive"
          BY DEF DataOK
        <5>3. u \in before'.up \ missed' => u \in wasActive'
          BY <2>1, <3>1, <4>1, <5>2
        <5>4. QED
          BY <5>1, <5>3 DEF Recorded
      <4>2. CASE u # U
        BY <3>1, <3>4, <3>5, <4>2 DEF Recorded
      <4>3. QED
        BY <4>1, <4>2
    <3>6. QED
      BY <3>1, <3>3, <3>5
  <2>3. \A k \in 1..i : Units[k] \in Unit /\ Recorded(Units[k])'
    <3>1. \A k \in 1..i : Units[k] \in Unit
      BY <2>1, UnitsLoop
    <3>2. Units[i] = U
      BY DEF U
    <3>3. ASSUME NEW k \in 1..i PROVE Recorded(Units[k])'
      <4>1. CASE k = i
        BY <2>1, <2>2, <3>1, <3>2, <4>1
      <4>2. CASE k \in 1..(i-1)
        BY <2>1, <2>2, <3>1, <4>2
      <4>3. QED
        BY <2>1, <4>1, <4>2
    <3>4. QED
      BY <3>1, <3>3
  <2>4. CASE Last
    <3>1. pc' # "backup" /\ flag' = {"UNITS_BACKED_UP"}
      BY <1>1, <2>4 DEF BackUp, Loop
    <3>2. \A u \in Unit : Recorded(u)'
      BY <2>3, <2>4, UnitsLoop, UnitAssumption DEF Last
    <3>3. Up' = before'.up
      BY <2>1, <2>2 DEF Up
    <3>4. QED
      BY <2>2, <3>1, <3>2, <3>3 DEF BackupInv
  <2>5. CASE ~Last
    <3>1. pc' = "backup" /\ i' = i + 1 /\ flag' = {} /\ pc = "backup"
      BY <1>1, <2>5 DEF BackUp, Loop
    <3>2. \A k \in 1..(i'-1) : Recorded(Units[k])'
      BY <2>1, <2>3, <3>1
    <3>3. Up' = before'.up /\ unit' = before'.unit /\ enabled' = before'.enabled
      BY <2>1, <2>2 DEF Up
    <3>4. QED
      BY <2>2, <3>1, <3>2, <3>3 DEF BackupInv
  <2>6. QED
    BY <2>4, <2>5
<1>2. CASE Others
  <2>1. UNCHANGED <<pc, i, flag, unit, savedUnit, wasEnabled, wasActive, enabled, before,
                   missed>>
    BY <1>2, OthersKeep
  <2>2. Up' = Up
    BY <1>2, OthersUp
  <2>3. QED
    BY <2>1, <2>2 DEF BackupInv, Recorded
<1>3. CASE ~BackUp /\ ~Others
  <2>1. UNCHANGED <<savedUnit, wasEnabled, wasActive, before, missed>> /\ pc' \notin {"backup", "stop"}
        /\ flag \subseteq flag' /\ ("UNITS_BACKED_UP" \in flag' => "UNITS_BACKED_UP" \in flag)
    BY <1>3 DEF Next, Install, Cleanup, Others, StopApi, Snapshot, RemoveUnit, InstallUnit,
       SaveRelease, Saved, Promote, Promoted, InstallRuntime, Created, DaemonReload, Enable,
       Restart, CheckStatus, Fail, Interrupt, RbStop, RbDisable, RbConfig, RbRemove,
       RbRestore, RbRemoveUnit, RbInstallUnit, RbReload, RbEnable, RbStart, Exit, Loop
  <2>2. "UNITS_BACKED_UP" \notin flag => UNCHANGED <<unit, enabled, activity>>
    BY <1>3 DEF Next, Install, Cleanup, Others, StopApi, Snapshot, RemoveUnit, InstallUnit,
       SaveRelease, Saved, Promote, Promoted, InstallRuntime, Created, DaemonReload, Enable,
       Restart, CheckStatus, Fail, Interrupt, RbStop, RbDisable, RbConfig, RbRemove,
       RbRestore, RbRemoveUnit, RbInstallUnit, RbReload, RbEnable, RbStart, Exit,
       ScriptInv, Forward, RollingBack
  <2>3. QED
    BY <2>1, <2>2 DEF BackupInv, Recorded, Up
<1>4. QED
  BY <1>1, <1>2, <1>3

LEMMA AtUnit ==
    ASSUME ControlOK
    PROVE  /\ i \in 1..Len(Units) /\ i \in Nat /\ U \in Unit /\ U = Units[i]
           /\ \A k \in 1..i : Units[k] \in Unit /\ (k = i \/ k \in 1..(i-1))
           /\ \A k \in 1..(i-1) : k \in 1..i
<1>1. i \in 1..Len(Units) /\ Len(Units) \in Nat
  BY UnitsLoop DEF ControlOK
<1>2. \A k \in 1..Len(Units) : Units[k] \in Unit
  BY UnitsLoop
<1>3. \A k \in 1..i : k \in 1..Len(Units)
  BY <1>1
<1>4. U \in Unit /\ U = Units[i]
  BY <1>1, <1>2 DEF U
<1>5. QED
  BY <1>1, <1>2, <1>3, <1>4

(* The positions before the next one.                                       *)
LEMMA Positions ==
    ASSUME ControlOK
    PROVE  /\ i' = i + 1 => 1..(i'-1) = 1..i
           /\ i' = 1 => 1..(i'-1) = {}
<1>1. i' = i + 1 => i' - 1 = i
  BY AtUnit
<1>2. i' = 1 => i' - 1 = 0
  OBVIOUS
<1>3. 1..0 = {}
  OBVIOUS
<1>4. QED
  BY <1>1, <1>2, <1>3

LEMMA StartNext == ASSUME ControlOK, AtStart, [Next]_vars PROVE AtStart'
BY OthersKeep DEF AtStart, Next, Install, Cleanup, Others, BackUp, StopApi, Snapshot,
   RemoveUnit, InstallUnit, SaveRelease, Saved, Promote, Promoted, InstallRuntime, Created,
   DaemonReload, Enable, Restart, CheckStatus, Fail, Interrupt, RbStop, RbDisable, RbConfig,
   RbRemove, RbRestore, RbRemoveUnit, RbInstallUnit, RbReload, RbEnable, RbStart, Exit, Loop

(* What the loops of the roll-back have restored.                           *)
LEMMA UnitsNext ==
    ASSUME ControlOK, DataOK, BeforeType, ScriptInv, BackupInv, AtStart, UnitsInv, [Next]_vars
    PROVE  UnitsInv'
<1>1. CASE RbRemoveUnit
  <2>1. U \in Unit /\ i' = i /\ pc = "rb rm" /\ pc' = "rb install" /\ before' = before
    BY <1>1, UnitsLoop DEF RbRemoveUnit, ControlOK, U
  <2>2. ~rollbackFailed' => ~rollbackFailed /\ unit' = [unit EXCEPT ![U] = "none"]
    BY <1>1 DEF RbRemoveUnit
  <2>3. \A k \in 1..(i-1) : Units[k] \in Unit
    BY UnitsLoop DEF ControlOK
  <2>4. ~rollbackFailed' =>
          /\ unit'[U] = "none"
          /\ \A k \in 1..(i-1) : Units[k] # U => unit'[Units[k]] = before.unit[Units[k]]
    BY <2>1, <2>2, <2>3 DEF UnitsInv, DataOK
  <2>5. U' = U
    BY <2>1 DEF U
  <2>6. QED
    BY <2>1, <2>4, <2>5 DEF UnitsInv, Restored, Ended
<1>2. CASE RbInstallUnit
  <2>1. /\ U \in Unit /\ pc = "rb install" /\ before' = before /\ i \in 1..Len(Units)
        /\ \A k \in 1..i : Units[k] \in Unit
    BY <1>2, AtUnit DEF RbInstallUnit
  <2>2. ~rollbackFailed' => ~rollbackFailed /\ unit' = [unit EXCEPT ![U] = RestoredUnit(U)]
    BY <1>2 DEF RbInstallUnit
  <2>3. savedUnit[U] = before.unit[U]
    BY <2>1 DEF ScriptInv, RollingBack, BackupInv, Recorded
  <2>4. ~rollbackFailed' => unit'[U] = before.unit[U]
    BY <2>1, <2>2, <2>3 DEF UnitsInv, RestoredUnit, DataOK
  <2>5. ~rollbackFailed' => \A k \in 1..i : unit'[Units[k]] = before.unit[Units[k]]
    <3> SUFFICES ASSUME ~rollbackFailed', NEW k \in 1..i
                 PROVE  unit'[Units[k]] = before.unit[Units[k]]
      OBVIOUS
    <3>1. CASE Units[k] = U
      BY <2>4, <3>1
    <3>2. CASE Units[k] # U
      <4>1. k \in 1..(i-1)
        BY <3>2, AtUnit
      <4>2. unit[Units[k]] = before.unit[Units[k]]
        BY <2>1, <2>2, <3>2, <4>1 DEF UnitsInv
      <4>3. QED
        BY <2>1, <2>2, <3>2, <4>2 DEF DataOK
    <3>3. QED
      BY <3>1, <3>2
  <2>6. CASE Last
    <3>1. pc' = "rb reload"
      BY <1>2, <2>6 DEF RbInstallUnit, Loop
    <3>2. ~rollbackFailed' => \A u \in Unit : unit'[u] = before.unit[u]
      BY <2>5, <2>6, UnitsLoop, UnitAssumption DEF Last
    <3>3. ~rollbackFailed' => unit' = before.unit
      BY <2>2, <3>2 DEF DataOK, BeforeType
    <3>4. QED
      BY <2>1, <3>1, <3>3 DEF UnitsInv, Restored, Ended
  <2>7. CASE ~Last
    <3>1. pc' = "rb rm" /\ i' = i + 1
      BY <1>2, <2>7 DEF RbInstallUnit, Loop
    <3>2. 1..(i'-1) = 1..i
      BY <3>1, Positions
    <3>3. QED
      BY <2>1, <2>5, <3>1, <3>2 DEF UnitsInv, Restored, Ended
  <2>8. QED
    BY <2>6, <2>7
<1>3. CASE RbRestore
  <2>1. pc' = "rb rm" /\ i' = 1
    BY <1>3 DEF RbRestore, AtStart
  <2>2. 1..(i'-1) = {}
    BY <2>1, Positions
  <2>3. QED
    BY <2>1, <2>2 DEF UnitsInv, Restored, Ended
<1>4. CASE Fail
  <2>1. pc' = "exit" => "UNITS_BACKED_UP" \notin flag
    BY <1>4 DEF Fail, NothingToUndo
  <2>2. pc' \in {"exit", "rb stop"} /\ UNCHANGED <<unit, before>>
    BY <1>4 DEF Fail
  <2>3. QED
    BY <2>1, <2>2 DEF BackupInv, UnitsInv, Restored, Ended
<1>5. CASE RbReload \/ RbEnable \/ RbStart \/ Exit
  <2>1. /\ UNCHANGED <<unit, before>> /\ (rollbackFailed => rollbackFailed')
        /\ Restored({"rb reload", "rb enable", "rb start"})'
             => Restored({"rb reload", "rb enable", "rb start"})
        /\ pc' \notin {"rb rm", "rb install"}
    <3>1. CASE RbReload
      <4>1. /\ UNCHANGED <<unit, before, status>> /\ pc = "rb reload" /\ pc' = "rb enable"
            /\ rollbackFailed' = rollbackFailed \/ rollbackFailed' = TRUE
        BY <3>1 DEF RbReload
      <4>2. QED
        BY <4>1 DEF Restored, Ended, ControlOK
    <3>2. CASE RbEnable
      BY <3>2 DEF RbEnable, DisableIfEnabled, Restored, Ended
    <3>3. CASE RbStart
      BY <3>3 DEF RbStart, StopIfActive, Loop, Restored, Ended
    <3>4. CASE Exit
      BY <3>4 DEF Exit, Restored, Ended
    <3>5. QED
      BY <1>5, <3>1, <3>2, <3>3, <3>4
  <2>2. QED
    BY <2>1 DEF UnitsInv
<1>6. CASE Others
  <2>1. UNCHANGED <<pc, i, status, rollbackFailed, unit, before>>
    BY <1>6, OthersKeep
  <2>2. QED
    BY <2>1 DEF UnitsInv, Restored, Ended, U
<1>7. CASE Install \/ Interrupt \/ RbStop \/ RbDisable \/ RbConfig \/ RbRemove
  <2>1. pc' \notin {"rb rm", "rb install", "rb reload", "rb enable", "rb start"} /\ ~Ended("failed")'
    BY <1>7 DEF Install, BackUp, StopApi, Snapshot, RemoveUnit, InstallUnit,
       SaveRelease, Saved, Promote, Promoted, InstallRuntime, Created, DaemonReload, Enable,
       Restart, CheckStatus, Interrupt, RbStop, RbDisable, RbConfig, RbRemove, Loop, Ended,
       ScriptInv, Forward
  <2>2. QED
    BY <2>1 DEF UnitsInv, Restored
<1>8. QED
  BY <1>1, <1>2, <1>3, <1>4, <1>5, <1>6, <1>7 DEF Next, Cleanup, Others

LEMMA ServicesNext ==
    ASSUME ControlOK, DataOK, BeforeType, ScriptInv, BackupInv, AtStart, ServicesInv,
           [Next]_vars
    PROVE  ServicesInv'
<1>1. CASE RbEnable
  <2>1. /\ U \in Unit /\ pc = "rb enable" /\ pc' = "rb start" /\ UNCHANGED <<activity, before, missed>>
        /\ i \in 1..Len(Units) /\ i' = i /\ \A k \in 1..i : Units[k] \in Unit
    BY <1>1, AtUnit DEF RbEnable
  <2>2. ~rollbackFailed' =>
          ~rollbackFailed /\ enabled' = IF U \in wasEnabled THEN enabled \cup {U} ELSE enabled \ {U}
    BY <1>1 DEF RbEnable, DisableIfEnabled
  <2>3. U \in wasEnabled <=> U \in before.enabled
    BY <2>1 DEF ScriptInv, RollingBack, BackupInv, Recorded
  <2>4. \A u \in Unit : ~rollbackFailed' /\ (u = U \/ EnabledBack(u)) => EnabledBack(u)'
    BY <2>1, <2>2, <2>3 DEF EnabledBack
  <2>5. ~rollbackFailed' => \A k \in 1..i : EnabledBack(Units[k])'
    <3> SUFFICES ASSUME ~rollbackFailed', NEW k \in 1..i PROVE EnabledBack(Units[k])'
      OBVIOUS
    <3>1. CASE k = i
      BY <2>1, <2>4, <3>1 DEF U
    <3>2. CASE k # i
      <4>1. k \in 1..(i-1)
        BY <3>2, AtUnit
      <4>2. EnabledBack(Units[k])
        BY <2>1, <2>2, <4>1 DEF ServicesInv
      <4>3. QED
        BY <2>1, <2>4, <4>2
    <3>3. QED
      BY <3>1, <3>2
  <2>6. ~rollbackFailed' => \A k \in 1..(i-1) : ActiveBack(Units[k])'
    BY <2>1, <2>2 DEF ServicesInv, ActiveBack
  <2>7. QED
    BY <2>1, <2>5, <2>6 DEF ServicesInv, Restored, Ended
<1>2. CASE RbStart
  <2>1. /\ U \in Unit /\ pc = "rb start" /\ UNCHANGED <<enabled, before, status, missed>>
        /\ i \in 1..Len(Units) /\ \A k \in 1..i : Units[k] \in Unit
    BY <1>2, AtUnit DEF RbStart
  <2>2. ~rollbackFailed' =>
          ~rollbackFailed /\ activity' = [activity EXCEPT ![U] =
                                IF U \in wasActive THEN "active" ELSE "inactive"]
    BY <1>2 DEF RbStart, StopIfActive, Start
  <2>3. (U \in wasActive => U \in before.up) /\ (U \in before.up \ missed => U \in wasActive)
    BY <2>1 DEF ScriptInv, RollingBack, BackupInv, Recorded
  <2>4. \A u \in Unit : ~rollbackFailed' /\ (u = U \/ ActiveBack(u)) => ActiveBack(u)'
    BY <2>1, <2>2, <2>3 DEF ActiveBack, DataOK
  <2>5. \A u \in Unit : EnabledBack(u) => EnabledBack(u)'
    BY <2>1 DEF EnabledBack
  <2>6. ~rollbackFailed' =>
          \A k \in 1..i : EnabledBack(Units[k])' /\ ActiveBack(Units[k])'
    <3> SUFFICES ASSUME ~rollbackFailed', NEW k \in 1..i
                 PROVE  EnabledBack(Units[k])' /\ ActiveBack(Units[k])'
      OBVIOUS
    <3>1. EnabledBack(Units[k])'
      BY <2>1, <2>2, <2>5 DEF ServicesInv
    <3>2. CASE k = i
      BY <2>1, <2>4, <3>1, <3>2 DEF U
    <3>3. CASE k # i
      <4>1. k \in 1..(i-1)
        BY <3>3, AtUnit
      <4>2. ActiveBack(Units[k])
        BY <2>1, <2>2, <4>1 DEF ServicesInv
      <4>3. QED
        BY <2>1, <2>4, <3>1, <4>2
    <3>4. QED
      BY <3>2, <3>3
  <2>7. CASE Last
    <3>1. pc' = "exit"
      BY <1>2, <2>7 DEF RbStart, Loop
    <3>2. ~rollbackFailed' => \A u \in Unit : EnabledBack(u)' /\ ActiveBack(u)'
      BY <2>6, <2>7, UnitsLoop, UnitAssumption DEF Last
    <3>3. QED
      BY <3>1, <3>2 DEF ServicesInv, Restored
  <2>8. CASE ~Last
    <3>1. pc' = "rb enable" /\ i' = i + 1
      BY <1>2, <2>8 DEF RbStart, Loop
    <3>2. 1..(i'-1) = 1..i
      BY <3>1, Positions
    <3>3. QED
      BY <2>6, <3>1, <3>2 DEF ServicesInv, Restored, Ended
  <2>9. QED
    BY <2>7, <2>8
<1>3. CASE RbReload
  <2>1. pc' = "rb enable" /\ i' = 1
    BY <1>3 DEF RbReload, AtStart
  <2>2. 1..(i'-1) = {}
    BY <2>1, Positions
  <2>3. QED
    BY <2>1, <2>2 DEF ServicesInv, Restored, Ended
<1>4. CASE Fail
  <2>1. pc' = "exit" => "UNITS_BACKED_UP" \notin flag /\ UNCHANGED <<enabled, activity, before, missed>>
    BY <1>4 DEF Fail, NothingToUndo, ScriptInv, Forward
  <2>2. pc' = "exit" => \A u \in Unit : EnabledBack(u)' /\ ActiveBack(u)'
    BY <2>1 DEF BackupInv, EnabledBack, ActiveBack, Up
  <2>3. pc' \in {"exit", "rb stop"}
    BY <1>4 DEF Fail
  <2>4. QED
    BY <2>2, <2>3 DEF ServicesInv, Restored, Ended
<1>5. CASE Exit
  BY <1>5 DEF Exit, ServicesInv, Restored, Ended, EnabledBack, ActiveBack
<1>6. CASE Others
  <2>1. UNCHANGED <<pc, i, status, rollbackFailed, enabled, before, missed>>
    BY <1>6, OthersKeep
  <2>2. \A u \in Unit : (EnabledBack(u) => EnabledBack(u)') /\ (ActiveBack(u) => ActiveBack(u)')
    BY <1>6, <2>1, OthersUp DEF EnabledBack, ActiveBack
  <2>3. \A k \in 1..i : Units[k] \in Unit /\ Units'[k] = Units[k]
    BY AtUnit
  <2>4. \A k \in 1..(i-1) : k \in 1..i
    BY AtUnit
  <2>5. pc' = "rb enable" /\ ~rollbackFailed' =>
          \A k \in 1..(i'-1) : EnabledBack(Units[k])' /\ ActiveBack(Units[k])'
    BY <2>1, <2>2, <2>3, <2>4 DEF ServicesInv
  <2>6. pc' = "rb start" /\ ~rollbackFailed' =>
          /\ \A k \in 1..i' : EnabledBack(Units[k])'
          /\ \A k \in 1..(i'-1) : ActiveBack(Units[k])'
    BY <2>1, <2>2, <2>3, <2>4 DEF ServicesInv
  <2>7. Restored({})' => \A u \in Unit : EnabledBack(u)' /\ ActiveBack(u)'
    BY <2>1, <2>2 DEF ServicesInv, Restored, Ended
  <2>8. QED
    BY <2>5, <2>6, <2>7 DEF ServicesInv
<1>7. CASE \/ Install \/ Interrupt \/ RbStop \/ RbDisable \/ RbConfig \/ RbRemove
           \/ RbRestore \/ RbRemoveUnit \/ RbInstallUnit
  <2>1. pc' \notin {"rb enable", "rb start"} /\ ~Ended("failed")'
    BY <1>7 DEF Install, BackUp, StopApi, Snapshot, RemoveUnit, InstallUnit,
       SaveRelease, Saved, Promote, Promoted, InstallRuntime, Created, DaemonReload, Enable,
       Restart, CheckStatus, Interrupt, RbStop, RbDisable, RbConfig, RbRemove, RbRestore,
       RbRemoveUnit, RbInstallUnit, Loop, Ended, ScriptInv, Forward
  <2>2. QED
    BY <2>1 DEF ServicesInv, Restored
<1>8. QED
  BY <1>1, <1>2, <1>3, <1>4, <1>5, <1>6, <1>7 DEF Next, Cleanup, Others

LEMMA RuntimeNext == ASSUME ControlOK, DataOK, BeforeType, ScriptInv, RuntimeInv, [Next]_vars PROVE RuntimeInv'
<1>1. CASE BackUp
  BY <1>1 DEF BackUp, Loop, Last, RuntimeInv, Restored, Ended
<1>2. CASE StopApi
  BY <1>2 DEF StopApi, RuntimeInv, Restored, Ended
<1>3. CASE Snapshot
  BY <1>3 DEF Snapshot, RuntimeInv, Restored, Ended
<1>4. CASE RemoveUnit
  BY <1>4 DEF RemoveUnit, RuntimeInv, Restored, Ended
<1>5. CASE InstallUnit
  BY <1>5 DEF InstallUnit, Loop, Last, RuntimeInv, Restored, Ended
<1>6. CASE SaveRelease
  BY <1>6 DEF SaveRelease, RuntimeInv, Restored, Ended
<1>7. CASE Saved
  BY <1>7 DEF Saved, RuntimeInv, Restored, Ended
<1>8. CASE Promote
  BY <1>8 DEF Promote, RuntimeInv, Restored, Ended
<1>9. CASE Promoted
  BY <1>9 DEF Promoted, RuntimeInv, Restored, Ended
<1>10. CASE InstallRuntime
  <2>1. CASE runtime.by = "none"
    <3>1. runtime'.by = "script" /\ pc' = "created"
      BY <1>10, <2>1 DEF InstallRuntime
    <3>2. UNCHANGED <<flag, status, before, rollbackFailed>> /\ pc = "runtime"
      BY <1>10 DEF InstallRuntime
    <3>3. QED
      BY <2>1, <3>1, <3>2 DEF RuntimeInv, Restored, Ended
  <2>2. CASE runtime.by # "none"
    BY <1>10, <2>2 DEF InstallRuntime, RuntimeInv, Restored, Ended
  <2>3. QED
    BY <2>1, <2>2
<1>11. CASE Created
  BY <1>11 DEF Created, RuntimeInv, Restored, Ended
<1>12. CASE DaemonReload
  BY <1>12 DEF DaemonReload, RuntimeInv, Restored, Ended
<1>13. CASE Enable
  BY <1>13 DEF Enable, RuntimeInv, Restored, Ended
<1>14. CASE Restart
  BY <1>14 DEF Restart, Loop, Last, RuntimeInv, Restored, Ended
<1>15. CASE CheckStatus
  BY <1>15 DEF CheckStatus, ScriptInv, Forward, RuntimeInv, Restored, Ended
<1>16. CASE Fail
  BY <1>16 DEF Fail, NothingToUndo, Assignment, Forward, ScriptInv, RuntimeInv, Restored, Ended
<1>17. CASE Interrupt
  BY <1>17 DEF Interrupt, Forward, RollingBack, RuntimeInv, Restored, Ended
<1>18. CASE RbStop
  BY <1>18 DEF RbStop, StopIfActive, RuntimeInv, Restored, Ended
<1>19. CASE RbDisable
  BY <1>19 DEF RbDisable, DisableIfEnabled, Loop, Last, RuntimeInv, Restored, Ended
<1>20. CASE RbConfig
  <2>1. before.runtime.by = "none" /\ before' = before /\ pc' = "rb remove"
    BY <1>20 DEF RbConfig, RuntimeInv
  <2>2. ~rollbackFailed' => runtime'.by = "none"
    <3>1. ~rollbackFailed' => runtime' = NoRuntime
      BY <1>20 DEF RbConfig
    <3>2. NoRuntime.by = "none"
      BY DEF NoRuntime
    <3>3. QED
      BY <3>1, <3>2
  <2>3. QED
    BY <2>1, <2>2 DEF RuntimeInv, Restored, Ended
<1>21. CASE RbRemove
  BY <1>21 DEF RbRemove, RuntimeInv, Restored, Ended
<1>22. CASE RbRestore
  BY <1>22 DEF RbRestore, RuntimeInv, Restored, Ended
<1>23. CASE RbRemoveUnit
  BY <1>23 DEF RbRemoveUnit, RuntimeInv, Restored, Ended
<1>24. CASE RbInstallUnit
  BY <1>24 DEF RbInstallUnit, Loop, Last, RuntimeInv, Restored, Ended
<1>25. CASE RbReload
  BY <1>25 DEF RbReload, RuntimeInv, Restored, Ended
<1>26. CASE RbEnable
  BY <1>26 DEF RbEnable, DisableIfEnabled, RuntimeInv, Restored, Ended
<1>27. CASE RbStart
  <2>1. /\ rollbackFailed => rollbackFailed'
        /\ pc = "rb start" /\ pc' \in {"rb enable", "exit"}
        /\ UNCHANGED <<runtime, status, flag, before>>
    BY <1>27 DEF RbStart, StopIfActive, Loop
  <2>2. QED
    BY <2>1 DEF ScriptInv, RollingBack, RuntimeInv, Restored, Ended
<1>28. CASE Exit
  BY <1>28 DEF Exit, RuntimeInv, Restored, Ended
<1>29. CASE Others
  <2>1. UNCHANGED <<pc, status, rollbackFailed, flag, before>>
    BY <1>29, OthersKeep
  <2>2. runtime' = runtime \/ (runtime.by # "none" /\ runtime'.by # "none")
    <3>1. CASE AdminSaves
      BY <3>1, SaveMakes
    <3>2. CASE ~AdminSaves
      BY <1>29, <3>2 DEF Others, ServiceCrashes, ServiceRestarts, vars
    <3>3. QED
      BY <3>1, <3>2
  <2>3. QED
    BY <2>1, <2>2 DEF RuntimeInv, Restored, Ended
<1>30. QED
  BY <1>1, <1>2, <1>3, <1>4, <1>5, <1>6, <1>7, <1>8, <1>9, <1>10, <1>11, <1>12, <1>13, <1>14, <1>15, <1>16, <1>17, <1>18, <1>19, <1>20, <1>21, <1>22, <1>23, <1>24, <1>25, <1>26, <1>27, <1>28, <1>29 DEF Next, Install, Cleanup, Others

(* A save, as far as the settings go.                                       *)
LEMMA SaveChanges ==
    ASSUME DataOK, AdminSaves
    PROVE  /\ activity[Api] = "active" /\ latest' = latest + 1
           /\ UNCHANGED <<pc, status, flag, activity, runs, snapshot, legacy, missed, before>>
           /\ IF legacy /\ runs[Api] = "old"
              THEN legacyVer' = latest' /\ runtime' = runtime
              ELSE /\ runtime.by # "none" /\ runtime'.ver = latest' /\ legacyVer' = legacyVer
                   /\ runtime'.by = IF runtime.by = "earlier" THEN "earlier" ELSE "api"
                   /\ runtime'.same => runtime.by = "api" /\ ~runtime.same
<1>1. /\ activity[Api] = "active" /\ latest' = latest + 1
      /\ UNCHANGED <<pc, status, flag, activity, runs, snapshot, legacy, missed, before>>
  BY DEF AdminSaves
<1>2. CASE legacy /\ runs[Api] = "old"
  BY <1>1, <1>2 DEF AdminSaves
<1>3. CASE ~(legacy /\ runs[Api] = "old")
  <2>1. runtime.by # "none" /\ legacyVer' = legacyVer
    BY <1>3 DEF AdminSaves
  <2>2. PICK s \in IF runtime.by = "api" /\ ~runtime.same THEN BOOLEAN ELSE {FALSE} :
           runtime' = [by |-> IF runtime.by = "earlier" THEN "earlier" ELSE "api",
                       ver |-> latest', same |-> s]
    BY <1>3 DEF AdminSaves
  <2>3. s => runtime.by = "api" /\ ~runtime.same
    BY <2>2
  <2>4. /\ runtime'.ver = latest' /\ runtime'.same = s
        /\ runtime'.by = IF runtime.by = "earlier" THEN "earlier" ELSE "api"
    BY <2>2
  <2>5. QED
    BY <1>1, <1>3, <2>1, <2>3, <2>4
<1>4. QED
  BY <1>2, <1>3

LEMMA Numbers ==
    ASSUME DataOK
    PROVE  latest \in Nat /\ snapshot \in Nat /\ legacyVer \in Nat /\ runtime.ver \in Nat
BY BoundAssumption DEF DataOK, Runtimes

LEMMA FileNext ==
    ASSUME DataOK, DataOK', BeforeType, RuntimeInv, SettingsInv, FileInv, [Next]_vars
    PROVE  FileInv'
<1>0. before' = before
  BY HistoryStays
<1>1. CASE Snapshot
  <2>1. /\ legacy /\ runtime.by = "none" /\ snapshot' = legacyVer
        /\ UNCHANGED <<runtime, latest, legacyVer>>
    BY <1>1 DEF Snapshot, SettingsInv, RuntimeInv, BeforeType
  <2>2. QED
    BY <1>0, <2>1 DEF FileInv
<1>2. CASE InstallRuntime /\ runtime.by = "none"
  <2>1. /\ runtime'.by = "script" /\ runtime'.ver = snapshot
        /\ UNCHANGED <<snapshot, latest, legacyVer>>
    BY <1>2 DEF InstallRuntime
  <2>2. QED
    BY <1>0, <2>1 DEF FileInv
<1>3. CASE RbConfig
  <2>1. (runtime' = runtime \/ runtime' = NoRuntime) /\ UNCHANGED <<snapshot, latest, legacyVer>>
    BY <1>3 DEF RbConfig
  <2>2. NoRuntime.by = "none" /\ NoRuntime.same = FALSE
    BY DEF NoRuntime
  <2>3. QED
    BY <1>0, <2>1, <2>2 DEF FileInv
<1>4. CASE AdminSaves
  <2>1. /\ latest' = latest + 1 /\ snapshot' = snapshot
        /\ latest \in Nat /\ snapshot \in Nat /\ legacyVer \in Nat /\ runtime.ver \in Nat
    BY <1>4, SaveChanges, Numbers
  <2>2. CASE legacy /\ runs[Api] = "old"
    <3>1. legacyVer' = latest' /\ runtime' = runtime
      BY <1>4, <2>2, SaveChanges
    <3>2. QED
      BY <1>0, <2>1, <3>1 DEF FileInv
  <2>3. CASE ~(legacy /\ runs[Api] = "old")
    <3>1. /\ runtime.by # "none" /\ runtime'.ver = latest' /\ legacyVer' = legacyVer
          /\ runtime'.by = IF runtime.by = "earlier" THEN "earlier" ELSE "api"
          /\ runtime'.same => runtime.by = "api" /\ ~runtime.same
      BY <1>4, <2>3, SaveChanges
    <3>2. runtime'.same => latest' >= snapshot' + 2
      BY <2>1, <3>1 DEF FileInv
    <3>3. latest' > snapshot' /\ legacyVer' <= latest'
      BY <2>1, <3>1 DEF FileInv
    <3>4. runtime'.by = "earlier" => ~runtime'.same
      BY <3>1
    <3>5. QED
      BY <1>0, <2>1, <3>1, <3>2, <3>3, <3>4 DEF FileInv
  <2>4. QED
    BY <2>2, <2>3
<1>5. CASE UNCHANGED <<runtime, snapshot, latest, legacyVer>>
  BY <1>5, <1>0 DEF FileInv
<1>6. QED
  BY <1>1, <1>2, <1>3, <1>4, <1>5 DEF Next, Install, Cleanup, vars, BackUp, StopApi,
     RemoveUnit, InstallUnit, SaveRelease, Saved, Promote, Promoted, InstallRuntime, Created,
     DaemonReload, Enable, Restart, CheckStatus, Fail, Interrupt, RbStop, RbDisable,
     RbRemove, RbRestore, RbRemoveUnit, RbInstallUnit, RbReload, RbEnable, RbStart,
     Exit, ServiceCrashes, ServiceRestarts

LEMMA SettingsNext ==
    ASSUME ControlOK, DataOK, BeforeType, ScriptInv, PlaceInv, BackupInv, RuntimeInv, FileInv,
           SettingsInv, [Next]_vars
    PROVE  SettingsInv'
<1>1. CASE BackUp
  <2>1. /\ UNCHANGED <<activity, runs, legacyVer, runtime, snapshot, latest, legacy, status, before>>
        /\ pc = "backup" /\ pc' \in {"backup", "stop", "rm"} /\ (pc' = "stop" => legacy)
        /\ (pc' = "rm" => ~legacy)
    BY <1>1 DEF BackUp, Loop
  <2>2. legacy => legacyVer = latest
    BY <2>1 DEF SettingsInv, Uncopied
  <2>3. QED
    BY <2>1, <2>2 DEF SettingsInv, Uncopied, Copied, Moved, ReturnedInode, Ended
<1>2. CASE StopApi
  <2>1. Api \notin missed /\ Api \notin wasActive => activity[Api] = "inactive"
    BY <1>2, ApiAssumption DEF StopApi, BackupInv, Recorded, Up, ScriptInv, Forward
  <2>2. Api \notin missed => activity'[Api] = "inactive"
    BY <1>2, <2>1, ApiAssumption DEF StopApi, StopWriter, DataOK
  <2>3. /\ UNCHANGED <<runs, legacyVer, runtime, snapshot, latest, legacy, status, missed, flag>>
        /\ pc = "stop" /\ pc' = "snapshot"
    BY <1>2 DEF StopApi
  <2>4. QED
    BY <2>2, <2>3 DEF SettingsInv, Uncopied, Copied, Moved, ReturnedInode, Ended
<1>3. CASE Snapshot
  <2>1. legacy /\ legacyVer = latest
    BY <1>3 DEF Snapshot, SettingsInv, Uncopied
  <2>2. /\ UNCHANGED <<activity, runs, legacyVer, runtime, latest, legacy, status, missed, flag>>
        /\ pc = "snapshot" /\ pc' = "rm" /\ snapshot' = legacyVer
    BY <1>3 DEF Snapshot
  <2>3. QED
    BY <2>1, <2>2 DEF SettingsInv, Uncopied, Copied, Moved, ReturnedInode, Ended
<1>4. CASE RemoveUnit
  BY <1>4 DEF RemoveUnit, SettingsInv, Uncopied, Copied, Moved, ReturnedInode, Ended
<1>5. CASE InstallUnit
  BY <1>5 DEF InstallUnit, Loop, Last, SettingsInv, Uncopied, Copied, Moved, ReturnedInode, Ended
<1>6. CASE SaveRelease
  BY <1>6 DEF SaveRelease, SettingsInv, Uncopied, Copied, Moved, ReturnedInode, Ended
<1>7. CASE Saved
  BY <1>7 DEF Saved, SettingsInv, Uncopied, Copied, Moved, ReturnedInode, Ended
<1>8. CASE Promote
  BY <1>8 DEF Promote, SettingsInv, Uncopied, Copied, Moved, ReturnedInode, Ended
<1>9. CASE Promoted
  BY <1>9 DEF Promoted, SettingsInv, Uncopied, Copied, Moved, ReturnedInode, Ended
<1>10. CASE InstallRuntime
  <2>1. /\ UNCHANGED <<legacy, legacyVer, snapshot, latest, activity, runs, status, missed, flag>>
        /\ pc = "runtime"
    BY <1>10 DEF InstallRuntime
  <2>2. CASE runtime.by = "none"
    <3>1. runtime'.by = "script" /\ runtime'.ver = snapshot /\ pc' = "created"
      BY <1>10, <2>2 DEF InstallRuntime
    <3>2. QED
      BY <2>1, <2>2, <3>1 DEF SettingsInv, Uncopied, Copied, Moved, ReturnedInode, Ended
  <2>3. CASE runtime.by # "none"
    <3>1. pc' = "reload" /\ runtime' = runtime
      BY <1>10, <2>3 DEF InstallRuntime
    <3>2. ~legacy
      BY <2>1, <2>3 DEF RuntimeInv, BeforeType
    <3>3. QED
      BY <2>1, <2>3, <3>1, <3>2 DEF SettingsInv, Uncopied, Copied, Moved, ReturnedInode, Ended
  <2>4. QED
    BY <2>2, <2>3
<1>11. CASE Created
  BY <1>11 DEF Created, SettingsInv, Uncopied, Copied, Moved, ReturnedInode, Ended
<1>12. CASE DaemonReload
  BY <1>12 DEF DaemonReload, SettingsInv, Uncopied, Copied, Moved, ReturnedInode, Ended
<1>13. CASE Enable
  BY <1>13 DEF Enable, SettingsInv, Uncopied, Copied, Moved, ReturnedInode, Ended
<1>14. CASE Restart
  <2>1. place["new"] = "live"
    BY <1>14 DEF Restart, PlaceInv
  <2>2. \/ UNCHANGED <<activity, runs>>
        \/ /\ activity' = [activity EXCEPT ![U] = "active"]
           /\ runs' = [runs EXCEPT ![U] = "new"]
    BY <1>14, <2>1 DEF Restart, Start
  <2>3. (activity'[Api] = activity[Api] /\ runs'[Api] = runs[Api]) \/ runs'[Api] = "new"
    BY <2>2, AtUnit, ApiAssumption DEF DataOK
  <2>4. /\ UNCHANGED <<legacy, legacyVer, runtime, snapshot, latest, status, missed, flag>>
        /\ pc = "restart" /\ pc' \in {"restart", "status"}
    BY <1>14 DEF Restart, Loop
  <2>5. QED
    BY <2>3, <2>4 DEF SettingsInv, Uncopied, Copied, Moved, ReturnedInode, Ended
<1>15. CASE CheckStatus
  <2>1. activity[Api] = "active"
    BY <1>15, ApiAssumption DEF CheckStatus
  <2>2. QED
    BY <1>15, <2>1 DEF CheckStatus, SettingsInv, Uncopied, Copied, Moved, ReturnedInode, Ended
<1>16. CASE Fail
  BY <1>16 DEF Fail, NothingToUndo, Assignment, Forward, SettingsInv, Uncopied, Copied, Moved, ReturnedInode, Ended
<1>17. CASE Interrupt
  BY <1>17 DEF Interrupt, Forward, RollingBack, SettingsInv, Uncopied, Copied, Moved, ReturnedInode, Ended
<1>18. CASE RbStop
  BY <1>18 DEF RbStop, SettingsInv, Uncopied, Copied, Moved, ReturnedInode, Ended
<1>19. CASE RbDisable
  BY <1>19 DEF RbDisable, Loop, Last, SettingsInv, Uncopied, Copied, Moved, ReturnedInode, Ended
<1>20. CASE RbConfig
  <2>1. /\ UNCHANGED <<legacy, legacyVer, snapshot, latest, status, missed, flag>>
        /\ pc = "rb config" /\ pc' = "rb remove" /\ "CONFIG_CREATED" \in flag
    BY <1>20 DEF RbConfig, RuntimeInv
  <2>2. runtime' = runtime \/ (runtime.same /\ runtime'.by = "none")
    <3>1. runtime' = runtime \/ (runtime.same /\ runtime' = NoRuntime)
      BY <1>20 DEF RbConfig, SameFile
    <3>2. NoRuntime.by = "none"
      BY DEF NoRuntime
    <3>3. QED
      BY <3>1, <3>2
  <2>3. runtime.same /\ runtime.by = "api" => ReturnedInode
    <3>1. runtime.same /\ runtime.by = "api" => runtime.ver >= snapshot + 2 /\ runtime.ver <= latest
      BY DEF FileInv
    <3>2. runtime.same /\ runtime.by = "api" => latest >= snapshot + 2
      BY <3>1, Numbers
    <3>3. QED
      BY <2>1, <3>2 DEF ReturnedInode
  <2>4. legacy => legacyVer' = latest' \/ runtime'.by = "api" \/ ReturnedInode'
    BY <2>1, <2>2, <2>3 DEF SettingsInv, ReturnedInode
  <2>5. QED
    BY <2>1, <2>2, <2>4 DEF SettingsInv, Uncopied, Copied, Moved, Ended
<1>21. CASE RbRemove
  BY <1>21 DEF RbRemove, SettingsInv, Uncopied, Copied, Moved, ReturnedInode, Ended
<1>22. CASE RbRestore
  BY <1>22 DEF RbRestore, SettingsInv, Uncopied, Copied, Moved, ReturnedInode, Ended
<1>23. CASE RbRemoveUnit
  BY <1>23 DEF RbRemoveUnit, SettingsInv, Uncopied, Copied, Moved, ReturnedInode, Ended
<1>24. CASE RbInstallUnit
  BY <1>24 DEF RbInstallUnit, Loop, Last, SettingsInv, Uncopied, Copied, Moved, ReturnedInode, Ended
<1>25. CASE RbReload
  BY <1>25 DEF RbReload, SettingsInv, Uncopied, Copied, Moved, ReturnedInode, Ended
<1>26. CASE RbEnable
  BY <1>26 DEF RbEnable, SettingsInv, Uncopied, Copied, Moved, ReturnedInode, Ended
<1>27. CASE RbStart
  <2>1. /\ UNCHANGED <<legacy, legacyVer, runtime, snapshot, latest, status, missed, flag>>
        /\ pc = "rb start" /\ pc' \in {"rb enable", "exit"}
    BY <1>27 DEF RbStart, Loop
  <2>2. QED
    BY <2>1 DEF ScriptInv, RollingBack, SettingsInv, Uncopied, Copied, Moved, ReturnedInode, Ended
<1>28. CASE Exit
  BY <1>28 DEF Exit, SettingsInv, Uncopied, Copied, Moved, ReturnedInode, Ended
<1>29. CASE AdminSaves
  <2>1. /\ activity[Api] = "active" /\ latest' = latest + 1 /\ latest \in Nat /\ snapshot \in Nat
        /\ UNCHANGED <<pc, status, flag, activity, runs, snapshot, legacy, missed>>
        /\ IF legacy /\ runs[Api] = "old"
           THEN legacyVer' = latest' /\ runtime' = runtime
           ELSE /\ runtime.by # "none" /\ runtime'.ver = latest' /\ legacyVer' = legacyVer
                /\ runtime'.by = IF runtime.by = "earlier" THEN "earlier" ELSE "api"
    BY <1>29, SaveChanges, Numbers
  <2>2. CASE ~legacy
    BY <2>1, <2>2 DEF SettingsInv, Uncopied, Copied, Moved, ReturnedInode, Ended
  <2>3. CASE legacy
    <3>1. pc \in Uncopied => runtime.by = "none"
      BY <2>3 DEF Uncopied, RuntimeInv, BeforeType
    <3>2. pc \in Uncopied => legacyVer' = latest'
      BY <2>1, <3>1
    <3>3. legacyVer' = latest' \/ runtime'.by = "api" \/ ReturnedInode'
      <4>1. runtime.by # "earlier"
        BY <2>3 DEF FileInv, BeforeType
      <4>2. QED
        BY <2>1, <4>1
    <3>4. ASSUME Api \notin missed
          PROVE  /\ pc \notin {"snapshot"} \cup Copied \cup {"created", "reload", "enable"}
                 /\ pc \in {"restart", "status"} \/ Ended("ok") => runs[Api] = "new"
      BY <2>1, <2>3, <3>4 DEF SettingsInv, Moved
    <3>5. QED
      BY <2>1, <2>3, <3>2, <3>3, <3>4 DEF SettingsInv, Uncopied, Copied, Moved, Ended
  <2>4. QED
    BY <2>2, <2>3
<1>30. CASE Others /\ ~AdminSaves
  <2>1. UNCHANGED <<pc, status, flag, snapshot, legacy, missed, legacyVer, runtime, latest>>
    BY <1>30, OthersKeep DEF Others, ServiceCrashes, ServiceRestarts, vars
  <2>2. /\ activity[Api] = "inactive" => activity'[Api] = "inactive"
        /\ \/ runs'[Api] = runs[Api]
           \/ activity[Api] = "waiting" /\ (place["new"] = "live" => runs'[Api] = "new")
    BY <1>30, OthersUp, ApiAssumption
  <2>3. pc \in Moved \ {"created"} \/ Ended("ok") => place["new"] = "live"
    BY DEF Moved, PlaceInv, Ended
  <2>4. pc = "created" => place["new"] = "live"
    BY DEF PlaceInv
  <2>5. QED
    BY <2>1, <2>2, <2>3, <2>4 DEF SettingsInv, ReturnedInode, Moved, Ended
<1>31. QED
  BY <1>1, <1>2, <1>3, <1>4, <1>5, <1>6, <1>7, <1>8, <1>9, <1>10, <1>11, <1>12, <1>13, <1>14, <1>15, <1>16, <1>17, <1>18, <1>19, <1>20, <1>21, <1>22, <1>23, <1>24, <1>25, <1>26, <1>27, <1>28, <1>29, <1>30 DEF Next, Install, Cleanup, Others

-----------------------------------------------------------------------------

LEMMA InitInductive == Init => Inductive
<1> SUFFICES ASSUME Init PROVE Inductive
  OBVIOUS
<1>1. Placed
  BY InitPlaced
<1>2. i = 1 /\ 1..(i-1) = {} /\ pc = "backup" /\ flag = {} /\ status = "ok"
  BY DEF Init
<1>3. BackupInv
  <2>1. /\ before.up = {u \in Unit : activity[u] # "inactive"}
        /\ before.unit = unit /\ before.enabled = enabled
        /\ wasEnabled = {} /\ wasActive = {}
    BY DEF Init
  <2>2. Up = before.up
    BY <2>1 DEF Up
  <2>3. QED
    BY <1>2, <2>1, <2>2 DEF BackupInv
<1>4. UnitsInv /\ ServicesInv /\ AtStart
  BY <1>2 DEF UnitsInv, ServicesInv, AtStart, Restored, Ended
<1>5. /\ before.runtime = runtime /\ latest = 0 /\ legacyVer = 0 /\ snapshot = 0
      /\ runtime.ver = 0 /\ runtime.by \in {"none", "earlier"} /\ ~runtime.same
  <2>1. NoRuntime.by = "none" /\ NoRuntime.ver = 0 /\ NoRuntime.same = FALSE
    BY DEF NoRuntime
  <2>2. QED
    BY <2>1 DEF Init
<1>6. RuntimeInv
  BY <1>2, <1>5 DEF RuntimeInv, Restored, Ended
<1>7. FileInv /\ SettingsInv
  BY <1>2, <1>5 DEF FileInv, SettingsInv, Uncopied, Copied, Moved, Ended
<1>8. QED
  BY <1>1, <1>3, <1>4, <1>6, <1>7 DEF Inductive

LEMMA InductiveNext ==
    ASSUME Inductive, [Next]_vars PROVE Inductive'
<1>1. /\ ControlOK /\ DataOK /\ BeforeType /\ ScriptInv /\ PlaceInv
      /\ BackupInv /\ UnitsInv /\ ServicesInv /\ AtStart /\ RuntimeInv /\ FileInv /\ SettingsInv
  BY PcsAre DEF Inductive, Placed
<1>2. Placed'
  BY PlacedNext DEF Inductive
<1>3. BackupInv' /\ UnitsInv' /\ ServicesInv' /\ AtStart'
  BY <1>1, BackupNext, UnitsNext, ServicesNext, StartNext
<1>4. RuntimeInv' /\ SettingsInv'
  BY <1>1, RuntimeNext, SettingsNext
<1>5. FileInv'
  BY <1>1, <1>2, FileNext, PcsAre DEF Placed
<1>6. QED
  BY <1>2, <1>3, <1>4, <1>5 DEF Inductive

LEMMA Invariant == Spec => []Inductive
<1>1. Inductive /\ [Next]_vars => Inductive'
  BY InductiveNext
<1>2. QED
  BY <1>1, InitInductive, PTL DEF Spec

(* A failed release whose roll-back reports nothing has left no trace: the  *)
(* old release, its unit files, what is enabled, what is up and whether     *)
(* there is a runtime configuration are as they were; only a unit that was  *)
(* waiting for its restart when it was recorded may be left down.           *)
THEOREM NoTrace == Spec => []FailureLeavesNoTrace
<1>1. Inductive => FailureLeavesNoTrace
  <2> SUFFICES ASSUME Inductive, RolledBack PROVE FailureLeavesNoTrace
    BY DEF FailureLeavesNoTrace
  <2>1. Ended("failed") /\ ~rollbackFailed /\ \A S : Restored(S)
    BY DEF RolledBack, Ended, Restored
  <2>2. place["old"] = before.place /\ place["new"] # "live"
    BY <2>1 DEF Inductive, Placed, PlaceInv
  <2>3. unit = before.unit
    BY <2>1 DEF Inductive, UnitsInv
  <2>4. \A u \in Unit : EnabledBack(u) /\ ActiveBack(u)
    BY <2>1 DEF Inductive, ServicesInv
  <2>5. enabled = before.enabled /\ Up \subseteq before.up /\ before.up \ missed \subseteq Up
    <3>1. enabled \subseteq Unit /\ before.enabled \subseteq Unit /\ before.up \subseteq Unit
      BY PcsAre DEF Inductive, Placed, DataOK, BeforeType
    <3>2. \A u \in Unit : u \in enabled <=> u \in before.enabled
      BY <2>4 DEF EnabledBack
    <3>3. Up \subseteq before.up /\ before.up \ missed \subseteq Up
      BY <2>4, <3>1 DEF ActiveBack, Up
    <3>4. QED
      BY <3>1, <3>2, <3>3
  <2>6. runtime.by = "none" <=> before.runtime.by = "none"
    BY <2>1 DEF Inductive, RuntimeInv
  <2>7. QED
    BY <2>2, <2>3, <2>5, <2>6 DEF FailureLeavesNoTrace, Up
<1>2. QED
  BY <1>1, Invariant, PTL

(* The settings last saved are in force after a release and after a complete *)
(* roll-back, except that an old API that was waiting for its restart when   *)
(* it was recorded may have saved some after the copy, and that a runtime    *)
(* configuration the release made may go with its settings if two saves have *)
(* given it its first inode again.                                           *)
THEOREM SettingsSurvive == Spec => []SettingsInForce
<1>1. Inductive => SettingsInForce
  <2> SUFFICES ASSUME Inductive PROVE SettingsInForce
    OBVIOUS
  <2>1. Succeeded => /\ runtime.by # "none"
                     /\ runtime.ver = latest \/ (legacy /\ Api \in missed)
    BY DEF Succeeded, Ended, Inductive, RuntimeInv, SettingsInv
  <2>2. RolledBack => (runtime.by = "none" <=> before.runtime.by = "none")
    BY DEF RolledBack, Ended, Restored, Inductive, RuntimeInv
  <2>3. RolledBack /\ legacy => legacyVer = latest \/ ReturnedInode
    BY <2>2 DEF Inductive, Placed, BeforeType, SettingsInv
  <2>4. RolledBack /\ before.runtime.by # "none" => runtime.ver = latest
    BY <2>2 DEF Inductive, Placed, BeforeType, SettingsInv
  <2>5. QED
    BY <2>1, <2>3, <2>4 DEF SettingsInForce, ReturnedInode
<1>2. QED
  BY <1>1, Invariant, PTL

(* The runtime configuration is removed only while the API is down, and only *)
(* with the settings the release put into it; it takes two saves for another *)
(* file to have the identity that is compared.                               *)
THEOREM RemovalIsSafe == Spec => RemovedOnlyUnused
<1> DEFINE Removes == runtime.by # "none" /\ runtime'.by = "none"
           Safe == Removes => /\ activity[Api] = "inactive"
                              /\ runtime.by = "script" \/ runtime.ver >= snapshot + 2
<1>1. Inductive /\ [Next]_vars => [Safe]_vars
  <2> SUFFICES ASSUME Inductive, [Next]_vars, Removes PROVE Safe
    OBVIOUS
  <2>1. DataOK
    BY PcsAre DEF Inductive, Placed
  <2>2. CASE RbConfig
    <3>1. activity[Api] = "inactive" /\ runtime.same
      BY <2>2 DEF RbConfig, NoWriter, SameFile
    <3>2. runtime.by \in {"script", "api"}
      BY <2>1, <3>1 DEF DataOK, Runtimes, Inductive, FileInv
    <3>3. QED
      BY <3>1, <3>2 DEF Inductive, FileInv
  <2>3. CASE InstallRuntime
    BY <2>3 DEF InstallRuntime
  <2>4. CASE AdminSaves
    BY <2>1, <2>4, SaveChanges
  <2>5. CASE UNCHANGED runtime
    BY <2>5
  <2>6. QED
    BY <2>2, <2>3, <2>4, <2>5 DEF Next, Install, Cleanup, vars, BackUp, StopApi, Snapshot,
       RemoveUnit, InstallUnit, SaveRelease, Saved, Promote, Promoted, Created,
       DaemonReload, Enable, Restart, CheckStatus, Fail, Interrupt, RbStop, RbDisable,
       RbRemove, RbRestore, RbRemoveUnit, RbInstallUnit, RbReload, RbEnable, RbStart,
       Exit, ServiceCrashes, ServiceRestarts
<1> HIDE DEF Safe
<1>2. Spec => [][Safe]_vars
  BY <1>1, Invariant, PTL DEF Spec
<1>3. QED
  BY <1>2, PTL DEF Safe, RemovedOnlyUnused
=============================================================================
