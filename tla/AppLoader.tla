------------------------------ MODULE AppLoader ------------------------------
(***************************************************************************)
(* How a new version of the application gets onto the module: the loader   *)
(* (appl/main.c), which at every boot applies a package that was left for  *)
(* it, starts the application and rolls back when it does not come up; and *)
(* the installer inside the application (upg_ctl.c), which unpacks the     *)
(* package.  They share three directories: current, previous and upgrade,  *)
(* each with a status file that says good or bad (dir.c).                  *)
(*   Files and status files survive a power cut and a restart; everything  *)
(* else does not.  A file that is being copied is torn until it is whole   *)
(* (file_copy); a status file is replaced at once (file_write_atomic).     *)
(* Directories are removed entry by entry, in no particular order.         *)
(*   The copy of current on the second partition is written only: it would *)
(* be read if neither current nor previous were good, and Recoverable      *)
(* shows that this never happens.                                          *)
(***************************************************************************)
EXTENDS Integers, Sequences

CONSTANTS
    Subs,           \* the files of each directory in data/: image, cfg, dbc, usrdata
    AppImage,       \* COM_APP_IMAGE
    Scripts,        \* files (MPU_SHELL_FILE, MCU_CFG_FILE) that alone need no restart
    NoFile,
    MaxInstalls,    \* bound: packages
    MaxEvents       \* bound: packages, power cuts and failed operations together

Image == Subs[1]
Files == UNION {Subs[i] : i \in 1..Len(Subs)}

ASSUME AppLoaderAssumption ==
    /\ Len(Subs) \in Nat \ {0} /\ AppImage \in Image
    /\ \A i, j \in 1..Len(Subs) : i # j => Subs[i] \cap Subs[j] = {}
    /\ Scripts \subseteq Image /\ NoFile \notin Files
    /\ MaxInstalls \in Nat /\ MaxEvents \in Nat

Dirs == {"cur", "pre", "upg"}
Absent == -1
Torn == -2
Version == 0..MaxInstalls       \* the n-th package installs version n
Content == Version \cup {Absent, Torn}

VARIABLES
    status, file,   \* of each directory: its status file, the content of its files
    apl_pc, phase, sub, rest, half,     \* the loader: where it is in main, and in a copy
    startup_cnt,
    upg_pc, pkg, save,      \* the installer: its package, the files it has yet to save
    restart,        \* PM_EVT_RESTART_4G_REQ was sent
    faulty,         \* the versions that do not come up
    installs, faults,
    releases,       \* history: what current is when it is a whole version
    spoiled         \* history: what went wrong that the code does not recover from

disk == <<status, file>>
copying == <<phase, sub, rest, half>>
installer == <<upg_pc, pkg, save>>
history == <<installs, faults, faulty, releases, spoiled>>
aplvars == <<disk, apl_pc, copying, startup_cnt, installer, restart, history>>

ThreeStatus == {"none", "bad", "good"}
NoPackage == [v |-> 0, fs |-> {}]

AplInit ==
    /\ status = [d \in Dirs |-> IF d = "cur" THEN "good" ELSE "none"]
    /\ file = [d \in Dirs |-> [f \in Files |-> IF d = "cur" THEN 0 ELSE Absent]]
    /\ apl_pc = "boot" /\ phase = "mark" /\ sub = 1 /\ rest = {} /\ half = NoFile
    /\ startup_cnt = 0 /\ upg_pc = "idle" /\ pkg = NoPackage /\ save = {} /\ restart = FALSE
    /\ faulty = {} /\ installs = 0 /\ faults = 0 /\ releases = {file["cur"]} /\ spoiled = {}

-----------------------------------------------------------------------------
\* dir_get_status
Good(d) == status[d] = "good"

Present(d, fs) == {f \in fs : file[d][f] # Absent}

\* not dir_exists or dir_is_empty; a directory goes with its last entry
Empty(d) == status[d] = "none" /\ Present(d, Files) = {}

\* One step of dir_remove_path.
RemoveEntry(d) ==
    \/ /\ status[d] # "none"
       /\ status' = [status EXCEPT ![d] = "none"] /\ UNCHANGED file
    \/ \E f \in Present(d, Files) :
           file' = [file EXCEPT ![d][f] = Absent] /\ UNCHANGED status

-----------------------------------------------------------------------------
(* The loader's three copies: backup to previous, upgrade of current,      *)
(* rollback.  dir_update_start, then appl_copy or appl_overlap for each    *)
(* directory, then dir_update_commit.                                      *)

Copies == {"backup", "overlap", "rollback"}
Src == IF apl_pc = "backup" THEN "cur" ELSE IF apl_pc = "overlap" THEN "upg" ELSE "pre"
Dst == IF apl_pc = "backup" THEN "pre" ELSE "cur"

\* The upgrade has an image directory only.
LastSub == IF apl_pc = "overlap" THEN 1 ELSE Len(Subs)

GoTo(p) == /\ apl_pc' = p /\ phase' = "mark" /\ sub' = 1 /\ rest' = {} /\ half' = NoFile

\* Mutated form: the directory is not marked while it is changed.
MutUpdateStart ==
    /\ apl_pc \in Copies /\ phase = "mark"
    /\ phase' = "begin" /\ UNCHANGED <<disk, apl_pc, sub, rest, half>>

\* dir_update_start
UpdateStart ==
    /\ apl_pc \in Copies /\ phase = "mark"
    /\ status' = [status EXCEPT ![Dst] = "bad"]
    /\ phase' = "begin" /\ UNCHANGED <<file, apl_pc, sub, rest, half>>

\* appl_copy and appl_overlap return at once when there is nothing to copy;
\* appl_copy removes what is in its destination first.
CopyBegin ==
    /\ apl_pc \in Copies /\ phase = "begin"
    /\ LET from == Present(Src, Subs[sub])
           wipe == apl_pc # "overlap"
       IN  /\ phase' = IF from = {} THEN "next" ELSE IF wipe THEN "wipe" ELSE "copy"
           /\ rest' = IF from = {} THEN {} ELSE IF wipe THEN Present(Dst, Subs[sub]) ELSE from
    /\ UNCHANGED <<disk, apl_pc, sub, half>>

CopyWipe ==
    /\ phase = "wipe"
    /\ \/ \E f \in rest : /\ file' = [file EXCEPT ![Dst][f] = Absent]
                          /\ rest' = rest \ {f} /\ UNCHANGED phase
       \/ /\ rest = {} /\ phase' = "copy" /\ rest' = Present(Src, Subs[sub])
          /\ UNCHANGED file
    /\ UNCHANGED <<status, apl_pc, sub, half>>

\* file_copy: creat truncates the destination, then the data follows.
CopyFile ==
    /\ phase = "copy"
    /\ \/ /\ half = NoFile
          /\ \E f \in rest : file' = [file EXCEPT ![Dst][f] = Torn] /\ half' = f
          /\ UNCHANGED rest
       \/ /\ half # NoFile
          /\ file' = [file EXCEPT ![Dst][half] = file[Src][half]]
          /\ half' = NoFile /\ rest' = rest \ {half}
    /\ UNCHANGED <<status, apl_pc, phase, sub>>

CopyNext ==
    /\ apl_pc \in Copies
    /\ phase = "next" \/ (phase = "copy" /\ rest = {})
    /\ sub' = IF sub < LastSub THEN sub + 1 ELSE sub
    /\ phase' = IF sub < LastSub THEN "begin" ELSE "commit"
    /\ UNCHANGED <<disk, apl_pc, rest, half>>

\* What main does after each dir_update_commit.
AfterCommit == IF apl_pc = "backup" THEN "overlap"
               ELSE IF apl_pc = "overlap" THEN "rm_upg" ELSE "mirror"

\* dir_update_commit
UpdateCommit ==
    /\ phase = "commit"
    /\ status' = [status EXCEPT ![Dst] = "good"]
    /\ GoTo(AfterCommit) /\ UNCHANGED file

-----------------------------------------------------------------------------
\* Mutated form: a package is applied only when there is no backup yet.
MutBoot ==
    /\ apl_pc = "boot"
    /\ GoTo(IF Good("upg") /\ Empty("pre") THEN "backup" ELSE "rm_upg")
    /\ UNCHANGED <<disk, startup_cnt, history>>

\* main begins: a package that was committed is applied.  A half written
\* current is backed up like a whole one.
Boot ==
    /\ apl_pc = "boot"
    /\ GoTo(IF Good("upg") THEN "backup" ELSE "rm_upg")
    /\ spoiled' = IF Good("upg") /\ ~Good("cur") THEN spoiled \cup {"half_backup"} ELSE spoiled
    /\ UNCHANGED <<disk, startup_cnt, installs, faults, faulty, releases>>

\* The upgrade directory is removed, applied or not.
RemoveUpg ==
    /\ apl_pc = "rm_upg"
    /\ \/ RemoveEntry("upg") /\ UNCHANGED <<apl_pc, copying>>
       \/ Empty("upg") /\ GoTo("start") /\ UNCHANGED disk

\* appl_start_app, up to the fork; without an image it returns -1.
Fork == IF file["cur"][AppImage] # Absent THEN "starting" ELSE "failed"

\* Mutated form: attempts are not counted.
MutStartApp ==
    /\ apl_pc = "start"
    /\ GoTo(IF Good("cur") THEN Fork ELSE "roll_back") /\ UNCHANGED startup_cnt

\* start_app
StartApp ==
    /\ apl_pc = "start"
    /\ IF Good("cur")
       THEN startup_cnt' = startup_cnt + 1 /\ GoTo(Fork)
       ELSE GoTo("roll_back") /\ UNCHANGED startup_cnt

\* The application writes OK to the shared memory: counted from now on as
\* started, and the way back is given up (see DropPre).
AppOk ==
    /\ apl_pc = "starting" /\ file["cur"][AppImage] \in Version \ faulty
    /\ startup_cnt' = 0 /\ GoTo("drop_pre")

\* It exits, or does not write OK for APP_STARTUP_TIME.  A good version may
\* fail too.
AppNok == apl_pc = "starting" /\ GoTo("failed") /\ UNCHANGED startup_cnt

\* The third failure in a row leads to the rollback.
AppFailed ==
    /\ apl_pc = "failed"
    /\ startup_cnt' = IF startup_cnt <= 2 THEN startup_cnt ELSE 0
    /\ GoTo(IF startup_cnt <= 2 THEN "start" ELSE "roll_back")

DropPre ==
    /\ apl_pc = "drop_pre"
    /\ \/ RemoveEntry("pre") /\ UNCHANGED <<apl_pc, copying>>
       \/ Empty("pre") /\ GoTo("running") /\ UNCHANGED disk

\* Mutated form: rolls back to whatever is there.
MutRollBack ==
    /\ apl_pc = "roll_back"
    /\ GoTo(IF Empty("pre") THEN "start" ELSE "rollback")

\* roll_back
RollBack ==
    /\ apl_pc = "roll_back"
    /\ GoTo(IF Empty("pre") THEN "start" ELSE IF Good("pre") THEN "rollback" ELSE "exit")

\* dir_copy of current to the second partition after a rollback.
Mirror == apl_pc = "mirror" /\ GoTo("start")

\* The application exits after it had come up, with the installer and the
\* power manager in it.
AppExits ==
    /\ apl_pc = "running" /\ GoTo(Fork)
    /\ upg_pc' = "idle" /\ save' = {} /\ restart' = FALSE /\ UNCHANGED pkg

-----------------------------------------------------------------------------
(* The installer, in the application: upg_app_start needs the application  *)
(* to have come up; it does not ask whether a package waits for a restart. *)

AppUp == apl_pc \in {"drop_pre", "running"}

upg_app_start ==
    /\ AppUp /\ upg_pc = "idle" /\ installs < MaxInstalls /\ installs + faults < MaxEvents
    /\ \E fs \in SUBSET Image \ {{}} : \E bad \in SUBSET {installs + 1} :
           /\ pkg' = [v |-> installs + 1, fs |-> fs]
           /\ faulty' = faulty \cup bad
    /\ installs' = installs + 1 /\ upg_pc' = "clear" /\ save' = {}
    /\ spoiled' = IF Good("upg") THEN spoiled \cup {"upg_replaced"} ELSE spoiled
    /\ UNCHANGED <<disk, restart, faults, releases>>

\* upg_ctl_proc removes the upgrade directory and marks it bad.
UpgClear ==
    /\ upg_pc = "clear"
    /\ \/ RemoveEntry("upg") /\ UNCHANGED <<upg_pc, save>>
       \/ /\ Empty("upg") /\ status' = [status EXCEPT !["upg"] = "bad"] /\ UNCHANGED file
          /\ upg_pc' = "save" /\ save' = pkg.fs
    /\ UNCHANGED <<pkg, restart, installs, faults, faulty, releases, spoiled>>

\* upg_ctl_save, which writes a file as a whole, or refuses its data: then
\* the package is given up.  The package's version file goes with the first.
UpgSave ==
    /\ upg_pc = "save" /\ save # {}
    /\ \/ \E f \in save : /\ file' = [file EXCEPT !["upg"][f] = pkg.v]
                          /\ save' = save \ {f} /\ UNCHANGED upg_pc
       \/ upg_pc' = "idle" /\ save' = {} /\ UNCHANGED file
    /\ UNCHANGED <<status, pkg, restart, installs, faults, faulty, releases, spoiled>>

Overlay(base, top) == [f \in Files |-> IF top[f] = Absent THEN base[f] ELSE top[f]]

\* The commit, and the request for a restart, which pm_send_evt may fail to
\* deliver.  None is made for one script alone, and none for two in one of the
\* orders in which the package may list them.
UpgCommit ==
    /\ upg_pc = "save" /\ save = {}
    /\ status' = [status EXCEPT !["upg"] = "good"]
    /\ restart' \in IF \E f \in Scripts : pkg.fs = {f} THEN {restart} ELSE {restart, TRUE}
    /\ upg_pc' = "idle" /\ releases' = releases \cup {Overlay(file["cur"], file["upg"])}
    /\ UNCHANGED <<file, pkg, save, installs, faults, faulty, spoiled>>

-----------------------------------------------------------------------------
\* Memory is lost, the disk is not.
LoseMemory ==
    /\ GoTo("boot") /\ startup_cnt' = 0 /\ restart' = FALSE
    /\ upg_pc' = "idle" /\ save' = {}
    /\ spoiled' = spoiled
           \cup (IF apl_pc = "drop_pre" THEN {"pre_half_gone"} ELSE {})
           \cup (IF apl_pc = "rm_upg" /\ Good("upg") THEN {"upg_kept"} ELSE {})
    /\ UNCHANGED <<disk, pkg, installs, faulty, releases>>

\* pm_restart_4g, which the installer asked for.
Restart == restart /\ LoseMemory /\ UNCHANGED faults

PowerCut == installs + faults < MaxEvents /\ faults' = faults + 1 /\ LoseMemory

\* The loader has given up; the next boot tries again.
PowerCycle == apl_pc = "exit" /\ LoseMemory /\ UNCHANGED faults

\* A directory cannot be made or read, or a file not be copied: main returns.
\* The mirror after a rollback has the same consequence.
CopyFails ==
    /\ installs + faults < MaxEvents /\ faults' = faults + 1
    /\ apl_pc = "mirror" \/ (apl_pc \in Copies /\ phase \in {"begin", "wipe", "copy"})
    /\ GoTo("exit")
    /\ UNCHANGED <<disk, startup_cnt, installs, faulty, releases, spoiled>>

\* dir_remove_path fails, which is only logged.
RemoveFails ==
    /\ installs + faults < MaxEvents /\ faults' = faults + 1
    /\ \/ /\ apl_pc = "rm_upg" /\ GoTo("start")
          /\ spoiled' = IF Good("upg") THEN spoiled \cup {"upg_left"} ELSE spoiled
       \/ /\ apl_pc = "drop_pre" /\ GoTo("running")
          /\ spoiled' = spoiled \cup {"pre_half_gone"}
    /\ UNCHANGED <<disk, startup_cnt, installs, faulty, releases>>

Copying == UpdateStart \/ CopyBegin \/ CopyWipe \/ CopyFile \/ CopyNext \/ UpdateCommit

\* The loader's own steps.
Loader ==
    /\ \/ /\ Copying \/ RemoveUpg \/ DropPre
          /\ UNCHANGED <<startup_cnt, history>>
       \/ Boot
       \/ /\ StartApp \/ AppNok \/ AppFailed \/ ((RollBack \/ Mirror) /\ UNCHANGED startup_cnt)
          /\ UNCHANGED <<disk, history>>
    /\ UNCHANGED <<installer, restart>>

AppComesUp == AppOk /\ UNCHANGED <<disk, installer, restart, history>>

Installer == (UpgClear \/ UpgSave \/ UpgCommit) /\ UNCHANGED <<apl_pc, copying, startup_cnt>>

AplNext ==
    \/ Loader
    \/ AppComesUp
    \/ AppExits /\ UNCHANGED <<disk, startup_cnt, history>>
    \/ upg_app_start /\ UNCHANGED <<apl_pc, copying, startup_cnt>>
    \/ Installer
    \/ Restart
    \/ PowerCut
    \/ PowerCycle
    \/ (CopyFails \/ RemoveFails) /\ UNCHANGED <<installer, restart>>

\* The loader and the installer go on; the restart asked for comes (PowerMgr);
\* a version that is not faulty does not fail to start for ever.
AplFairness ==
    /\ WF_aplvars(Loader) /\ WF_aplvars(Installer) /\ WF_aplvars(Restart)
    /\ SF_aplvars(AppComesUp)

AplSpec == AplInit /\ [][AplNext]_aplvars /\ AplFairness
-----------------------------------------------------------------------------
(* Types and safety *)

\* The loader, the installer and the disk stay in their types.
AplTypeOK ==
    /\ status \in [Dirs -> ThreeStatus] /\ file \in [Dirs -> [Files -> Content]]
    /\ apl_pc \in Copies \cup {"boot", "rm_upg", "start", "starting", "failed", "drop_pre",
                              "running", "roll_back", "mirror", "exit"}
    /\ phase \in {"mark", "begin", "wipe", "copy", "next", "commit"} /\ sub \in 1..Len(Subs)
    /\ rest \subseteq Files /\ half \in Files \cup {NoFile} /\ startup_cnt \in 0..3
    /\ upg_pc \in {"idle", "clear", "save"} /\ save \subseteq Image /\ restart \in BOOLEAN
    /\ faulty \subseteq Version /\ installs \in Version /\ faults \in 0..MaxEvents

\* A current directory that is marked good is a whole version, wherever the
\* power was cut: never a mixture of two, never with a torn or a missing file.
\* The code leaves four windows: a current that was cut during the upgrade is
\* backed up as it is; previous is removed while it is marked good; a package
\* that waits for the restart is replaced by another; the upgrade directory
\* cannot be removed.
GoodIsWhole ==
    Good("cur") => file["cur"] \in releases \/ spoiled \ {"upg_kept"} # {}

\* There is always a directory to go on from, and when the application is to be
\* started it is current or previous: the copy on the second partition, which
\* main would fall back to, is never needed.
Recoverable ==
    /\ \E d \in Dirs : Good(d)
    /\ apl_pc \in {"start", "roll_back", "rollback"} => Good("cur") \/ Good("pre")

-----------------------------------------------------------------------------
(* Liveness *)

\* A package whose restart was asked for is installed, whatever power cuts come
\* in between, unless another one takes its place, the application (and with
\* it the request) dies first, or a copy fails.
UpgradeInstalled ==
    restart ~> \/ \A f \in pkg.fs : file["cur"][f] = pkg.v
               \/ "upg_replaced" \in spoiled
               \/ apl_pc = "starting" /\ Good("upg")
               \/ apl_pc = "exit"

\* After every boot, after every power cut, the application comes up, by a
\* rollback if the new version does not; unless a copy fails or one of the
\* windows was hit (a power cut while the upgrade directory is removed is one
\* here: the new version is then backed up over the old one).
BootsAgain == (apl_pc = "boot") ~> (AppUp \/ spoiled # {} \/ apl_pc = "exit")
=============================================================================
