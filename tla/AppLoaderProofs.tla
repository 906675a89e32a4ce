--------------------------- MODULE AppLoaderProofs ---------------------------
(***************************************************************************)
(* The loader and the installer always leave a directory to go on from:    *)
(* proved for every set of files and any number of packages, power cuts    *)
(* and failures.                                                           *)
(***************************************************************************)
EXTENDS AppLoader, TLAPS

Labels == Copies \cup {"boot", "rm_upg", "start", "starting", "failed", "drop_pre", "running",
                       "roll_back", "mirror", "exit"}

\* What each place of main can count on: a copy changes its destination only
\* while its source is marked good, and the application runs from a current that is.
Source ==
    /\ apl_pc = "backup" => Good("upg")
    /\ apl_pc = "overlap" => Good("pre") /\ Good("upg")
    /\ apl_pc = "rollback" => Good("pre")
    /\ apl_pc \in {"rm_upg", "start", "failed", "roll_back"} => Good("cur") \/ Good("pre")
    /\ apl_pc \in {"starting", "drop_pre", "running", "mirror"} => Good("cur")

\* The installer touches the upgrade directory only while the application is up.
RecoverInv ==
    /\ status \in [Dirs -> ThreeStatus] /\ apl_pc \in Labels
    /\ phase # "mark" => apl_pc \in Copies
    /\ upg_pc # "idle" => AppUp
    /\ \E d \in Dirs : Good(d)
    /\ Source

\* No step, whatever is cut or fails, takes away the last good directory.
LEMMA RecoverStep == RecoverInv /\ [AplNext]_aplvars => RecoverInv'
  <1> SUFFICES ASSUME RecoverInv, [AplNext]_aplvars
               PROVE  RecoverInv'
    OBVIOUS
  <1> USE DEF RecoverInv, Source, Good, Dirs, ThreeStatus, Labels, Copies, AppUp, GoTo
  <1>1. CASE UpdateStart /\ UNCHANGED <<startup_cnt, history, installer, restart>>
    BY <1>1 DEF UpdateStart, Dst, installer
  <1>2. CASE (CopyBegin \/ CopyWipe \/ CopyFile \/ CopyNext)
             /\ UNCHANGED <<startup_cnt, history, installer, restart>>
    <2>1. UNCHANGED <<status, apl_pc, upg_pc>>
      BY <1>2 DEF CopyBegin, CopyWipe, CopyFile, CopyNext, disk, installer
    <2>2. phase' # "mark" => apl_pc \in Copies
      BY <1>2 DEF CopyBegin, CopyWipe, CopyFile, CopyNext
    <2> QED
      BY <2>1, <2>2
  <1>3. CASE UpdateCommit /\ UNCHANGED <<startup_cnt, history, installer, restart>>
    BY <1>3 DEF UpdateCommit, AfterCommit, Dst, installer
  <1>4. CASE RemoveUpg /\ UNCHANGED <<startup_cnt, history, installer, restart>>
    BY <1>4 DEF RemoveUpg, RemoveEntry, copying, disk, installer
  <1>5. CASE DropPre /\ UNCHANGED <<startup_cnt, history, installer, restart>>
    BY <1>5 DEF DropPre, RemoveEntry, copying, disk, installer
  <1>6. CASE Boot /\ UNCHANGED <<installer, restart>>
    BY <1>6 DEF Boot, disk, installer
  <1>7. CASE (StartApp \/ AppNok \/ AppFailed \/ ((RollBack \/ Mirror) /\ UNCHANGED startup_cnt))
             /\ UNCHANGED <<disk, history, installer, restart>>
    BY <1>7 DEF StartApp, AppNok, AppFailed, RollBack, Mirror, Fork, disk, installer
  <1>8. CASE AppComesUp
    BY <1>8 DEF AppComesUp, AppOk, disk, installer
  <1>9. CASE AppExits /\ UNCHANGED <<disk, startup_cnt, history>>
    BY <1>9 DEF AppExits, Fork, disk
  <1>10. CASE upg_app_start /\ UNCHANGED <<apl_pc, copying, startup_cnt>>
    BY <1>10 DEF upg_app_start, copying, disk
  <1>11. CASE Installer
    <2>1. apl_pc' = apl_pc /\ phase' = phase /\ AppUp /\ status'["cur"] = status["cur"]
          /\ status' \in [Dirs -> ThreeStatus] /\ (upg_pc' # "idle" => upg_pc # "idle")
      <3>1. CASE UpgClear /\ UNCHANGED <<apl_pc, copying, startup_cnt>>
        BY <3>1 DEF UpgClear, RemoveEntry, copying
      <3>2. CASE UpgSave /\ UNCHANGED <<apl_pc, copying, startup_cnt>>
        BY <3>2 DEF UpgSave, copying
      <3>3. CASE UpgCommit /\ UNCHANGED <<apl_pc, copying, startup_cnt>>
        BY <3>3 DEF UpgCommit, copying
      <3> QED
        BY <1>11, <3>1, <3>2, <3>3 DEF Installer
    <2> QED
      BY <2>1
  <1>12. CASE Restart \/ PowerCut \/ PowerCycle
    <2>1. LoseMemory
      BY <1>12 DEF Restart, PowerCut, PowerCycle
    <2> QED
      BY <2>1 DEF LoseMemory, disk
  <1>13. CASE (CopyFails \/ RemoveFails) /\ UNCHANGED <<installer, restart>>
    BY <1>13 DEF CopyFails, RemoveFails, disk, installer
  <1>14. CASE UNCHANGED aplvars
    BY <1>14 DEF aplvars, disk, copying, installer
  <1> QED
    BY <1>1, <1>2, <1>3, <1>4, <1>5, <1>6, <1>7, <1>8, <1>9, <1>10, <1>11, <1>12, <1>13, <1>14
    DEF AplNext, Loader, Copying

\* Whatever is installed, and wherever the power is cut or a copy fails, one of the
\* three directories is marked good, and current or previous is when the
\* application is to be started: main never needs the second partition.
THEOREM AlwaysRecoverable == AplSpec => []Recoverable
  <1>1. AplInit => RecoverInv
    BY DEF AplInit, RecoverInv, Source, Good, Dirs, ThreeStatus, Labels, Copies, AppUp
  <1>2. RecoverInv => Recoverable
    BY DEF RecoverInv, Source, Recoverable
  <1> QED
    BY <1>1, <1>2, RecoverStep, PTL DEF AplSpec

-----------------------------------------------------------------------------
(* A current marked good is a whole version.                               *)

\* None of the windows in which the code lets a directory be good and not whole.
Clean == spoiled \ {"upg_kept"} = {}

Same(a, b, fs) == \A f \in fs : file[a][f] = file[b][f]

\* The files of the upgrade directory that current already has.
Applied(fs) == \A f \in fs : file["upg"][f] # Absent => file["cur"][f] = file["upg"][f]

\* Where the loader is in a copy: rest is what is left of the directory, half one of rest.
CopyTypeOK ==
    /\ AplTypeOK /\ (apl_pc \notin {"starting", "failed"} => startup_cnt <= 2)
    /\ rest \subseteq Subs[sub] /\ (half # NoFile => half \in rest /\ phase = "copy")
    /\ phase \in {"mark", "begin", "next", "commit"} => rest = {}
    /\ phase # "mark" => apl_pc \in Copies
    /\ apl_pc = "overlap" => sub = 1 /\ phase # "wipe"
    /\ phase = "commit" => sub = LastSub
    /\ phase = "mark" => sub = 1
    /\ pkg \in [v : Version, fs : SUBSET Image]
    /\ save \subseteq pkg.fs
    /\ \A f \in Files : file["upg"][f] \in Version \cup {Absent}
    /\ \A f \in Files \ Image : file["upg"][f] = Absent

\* A backup and a rollback have copied the directories before sub, and of sub all but rest.
Progress ==
    apl_pc \in {"backup", "rollback"} =>
        /\ \A i \in 1..sub - 1 : Same(Dst, Src, Subs[i])
        /\ phase \in {"copy", "next", "commit"} => Same(Dst, Src, Subs[sub] \ rest)

\* An upgrade has copied what it found, except rest.
Upgrading ==
    /\ apl_pc = "overlap" =>
        /\ Overlay(file["cur"], file["upg"]) \in releases
        /\ rest \subseteq Present("upg", Image)
        /\ phase \in {"copy", "next", "commit"} => Applied(Image \ rest)
    /\ apl_pc = "rm_upg" /\ Good("upg") => Good("cur") /\ Applied(Files)

\* What is marked good is whole, previous until it is removed; a package is whole
\* on top of the current it was made for.
Whole ==
    /\ releases \subseteq [Files -> Version]
    /\ Good("cur") => file["cur"] \in releases
    /\ Good("pre") /\ apl_pc # "drop_pre" => file["pre"] \in releases
    /\ Good("upg") /\ Good("cur") => Overlay(file["cur"], file["upg"]) \in releases

\* A directory is bad while it is written.  A package that waits is never rolled
\* over: there is nothing to roll back to.
Waiting ==
    /\ phase # "mark" => ~Good(Dst)
    /\ apl_pc = "backup" => Good("cur")
    /\ apl_pc = "running" => Empty("pre")
    /\ Good("upg") /\ apl_pc \in {"start", "starting", "failed", "roll_back"} => Empty("pre")
    /\ apl_pc \in {"rollback", "mirror"} => ~Good("upg")
    /\ upg_pc # "idle" => ~Good("upg")

Kept == Progress /\ Upgrading /\ Whole /\ Waiting

WholeInv == RecoverInv /\ CopyTypeOK /\ (Clean => Kept)

-----------------------------------------------------------------------------
\* No content of a file is both a version and none.
LEMMA Contents ==
    /\ Absent \notin Version /\ Torn \notin Version /\ Absent # Torn
    /\ Absent \in Content /\ Torn \in Content /\ Version \subseteq Content
    /\ 0 \in Version
  BY AppLoaderAssumption DEF Absent, Torn, Version, Content

\* The directories are parts of the files, and no file is in two of them.
LEMMA Directories ==
    /\ \A i \in 1..Len(Subs) : Subs[i] \subseteq Files
    /\ \A f \in Files : \E i \in 1..Len(Subs) : f \in Subs[i]
    /\ Image = Subs[1] /\ Image \subseteq Files
    /\ 1 \in 1..Len(Subs) /\ Len(Subs) \in 1..Len(Subs) /\ AppImage \in Files
  BY AppLoaderAssumption DEF Files, Image

\* One file is written.
LEMMA OneFile ==
    ASSUME file \in [Dirs -> [Files -> Content]],
           NEW d \in Dirs, NEW f \in Files, NEW c \in Content,
           file' = [file EXCEPT ![d][f] = c]
    PROVE  /\ file' \in [Dirs -> [Files -> Content]]
           /\ \A e \in Dirs \ {d} : file'[e] = file[e]
           /\ \A g \in Files \ {f} : file'[d][g] = file[d][g]
           /\ file'[d][f] = c
  OBVIOUS

\* What a step of dir_remove_path does.
LEMMA EntryRemoved ==
    ASSUME status \in [Dirs -> ThreeStatus], file \in [Dirs -> [Files -> Content]],
           NEW d \in Dirs, RemoveEntry(d)
    PROVE  /\ status' \in [Dirs -> ThreeStatus] /\ file' \in [Dirs -> [Files -> Content]]
           /\ \A e \in Dirs \ {d} : file'[e] = file[e] /\ status'[e] = status[e]
           /\ \A g \in Files : file'[d][g] \in {file[d][g], Absent}
           /\ status'[d] \in {status[d], "none"}
  <1>1. CASE status' = [status EXCEPT ![d] = "none"] /\ UNCHANGED file
    BY <1>1 DEF ThreeStatus
  <1>2. CASE \E f \in Present(d, Files) :
                 file' = [file EXCEPT ![d][f] = Absent] /\ UNCHANGED status
    <2>1. PICK f \in Files : file' = [file EXCEPT ![d][f] = Absent] /\ UNCHANGED status
      BY <1>2 DEF Present
    <2> QED
      BY <2>1, OneFile, Contents
  <1> QED
    BY <1>1, <1>2 DEF RemoveEntry

\* Every step keeps the types, and the place in a copy in its directory.
LEMMA CopyTypeStep == RecoverInv /\ CopyTypeOK /\ [AplNext]_aplvars => CopyTypeOK'
  <1> SUFFICES ASSUME RecoverInv, CopyTypeOK, [AplNext]_aplvars
               PROVE  CopyTypeOK'
    OBVIOUS
  <1>a. /\ status \in [Dirs -> ThreeStatus] /\ file \in [Dirs -> [Files -> Content]]
        /\ Dst \in Dirs /\ Src \in Dirs /\ Dst # "upg" /\ Dst # Src
        /\ "cur" \in Dirs /\ "pre" \in Dirs /\ "upg" \in Dirs
        /\ Subs[sub] \subseteq Files
    BY Directories DEF CopyTypeOK, AplTypeOK, Dst, Src, Dirs
  <1> USE AppLoaderAssumption, Contents, Directories, <1>a
      DEF CopyTypeOK, AplTypeOK, Copies, ThreeStatus
  <1>1. CASE UpdateStart /\ UNCHANGED <<startup_cnt, history, installer, restart>>
    BY <1>1 DEF UpdateStart, history, installer, LastSub
  <1>2. CASE CopyBegin /\ UNCHANGED <<startup_cnt, history, installer, restart>>
    BY <1>2 DEF CopyBegin, Present, history, installer, disk, LastSub
  <1>3. CASE CopyWipe /\ UNCHANGED <<startup_cnt, history, installer, restart>>
    <2>1. CASE rest = {} /\ phase' = "copy" /\ rest' = Present(Src, Subs[sub]) /\ UNCHANGED file
      BY <2>1, <1>3 DEF CopyWipe, Present, history, installer, LastSub
    <2>2. CASE \E f \in rest : /\ file' = [file EXCEPT ![Dst][f] = Absent]
                               /\ rest' = rest \ {f} /\ UNCHANGED phase
      <3>1. PICK f \in rest : /\ file' = [file EXCEPT ![Dst][f] = Absent]
                              /\ rest' = rest \ {f} /\ UNCHANGED phase
        BY <2>2
      <3>2. file' \in [Dirs -> [Files -> Content]] /\ file'["upg"] = file["upg"]
        BY <3>1, OneFile
      <3> QED
        BY <3>1, <3>2, <1>3 DEF CopyWipe, history, installer, LastSub
    <2> QED
      BY <2>1, <2>2, <1>3 DEF CopyWipe
  <1>4. CASE CopyFile /\ UNCHANGED <<startup_cnt, history, installer, restart>>
    <2>1. CASE half = NoFile
      <3>1. PICK f \in rest : file' = [file EXCEPT ![Dst][f] = Torn] /\ half' = f
        BY <2>1, <1>4 DEF CopyFile
      <3>2. file' \in [Dirs -> [Files -> Content]] /\ file'["upg"] = file["upg"]
        BY <3>1, OneFile
      <3> QED
        BY <3>1, <3>2, <2>1, <1>4 DEF CopyFile, history, installer, LastSub
    <2>2. CASE half # NoFile
      <3>1. file' = [file EXCEPT ![Dst][half] = file[Src][half]] /\ half \in Files
        BY <2>2, <1>4 DEF CopyFile
      <3>2. file' \in [Dirs -> [Files -> Content]] /\ file'["upg"] = file["upg"]
        BY <3>1, OneFile
      <3> QED
        BY <3>1, <3>2, <2>2, <1>4 DEF CopyFile, history, installer, LastSub
    <2> QED
      BY <2>1, <2>2
  <1>5. CASE CopyNext /\ UNCHANGED <<startup_cnt, history, installer, restart>>
    BY <1>5 DEF CopyNext, history, installer, disk, LastSub
  <1>6. CASE UpdateCommit /\ UNCHANGED <<startup_cnt, history, installer, restart>>
    BY <1>6 DEF UpdateCommit, AfterCommit, GoTo, history, installer
  <1>7. CASE (RemoveUpg \/ DropPre) /\ UNCHANGED <<startup_cnt, history, installer, restart>>
    <2>1. /\ status' \in [Dirs -> ThreeStatus] /\ file' \in [Dirs -> [Files -> Content]]
          /\ \A g \in Files : file'["upg"][g] \in {file["upg"][g], Absent}
      BY <1>7, EntryRemoved DEF RemoveUpg, DropPre, disk
    <2> QED
      BY <2>1, <1>7 DEF RemoveUpg, DropPre, GoTo, copying, history, installer, LastSub
  <1>8. CASE Boot /\ UNCHANGED <<installer, restart>>
    BY <1>8 DEF Boot, GoTo, disk, installer
  <1>9. CASE (StartApp \/ AppNok \/ AppFailed \/ ((RollBack \/ Mirror) /\ UNCHANGED startup_cnt))
             /\ UNCHANGED <<disk, history, installer, restart>>
    BY <1>9 DEF StartApp, AppNok, AppFailed, RollBack, Mirror, Fork, GoTo, disk, history, installer
  <1>10. CASE AppComesUp \/ (AppExits /\ UNCHANGED <<disk, startup_cnt, history>>)
    <2>1. restart' \in BOOLEAN
      BY Zenon, <1>10 DEF AppComesUp, AppExits
    <2> QED
      BY <2>1, <1>10 DEF AppComesUp, AppOk, AppExits, Fork, GoTo, disk, history, installer
  <1>11. CASE upg_app_start /\ UNCHANGED <<apl_pc, copying, startup_cnt>>
    <2>1. PICK fs \in SUBSET Image, bad \in SUBSET {installs + 1} :
               pkg' = [v |-> installs + 1, fs |-> fs] /\ faulty' = faulty \cup bad
      BY <1>11 DEF upg_app_start
    <2>2. installs + 1 \in Version /\ installs' = installs + 1
      BY <1>11 DEF upg_app_start, Version
    <2>3. /\ pkg' \in [v : Version, fs : SUBSET Image] /\ faulty' \subseteq Version
          /\ installs' \in Version
      BY <2>1, <2>2
    <2> QED
      BY <2>3, <1>11 DEF upg_app_start, copying, disk, LastSub
  <1>12. CASE UpgClear /\ UNCHANGED <<apl_pc, copying, startup_cnt>>
    <2>1. /\ status' \in [Dirs -> ThreeStatus] /\ file' \in [Dirs -> [Files -> Content]]
          /\ \A g \in Files : file'["upg"][g] \in {file["upg"][g], Absent}
      <3>1. CASE RemoveEntry("upg")
        BY <3>1, EntryRemoved
      <3>2. CASE status' = [status EXCEPT !["upg"] = "bad"] /\ UNCHANGED file
        BY <3>2
      <3> QED
        BY <3>1, <3>2, <1>12 DEF UpgClear
    <2> QED
      BY <2>1, <1>12 DEF UpgClear, copying, LastSub
  <1>13. CASE UpgSave /\ UNCHANGED <<apl_pc, copying, startup_cnt>>
    <2>1. CASE \E f \in save : /\ file' = [file EXCEPT !["upg"][f] = pkg.v]
                               /\ save' = save \ {f} /\ UNCHANGED upg_pc
      <3>1. PICK f \in save : /\ file' = [file EXCEPT !["upg"][f] = pkg.v]
                              /\ save' = save \ {f} /\ UNCHANGED upg_pc
        BY <2>1
      <3>2. f \in Image /\ f \in Files /\ pkg.v \in Version
        OBVIOUS
      <3>3. /\ file' \in [Dirs -> [Files -> Content]] /\ file'["upg"][f] = pkg.v
            /\ \A g \in Files \ {f} : file'["upg"][g] = file["upg"][g]
        BY <3>1, <3>2, OneFile
      <3> QED
        BY <3>1, <3>2, <3>3, <1>13 DEF UpgSave, copying, LastSub
    <2>2. CASE upg_pc' = "idle" /\ save' = {} /\ UNCHANGED file
      BY <2>2, <1>13 DEF UpgSave, copying, LastSub
    <2> QED
      BY <2>1, <2>2, <1>13 DEF UpgSave
  <1>14. CASE UpgCommit /\ UNCHANGED <<apl_pc, copying, startup_cnt>>
    BY <1>14 DEF UpgCommit, copying, LastSub
  <1>15. CASE Restart \/ PowerCut \/ PowerCycle
    <2>1. LoseMemory /\ faults' \in 0..MaxEvents
      BY <1>15 DEF Restart, PowerCut, PowerCycle, Version
    <2>2. restart' \in BOOLEAN
      BY Zenon, <2>1 DEF LoseMemory
    <2> QED
      BY <2>1, <2>2 DEF LoseMemory, GoTo, disk
  <1>16. CASE (CopyFails \/ RemoveFails) /\ UNCHANGED <<installer, restart>>
    <2>1. faults' \in 0..MaxEvents
      BY <1>16 DEF CopyFails, RemoveFails, Version
    <2> QED
      BY <2>1, <1>16 DEF CopyFails, RemoveFails, GoTo, disk, installer
  <1>17. CASE UNCHANGED aplvars
    BY <1>17 DEF aplvars, disk, copying, installer, history, LastSub
  <1> QED
    BY <1>1, <1>2, <1>3, <1>4, <1>5, <1>6, <1>7, <1>8, <1>9, <1>10, <1>11, <1>12, <1>13, <1>14,
       <1>15, <1>16, <1>17
    DEF AplNext, Loader, Copying, Installer

-----------------------------------------------------------------------------
\* A window that was hit stays hit.
LEMMA CleanBefore == [AplNext]_aplvars /\ Clean' => Clean
  <1> SUFFICES ASSUME [AplNext]_aplvars
               PROVE  spoiled \subseteq spoiled'
    BY DEF Clean
  <1>1. CASE Loader \/ AppComesUp \/ Installer \/ (AppExits /\ UNCHANGED <<disk, startup_cnt, history>>)
    BY <1>1 DEF Loader, Boot, AppComesUp, Installer, UpgClear, UpgSave, UpgCommit, history
  <1>2. CASE upg_app_start
    BY <1>2 DEF upg_app_start
  <1>3. CASE Restart \/ PowerCut \/ PowerCycle
    BY <1>3 DEF Restart, PowerCut, PowerCycle, LoseMemory
  <1>4. CASE CopyFails \/ RemoveFails
    BY <1>4 DEF CopyFails, RemoveFails
  <1>5. CASE UNCHANGED aplvars
    BY <1>5 DEF aplvars, history
  <1> QED
    BY <1>1, <1>2, <1>3, <1>4, <1>5 DEF AplNext

\* A package that current already has changes nothing any more.
LEMMA OverlaySame ==
    ASSUME NEW c \in [Files -> Content], NEW u,
           \A f \in Files : u[f] # Absent => c[f] = u[f]
    PROVE  Overlay(c, u) = c
  BY DEF Overlay

\* A whole version has every file.
LEMMA SourceWhole ==
    ASSUME RecoverInv, CopyTypeOK, Kept, apl_pc \in {"backup", "rollback"}
    PROVE  /\ file[Src] \in releases
           /\ \A f \in Files : file[Src][f] \in Version /\ file[Src][f] # Absent
  <1>1. file[Src] \in releases
    BY DEF RecoverInv, Source, Kept, Waiting, Whole, Src
  <1> QED
    BY <1>1, Contents DEF Kept, Whole

\* At its commit a backup or a rollback has made its destination equal to its source.
LEMMA AllCopied ==
    ASSUME RecoverInv, CopyTypeOK, Kept, apl_pc \in {"backup", "rollback"}, phase = "commit"
    PROVE  file[Dst] = file[Src]
  <1>1. rest = {} /\ sub = Len(Subs) /\ Len(Subs) \in Nat
    BY AppLoaderAssumption DEF CopyTypeOK, LastSub
  <1>2. \A i \in 1..Len(Subs) : Same(Dst, Src, Subs[i])
    <2> SUFFICES ASSUME NEW i \in 1..Len(Subs)
                 PROVE  Same(Dst, Src, Subs[i])
      OBVIOUS
    <2>1. CASE i = sub
      BY <2>1, <1>1 DEF Kept, Progress, Same
    <2>2. CASE i # sub
      <3>1. i \in 1..sub - 1
        BY <2>2, <1>1
      <3> QED
        BY <3>1 DEF Kept, Progress
    <2> QED
      BY <2>1, <2>2
  <1>3. \A f \in Files : file[Dst][f] = file[Src][f]
    BY <1>2, Directories DEF Same
  <1>4. file[Dst] \in [Files -> Content] /\ file[Src] \in [Files -> Content]
    BY DEF CopyTypeOK, AplTypeOK, Dst, Src, Dirs
  <1> QED
    BY <1>3, <1>4

\* Every step keeps what is marked good whole.
LEMMA WholeStep == WholeInv /\ [AplNext]_aplvars => WholeInv'
  <1> SUFFICES ASSUME RecoverInv, CopyTypeOK, Kept, Clean, Clean', [AplNext]_aplvars
               PROVE  Kept'
    BY RecoverStep, CopyTypeStep, CleanBefore DEF WholeInv
  <1>a. /\ status \in [Dirs -> ThreeStatus] /\ file \in [Dirs -> [Files -> Content]]
        /\ Dst \in {"cur", "pre"} /\ Src \in Dirs /\ Dst # Src
        /\ "cur" \in Dirs /\ "pre" \in Dirs /\ "upg" \in Dirs
        /\ sub \in 1..Len(Subs) /\ Subs[sub] \subseteq Files
    BY Directories DEF CopyTypeOK, AplTypeOK, Dst, Src, Dirs
  <1>b. \A i \in 1..sub - 1 : i \in 1..Len(Subs) /\ Subs[i] \subseteq Files /\ Subs[i] \cap Subs[sub] = {}
    BY <1>a, Directories, AppLoaderAssumption
  <1>1. CASE UpdateStart /\ UNCHANGED <<startup_cnt, history, installer, restart>>
    <2>1. /\ Dst' = Dst /\ Src' = Src /\ file' = file /\ apl_pc' = apl_pc /\ releases' = releases
          /\ upg_pc' = upg_pc /\ sub' = 1 /\ phase' = "begin" /\ rest' = {}
          /\ status' = [status EXCEPT ![Dst] = "bad"] /\ apl_pc \in Copies
      BY <1>1 DEF UpdateStart, Dst, Src, history, installer, CopyTypeOK
    <2>2. Progress' /\ Upgrading'
      BY <2>1 DEF Kept, Progress, Upgrading, Copies, Present
    <2>3. Whole' /\ Waiting'
      BY <2>1, <1>a DEF Kept, Whole, Waiting, Good, Copies, ThreeStatus, Dst
    <2> QED
      BY <2>2, <2>3 DEF Kept
  <1>2. CASE CopyBegin /\ UNCHANGED <<startup_cnt, history, installer, restart>>
    <2>1. /\ Dst' = Dst /\ Src' = Src /\ file' = file /\ apl_pc' = apl_pc /\ releases' = releases
          /\ upg_pc' = upg_pc /\ sub' = sub /\ status' = status /\ apl_pc \in Copies
          /\ phase' # "commit" /\ phase = "begin"
      BY <1>2 DEF CopyBegin, Dst, Src, history, installer, disk
    <2>2. Progress'
      <3> SUFFICES ASSUME apl_pc \in {"backup", "rollback"}
                   PROVE  phase' \in {"copy", "next"} => Subs[sub] = {}
        BY <2>1 DEF Kept, Progress, Same
      <3> QED
        BY <1>2, <1>a, SourceWhole DEF CopyBegin, Present
    <2>3. Upgrading'
      <3> SUFFICES ASSUME apl_pc = "overlap"
                   PROVE  rest' = Present("upg", Image)
        BY <2>1 DEF Kept, Upgrading, Applied, Present, Copies
      <3> QED
        BY <1>2, Directories DEF CopyBegin, CopyTypeOK, Present, Src
    <2>4. Whole' /\ Waiting'
      BY <2>1 DEF Kept, Whole, Waiting, Good, Empty, Present
    <2> QED
      BY <2>2, <2>3, <2>4 DEF Kept
  <1>3. CASE CopyWipe /\ UNCHANGED <<startup_cnt, history, installer, restart>>
    <2>1. /\ Dst' = Dst /\ Src' = Src /\ apl_pc' = apl_pc /\ releases' = releases
          /\ upg_pc' = upg_pc /\ sub' = sub /\ status' = status
          /\ apl_pc \in {"backup", "rollback"} /\ phase = "wipe" /\ phase' \in {"wipe", "copy"}
      BY <1>3 DEF CopyWipe, Dst, Src, history, installer, CopyTypeOK, Copies
    <2>2. CASE \E f \in rest : /\ file' = [file EXCEPT ![Dst][f] = Absent]
                               /\ rest' = rest \ {f} /\ UNCHANGED phase
      <3>1. PICK f \in rest : /\ file' = [file EXCEPT ![Dst][f] = Absent]
                              /\ rest' = rest \ {f} /\ UNCHANGED phase
        BY <2>2
      <3>2. f \in Subs[sub] /\ f \in Files
        BY <1>a DEF CopyTypeOK
      <3>3. /\ \A e \in Dirs \ {Dst} : file'[e] = file[e]
            /\ \A g \in Files \ {f} : file'[Dst][g] = file[Dst][g]
        BY <3>1, <3>2, <1>a, OneFile, Contents
      <3>4. Progress'
        BY <2>1, <3>1, <3>2, <3>3, <1>a, <1>b DEF Kept, Progress, Same
      <3>5. Upgrading' /\ Whole' /\ Waiting'
        BY <2>1, <3>3, <1>a DEF Kept, Upgrading, Whole, Waiting, Good, Dst, Src
      <3> QED
        BY <3>4, <3>5 DEF Kept
    <2>3. CASE rest = {} /\ phase' = "copy" /\ rest' = Present(Src, Subs[sub]) /\ UNCHANGED file
      <3>1. rest' = Subs[sub]
        BY <2>3, <2>1, <1>a, SourceWhole DEF Present
      <3> QED
        BY <2>1, <2>3, <3>1 DEF Kept, Progress, Same, Upgrading, Whole, Waiting, Good
    <2> QED
      BY <2>2, <2>3, <1>3 DEF CopyWipe
  <1>4. CASE CopyFile /\ UNCHANGED <<startup_cnt, history, installer, restart>>
    <2>1. /\ Dst' = Dst /\ Src' = Src /\ apl_pc' = apl_pc /\ releases' = releases
          /\ upg_pc' = upg_pc /\ sub' = sub /\ status' = status
          /\ apl_pc \in Copies /\ phase = "copy" /\ phase' = "copy"
      BY <1>4 DEF CopyFile, Dst, Src, history, installer, CopyTypeOK
    <2>2. PICK f \in rest : \E c \in Content :
               /\ file' = [file EXCEPT ![Dst][f] = c]
               /\ rest' = rest \/ (rest' = rest \ {f} /\ c = file[Src][f])
      <3>1. CASE half = NoFile
        BY <3>1, <1>4, Contents DEF CopyFile
      <3>2. CASE half # NoFile
        <4>1. half \in rest /\ half \in Files /\ file[Src][half] \in Content
          BY <3>2, <1>a DEF CopyTypeOK
        <4> QED
          BY <3>2, <4>1, <1>4 DEF CopyFile
      <3> QED
        BY <3>1, <3>2
    <2>3. PICK c \in Content :
               /\ file' = [file EXCEPT ![Dst][f] = c]
               /\ rest' = rest \/ (rest' = rest \ {f} /\ c = file[Src][f])
      BY <2>2
    <2>4. f \in Subs[sub] /\ f \in Files
      BY <1>a DEF CopyTypeOK
    <2>5. /\ \A e \in Dirs \ {Dst} : file'[e] = file[e]
          /\ \A g \in Files \ {f} : file'[Dst][g] = file[Dst][g]
          /\ file'[Dst][f] = c
      BY <2>3, <2>4, <1>a, OneFile DEF Dirs
    <2>6. Progress'
      <3> SUFFICES ASSUME apl_pc \in {"backup", "rollback"}
                   PROVE  /\ \A i \in 1..sub - 1 : \A g \in Subs[i] : file'[Dst][g] = file'[Src][g]
                          /\ \A g \in Subs[sub] \ rest' : file'[Dst][g] = file'[Src][g]
        BY <2>1 DEF Progress, Same
      <3>1. file'[Src] = file[Src]
        BY <2>5, <1>a
      <3>2. ASSUME NEW i \in 1..sub - 1, NEW g \in Subs[i]
            PROVE  file'[Dst][g] = file'[Src][g]
        <4>1. g \in Files \ {f}
          BY <1>b, <2>4
        <4>2. file[Dst][g] = file[Src][g]
          BY DEF Kept, Progress, Same
        <4> QED
          BY <4>1, <4>2, <3>1, <2>5
      <3>3. ASSUME NEW g \in Subs[sub] \ rest'
            PROVE  file'[Dst][g] = file'[Src][g]
        <4>1. CASE g = f
          BY <4>1, <2>3, <2>5, <3>1
        <4>2. CASE g # f
          BY <4>2, <2>1, <2>3, <2>5, <3>1, <1>a DEF Kept, Progress, Same
        <4> QED
          BY <4>1, <4>2
      <3> QED
        BY <3>2, <3>3
    <2>7. Upgrading'
      <3> SUFFICES ASSUME apl_pc = "overlap"
                   PROVE  Upgrading'
        BY <2>1 DEF Upgrading, Copies
      <3>1. /\ Dst = "cur" /\ Src = "upg" /\ Subs[sub] = Image /\ file'["upg"] = file["upg"]
            /\ file["upg"][f] # Absent
        BY <2>5, <1>a, Directories DEF Dst, Src, CopyTypeOK, Kept, Upgrading, Present
      <3>2. Overlay(file'["cur"], file'["upg"]) = Overlay(file["cur"], file["upg"])
        BY <3>1, <2>5 DEF Overlay
      <3>3. \A g \in Image \ rest' : file["upg"][g] # Absent => file'["cur"][g] = file["upg"][g]
        <4> SUFFICES ASSUME NEW g \in Image \ rest', file["upg"][g] # Absent
                     PROVE  file'["cur"][g] = file["upg"][g]
          OBVIOUS
        <4>1. CASE g = f
          BY <4>1, <2>3, <2>5, <3>1
        <4>2. CASE g # f
          BY <4>2, <2>1, <2>3, <2>5, <3>1, Directories DEF Kept, Upgrading, Applied
        <4> QED
          BY <4>1, <4>2
      <3>4. rest' \subseteq rest
        BY <2>3
      <3> QED
        BY <2>1, <3>1, <3>2, <3>3, <3>4 DEF Kept, Upgrading, Applied, Present
    <2>8. Whole' /\ Waiting'
      BY <2>1, <2>5, <1>a DEF Kept, Whole, Waiting, Good, Dst, Src, Copies, Dirs
    <2> QED
      BY <2>6, <2>7, <2>8 DEF Kept
  <1>5. CASE CopyNext /\ UNCHANGED <<startup_cnt, history, installer, restart>>
    <2>1. /\ Dst' = Dst /\ Src' = Src /\ file' = file /\ apl_pc' = apl_pc /\ releases' = releases
          /\ upg_pc' = upg_pc /\ status' = status /\ apl_pc \in Copies /\ rest = {} /\ rest' = {}
          /\ phase \in {"copy", "next"} /\ phase' \in {"begin", "commit"}
      BY <1>5 DEF CopyNext, Dst, Src, history, installer, disk, CopyTypeOK
    <2>2. CASE sub < LastSub
      <3>1. sub' = sub + 1 /\ phase' = "begin" /\ apl_pc # "overlap"
        BY <2>2, <1>5 DEF CopyNext, LastSub, CopyTypeOK
      <3>2. \A i \in 1..sub : i = sub \/ i \in 1..sub - 1
        BY <1>a, AppLoaderAssumption
      <3>3. 1..sub' - 1 = 1..sub
        BY <3>1, <1>a, AppLoaderAssumption
      <3>4. Progress'
        BY <2>1, <3>1, <3>2, <3>3 DEF Kept, Progress, Same
      <3> QED
        BY <2>1, <3>1, <3>4 DEF Kept, Upgrading, Whole, Waiting, Good, Copies
    <2>3. CASE ~(sub < LastSub)
      <3>1. sub' = sub /\ phase' = "commit"
        BY <2>3, <1>5 DEF CopyNext
      <3> QED
        BY <2>1, <3>1 DEF Kept, Progress, Same, Upgrading, Applied, Present, Whole, Waiting, Good, Copies
    <2> QED
      BY <2>2, <2>3
  <1>6. CASE UpdateCommit /\ UNCHANGED <<startup_cnt, history, installer, restart>>
    <2>1. /\ file' = file /\ releases' = releases /\ upg_pc' = upg_pc /\ phase = "commit"
          /\ phase' = "mark" /\ sub' = 1 /\ rest' = {} /\ rest = {} /\ apl_pc \in Copies
          /\ status' = [status EXCEPT ![Dst] = "good"] /\ apl_pc' = AfterCommit
          /\ status' \in [Dirs -> ThreeStatus]
      BY <1>6, <1>a DEF UpdateCommit, GoTo, history, installer, CopyTypeOK, ThreeStatus
    <2>2. Progress'
      BY <2>1 DEF Progress, AfterCommit, Copies
    <2>3. CASE apl_pc = "backup"
      <3>1. /\ Dst = "pre" /\ Src = "cur" /\ apl_pc' = "overlap" /\ file["pre"] \in releases
            /\ Good("cur") /\ Good("upg") /\ status'["cur"] = status["cur"]
            /\ status'["upg"] = status["upg"]
        BY <2>1, <2>3, <1>a, AllCopied, SourceWhole
        DEF Dst, Src, AfterCommit, Kept, Waiting, RecoverInv, Source
      <3> QED
        BY <2>1, <2>2, <3>1 DEF Kept, Upgrading, Whole, Waiting, Good
    <2>4. CASE apl_pc = "overlap"
      <3>1. /\ Dst = "cur" /\ apl_pc' = "rm_upg" /\ status'["pre"] = status["pre"]
            /\ status'["upg"] = status["upg"] /\ status'["cur"] = "good"
        BY <2>1, <2>4, <1>a DEF Dst, AfterCommit
      <3>2. Applied(Files)
        BY <2>1, <2>4 DEF Kept, Upgrading, Applied, CopyTypeOK
      <3>3. Overlay(file["cur"], file["upg"]) = file["cur"]
        BY <3>2, <1>a, OverlaySame DEF Applied
      <3>4. file["cur"] \in releases
        BY <2>4, <3>3 DEF Kept, Upgrading
      <3> QED
        BY <2>1, <2>2, <2>4, <3>1, <3>2, <3>3, <3>4 DEF Kept, Upgrading, Applied, Whole, Waiting, Good
    <2>5. CASE apl_pc = "rollback"
      <3>1. /\ Dst = "cur" /\ Src = "pre" /\ apl_pc' = "mirror" /\ file["cur"] \in releases
            /\ ~Good("upg") /\ status'["pre"] = status["pre"] /\ status'["upg"] = status["upg"]
        BY <2>1, <2>5, <1>a, AllCopied, SourceWhole DEF Dst, Src, AfterCommit, Kept, Waiting
      <3> QED
        BY <2>1, <2>2, <2>5, <3>1 DEF Kept, Upgrading, Whole, Waiting, Good
    <2> QED
      BY <2>1, <2>3, <2>4, <2>5 DEF Copies
  <1>7. CASE RemoveUpg /\ UNCHANGED <<startup_cnt, history, installer, restart>>
    <2>1. CASE RemoveEntry("upg") /\ UNCHANGED <<apl_pc, copying>>
      <3>1. /\ file'["cur"] = file["cur"] /\ file'["pre"] = file["pre"]
            /\ status'["cur"] = status["cur"] /\ status'["pre"] = status["pre"]
            /\ status'["upg"] \in {status["upg"], "none"}
            /\ \A g \in Files : file'["upg"][g] \in {file["upg"][g], Absent}
        BY <2>1, <1>a, EntryRemoved
      <3>2. /\ apl_pc = "rm_upg" /\ apl_pc' = apl_pc /\ phase' = phase /\ phase = "mark"
            /\ releases' = releases /\ upg_pc' = upg_pc
        BY <2>1, <1>7 DEF RemoveUpg, copying, history, installer, CopyTypeOK, Copies
      <3>3. Good("upg")' => Good("cur") /\ Applied(Files)'
        BY <3>1, <3>2 DEF Kept, Upgrading, Applied, Good
      <3>4. Good("upg")' => Overlay(file'["cur"], file'["upg"]) = file["cur"]
        BY <3>1, <3>3, <1>a, OverlaySame DEF Applied
      <3> QED
        BY <3>1, <3>2, <3>3, <3>4 DEF Kept, Progress, Upgrading, Whole, Waiting, Good
    <2>2. CASE Empty("upg") /\ GoTo("start") /\ UNCHANGED disk
      BY <2>2, <1>7 DEF RemoveUpg, GoTo, disk, history, installer, Empty,
                        Kept, Progress, Upgrading, Whole, Waiting, Good
    <2> QED
      BY <2>1, <2>2, <1>7 DEF RemoveUpg
  <1>8. CASE DropPre /\ UNCHANGED <<startup_cnt, history, installer, restart>>
    <2>1. CASE RemoveEntry("pre") /\ UNCHANGED <<apl_pc, copying>>
      <3>1. /\ file'["cur"] = file["cur"] /\ file'["upg"] = file["upg"]
            /\ status'["cur"] = status["cur"] /\ status'["upg"] = status["upg"]
        BY <2>1, <1>a, EntryRemoved
      <3>2. /\ apl_pc = "drop_pre" /\ apl_pc' = apl_pc /\ phase' = phase /\ phase = "mark"
            /\ releases' = releases /\ upg_pc' = upg_pc
        BY <2>1, <1>8 DEF DropPre, copying, history, installer, CopyTypeOK, Copies
      <3> QED
        BY <3>1, <3>2 DEF Kept, Progress, Upgrading, Whole, Waiting, Good
    <2>2. CASE Empty("pre") /\ GoTo("running") /\ UNCHANGED disk
      BY <2>2, <1>8 DEF DropPre, GoTo, disk, history, installer, Empty, Present,
                        Kept, Progress, Upgrading, Whole, Waiting, Good
    <2> QED
      BY <2>1, <2>2, <1>8 DEF DropPre
  <1> USE DEF Kept, Progress, Upgrading, Whole, Waiting, Good
  <1>9. CASE Boot /\ UNCHANGED <<installer, restart>>
    <2>1. Good("upg") => Good("cur")
      BY <1>9 DEF Boot, Clean
    <2> QED
      BY <1>9, <2>1 DEF Boot, GoTo, disk, installer
  <1>10. CASE (StartApp \/ AppNok \/ AppFailed) /\ UNCHANGED <<disk, history, installer, restart>>
    BY <1>10 DEF StartApp, AppNok, AppFailed, Fork, GoTo, disk, history, installer, Empty, Present
  <1>11. CASE (RollBack \/ Mirror) /\ UNCHANGED <<startup_cnt, disk, history, installer, restart>>
    BY <1>11 DEF RollBack, Mirror, GoTo, disk, history, installer, Empty, Present
  <1>12. CASE AppComesUp \/ (AppExits /\ UNCHANGED <<disk, startup_cnt, history>>)
    BY <1>12 DEF AppComesUp, AppOk, AppExits, Fork, GoTo, disk, history, installer, Empty, Present
  <1>13. CASE upg_app_start /\ UNCHANGED <<apl_pc, copying, startup_cnt>>
    <2>1. ~Good("upg")
      BY <1>13 DEF upg_app_start, Clean
    <2>2. UNCHANGED <<disk, apl_pc, copying, releases, Dst, Src>>
      BY <1>13 DEF upg_app_start, copying, Dst, Src
    <2>3. phase = "mark" /\ apl_pc \in {"drop_pre", "running"}
      BY <1>13 DEF upg_app_start, AppUp, CopyTypeOK, Copies
    <2> QED
      BY <2>1, <2>2, <2>3 DEF disk, copying, Empty, Present
  <1>14. CASE (UpgClear \/ UpgSave) /\ UNCHANGED <<apl_pc, copying, startup_cnt>>
    <2>1. /\ phase = "mark" /\ apl_pc \in {"drop_pre", "running"} /\ ~Good("upg")
          /\ phase' = phase /\ apl_pc' = apl_pc /\ releases' = releases
      BY <1>14 DEF UpgClear, UpgSave, copying, RecoverInv, AppUp, CopyTypeOK, Copies
    <2>2. /\ file'["cur"] = file["cur"] /\ file'["pre"] = file["pre"]
          /\ status'["cur"] = status["cur"] /\ status'["pre"] = status["pre"]
          /\ status'["upg"] # "good"
      <3>1. CASE RemoveEntry("upg")
        BY <3>1, <2>1, <1>a, EntryRemoved
      <3>2. CASE status' = [status EXCEPT !["upg"] = "bad"] /\ UNCHANGED file
        BY <3>2, <1>a
      <3>3. CASE UNCHANGED disk
        BY <3>3, <2>1 DEF disk
      <3>4. CASE UpgSave
        BY <3>4, <2>1, <1>a DEF UpgSave
      <3> QED
        BY <1>14, <3>1, <3>2, <3>3, <3>4 DEF UpgClear
    <2> QED
      BY <2>1, <2>2 DEF Empty, Present
  <1>15. CASE UpgCommit /\ UNCHANGED <<apl_pc, copying, startup_cnt>>
    <2>1. /\ phase = "mark" /\ apl_pc \in {"drop_pre", "running"} /\ Good("cur")
          /\ phase' = phase /\ apl_pc' = apl_pc /\ file' = file /\ upg_pc' = "idle"
          /\ releases' = releases \cup {Overlay(file["cur"], file["upg"])}
      BY <1>15 DEF UpgCommit, copying, RecoverInv, Source, AppUp, CopyTypeOK, Copies
    <2>2. status'["cur"] = status["cur"] /\ status'["pre"] = status["pre"]
      BY <1>15, <1>a DEF UpgCommit
    <2>3. Overlay(file["cur"], file["upg"]) \in [Files -> Version]
      <3>1. file["cur"] \in [Files -> Version]
        BY <2>1
      <3> QED
        BY <3>1 DEF CopyTypeOK, Overlay
    <2> QED
      BY <2>1, <2>2, <2>3 DEF Empty, Present
  <1>16. CASE Restart \/ PowerCut \/ PowerCycle
    <2>1. LoseMemory
      BY <1>16 DEF Restart, PowerCut, PowerCycle
    <2>2. apl_pc # "drop_pre"
      BY <2>1 DEF LoseMemory, Clean
    <2> QED
      BY <2>1, <2>2 DEF LoseMemory, GoTo, disk
  <1>17. CASE (CopyFails \/ RemoveFails) /\ UNCHANGED <<installer, restart>>
    <2>1. CASE CopyFails
      BY <2>1, <1>17, <1>a DEF CopyFails, GoTo, disk, installer, Copies
    <2>2. CASE RemoveFails
      <3>1. apl_pc = "rm_upg" /\ ~Good("upg") /\ GoTo("start")
        BY <2>2 DEF RemoveFails, Clean
      <3> QED
        BY <2>2, <1>17, <3>1 DEF RemoveFails, GoTo, disk, installer
    <2> QED
      BY <1>17, <2>1, <2>2
  <1>18. CASE UNCHANGED aplvars
    BY <1>18 DEF aplvars, disk, copying, installer, history, Dst, Src, Same, Applied, Empty, Present
  <1> QED
    BY <1>1, <1>2, <1>3, <1>4, <1>5, <1>6, <1>7, <1>8, <1>9, <1>10, <1>11, <1>12, <1>13, <1>14,
       <1>15, <1>16, <1>17, <1>18
    DEF AplNext, Loader, Copying, Installer

\* The loader and the installer start in the invariant and never leave it.
LEMMA WholeInvariant == AplSpec => []WholeInv
  <1>1. AplInit => WholeInv
    <2> SUFFICES ASSUME AplInit
                 PROVE  WholeInv
      OBVIOUS
    <2>1. RecoverInv
      BY DEF AplInit, RecoverInv, Source, Good, Dirs, ThreeStatus, Labels, Copies, AppUp
    <2>2. restart \in BOOLEAN
      BY Zenon DEF AplInit
    <2>3. status \in [Dirs -> ThreeStatus] /\ file \in [Dirs -> [Files -> Content]]
      BY Contents DEF AplInit, Dirs, ThreeStatus
    <2>4. CopyTypeOK
      BY <2>2, <2>3, Contents, Directories, AppLoaderAssumption
      DEF AplInit, CopyTypeOK, AplTypeOK, NoPackage, Copies, Dirs
    <2>5. Kept
      <3>1. file["cur"] \in [Files -> Version]
        BY Contents DEF AplInit, Dirs
      <3> QED
        BY <3>1 DEF AplInit, Kept, Progress, Upgrading, Whole, Waiting, Good, Dirs
    <2> QED
      BY <2>1, <2>4, <2>5 DEF WholeInv
  <1> QED
    BY <1>1, WholeStep, PTL DEF AplSpec

\* The loader, its copies and the installer stay in their types.
THEOREM AplTypeCorrect == AplSpec => []AplTypeOK
  <1>1. WholeInv => AplTypeOK
    BY DEF WholeInv, CopyTypeOK
  <1> QED
    BY <1>1, WholeInvariant, PTL

\* Wherever the power is cut, however often, and whatever copy fails, a current that
\* is marked good is a whole version, unless one of the four windows was hit.
THEOREM GoodAlwaysWhole == AplSpec => []GoodIsWhole
  <1>1. WholeInv => GoodIsWhole
    BY DEF WholeInv, Clean, Kept, Whole, GoodIsWhole
  <1> QED
    BY <1>1, WholeInvariant, PTL
=============================================================================
