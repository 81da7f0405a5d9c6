---------------------------- MODULE InstallRun ----------------------------
(***************************************************************************)
(* The worker thread Install_process of AutoAppInstallDlg.cpp: one step    *)
(* per adb command, per file operation in the temp folder and per          *)
(* decision, so that the program may die between any two of them.          *)
(*                                                                         *)
(* The tablet keeps its version note and its applications, the PC keeps    *)
(* the package and the temp folder, across runs, devices and crashes.      *)
(* One worker runs at a time here; Dialog.tla says when that is so.  The   *)
(* steps on settings.db, tiledb and MySQL change nothing of this state.    *)
(***************************************************************************)
EXTENDS PackageData, FiniteSets

CONSTANT
  Disturbances  \* what may go wrong, a subset of Disturbance

VARIABLES
  pkg,          \* the package on the PC
  marker, apps, prot,   \* the tablets, see Provisioning
  tmpMarker,    \* Installed.txt in the temp folder
  tmpZip,       \* the copies of I.bin, IP.bin and C.bin in the temp folder
  tmpApk,       \* tmpApk[a]: the version of a's .apk file in the temp folder
  pc,           \* where Install_process is
  dev,          \* the tablet plugged in
  devVer,       \* version_num1
  needUpgrade,  \* need_upgrade
  items, i,     \* inst1[0 .. Install_sum-1] and the loop index (from 1)
  removeFlag,   \* remove_version_flag
  force,        \* force_install_flag
  forceShown,   \* the Force button is visible
  leak,         \* a handle on the temp Installed.txt was never closed
  told,         \* the last result shown to the operator
  late          \* tablets with a removal of the note still on its way

disk    == <<tmpMarker, tmpZip, tmpApk>>
tablets == <<marker, apps, prot>>
flags   == <<devVer, needUpgrade, removeFlag, force, forceShown, leak, told>>
loop    == <<items, i>>
vars    == <<pkg, tablets, disk, pc, dev, loop, flags, late>>

busy == IF pc \in {"idle", "aborted"} THEN NONE ELSE dev

Promise == INSTANCE Provisioning WITH pkg <- pkg, marker <- marker,
             apps <- apps, prot <- prot, busy <- busy

Disturbance ==
  {"pull",       \* adb pull of the version note fails
   "install",    \* adb install, uninstall or push of an .apk fails
   "refuse",     \* adb install (no -r) refuses an application already there
   "push",       \* adb push or rm of the version note fails or is cut off
   "late",       \* adb rm of the version note outlasts the 300 ms it is given
   "unzip",      \* an archive is missing or an entry is not extracted
   "dll",        \* UNZDLL.DLL is not usable
   "crash",      \* the program dies in the middle of a run
   "downgrade"}  \* the operator puts an older package on the PC

ASSUME DisturbanceAssumption == Disturbances \subseteq Disturbance

Archive == {"I", "IP", "C"}
Labels  == {"idle", "pull", "read", "init", "clean", "extractVer", "decide",
            "prepare", "index", "item", "run", "unlink", "itemP", "copy",
            "unlinkP", "cleanup", "note", "config", "configEnd", "personal",
            "over", "aborted"}

TypeOK ==
  /\ pkg \in Packages
  /\ marker \in [Devices -> Note]
  /\ apps \in [Devices -> [Apps -> Installed]]
  /\ prot \in [Devices -> [Apps -> Installed]]
  /\ tmpMarker \in Note
  /\ tmpZip \in [Archive -> Packages \cup {NONE}]
  /\ tmpApk \in [Apps -> Installed]
  /\ pc \in Labels
  /\ dev \in Devices
  /\ devVer \in Note
  /\ items \in Seq(Row)
  /\ i \in Nat \ {0}
  /\ needUpgrade \in BOOLEAN /\ removeFlag \in BOOLEAN /\ leak \in BOOLEAN
  /\ force \in BOOLEAN /\ forceShown \in BOOLEAN
  /\ told \in {NONE, "latest", "done"}
  /\ late \subseteq Devices

Init ==
  /\ pkg \in Packages
  /\ marker = [d \in Devices |-> NONE]
  /\ apps = [d \in Devices |-> [a \in Apps |-> NONE]]
  /\ prot = [d \in Devices |-> [a \in Apps |-> NONE]]
  /\ tmpMarker = NONE
  /\ tmpZip = [z \in Archive |-> NONE]
  /\ tmpApk = [a \in Apps |-> NONE]
  /\ pc = "idle" /\ dev \in Devices
  /\ devVer = NONE /\ items = <<>> /\ i = 1 /\ told = NONE
  /\ needUpgrade = FALSE /\ removeFlag = FALSE /\ leak = FALSE
  /\ force = FALSE /\ forceShown = FALSE
  /\ late = {}

-----------------------------------------------------------------------------
(* The operator. *)

Goto(from, to) == pc = from /\ pc' = to

\* The locals of Install_process end with it; inst1 and remove_version_flag are
\* rewritten before they are read again.
Return ==
  /\ items' = <<>> /\ i' = 1
  /\ devVer' = NONE /\ needUpgrade' = FALSE /\ removeFlag' = FALSE

\* Install (or the automatic start) and, once it is offered, Force.
BeginRun ==
  /\ Goto("idle", "pull")
  /\ dev' \in Devices
  /\ \/ UNCHANGED force
     \/ forceShown /\ force' = TRUE
  /\ forceShown' = FALSE
  /\ removeFlag' = FALSE
  /\ told' = NONE
  /\ UNCHANGED <<pkg, tablets, disk, loop, devVer, needUpgrade, leak, late>>

ReplacePackage ==
  /\ pc = "idle"
  /\ \E p \in Packages :
       /\ p.ver > pkg.ver \/ "downgrade" \in Disturbances
       /\ pkg' = p
  /\ UNCHANGED <<tablets, disk, pc, dev, loop, flags, late>>

\* The program is closed or dies, and is started again.
Restart ==
  /\ pc \in {"idle", "aborted"} \/ "crash" \in Disturbances
  /\ pc' = "idle"
  /\ force' = FALSE /\ forceShown' = FALSE /\ leak' = FALSE /\ told' = NONE
  /\ Return
  /\ UNCHANGED <<pkg, tablets, disk, dev, late>>

-----------------------------------------------------------------------------
(* Comparing the tablet's version with the package's. *)

\* A pull that fails leaves whatever the temp folder already holds.
PullMarker ==
  /\ Goto("pull", "read")
  /\ \/ marker[dev] # NONE /\ tmpMarker' = marker[dev]
     \/ marker[dev] = NONE /\ UNCHANGED tmpMarker
     \/ "pull" \in Disturbances /\ UNCHANGED tmpMarker
  /\ UNCHANGED <<pkg, tablets, tmpZip, tmpApk, dev, loop, flags, late>>

\* Get_Installed_version returns before _close when the file is empty.
HasVersion == tmpMarker \in Nat
LeakIfEmpty == leak' = (leak \/ tmpMarker = EMPTY)

ReadMarker ==
  /\ Goto("read", "init")
  /\ devVer' = tmpMarker
  /\ needUpgrade' = ~HasVersion
  /\ LeakIfEmpty
  /\ UNCHANGED <<pkg, tablets, disk, dev, loop, removeFlag, force, forceShown,
                 told, late>>

\* The early return leaves the window without a timer and without a button.
InitUnzip ==
  /\ \/ Goto("init", "clean")
     \/ "dll" \in Disturbances /\ Goto("init", "aborted")
  /\ UNCHANGED <<pkg, tablets, disk, dev, loop, flags, late>>

\* Mutant: one of the three Delete_file calls is forgotten.
CleanArchivesButIP ==
  /\ Goto("clean", "extractVer")
  /\ tmpZip' = [z \in Archive |-> IF z = "IP" THEN tmpZip[z] ELSE NONE]
  /\ UNCHANGED <<pkg, tablets, tmpMarker, tmpApk, dev, loop, flags, late>>

CleanArchives ==
  /\ Goto("clean", "extractVer")
  /\ tmpZip' = [z \in Archive |-> NONE]
  /\ UNCHANGED <<pkg, tablets, tmpMarker, tmpApk, dev, loop, flags, late>>

\* ExtractFiles copies the archive only if the temp folder has none, and it
\* returns TRUE whether or not the entry came out.
Copied(z) == [tmpZip EXCEPT ![z] = IF @ = NONE THEN pkg ELSE @]
ExtractOK(z) == tmpZip' = Copied(z)
ExtractFails(z) == "unzip" \in Disturbances /\ tmpZip' \in {tmpZip, Copied(z)}

\* While a handle is leaked the DLL may be unable to replace the file.
ExtractVersion ==
  /\ Goto("extractVer", "decide")
  /\ \/ ExtractOK("I") /\ tmpMarker' = Copied("I")["I"].ver
     \/ ExtractOK("I") /\ leak /\ UNCHANGED tmpMarker
     \/ ExtractFails("I") /\ UNCHANGED tmpMarker
  /\ UNCHANGED <<pkg, tablets, tmpApk, dev, loop, flags, late>>

Differs == HasVersion /\ tmpMarker # devVer

Decide ==
  /\ pc = "decide"
  /\ needUpgrade' = (needUpgrade \/ Differs)
  /\ LeakIfEmpty
  /\ \/ /\ ~needUpgrade' /\ ~force
        /\ pc' = "over" /\ forceShown' = TRUE /\ told' = "latest"
     \/ /\ needUpgrade' \/ force
        /\ pc' = "prepare" /\ UNCHANGED <<forceShown, told>>
  /\ UNCHANGED <<pkg, tablets, disk, dev, loop, devVer, removeFlag, force, late>>

\* packages.xml and the picture viewer (PicViewer), settings.db (Personal),
\* language, clock, picture; then the check box "configure only".
Prepare ==
  /\ \E configOnly \in BOOLEAN :
        Goto("prepare", IF configOnly THEN "config" ELSE "index")
  /\ UNCHANGED <<pkg, tablets, disk, dev, loop, flags, late>>

-----------------------------------------------------------------------------
(* Installing. *)

Number(rows, act) == Cardinality({k \in DOMAIN rows : rows[k].act = act})

\* remove_version_flag: more rows to remove than to install.
MoreRemovals(rows) == Number(rows, "I") < Number(rows, "U")

\* Mutant: the rows are counted from 0 where inst1 is read from 1.
LoadIndexFromZero ==
  /\ Goto("index", "item")
  /\ ExtractOK("I") /\ items' = Copied("I")["I"].rows /\ i' = 0
  /\ UNCHANGED <<pkg, tablets, tmpMarker, tmpApk, dev, flags, late>>

\* An index that cannot be read leaves indexbuf on a freed block: no rows.
\* (An I.txt beside the program would be read instead; none is shipped.)
LoadIndex ==
  /\ Goto("index", "item")
  /\ \/ ExtractOK("I") /\ items' = Copied("I")["I"].rows
     \/ ExtractFails("I") /\ items' = <<>>
  /\ i' = 1
  /\ removeFlag' = (removeFlag \/ MoreRemovals(items'))
  /\ UNCHANGED <<pkg, tablets, tmpMarker, tmpApk, dev, devVer, needUpgrade,
                 force, forceShown, leak, told, late>>

row == items[i]

\* The .apk of the current row comes out of archive z.
Extract(z) ==
  /\ \/ ExtractOK(z) /\ tmpApk' = [tmpApk EXCEPT ![row.app] = Copied(z)[z].ver]
     \/ ExtractFails(z) /\ UNCHANGED tmpApk
  /\ UNCHANGED <<pkg, tablets, tmpMarker, dev, loop, flags, late>>

ExtractItem == Goto("item", "run") /\ i <= Len(items) /\ Extract("I")
ExtractProt == Goto("itemP", "copy") /\ Extract("IP")

\* adb install / adb uninstall; the result is ignored.
CommandFails ==
  \/ "install" \in Disturbances
  \/ row.act = "I" /\ tmpApk[row.app] = NONE
  \/ "refuse" \in Disturbances /\ row.act = "I" /\ apps[dev][row.app] # NONE

RunItem ==
  /\ Goto("run", "unlink")
  /\ \/ /\ row.act = "I" /\ tmpApk[row.app] # NONE
        /\ apps' = [apps EXCEPT ![dev][row.app] = tmpApk[row.app]]
        /\ UNCHANGED prot
     \/ /\ row.act = "U"
        /\ apps' = [apps EXCEPT ![dev][row.app] = NONE]
        /\ prot' = [prot EXCEPT ![dev][row.app] = NONE]
     \/ CommandFails /\ UNCHANGED <<apps, prot>>
  /\ UNCHANGED <<pkg, marker, disk, dev, loop, flags, late>>

\* adb push to /data/app; the result is ignored.
CopyItem ==
  /\ Goto("copy", "unlinkP")
  /\ \/ /\ tmpApk[row.app] # NONE
        /\ prot' = [prot EXCEPT ![dev][row.app] = tmpApk[row.app]]
     \/ /\ "install" \in Disturbances \/ tmpApk[row.app] = NONE
        /\ UNCHANGED prot
  /\ UNCHANGED <<pkg, marker, apps, disk, dev, loop, flags, late>>

\* Mutants: the .apk is not deleted; the protected copy is left out.
UnlinkItemKept ==
  /\ \/ Goto("unlink", "itemP") /\ row.act = "I" /\ UNCHANGED i
     \/ Goto("unlink", "item") /\ row.act = "U" /\ i' = i + 1
     \/ Goto("unlinkP", "item") /\ i' = i + 1
  /\ UNCHANGED <<pkg, tablets, disk, dev, items, flags, late>>

UnlinkItemOnce ==
  /\ Goto("unlink", "item") /\ i' = i + 1
  /\ tmpApk' = [tmpApk EXCEPT ![row.app] = NONE]
  /\ UNCHANGED <<pkg, tablets, tmpMarker, tmpZip, dev, items, flags, late>>

\* Delete_file; a removal row has no protected copy and ends here.
UnlinkItem ==
  /\ \/ Goto("unlink", "itemP") /\ row.act = "I" /\ UNCHANGED i
     \/ Goto("unlink", "item") /\ row.act = "U" /\ i' = i + 1
     \/ Goto("unlinkP", "item") /\ i' = i + 1
  /\ tmpApk' = [tmpApk EXCEPT ![row.app] = NONE]
  /\ UNCHANGED <<pkg, tablets, tmpMarker, tmpZip, dev, items, flags, late>>

\* Mutant: the loop stops one row early.
ItemsDoneEarly ==
  /\ i >= Len(items) /\ Goto("item", "cleanup")
  /\ UNCHANGED <<pkg, tablets, disk, dev, loop, flags, late>>

ItemsDone ==
  /\ i > Len(items) /\ Goto("item", "cleanup")
  /\ UNCHANGED <<pkg, tablets, disk, dev, loop, flags, late>>

CleanUp ==
  /\ Goto("cleanup", "note")
  /\ tmpZip' = [tmpZip EXCEPT !["I"] = NONE, !["IP"] = NONE]
  /\ UNCHANGED <<pkg, tablets, tmpMarker, tmpApk, dev, loop, flags, late>>

\* Update_Installed_status, whatever became of the rows.
UpdateNote ==
  /\ Goto("note", IF removeFlag THEN "personal" ELSE "config")
  /\ \/ /\ removeFlag \/ tmpMarker # NONE
        /\ marker' = [marker EXCEPT ![dev] = IF removeFlag THEN NONE ELSE tmpMarker]
        /\ UNCHANGED late
     \/ /\ "push" \in Disturbances \/ (~removeFlag /\ tmpMarker = NONE)
        /\ UNCHANGED <<marker, late>>
     \/ /\ "push" \in Disturbances /\ ~removeFlag /\ tmpMarker # NONE
        /\ marker' = [marker EXCEPT ![dev] = EMPTY] /\ UNCHANGED late
     \/ /\ "late" \in Disturbances /\ removeFlag
        /\ late' = late \cup {dev} /\ UNCHANGED marker
  /\ UNCHANGED <<pkg, apps, prot, disk, dev, loop, flags>>

\* ExecDosCmd_noWait left adb shell rm running: it ends at any time, also after
\* the run, in the middle of another one, and after the program has died.
RemovalLands ==
  /\ \E d \in late :
       /\ marker' = [marker EXCEPT ![d] = NONE]
       /\ late' = late \ {d}
  /\ UNCHANGED <<pkg, apps, prot, disk, pc, dev, loop, flags>>

-----------------------------------------------------------------------------
(* Configuring, and the end of the run. *)

\* The rows of C.bin change files under /system that nothing here reads.
LoadConfig ==
  /\ Goto("config", "configEnd")
  /\ ExtractOK("C") \/ ExtractFails("C")
  /\ UNCHANGED <<pkg, tablets, tmpMarker, tmpApk, dev, loop, flags, late>>

CleanConfig ==
  /\ Goto("configEnd", "personal")
  /\ tmpZip' = [tmpZip EXCEPT !["C"] = NONE]
  /\ UNCHANGED <<pkg, tablets, tmpMarker, tmpApk, dev, loop, flags, late>>

\* tiledb and MySQL (modelled in Registration), then the final message.
Personalise ==
  /\ Goto("personal", "over")
  /\ force' = FALSE
  /\ told' = "done"
  /\ UNCHANGED <<pkg, tablets, disk, dev, loop, devVer, needUpgrade,
                 removeFlag, forceShown, leak, late>>

\* Mutant: the last Delete_file is forgotten.
InstallOverKeeping ==
  /\ Goto("over", "idle")
  /\ Return
  /\ UNCHANGED <<pkg, tablets, disk, dev, force, forceShown, leak, told, late>>

\* _Install_over: a file that is still open cannot be deleted.
InstallOver ==
  /\ Goto("over", "idle")
  /\ tmpMarker' = IF leak THEN tmpMarker ELSE NONE
  /\ Return
  /\ UNCHANGED <<pkg, tablets, tmpZip, tmpApk, dev, force, forceShown, leak,
                 told, late>>

Worker ==
  \/ PullMarker \/ ReadMarker \/ InitUnzip \/ CleanArchives \/ ExtractVersion
  \/ Decide \/ Prepare \/ LoadIndex \/ ExtractItem \/ RunItem \/ UnlinkItem
  \/ ExtractProt \/ CopyItem \/ ItemsDone \/ CleanUp \/ UpdateNote
  \/ LoadConfig \/ CleanConfig \/ Personalise \/ InstallOver

Next == BeginRun \/ ReplacePackage \/ Restart \/ Worker \/ RemovalLands

Spec == Init /\ [][Next]_vars

-----------------------------------------------------------------------------
(* What the runs check and InstallRun_proofs proves. *)

(***************************************************************************)
(* The comparison of the two version files decides rightly, over any       *)
(* sequence of runs on any tablets: a run goes on to install only when it  *)
(* is forced or the tablet's own note differs from the package's version,  *)
(* and "already the latest" is said only of a tablet whose note is that    *)
(* version.  What the temp folder keeps of an earlier tablet never leaks   *)
(* into the decision (the Delete_file at _Install_over sees to it).        *)
(***************************************************************************)
DecisionExact ==
  /\ pc = "prepare" => force \/ marker[dev] # pkg.ver
  /\ pc = "over" /\ told = "latest" => marker[dev] = pkg.ver

(***************************************************************************)
(* Nothing but the package now on the PC reaches a tablet: the copy of an  *)
(* older I.bin or IP.bin that an interrupted or skipped run left in the    *)
(* temp folder is never installed from (the three Delete_file calls before *)
(* the first ExtractFiles), nor is an .apk such a run left behind.         *)
(***************************************************************************)
OnlyCurrentPackage ==
  [][\A d \in Devices, a \in Apps :
       /\ apps'[d][a] \in {apps[d][a], pkg.ver, NONE}
       /\ prot'[d][a] \in {prot[d][a], pkg.ver, NONE}]_vars

(***************************************************************************)
(* Promise!MarkerTruthful: the note Update_Installed_status pushes is not  *)
(* ahead of the applications, wherever earlier runs died.                  *)
(***************************************************************************)
MarkerTruthful == Promise!MarkerTruthful

(***************************************************************************)
(* Every step of Install_process is a step the promise allows, or changes  *)
(* nothing the promise speaks of.                                          *)
(***************************************************************************)
Implements == Promise!ASpec

(***************************************************************************)
(* "要記得刪除檔案(ZIP和解壓的檔)", the extracted half: when the worker has *)
(* returned, on every path, no unpacked .apk is left in the temp folder.   *)
(***************************************************************************)
NoApkLeft == pc = "idle" => \A a \in Apps : tmpApk[a] = NONE

(***************************************************************************)
(* "如果沒有版本號, 本機器沒有安裝過": a tablet without a version number is  *)
(* taken for one that was never installed, hence not turned away.          *)
(***************************************************************************)
UnmarkedIsInstalled ==
  pc = "over" /\ told = "latest" => marker[dev] \in Nat
=============================================================================
