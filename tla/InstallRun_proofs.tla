------------------------- MODULE InstallRun_proofs -------------------------
(***************************************************************************)
(* Proofs about InstallRun, for any tablets, applications and packages.    *)
(***************************************************************************)
EXTENDS InstallRun, PackageData_proofs

AtRow == {"run", "unlink", "itemP", "copy", "unlinkP"}

\* The loop index is on a row while the row is worked on, and only an install
\* row reaches the protected copy.
LoopOK ==
  /\ pc \in AtRow => i <= Len(items)
  /\ pc \in {"itemP", "copy", "unlinkP"} => items[i].act = "I"

Typed == TypeOK /\ LoopOK

\* Return leaves the worker's locals well typed.
LEMMA ReturnType ==
  ASSUME Return
  PROVE  items' \in Seq(Row) /\ i' \in Nat \ {0} /\ devVer' \in Note
         /\ needUpgrade' \in BOOLEAN /\ removeFlag' \in BOOLEAN
<1>1. items' \in Seq(Row)
  BY DEF Return
<1>2. i' \in Nat \ {0} /\ devVer' \in Note
  BY DEF Return, Note
<1> QED
  BY <1>1, <1>2 DEF Return

\* The archive ExtractFiles reads from is a package: the copy, or the original.
LEMMA CopiedType ==
  ASSUME TypeOK, NEW z \in Archive
  PROVE  /\ Copied(z) \in [Archive -> Packages \cup {NONE}]
         /\ Copied(z)[z] \in Packages
         /\ Copied(z)[z].ver \in Nat
         /\ Copied(z)[z].rows \in Seq(Row)
<1>1. /\ Copied(z) \in [Archive -> Packages \cup {NONE}]
      /\ Copied(z)[z] \in Packages
  BY DEF TypeOK, Copied
<1>2. Copied(z)[z] \in Package
  BY <1>1, DataAssumption
<1> QED
  BY <1>1, <1>2 DEF Package

\* The row the loop is at has its type.
LEMMA RowType ==
  ASSUME Typed, i <= Len(items)
  PROVE  row \in Row /\ row.app \in Apps /\ row.act \in {"I", "U"}
<1>1. i \in DOMAIN items
  BY DEF Typed, TypeOK
<1>2. items[i] \in Row
  BY <1>1 DEF Typed, TypeOK
<1> QED
  BY <1>2 DEF row, Row

(***************************************************************************)
(* Every variable of Install_process keeps its type, the loop index never  *)
(* leaves inst1, and no step reads a row that is not there.                *)
(***************************************************************************)
LEMMA TypedInductive == Typed /\ [Next]_vars => Typed'
<1> SUFFICES ASSUME Typed, [Next]_vars PROVE Typed'
  OBVIOUS
<1> USE DEF Typed, TypeOK, LoopOK, AtRow, Labels, Note, Installed, Goto,
            flags, loop, disk, tablets
<1>1. CASE BeginRun
  BY <1>1 DEF BeginRun
<1>2. CASE ReplacePackage
  BY <1>2 DEF ReplacePackage
<1>3. CASE Restart
  <2>1. pc' = "idle"
    BY <1>3 DEF Restart
  <2>2. Return
    BY <1>3 DEF Restart
  <2>3. force' \in BOOLEAN /\ forceShown' \in BOOLEAN /\ leak' \in BOOLEAN
    BY <1>3 DEF Restart
  <2>4. told' \in {NONE, "latest", "done"}
    BY <1>3 DEF Restart
  <2> QED
    BY <1>3, <2>1, <2>2, <2>3, <2>4, ReturnType DEF Restart
<1>4. CASE PullMarker
  BY <1>4 DEF PullMarker
<1>5. CASE ReadMarker
  BY <1>5 DEF ReadMarker, HasVersion, LeakIfEmpty
<1>6. CASE InitUnzip
  BY <1>6 DEF InitUnzip
<1>7. CASE CleanArchives
  BY <1>7 DEF CleanArchives
<1>8. CASE ExtractVersion
  BY <1>8, CopiedType DEF ExtractVersion, ExtractOK, ExtractFails, Archive
<1>9. CASE Decide
  BY <1>9 DEF Decide, Differs, HasVersion, LeakIfEmpty
<1>10. CASE Prepare
  BY <1>10 DEF Prepare
<1>11. CASE LoadIndex
  <2>0. tmpZip' \in [Archive -> Packages \cup {NONE}]
    BY <1>11, CopiedType DEF LoadIndex, ExtractOK, ExtractFails, Archive
  <2>1. items' \in Seq(Row)
    <3>1. CASE items' = Copied("I")["I"].rows
      BY <3>1, CopiedType DEF Archive
    <3>2. CASE items' = <<>>
      BY <3>2
    <3> QED
      BY <1>11, <3>1, <3>2 DEF LoadIndex
  <2>2. removeFlag' \in BOOLEAN
    BY <1>11 DEF LoadIndex, MoreRemovals
  <2>3. i' \in Nat \ {0} /\ pc' = "item"
    BY <1>11 DEF LoadIndex
  <2> QED
    BY <1>11, <2>0, <2>1, <2>2, <2>3 DEF LoadIndex
<1>12. CASE ExtractItem
  <2>1. pc' = "run" /\ UNCHANGED <<pkg, tablets, tmpMarker, dev, loop, flags, late>>
    BY <1>12 DEF ExtractItem, Extract
  <2>2. tmpZip' \in [Archive -> Packages \cup {NONE}]
    BY <1>12, CopiedType DEF ExtractItem, Extract, ExtractOK, ExtractFails, Archive
  <2>3. tmpApk' \in [Apps -> Installed]
    BY <1>12, CopiedType DEF ExtractItem, Extract, Archive
  <2>4. LoopOK'
    BY <1>12, <2>1 DEF ExtractItem
  <2> QED
    BY <2>1, <2>2, <2>3, <2>4
<1>13. CASE RunItem
  <2>1. pc' = "unlink" /\ UNCHANGED <<pkg, marker, disk, dev, loop, flags, late>>
    BY <1>13 DEF RunItem
  <2>2. row \in Row /\ row.app \in Apps
    BY <1>13, RowType DEF RunItem
  <2>2a. tmpApk[row.app] \in Installed /\ NONE \in Installed
    BY <2>2
  <2>3. apps' \in [Devices -> [Apps -> Installed]]
    <3>1. CASE apps' = apps
      BY <3>1
    <3>2. ASSUME NEW v \in Installed, apps' = [apps EXCEPT ![dev][row.app] = v]
          PROVE  apps' \in [Devices -> [Apps -> Installed]]
      BY <3>2, <2>2, Put DEF Table
    <3> QED
      BY <1>13, <2>2a, <3>1, <3>2 DEF RunItem
  <2>4. prot' \in [Devices -> [Apps -> Installed]]
    <3>1. CASE prot' = prot
      BY <3>1
    <3>2. CASE prot' = [prot EXCEPT ![dev][row.app] = NONE]
      BY <3>2, <2>2, <2>2a, Put DEF Table
    <3> QED
      BY <1>13, <3>1, <3>2 DEF RunItem
  <2> QED
    BY <1>13, <2>1, <2>3, <2>4 DEF RunItem
<1>14. CASE UnlinkItem
  <2>1. UNCHANGED <<pkg, tablets, tmpMarker, tmpZip, dev, items, flags, late>>
    BY <1>14 DEF UnlinkItem
  <2>2. tmpApk' \in [Apps -> Installed]
    BY <1>14 DEF UnlinkItem
  <2>3. i' \in Nat \ {0} /\ pc' \in Labels
    BY <1>14 DEF UnlinkItem
  <2>4. LoopOK'
    BY <1>14, <2>1 DEF UnlinkItem, row
  <2> QED
    BY <2>1, <2>2, <2>3, <2>4
<1>15. CASE ExtractProt
  <2>1. pc' = "copy" /\ UNCHANGED <<pkg, tablets, tmpMarker, dev, loop, flags, late>>
    BY <1>15 DEF ExtractProt, Extract
  <2>2. tmpZip' \in [Archive -> Packages \cup {NONE}]
    BY <1>15, CopiedType DEF ExtractProt, Extract, ExtractOK, ExtractFails, Archive
  <2>3. tmpApk' \in [Apps -> Installed]
    BY <1>15, CopiedType DEF ExtractProt, Extract, Archive
  <2>4. LoopOK'
    BY <1>15, <2>1 DEF ExtractProt
  <2> QED
    BY <2>1, <2>2, <2>3, <2>4
<1>16. CASE CopyItem
  <2>1. pc' = "unlinkP" /\ UNCHANGED <<pkg, marker, apps, disk, dev, loop, flags, late>>
    BY <1>16 DEF CopyItem
  <2>2. row \in Row /\ row.app \in Apps
    BY <1>16, RowType DEF CopyItem
  <2>2a. tmpApk[row.app] \in Installed
    BY <2>2
  <2>3. prot' \in [Devices -> [Apps -> Installed]]
    <3>1. CASE prot' = prot
      BY <3>1
    <3>2. CASE prot' = [prot EXCEPT ![dev][row.app] = tmpApk[row.app]]
      BY <3>2, <2>2, <2>2a, Put DEF Table
    <3> QED
      BY <1>16, <3>1, <3>2 DEF CopyItem
  <2> QED
    BY <1>16, <2>1, <2>3 DEF CopyItem
<1>17. CASE ItemsDone
  BY <1>17 DEF ItemsDone
<1>18. CASE CleanUp
  BY <1>18 DEF CleanUp
<1>19. CASE UpdateNote
  <2>1. UNCHANGED <<pkg, apps, prot, disk, dev, loop, flags>>
    BY <1>19 DEF UpdateNote
  <2>2. marker' \in [Devices -> Note]
    BY <1>19 DEF UpdateNote
  <2>3. late' \subseteq Devices /\ pc' \in {"personal", "config"}
    BY <1>19 DEF UpdateNote
  <2> QED
    BY <2>1, <2>2, <2>3
<1>20. CASE LoadConfig
  BY <1>20, CopiedType DEF LoadConfig, ExtractOK, ExtractFails, Archive
<1>21. CASE CleanConfig
  BY <1>21 DEF CleanConfig
<1>22. CASE Personalise
  BY <1>22 DEF Personalise
<1>23. CASE InstallOver
  <2>1. pc' = "idle" /\ Return
    BY <1>23 DEF InstallOver
  <2>2. tmpMarker' \in Note
    BY <1>23 DEF InstallOver
  <2> QED
    BY <1>23, <2>1, <2>2, ReturnType DEF InstallOver
<1>24. CASE RemovalLands
  BY <1>24 DEF RemovalLands
<1>25. CASE UNCHANGED vars
  BY <1>25 DEF vars
<1> QED
  BY <1>1, <1>2, <1>3, <1>4, <1>5, <1>6, <1>7, <1>8, <1>9, <1>10, <1>11, <1>12,
     <1>13, <1>14, <1>15, <1>16, <1>17, <1>18, <1>19, <1>20, <1>21, <1>22,
     <1>23, <1>24, <1>25 DEF Next, Worker

\* The program starts with everything of its type.
LEMMA TypedInit == Init => Typed
  <1> SUFFICES ASSUME Init PROVE Typed
  OBVIOUS
<1> USE DEF Init
<1>1. LoopOK
  BY DEF LoopOK, AtRow
<1>2. items \in Seq(Row) /\ i \in Nat \ {0}
  OBVIOUS
<1>3. tmpMarker \in Note /\ devVer \in Note /\ marker \in [Devices -> Note]
  BY DEF Note
<1>4. /\ apps \in [Devices -> [Apps -> Installed]]
      /\ prot \in [Devices -> [Apps -> Installed]]
      /\ tmpApk \in [Apps -> Installed]
  BY DEF Installed
<1>5. told \in {NONE, "latest", "done"} /\ pc \in Labels /\ late \subseteq Devices
  BY DEF Labels
<1>6. tmpZip \in [Archive -> Packages \cup {NONE}]
  OBVIOUS
<1> QED
  BY <1>1, <1>2, <1>3, <1>4, <1>5, <1>6 DEF Typed, TypeOK

\* The worker, the temp folder and the tablets keep their types.
THEOREM TypeCorrect == Spec => []TypeOK
<1>1. Typed => TypeOK
  BY DEF Typed
<1> QED
  BY TypedInit, TypedInductive, <1>1, PTL DEF Spec
(***************************************************************************)
(* The disturbances under which a delivery may be incomplete without the   *)
(* worker noticing, or the package on the PC may go back.                  *)
(***************************************************************************)
Sound == Disturbances \cap {"install", "refuse", "unzip", "downgrade"} = {}

AfterClean == {"extractVer", "decide", "prepare", "index", "item"} \cup AtRow

\* Row k of the package has been carried out on the tablet of this run.
Done(k) == Promise!RowDone(dev, pkg, pkg.rows[k])

\* Version numbers never run ahead of the package on the PC.
VersionsOK ==
  /\ \A d \in Devices : marker[d] \in Nat => marker[d] <= pkg.ver
  /\ tmpMarker \in Nat => tmpMarker <= pkg.ver

\* What is unpacked comes from the package on the PC.
TempOK ==
  /\ pc \in AfterClean => \A z \in Archive : tmpZip[z] \in {NONE, pkg}
  /\ pc \in {"run", "copy"} => tmpApk[row.app] = pkg.ver

\* The rows before the loop index are done, the current one as far as pc says.
ProgressOK ==
  /\ pc \in AtRow \cup {"item"} =>
       items = pkg.rows /\ \A k \in DOMAIN pkg.rows : k < i => Done(k)
  /\ pc = "unlink" =>
       /\ row.act = "U" => Done(i)
       /\ row.act = "I" => apps[dev][row.app] = pkg.ver
  /\ pc \in {"itemP", "copy"} => apps[dev][row.app] = pkg.ver
  /\ pc = "unlinkP" => Done(i)
  /\ pc \in {"cleanup", "note"} => Promise!Delivered(dev, pkg)

IInv == Typed /\ VersionsOK /\ TempOK /\ ProgressOK

\* Outside the part between the clean-up of the temp folder and the version
\* note, two of the conjuncts say nothing.
LEMMA OutsideOK ==
  ASSUME pc \notin AfterClean \cup {"cleanup", "note"}
  PROVE  TempOK /\ ProgressOK
  BY DEF AfterClean, AtRow, TempOK, ProgressOK

\* No extraction fails, so it is the package's own archive that is read.
LEMMA ExtractCurrent ==
  ASSUME IInv, pc \in AfterClean, NEW z \in Archive
  PROVE  /\ Copied(z)[z] = pkg
         /\ \A y \in Archive : Copied(z)[y] \in {NONE, pkg}
<1>1. tmpZip \in [Archive -> Packages \cup {NONE}]
  BY DEF IInv, Typed, TypeOK
<1>2. \A y \in Archive : tmpZip[y] \in {NONE, pkg}
  BY DEF IInv, TempOK
<1> QED
  BY <1>1, <1>2 DEF Copied

\* No note, application or temp file gets ahead of the package on the PC.
LEMMA VersionsInductive ==
  ASSUME Sound, IInv, [Next]_vars
  PROVE  VersionsOK'
<1>0. pkg.ver \in Nat /\ NONE \notin Nat /\ EMPTY \notin Nat
  BY PackageFacts, DataAssumption DEF IInv, Typed, TypeOK
<1> USE <1>0 DEF IInv, VersionsOK, Typed, TypeOK, disk, tablets
<1>1. CASE ReplacePackage
  <2>1. PICK p \in Packages : p.ver > pkg.ver /\ pkg' = p
    BY <1>1 DEF ReplacePackage, Sound
  <2>2. p.ver \in Nat
    BY DataAssumption DEF Package
  <2> QED
    BY <1>1, <2>1, <2>2 DEF ReplacePackage
<1>2. CASE PullMarker
  BY <1>2 DEF PullMarker
<1>3. CASE ExtractVersion
  <2>1. Copied("I")["I"] = pkg
    BY <1>3, ExtractCurrent DEF ExtractVersion, Goto, AfterClean, Archive
  <2>2. tmpMarker' = pkg.ver \/ tmpMarker' = tmpMarker
    BY <1>3, <2>1 DEF ExtractVersion
  <2> QED
    BY <1>3, <2>2 DEF ExtractVersion
<1>4. CASE UpdateNote
  <2>1. \A d \in Devices : marker'[d] \in {marker[d], NONE, EMPTY, tmpMarker}
    BY <1>4 DEF UpdateNote
  <2> QED
    BY <1>4, <2>1 DEF UpdateNote
<1>5. CASE InstallOver
  BY <1>5 DEF InstallOver
<1>6. CASE UNCHANGED <<pkg, marker, tmpMarker>>
  BY <1>6
<1>7. CASE UNCHANGED vars
  BY <1>7 DEF vars
<1>8. ASSUME Next PROVE \/ ReplacePackage \/ PullMarker \/ ExtractVersion
                        \/ UpdateNote \/ InstallOver \/ RemovalLands
                        \/ UNCHANGED <<pkg, marker, tmpMarker>>
  BY <1>8 DEF Next, Worker, BeginRun, Restart, ReadMarker, InitUnzip, CleanArchives,
     Decide, Prepare, LoadIndex, ExtractItem, RunItem, UnlinkItem, ExtractProt,
     CopyItem, ItemsDone, CleanUp, LoadConfig, CleanConfig, Personalise, Extract
<1>9. CASE RemovalLands
  <2>1. \A d \in Devices : marker'[d] \in {marker[d], NONE}
    BY <1>9 DEF RemovalLands
  <2> QED
    BY <1>9, <2>1 DEF RemovalLands
<1> QED
  BY <1>1, <1>2, <1>3, <1>4, <1>5, <1>6, <1>7, <1>8, <1>9

\* After the three Delete_file calls the temp folder holds the current package only.
LEMMA TempInductive ==
  ASSUME Sound, IInv, [Next]_vars
  PROVE  TempOK'
<1> USE DEF Goto, disk, tablets, loop, AfterClean, AtRow
<1>1. CASE pc' \notin AfterClean \cup {"cleanup", "note"}
  BY <1>1 DEF TempOK
<1>2. CASE CleanArchives
  BY <1>2 DEF CleanArchives, TempOK
<1>3. CASE ExtractVersion
  BY <1>3, ExtractCurrent DEF ExtractVersion, ExtractOK, ExtractFails, TempOK, Sound, Archive
<1>4. CASE LoadIndex
  BY <1>4, ExtractCurrent DEF LoadIndex, ExtractOK, ExtractFails, TempOK, Sound, Archive
<1>5. CASE ExtractItem
  <2>1. row.app \in Apps /\ row' = row
    BY <1>5, RowType DEF IInv, ExtractItem, Extract, row
  <2>2. tmpZip' = Copied("I") /\ tmpApk' = [tmpApk EXCEPT ![row.app] = pkg.ver]
    BY <1>5, ExtractCurrent DEF ExtractItem, Extract, ExtractOK, ExtractFails, Sound, Archive
  <2> QED
    BY <1>5, <2>1, <2>2, ExtractCurrent
       DEF ExtractItem, Extract, TempOK, Archive, IInv, Typed, TypeOK
<1>6. CASE ExtractProt
  <2>1. row.app \in Apps /\ row' = row
    BY <1>6, RowType DEF IInv, Typed, LoopOK, ExtractProt, Extract, row
  <2>2. tmpZip' = Copied("IP") /\ tmpApk' = [tmpApk EXCEPT ![row.app] = pkg.ver]
    BY <1>6, ExtractCurrent DEF ExtractProt, Extract, ExtractOK, ExtractFails, Sound, Archive
  <2> QED
    BY <1>6, <2>1, <2>2, ExtractCurrent
       DEF ExtractProt, Extract, TempOK, Archive, IInv, Typed, TypeOK
<1>7. CASE /\ UNCHANGED <<pkg, tmpZip>> /\ pc' \notin {"run", "copy"}
           /\ pc' \in AfterClean => pc \in AfterClean
  BY <1>7 DEF IInv, TempOK
<1>8. CASE UNCHANGED vars
  BY <1>8 DEF IInv, TempOK, vars, row
<1>9. ASSUME Next
      PROVE  \/ pc' \notin AfterClean \cup {"cleanup", "note"}
             \/ CleanArchives \/ ExtractVersion \/ LoadIndex \/ ExtractItem \/ ExtractProt
             \/ UNCHANGED <<pkg, tmpZip>> /\ pc' \notin {"run", "copy"}
                /\ (pc' \in AfterClean => pc \in AfterClean)
             \/ CleanUp \/ RemovalLands
  BY <1>9 DEF Next, Worker, BeginRun, ReplacePackage, Restart, PullMarker, ReadMarker,
     InitUnzip, Decide, Prepare, RunItem, UnlinkItem, CopyItem, ItemsDone, UpdateNote,
     LoadConfig, CleanConfig, Personalise, InstallOver
<1>10. CASE CleanUp
  BY <1>10 DEF CleanUp, TempOK
<1>11. CASE RemovalLands
  BY <1>11 DEF RemovalLands, IInv, TempOK, row
<1> QED
  BY <1>1, <1>2, <1>3, <1>4, <1>5, <1>6, <1>7, <1>8, <1>9, <1>10, <1>11

-----------------------------------------------------------------------------
(* A row on the tablet is a step of the promise. *)

\* The row the loop is at is a row of the package on the PC.
LEMMA CurrentRow ==
  ASSUME IInv, pc \in AtRow
  PROVE  /\ i \in DOMAIN pkg.rows /\ row = pkg.rows[i] /\ row \in Row
         /\ row.app \in Apps /\ row.act \in {"I", "U"}
         /\ pkg \in Packages /\ pkg.ver \in Nat /\ NONE # pkg.ver
<1>1. i <= Len(items) /\ items = pkg.rows /\ i \in Nat \ {0} /\ pkg \in Packages
  BY DEF IInv, Typed, TypeOK, LoopOK, ProgressOK
<1>2. pkg.ver \in Nat /\ pkg.rows \in Seq(Row) /\ NONE \notin Nat
  BY <1>1, PackageFacts, DataAssumption
<1>3. i \in DOMAIN pkg.rows
  BY <1>1, <1>2
<1>4. row \in Row /\ row.app \in Apps /\ row.act \in {"I", "U"}
  BY <1>1, RowType DEF IInv
<1> QED
  BY <1>1, <1>2, <1>3, <1>4 DEF row

\* adb install or uninstall has the effect the row asks for.
LEMMA RunEffect ==
  ASSUME Sound, IInv, RunItem
  PROVE  /\ apps' = [apps EXCEPT ![dev][row.app] = Want(pkg, row)]
         /\ \/ row.act = "I" /\ UNCHANGED prot
            \/ row.act = "U" /\ prot' = [prot EXCEPT ![dev][row.app] = Want(pkg, row)]
<1>1. pc = "run" /\ NONE # pkg.ver
  BY CurrentRow DEF RunItem, Goto, AtRow
<1>2. tmpApk[row.app] = pkg.ver
  BY <1>1 DEF IInv, TempOK
<1> QED
  BY <1>1, <1>2 DEF RunItem, CommandFails, Want, Sound

\* The push of the protected copy has the effect the row asks for.
LEMMA CopyEffect ==
  ASSUME Sound, IInv, CopyItem
  PROVE  /\ row.act = "I" /\ UNCHANGED apps
         /\ prot' = [prot EXCEPT ![dev][row.app] = Want(pkg, row)]
<1>1. pc = "copy" /\ NONE # pkg.ver
  BY CurrentRow DEF CopyItem, Goto, AtRow
<1>2. tmpApk[row.app] = pkg.ver /\ row.act = "I"
  BY <1>1 DEF IInv, TempOK, Typed, LoopOK, row
<1> QED
  BY <1>1, <1>2 DEF CopyItem, Want, Sound

\* A row carried out stays carried out while others run: no two name the same application.
LEMMA KeepsDone ==
  ASSUME Sound, IInv, RunItem \/ CopyItem
  PROVE  /\ UNCHANGED <<pkg, dev, items, i, marker>>
         /\ apps' \in Table /\ prot' \in Table
         /\ \A e \in Devices, j \in DOMAIN pkg.rows :
              Promise!RowDone(e, pkg, pkg.rows[j]) => Promise!RowDone(e, pkg, pkg.rows[j])'
<1>1. UNCHANGED <<pkg, dev, items, i, marker>> /\ pc \in AtRow
  BY DEF RunItem, CopyItem, Goto, AtRow, loop
<1>2. /\ i \in DOMAIN pkg.rows /\ row = pkg.rows[i] /\ pkg \in Packages
      /\ dev \in Devices /\ apps \in Table /\ prot \in Table
  BY <1>1, CurrentRow DEF IInv, Typed, TypeOK, Table
<1>3. apps' = apps \/ apps' = [apps EXCEPT ![dev][pkg.rows[i].app] = Want(pkg, pkg.rows[i])]
  BY <1>2, RunEffect, CopyEffect
<1>4. prot' = prot \/ prot' = [prot EXCEPT ![dev][pkg.rows[i].app] = Want(pkg, pkg.rows[i])]
  BY <1>2, RunEffect, CopyEffect
<1>5. /\ apps' \in Table
      /\ \A e \in Devices, j \in DOMAIN pkg.rows :
           apps[e][pkg.rows[j].app] = Want(pkg, pkg.rows[j])
             => apps'[e][pkg.rows[j].app] = Want(pkg, pkg.rows[j])
  BY <1>2, <1>3, RowKeeps
<1>6. /\ prot' \in Table
      /\ \A e \in Devices, j \in DOMAIN pkg.rows :
           prot[e][pkg.rows[j].app] = Want(pkg, pkg.rows[j])
             => prot'[e][pkg.rows[j].app] = Want(pkg, pkg.rows[j])
  BY <1>2, <1>4, RowKeeps
<1> QED
  BY <1>1, <1>5, <1>6 DEF Promise!RowDone, Promise!Want, Want

(***************************************************************************)
(* The loop over inst1 leaves no row behind it undone.                     *)
(***************************************************************************)
LEMMA ProgressInductive ==
  ASSUME Sound, IInv, [Next]_vars
  PROVE  ProgressOK'
<1> USE DEF Goto, AtRow
<1>1. CASE pc' \notin AtRow \cup {"item", "cleanup", "note"}
  BY <1>1 DEF ProgressOK
<1>2. CASE LoadIndex
  <2>1. items' = pkg.rows /\ i' = 1 /\ pkg' = pkg /\ pc' = "item"
    BY <1>2, ExtractCurrent DEF LoadIndex, ExtractFails, Sound, AfterClean, Archive
  <2>2. \A k \in DOMAIN pkg.rows : ~(k < 1)
    BY PackageFacts DEF IInv, Typed, TypeOK
  <2> QED
    BY <2>1, <2>2 DEF ProgressOK
<1>3. CASE ExtractItem
  BY <1>3 DEF ExtractItem, Extract, loop, tablets, IInv, ProgressOK, Done,
     Promise!RowDone
<1>4. CASE RunItem
  <2>1. /\ pc = "run" /\ pc' = "unlink" /\ row' = row
        /\ UNCHANGED <<pkg, dev, items, i>>
    BY <1>4, KeepsDone DEF RunItem, row
  <2>2. /\ i \in DOMAIN pkg.rows /\ row = pkg.rows[i] /\ row.app \in Apps
        /\ dev \in Devices /\ apps \in Table /\ prot \in Table
        /\ Want(pkg, row) \in Installed
    BY <2>1, CurrentRow, PackageFacts DEF IInv, Typed, TypeOK, Table
  <2>3. items = pkg.rows /\ \A k \in DOMAIN pkg.rows : k < i => Done(k)
    BY <2>1 DEF IInv, ProgressOK
  <2>4. \A k \in DOMAIN pkg.rows : k < i => Done(k)'
    BY <1>4, <2>1, <2>2, <2>3, KeepsDone DEF Done
  <2>5. apps'[dev][row.app] = Want(pkg, row)
    BY <1>4, <2>2, RunEffect, Put DEF Table
  <2>6. row.act = "U" => prot'[dev][row.app] = Want(pkg, row)
    <3>1. ASSUME row.act = "U"
          PROVE  prot' = [prot EXCEPT ![dev][row.app] = Want(pkg, row)]
      BY <1>4, <3>1, RunEffect
    <3> QED
      BY <2>2, <3>1, Put DEF Table
  <2>7. row.act = "U" => Done(i)'
    BY <2>1, <2>2, <2>5, <2>6 DEF Done, Promise!RowDone, Promise!Want, Want
  <2>8. row.act = "I" => apps'[dev][row.app] = pkg.ver
    BY <2>5 DEF Want
  <2> QED
    BY <2>1, <2>3, <2>4, <2>7, <2>8 DEF ProgressOK
<1>5. CASE UnlinkItem
  <2>1. /\ pc \in {"unlink", "unlinkP"} /\ UNCHANGED <<pkg, dev, items, apps, prot>>
        /\ pc' = "itemP" => pc = "unlink" /\ row.act = "I" /\ i' = i
        /\ pc' = "item" => i' = i + 1 /\ (pc = "unlink" => row.act = "U")
        /\ pc' \in {"item", "itemP"}
    BY <1>5 DEF UnlinkItem, tablets
  <2>2. items = pkg.rows /\ \A k \in DOMAIN pkg.rows : k < i => Done(k)
    BY <2>1 DEF IInv, ProgressOK
  <2>3. CASE pc' = "itemP"
    BY <2>1, <2>2, <2>3 DEF IInv, ProgressOK, Done, Promise!RowDone, row
  <2>4. CASE pc' = "item"
    <3>1. Done(i)
      BY <2>1, <2>4 DEF IInv, ProgressOK
    <3>2. i \in Nat /\ \A k \in DOMAIN pkg.rows : k \in Nat
      BY PackageFacts DEF IInv, Typed, TypeOK
    <3>3. \A k \in DOMAIN pkg.rows : k < i' => Done(k)
      BY <2>1, <2>2, <2>4, <3>1, <3>2
    <3>4. \A k \in DOMAIN pkg.rows : k < i' => Done(k)'
      BY <2>1, <3>3 DEF Done, Promise!RowDone
    <3> QED
      BY <2>1, <2>2, <2>4, <3>4 DEF ProgressOK
  <2> QED
    BY <2>1, <2>3, <2>4
<1>6. CASE ExtractProt
  BY <1>6 DEF ExtractProt, Extract, loop, tablets, IInv, ProgressOK, Done,
     Promise!RowDone, row
<1>7. CASE CopyItem
  <2>1. /\ pc = "copy" /\ pc' = "unlinkP" /\ row' = row
        /\ UNCHANGED <<pkg, dev, items, i>>
    BY <1>7, KeepsDone DEF CopyItem, row
  <2>2. /\ i \in DOMAIN pkg.rows /\ row = pkg.rows[i] /\ row.app \in Apps
        /\ dev \in Devices /\ prot \in Table
        /\ Want(pkg, row) \in Installed
    BY <2>1, CurrentRow, PackageFacts DEF IInv, Typed, TypeOK, Table
  <2>3. items = pkg.rows /\ \A k \in DOMAIN pkg.rows : k < i => Done(k)
    BY <2>1 DEF IInv, ProgressOK
  <2>4. \A k \in DOMAIN pkg.rows : k < i => Done(k)'
    BY <1>7, <2>1, <2>2, <2>3, KeepsDone DEF Done
  <2>5. prot'[dev][row.app] = Want(pkg, row)
    BY <1>7, <2>2, CopyEffect, Put DEF Table
  <2>6. apps'[dev][row.app] = Want(pkg, row)
    BY <1>7, <2>1, CopyEffect DEF IInv, ProgressOK, Want
  <2>7. Done(i)'
    BY <2>1, <2>2, <2>5, <2>6 DEF Done, Promise!RowDone, Promise!Want, Want
  <2> QED
    BY <2>1, <2>3, <2>4, <2>7 DEF ProgressOK
<1>8. CASE ItemsDone
  <2>1. pc = "item" /\ pc' = "cleanup" /\ UNCHANGED <<pkg, dev, apps, prot>> /\ i > Len(items)
    BY <1>8 DEF ItemsDone, tablets
  <2>2. items = pkg.rows /\ \A k \in DOMAIN pkg.rows : k < i => Done(k)
    BY <2>1 DEF IInv, ProgressOK
  <2>3. \A k \in DOMAIN pkg.rows : k < i
    BY <2>1, <2>2, PackageFacts DEF IInv, Typed, TypeOK
  <2>4. Promise!Delivered(dev, pkg)
    BY <2>2, <2>3 DEF Promise!Delivered, Done
  <2>5. Promise!Delivered(dev, pkg)'
    BY <2>1, <2>4 DEF Promise!Delivered, Promise!RowDone
  <2> QED
    BY <2>1, <2>5 DEF ProgressOK
<1>9. CASE CleanUp
  BY <1>9 DEF CleanUp, tablets, IInv, ProgressOK, Promise!Delivered, Promise!RowDone
<1>10. CASE UNCHANGED vars
  BY <1>10 DEF vars, loop, tablets, IInv, ProgressOK, Done, Promise!Delivered,
     Promise!RowDone, row
<1>11. ASSUME Next
       PROVE  \/ pc' \notin AtRow \cup {"item", "cleanup", "note"}
              \/ LoadIndex \/ ExtractItem \/ RunItem \/ UnlinkItem \/ ExtractProt
              \/ CopyItem \/ ItemsDone \/ CleanUp
              \/ ReplacePackage \/ RemovalLands
  BY <1>11 DEF Next, Worker, BeginRun, Restart, PullMarker, ReadMarker, InitUnzip,
     CleanArchives, ExtractVersion, Decide, Prepare, UpdateNote, LoadConfig,
     CleanConfig, Personalise, InstallOver
<1>12. CASE ReplacePackage
  BY <1>12 DEF ReplacePackage, ProgressOK
<1>13. CASE RemovalLands
  BY <1>13 DEF RemovalLands, loop, IInv, ProgressOK, Done, Promise!Delivered,
     Promise!RowDone, row
<1> QED
  BY <1>1, <1>2, <1>3, <1>4, <1>5, <1>6, <1>7, <1>8, <1>9, <1>10, <1>11, <1>12, <1>13

\* The inductive invariant of the promise, at the start.
LEMMA IInvInit == Init => IInv
<1> SUFFICES ASSUME Init PROVE IInv
  OBVIOUS
<1>1. Typed
  BY TypedInit
<1>2. VersionsOK
  BY DataAssumption DEF Init, VersionsOK
<1>3. TempOK /\ ProgressOK
  BY OutsideOK DEF Init, AfterClean, AtRow
<1> QED
  BY <1>1, <1>2, <1>3 DEF IInv

\* Every step keeps it.
LEMMA IInvInductive == ASSUME Sound PROVE IInv /\ [Next]_vars => IInv'
  BY TypedInductive, VersionsInductive, TempInductive, ProgressInductive DEF IInv

-----------------------------------------------------------------------------
(* InstallRun implements Provisioning. *)

\* The initial states of the worker are initial states of the promise.
LEMMA InitMaps == Init => Promise!AInit
  BY DEF Init, Promise!AInit, busy

\* Rows change only the tablet at hand, as the promise's ADeliver allows.
LEMMA DeliverMaps ==
  ASSUME Sound, IInv, RunItem \/ CopyItem
  PROVE  Promise!ADeliver
<1>1. /\ UNCHANGED <<pkg, marker, dev>> /\ pc \in AtRow
      /\ busy = dev /\ busy' = dev /\ busy # NONE
  BY DataAssumption DEF RunItem, CopyItem, Goto, busy, AtRow, IInv, Typed, TypeOK
<1>2. i \in DOMAIN pkg.rows /\ row = pkg.rows[i]
  BY <1>1, CurrentRow
<1>3. /\ \/ apps' = [apps EXCEPT ![dev][pkg.rows[i].app] = Promise!Want(pkg, pkg.rows[i])]
         \/ UNCHANGED apps
      /\ \/ prot' = [prot EXCEPT ![dev][pkg.rows[i].app] = Promise!Want(pkg, pkg.rows[i])]
         \/ UNCHANGED prot
  BY <1>2, RunEffect, CopyEffect DEF Want, Promise!Want
<1> QED
  BY <1>1, <1>2, <1>3 DEF Promise!ADeliver

\* The note that is pushed is the package's own, an older one, or none.
LEMMA NoteMaps ==
  ASSUME Sound, IInv, UpdateNote
  PROVE  Promise!ACertify \/ Promise!ARetract \/ UNCHANGED Promise!avars
<1>1. /\ UNCHANGED <<pkg, apps, prot, dev>>
      /\ busy = dev /\ busy' = dev /\ busy # NONE
      /\ Promise!Delivered(dev, pkg)
  BY DataAssumption
     DEF UpdateNote, Goto, busy, IInv, Typed, TypeOK, ProgressOK
<1>2. pkg.ver \in Nat /\ tmpMarker \in Note
      /\ (tmpMarker \in Nat => tmpMarker <= pkg.ver)
  BY PackageFacts DEF IInv, Typed, TypeOK, VersionsOK
<1>3. \/ UNCHANGED marker
      \/ \E v \in {NONE, EMPTY, tmpMarker} : marker' = [marker EXCEPT ![dev] = v]
  BY <1>1 DEF UpdateNote
<1>4. CASE UNCHANGED marker
  BY <1>1, <1>4 DEF Promise!avars
<1>5. ASSUME NEW v \in {NONE, EMPTY, tmpMarker}, marker' = [marker EXCEPT ![dev] = v]
      PROVE  Promise!ACertify \/ Promise!ARetract
  <2>1. CASE v = pkg.ver
    BY <1>1, <1>5, <2>1 DEF Promise!ACertify
  <2>2. CASE v # pkg.ver
    <3>1. v \in {NONE, EMPTY} \cup (0 .. pkg.ver - 1)
      BY <1>2, <2>2 DEF Note
    <3> QED
      BY <1>1, <1>5, <3>1 DEF Promise!ARetract
  <2> QED
    BY <2>1, <2>2
<1> QED
  BY <1>3, <1>4, <1>5

(***************************************************************************)
(* Every step of the worker is a step of the promise or changes nothing it *)
(* speaks of: only RunItem, CopyItem, UpdateNote and RemovalLands touch it. *)
(***************************************************************************)
LEMMA StepMaps ==
  ASSUME Sound
  PROVE  IInv /\ [Next]_vars => [Promise!ANext]_(Promise!avars)
<1> SUFFICES ASSUME IInv, [Next]_vars PROVE [Promise!ANext]_(Promise!avars)
  OBVIOUS
<1> USE DEF Promise!ANext, Promise!avars, tablets, busy, Goto
<1>0. dev \in Devices /\ NONE \notin Devices
  BY DataAssumption DEF IInv, Typed, TypeOK
<1>1. CASE BeginRun
  BY <1>0, <1>1 DEF BeginRun, Promise!ABegin, IInv, Typed, TypeOK
<1>2. CASE ReplacePackage
  BY <1>2 DEF ReplacePackage, Promise!AReplace, Sound
<1>3. CASE Restart
  BY <1>0, <1>3 DEF Restart, Promise!AEnd
<1>4. CASE InitUnzip
  BY <1>0, <1>4 DEF InitUnzip, Promise!AEnd
<1>5. CASE RunItem \/ CopyItem
  BY <1>5, DeliverMaps
<1>6. CASE UpdateNote
  BY <1>6, NoteMaps
<1>7. CASE InstallOver
  BY <1>0, <1>7 DEF InstallOver, Promise!AEnd
<1>8. CASE /\ UNCHANGED <<pkg, tablets, dev>>
           /\ pc \notin {"idle", "aborted"} /\ pc' \notin {"idle", "aborted"}
  BY <1>8
<1>9. CASE UNCHANGED vars
  BY <1>9 DEF vars
<1>10. ASSUME Next
       PROVE  \/ BeginRun \/ ReplacePackage \/ Restart \/ InitUnzip \/ RunItem
              \/ CopyItem \/ UpdateNote \/ InstallOver \/ RemovalLands
              \/ /\ UNCHANGED <<pkg, tablets, dev>>
                 /\ pc \notin {"idle", "aborted"} /\ pc' \notin {"idle", "aborted"}
  BY <1>10 DEF Next, Worker, PullMarker, ReadMarker, CleanArchives, ExtractVersion,
     Decide, Prepare, LoadIndex, ExtractItem, UnlinkItem, ExtractProt, Extract,
     ItemsDone, CleanUp, LoadConfig, CleanConfig, Personalise
<1>11. CASE RemovalLands
  BY <1>11 DEF RemovalLands, Promise!ALose, IInv, Typed, TypeOK
<1> QED
  BY <1>1, <1>2, <1>3, <1>4, <1>5, <1>6, <1>7, <1>8, <1>9, <1>10, <1>11

(***************************************************************************)
(* As long as no command of an installation fails unnoticed and packages   *)
(* are only replaced by newer ones, the worker keeps the promise for any   *)
(* tablets, packages and applications, with failed pulls and pushes, a DLL *)
(* that cannot be used and crashes anywhere.                               *)
(***************************************************************************)
THEOREM Implementation == ASSUME Sound PROVE Spec => Implements
<1>1. IInv /\ [Next]_vars => IInv'
  BY IInvInductive
<1>2. IInv /\ [Next]_vars => [Promise!ANext]_(Promise!avars)
  BY StepMaps
<1> QED
  BY <1>1, <1>2, InitMaps, IInvInit, PTL DEF Spec, Implements, Promise!ASpec

-----------------------------------------------------------------------------
(* The note of a tablet. *)

\* Only Update_Installed_status and the removal it sent touch a note, and the
\* note of the package only after the last row.
LEMMA TruthfulInductive ==
  ASSUME Sound
  PROVE  IInv /\ MarkerTruthful /\ [Next]_vars => MarkerTruthful'
<1> SUFFICES ASSUME IInv, MarkerTruthful, [Next]_vars PROVE MarkerTruthful'
  OBVIOUS
<1> USE DEF MarkerTruthful, Promise!MarkerTruthful, Promise!Delivered
<1>0. /\ dev \in Devices /\ marker \in [Devices -> Note] /\ pkg \in Packages
      /\ pkg.ver \in Nat /\ NONE \notin Nat /\ EMPTY \notin Nat
  BY PackageFacts, DataAssumption DEF IInv, Typed, TypeOK
<1>1. CASE ReplacePackage
  <2>1. PICK p \in Packages : p.ver > pkg.ver /\ pkg' = p
    BY <1>1 DEF ReplacePackage, Sound
  <2>2. p.ver \in Nat
    BY PackageFacts
  <2>3. \A d \in Devices : marker'[d] # pkg'.ver
    BY <1>0, <1>1, <2>1, <2>2 DEF ReplacePackage, tablets, IInv, VersionsOK
  <2> QED
    BY <2>3
<1>2. CASE RunItem \/ CopyItem
  BY <1>2, KeepsDone
<1>3. CASE UpdateNote
  <2>1. /\ UNCHANGED <<pkg, apps, prot>> /\ Promise!Delivered(dev, pkg)
    BY <1>3 DEF UpdateNote, Goto, IInv, ProgressOK
  <2>2. \A d \in Devices : d # dev => marker'[d] = marker[d]
    BY <1>0, <1>3 DEF UpdateNote
  <2>3. \A d \in Devices : Promise!Delivered(d, pkg) => Promise!Delivered(d, pkg)'
    BY <2>1 DEF Promise!RowDone
  <2>4. ASSUME NEW d \in Devices, marker'[d] = pkg'.ver
        PROVE  Promise!Delivered(d, pkg)
    BY <2>1, <2>2, <2>4
  <2> QED
    BY <2>3, <2>4
<1>4. CASE UNCHANGED <<pkg, marker, apps, prot>>
  BY <1>4 DEF Promise!RowDone
<1>5. ASSUME Next
      PROVE  \/ ReplacePackage \/ RunItem \/ CopyItem \/ UpdateNote \/ RemovalLands
             \/ UNCHANGED <<pkg, marker, apps, prot>>
  BY <1>5 DEF Next, Worker, tablets, BeginRun, Restart, PullMarker, ReadMarker,
     InitUnzip, CleanArchives, ExtractVersion, Decide, Prepare, LoadIndex,
     ExtractItem, UnlinkItem, ExtractProt, Extract, ItemsDone, CleanUp,
     LoadConfig, CleanConfig, Personalise, InstallOver
<1>6. CASE RemovalLands
  <2>1. \A d \in Devices : marker'[d] \in {marker[d], NONE}
    BY <1>0, <1>6 DEF RemovalLands
  <2> QED
    BY <1>0, <1>6, <2>1 DEF RemovalLands, Promise!RowDone
<1> QED
  BY <1>1, <1>2, <1>3, <1>4, <1>5, <1>6 DEF vars, tablets

(***************************************************************************)
(* Under the same conditions no tablet ever carries the version of the     *)
(* package on the PC without everything that package wants, however many   *)
(* runs were cut short before.                                             *)
(***************************************************************************)
THEOREM Truthful == ASSUME Sound PROVE Spec => []MarkerTruthful
<1>1. Init => IInv /\ MarkerTruthful
  <2> SUFFICES ASSUME Init PROVE IInv /\ MarkerTruthful
    OBVIOUS
  <2>1. pkg.ver \in Nat /\ NONE \notin Nat
    BY PackageFacts, DataAssumption DEF Init
  <2>2. \A d \in Devices : marker[d] # pkg.ver
    BY <2>1 DEF Init
  <2> QED
    BY <2>2, IInvInit DEF MarkerTruthful, Promise!MarkerTruthful
<1>2. IInv /\ MarkerTruthful /\ [Next]_vars => IInv' /\ MarkerTruthful'
  BY IInvInductive, TruthfulInductive
<1> QED
  BY <1>1, <1>2, PTL DEF Spec

-----------------------------------------------------------------------------
(* The comparison of the two version files. *)

\* Pulls, pushes and extractions succeed and no run is cut short.
Calm == Disturbances \subseteq {"install", "refuse", "downgrade"}

\* The temp note is gone between runs, the tablet's own after the pull and
\* the package's own when Decide compares them.
NoteOK ==
  /\ ~leak /\ tmpMarker # EMPTY /\ pc # "aborted" /\ late = {}
  /\ \A d \in Devices : marker[d] # EMPTY
  /\ pc \in {"idle", "pull"} => tmpMarker = NONE
  /\ pc = "read" => tmpMarker = marker[dev]
  /\ pc \in {"init", "clean", "extractVer", "decide"} =>
       devVer = marker[dev] /\ (needUpgrade <=> marker[dev] = NONE)
  /\ pc = "extractVer" => \A z \in Archive : tmpZip[z] = NONE
  /\ pc = "decide" => tmpMarker = pkg.ver

DInv == TypeOK /\ NoteOK /\ DecisionExact

\* The temp Installed.txt is what the current step takes it for.
LEMMA NoteInductive ==
  ASSUME Calm, DInv, [Next]_vars
  PROVE  NoteOK'
<1> USE DEF DInv, NoteOK, Goto, disk, tablets, flags, loop
<1>0. /\ dev \in Devices /\ marker \in [Devices -> Note] /\ tmpMarker \in Note
      /\ pkg.ver \in Nat /\ NONE # EMPTY /\ NONE \notin Nat /\ EMPTY \notin Nat
  BY PackageFacts, DataAssumption DEF TypeOK
<1>1. CASE BeginRun
  BY <1>1 DEF BeginRun
<1>2. CASE PullMarker
  BY <1>2, <1>0 DEF PullMarker, Calm
<1>3. CASE ReadMarker
  BY <1>3, <1>0 DEF ReadMarker, LeakIfEmpty, HasVersion, Note
<1>4. CASE InitUnzip
  BY <1>4 DEF InitUnzip, Calm
<1>5. CASE CleanArchives
  BY <1>5 DEF CleanArchives
<1>6. CASE ExtractVersion
  <2>1. Copied("I")["I"] = pkg
    BY <1>6 DEF ExtractVersion, Copied, Archive, TypeOK
  <2>2. pc = "extractVer" /\ pc' = "decide" /\ tmpMarker' = pkg.ver
    BY <1>6, <2>1 DEF ExtractVersion, ExtractFails, Calm
  <2>3. UNCHANGED <<pkg, marker, dev, devVer, needUpgrade, leak, late>>
    BY <1>6 DEF ExtractVersion
  <2> QED
    BY <1>0, <2>2, <2>3
<1>7. CASE Decide
  BY <1>7 DEF Decide, LeakIfEmpty
<1>8. CASE UpdateNote
  <2>1. \A d \in Devices : marker'[d] \in {marker[d], NONE, tmpMarker}
    BY <1>8, <1>0 DEF UpdateNote, Calm
  <2>2. pc' \in {"config", "personal"} /\ tmpMarker' = tmpMarker /\ leak' = leak
        /\ late' = {}
    BY <1>8 DEF UpdateNote, Calm
  <2> QED
    BY <1>0, <2>1, <2>2
<1>9. CASE InstallOver
  BY <1>9, <1>0 DEF InstallOver
<1>10. CASE Restart
  BY <1>10 DEF Restart, Calm
<1>11. CASE /\ UNCHANGED <<leak, tmpMarker, marker, late>>
            /\ pc' \notin {"aborted", "idle", "pull", "read", "init", "clean",
                           "extractVer", "decide"}
  BY <1>11
<1>12. CASE ReplacePackage
  BY <1>12 DEF ReplacePackage
<1>13. CASE UNCHANGED vars
  BY <1>13 DEF vars
<1>14. ASSUME Next
       PROVE  \/ BeginRun \/ PullMarker \/ ReadMarker \/ InitUnzip \/ CleanArchives
              \/ ExtractVersion \/ Decide \/ UpdateNote \/ InstallOver \/ Restart
              \/ ReplacePackage
              \/ RemovalLands
              \/ /\ UNCHANGED <<leak, tmpMarker, marker, late>>
                 /\ pc' \notin {"aborted", "idle", "pull", "read", "init", "clean",
                                "extractVer", "decide"}
  BY <1>14 DEF Next, Worker, Prepare, LoadIndex, ExtractItem, RunItem, UnlinkItem,
     ExtractProt, Extract, CopyItem, ItemsDone, CleanUp, LoadConfig, CleanConfig,
     Personalise
<1>15. CASE RemovalLands
  BY <1>15 DEF RemovalLands
<1> QED
  BY <1>1, <1>2, <1>3, <1>4, <1>5, <1>6, <1>7, <1>8, <1>9, <1>10, <1>11, <1>12,
     <1>13, <1>14, <1>15

\* The comparison is made with the note of this tablet and of this package.
LEMMA DecisionInductive ==
  ASSUME Calm, DInv, [Next]_vars
  PROVE  DecisionExact'
<1> USE DEF DInv, DecisionExact, Goto, tablets, flags
<1>1. CASE Decide
  <2>1. /\ pc = "decide" /\ tmpMarker = pkg.ver /\ pkg.ver \in Nat
        /\ devVer = marker[dev] /\ (needUpgrade <=> marker[dev] = NONE)
        /\ UNCHANGED <<pkg, marker, dev, force>>
    BY <1>1, PackageFacts DEF Decide, NoteOK, TypeOK
  <2>2. needUpgrade' <=> marker[dev] # pkg.ver
    BY <1>1, <2>1, DataAssumption DEF Decide, Differs, HasVersion
  <2> QED
    BY <1>1, <2>1, <2>2 DEF Decide
<1>2. CASE Personalise
  BY <1>2 DEF Personalise
<1>3. CASE UNCHANGED vars
  BY <1>3 DEF vars
<1>4. ASSUME Next
      PROVE  Decide \/ Personalise \/ RemovalLands \/ pc' \notin {"prepare", "over"}
  BY <1>4 DEF Next, Worker, BeginRun, ReplacePackage, Restart, PullMarker,
     ReadMarker, InitUnzip, CleanArchives, ExtractVersion, Prepare, LoadIndex,
     ExtractItem, RunItem, UnlinkItem, ExtractProt, CopyItem, ItemsDone, CleanUp,
     UpdateNote, LoadConfig, CleanConfig, InstallOver
<1>5. CASE RemovalLands
  BY <1>5 DEF RemovalLands, NoteOK
<1> QED
  BY <1>1, <1>2, <1>3, <1>4, <1>5

(***************************************************************************)
(* If pulls, pushes and extractions succeed and no run is cut short, the   *)
(* comparison is right in every run: nothing of an earlier run or tablet   *)
(* is left in the temp folder to be compared by mistake.                   *)
(***************************************************************************)
THEOREM DecisionCorrect == ASSUME Calm PROVE Spec => []DecisionExact
<1>1. Init => DInv
  <2>1. Init => TypeOK
    BY TypedInit DEF Typed
  <2>2. Init => NoteOK /\ DecisionExact
    BY DataAssumption DEF Init, NoteOK, DecisionExact
  <2> QED
    BY <2>1, <2>2 DEF DInv
<1>2. Init => Typed
  BY TypedInit
<1>3. Typed /\ DInv /\ [Next]_vars => Typed' /\ DInv'
  BY TypedInductive, NoteInductive, DecisionInductive DEF DInv, Typed
<1>4. DInv => DecisionExact
  BY DEF DInv
<1> QED
  BY <1>1, <1>2, <1>3, <1>4, PTL DEF Spec

-----------------------------------------------------------------------------
(* What the temp folder holds of archives and unpacked .apk files. *)

\* From the Delete_file calls at the start of a run until its last row, a copy
\* of an archive in the temp folder is a copy of the package on the PC.
ArchivesOwn == pc \in AfterClean => \A z \in Archive : tmpZip[z] \in {NONE, pkg}

\* No unpacked file but that of the row at hand, unless the program died.
Spare ==
  "crash" \notin Disturbances =>
    \A a \in Apps : tmpApk[a] # NONE => pc \in AtRow /\ a = row.app

\* What is about to be installed or copied was unpacked for this row.
Fresh ==
  /\ pc \in {"run", "copy"} =>
       \/ tmpApk[row.app] = pkg.ver
       \/ "unzip" \in Disturbances /\ tmpApk[row.app] = NONE
  /\ pc = "itemP" => tmpApk[row.app] = NONE

\* An .apk that an earlier run left behind is always unpacked anew.
NoStaleApk == ~({"unzip", "crash"} \subseteq Disturbances)

FInv == Typed /\ ArchivesOwn /\ Spare /\ Fresh

\* ExtractFiles unpacks the package on the PC, from a copy made in this run.
LEMMA ExtractOwn ==
  ASSUME Typed, ArchivesOwn, pc \in AfterClean, NEW z \in Archive
  PROVE  /\ Copied(z)[z] = pkg
         /\ \A y \in Archive : Copied(z)[y] \in {NONE, pkg}
  BY DEF Typed, TypeOK, ArchivesOwn, Copied

\* The steps other than these leave the archives and .apk files alone and
\* bring the loop to no row.
LEMMA OtherSteps ==
  ASSUME Next
  PROVE  \/ CleanArchives \/ ExtractVersion \/ LoadIndex \/ ExtractItem \/ ExtractProt
         \/ RunItem \/ CopyItem \/ UnlinkItem \/ CleanUp \/ LoadConfig \/ CleanConfig
         \/ Restart \/ RemovalLands
         \/ /\ UNCHANGED <<tmpZip, tmpApk, loop>> /\ pc' \notin AtRow /\ pc \notin AtRow
            /\ pc' \in AfterClean => pc \in AfterClean /\ pkg' = pkg
         \/ /\ UNCHANGED <<tmpZip, tmpApk>> /\ pc' = "idle" /\ pc = "over"
<1> USE DEF Goto, AtRow, AfterClean, disk, loop
<1>1. CASE InstallOver
  BY <1>1 DEF InstallOver
<1>2. CASE BeginRun \/ ReplacePackage \/ PullMarker \/ ReadMarker \/ InitUnzip
  BY <1>2 DEF BeginRun, ReplacePackage, PullMarker, ReadMarker, InitUnzip
<1>3. CASE Decide \/ Prepare \/ ItemsDone \/ UpdateNote \/ Personalise
  BY <1>3 DEF Decide, Prepare, ItemsDone, UpdateNote, Personalise
<1> QED
  BY <1>1, <1>2, <1>3 DEF Next, Worker

\* Copies of archives are made of the package on the PC only.
LEMMA ArchivesInductive == Typed /\ ArchivesOwn /\ [Next]_vars => ArchivesOwn'
<1> SUFFICES ASSUME Typed, ArchivesOwn, [Next]_vars PROVE ArchivesOwn'
  OBVIOUS
<1> USE DEF Goto, AtRow, AfterClean, disk, loop
<1>1. ASSUME NEW z \in Archive, pc \in AfterClean, pkg' = pkg,
             tmpZip' \in {tmpZip, Copied(z)}
      PROVE  ArchivesOwn'
  BY <1>1, ExtractOwn DEF ArchivesOwn
<1>2. CASE CleanArchives
  BY <1>2 DEF CleanArchives, ArchivesOwn
<1>3. CASE ExtractVersion \/ LoadIndex \/ ExtractItem
  BY <1>1, <1>3 DEF ExtractVersion, LoadIndex, ExtractItem, Extract, ExtractOK,
     ExtractFails, Archive
<1>4. CASE ExtractProt
  BY <1>1, <1>4 DEF ExtractProt, Extract, ExtractOK, ExtractFails, Archive
<1>5. CASE RunItem \/ CopyItem \/ UnlinkItem
  BY <1>5 DEF RunItem, CopyItem, UnlinkItem, ArchivesOwn
<1>6. CASE CleanUp \/ LoadConfig \/ CleanConfig \/ Restart
  BY <1>6 DEF CleanUp, LoadConfig, CleanConfig, Restart, ArchivesOwn
<1>7. CASE RemovalLands
  BY <1>7 DEF RemovalLands, ArchivesOwn
<1>8. CASE UNCHANGED vars
  BY <1>8 DEF vars, ArchivesOwn
<1> QED
  BY <1>2, <1>3, <1>4, <1>5, <1>6, <1>7, <1>8, OtherSteps DEF ArchivesOwn

\* An .apk is unpacked for the row at hand and deleted before the next one.
LEMMA SpareInductive == Typed /\ Spare /\ [Next]_vars => Spare'
<1> SUFFICES ASSUME Typed, Spare, [Next]_vars, "crash" \notin Disturbances,
                    NEW a \in Apps, tmpApk'[a] # NONE
             PROVE  pc' \in AtRow /\ a = row'.app
  BY DEF Spare
<1> USE DEF Goto, AtRow, disk, loop
<1>0. tmpApk \in [Apps -> Installed]
  BY DEF Typed, TypeOK
<1>1. tmpApk[a] # NONE => pc \in AtRow /\ a = row.app
  BY DEF Spare
<1>2. CASE ExtractItem \/ ExtractProt
  <2>1. pc' \in AtRow /\ row' = row
    BY <1>2 DEF ExtractItem, ExtractProt, Extract, row
  <2>2. \A b \in Apps : b # row.app => tmpApk'[b] = tmpApk[b]
    BY <1>0, <1>2 DEF ExtractItem, ExtractProt, Extract
  <2> QED
    BY <1>1, <2>1, <2>2
<1>3. CASE RunItem \/ CopyItem
  BY <1>1, <1>3 DEF RunItem, CopyItem, row
<1>4. CASE UnlinkItem
  BY <1>0, <1>1, <1>4 DEF UnlinkItem
<1>5. CASE CleanArchives \/ ExtractVersion \/ LoadIndex \/ Restart
  BY <1>1, <1>5 DEF CleanArchives, ExtractVersion, LoadIndex, Restart
<1>6. CASE CleanUp \/ LoadConfig \/ CleanConfig
  BY <1>1, <1>6 DEF CleanUp, LoadConfig, CleanConfig
<1>7. CASE RemovalLands
  BY <1>1, <1>7 DEF RemovalLands, row
<1>8. CASE UNCHANGED vars
  BY <1>1, <1>8 DEF vars, row
<1> QED
  BY <1>1, <1>2, <1>3, <1>4, <1>5, <1>6, <1>7, <1>8, OtherSteps

\* Extraction puts the package's own .apk in place, or fails where no older one
\* can lie.
LEMMA FreshInductive ==
  ASSUME NoStaleApk
  PROVE  FInv /\ [Next]_vars => Fresh'
<1> SUFFICES ASSUME FInv, [Next]_vars PROVE Fresh'
  OBVIOUS
<1> USE DEF Goto, AtRow, AfterClean, disk, loop, FInv
<1>1. ASSUME NEW z \in Archive, Extract(z), pc \in {"item", "itemP"}, i <= Len(items)
      PROVE  \/ tmpApk'[row'.app] = pkg'.ver
             \/ "unzip" \in Disturbances /\ tmpApk'[row'.app] = NONE
  <2>1. row' = row /\ row.app \in Apps /\ pkg' = pkg
    BY <1>1, RowType DEF Extract, row
  <2>2. CASE tmpApk' = [tmpApk EXCEPT ![row.app] = Copied(z)[z].ver]
    <3>1. Copied(z)[z] = pkg
      BY <1>1, ExtractOwn
    <3> QED
      BY <2>1, <2>2, <3>1 DEF Typed, TypeOK
  <2>3. CASE "unzip" \in Disturbances /\ UNCHANGED tmpApk
    <3>1. tmpApk[row.app] = NONE
      BY <1>1, <2>1, <2>3 DEF NoStaleApk, Spare, Fresh
    <3> QED
      BY <2>1, <2>3, <3>1
  <2> QED
    BY <1>1, <2>2, <2>3 DEF Extract, ExtractFails
<1>2. CASE ExtractItem
  BY <1>1, <1>2 DEF ExtractItem, Archive, Fresh
<1>3. CASE ExtractProt
  BY <1>1, <1>3 DEF ExtractProt, Archive, Typed, LoopOK, Fresh
<1>4. CASE RemovalLands
  BY <1>4 DEF RemovalLands, Fresh, row
<1>5. CASE UNCHANGED vars
  BY <1>5 DEF vars, Fresh, row
<1>6. CASE UnlinkItem
  <2>1. /\ tmpApk' = [tmpApk EXCEPT ![row.app] = NONE]
        /\ pc' = "itemP" => row' = row /\ row.app \in Apps
        /\ pc' \notin {"run", "copy"}
    BY <1>6, RowType DEF UnlinkItem, row, Typed, LoopOK
  <2> QED
    BY <2>1 DEF Typed, TypeOK, Fresh
<1>7. ASSUME Next PROVE \/ ExtractItem \/ ExtractProt \/ RemovalLands \/ UnlinkItem
                        \/ pc' \notin {"run", "copy", "itemP"}
  BY <1>7 DEF Next, Worker, BeginRun, ReplacePackage, Restart, PullMarker, ReadMarker,
     InitUnzip, CleanArchives, ExtractVersion, Decide, Prepare, LoadIndex, RunItem,
     CopyItem, ItemsDone, CleanUp, UpdateNote, LoadConfig, CleanConfig, Personalise,
     InstallOver
<1> QED
  BY <1>2, <1>3, <1>4, <1>5, <1>6, <1>7 DEF Fresh

\* The invariant of the temp folder holds in every behaviour.
LEMMA FInvAlways == ASSUME NoStaleApk PROVE Spec => []FInv
<1>1. Init => FInv
  BY TypedInit DEF Init, FInv, ArchivesOwn, AfterClean, AtRow, Spare, Fresh
<1>2. FInv /\ [Next]_vars => FInv'
  BY TypedInductive, ArchivesInductive, SpareInductive, FreshInductive DEF FInv
<1> QED
  BY <1>1, <1>2, PTL DEF Spec

\* Rows put the package's own .apk on the tablet, or take an application away.
LEMMA RowsCurrent ==
  ASSUME FInv, [Next]_vars, NEW d \in Devices, NEW a \in Apps
  PROVE  /\ apps'[d][a] \in {apps[d][a], pkg.ver, NONE}
         /\ prot'[d][a] \in {prot[d][a], pkg.ver, NONE}
<1>0. apps \in [Devices -> [Apps -> Installed]] /\ prot \in [Devices -> [Apps -> Installed]]
  BY DEF FInv, Typed, TypeOK
<1>1. CASE RunItem
  <2>1. tmpApk[row.app] \in {NONE, pkg.ver}
    BY <1>1 DEF RunItem, Goto, FInv, Fresh
  <2>2. \/ \E v \in {NONE, pkg.ver} : apps' = [apps EXCEPT ![dev][row.app] = v]
        \/ UNCHANGED apps
    BY <1>1, <2>1 DEF RunItem
  <2>3. prot' = [prot EXCEPT ![dev][row.app] = NONE] \/ UNCHANGED prot
    BY <1>1 DEF RunItem
  <2>4. apps'[d][a] \in {apps[d][a], pkg.ver, NONE}
    BY <1>0, <2>2
  <2> QED
    BY <1>0, <2>3, <2>4
<1>2. CASE CopyItem
  <2>1. tmpApk[row.app] \in {NONE, pkg.ver} /\ UNCHANGED apps
    BY <1>2 DEF CopyItem, Goto, FInv, Fresh
  <2>2. prot' = [prot EXCEPT ![dev][row.app] = tmpApk[row.app]] \/ UNCHANGED prot
    BY <1>2 DEF CopyItem
  <2> QED
    BY <1>0, <2>1, <2>2
<1>3. CASE UNCHANGED vars
  BY <1>3 DEF vars, tablets
<1>4. ASSUME Next PROVE RunItem \/ CopyItem \/ UNCHANGED <<apps, prot>>
  BY <1>4 DEF Next, Worker, BeginRun, ReplacePackage, Restart, PullMarker, ReadMarker,
     InitUnzip, CleanArchives, ExtractVersion, Decide, Prepare, LoadIndex, ExtractItem,
     ExtractProt, Extract, UnlinkItem, ItemsDone, CleanUp, UpdateNote, RemovalLands,
     LoadConfig, CleanConfig, Personalise, InstallOver, tablets
<1> QED
  BY <1>1, <1>2, <1>3, <1>4

(***************************************************************************)
(* OnlyCurrentPackage: whatever else goes wrong, no step puts an .apk of   *)
(* another package on a tablet, unless the program can die with an .apk in *)
(* the temp folder and the extraction of the next one can fail as well;    *)
(* then ExtractFiles reports success and the old file is installed.        *)
(***************************************************************************)
THEOREM PackageCurrent == ASSUME NoStaleApk PROVE Spec => OnlyCurrentPackage
<1>1. FInv /\ [Next]_vars =>
        [\A d \in Devices, a \in Apps :
           /\ apps'[d][a] \in {apps[d][a], pkg.ver, NONE}
           /\ prot'[d][a] \in {prot[d][a], pkg.ver, NONE}]_vars
  BY RowsCurrent
<1> QED
  BY <1>1, FInvAlways, PTL DEF Spec, OnlyCurrentPackage

(***************************************************************************)
(* NoApkLeft: as long as the program does not die, every unpacked .apk is  *)
(* deleted again, whatever fails (UnlinkItem after each row).              *)
(***************************************************************************)
THEOREM ApksDeleted == ASSUME "crash" \notin Disturbances PROVE Spec => []NoApkLeft
<1>1. NoStaleApk
  BY DEF NoStaleApk
<1>2. FInv => NoApkLeft
  BY DEF FInv, Spare, NoApkLeft, AtRow
<1> QED
  BY <1>1, <1>2, FInvAlways, PTL

\* The disturbances under which a note is either a version number or missing,
\* and what the temp folder holds of it is taken away after every run.
NoteWhole == Disturbances \cap {"push", "late", "dll", "crash"} = {}

\* The temp note is gone between runs; a tablet without a note has no version
\* number to compare, hence is upgraded.
MarkOK ==
  /\ ~leak /\ tmpMarker # EMPTY /\ pc # "aborted" /\ late = {}
  /\ \A d \in Devices : marker[d] # EMPTY
  /\ pc \in {"idle", "pull"} => tmpMarker = NONE
  /\ pc = "read" => tmpMarker \in {NONE, marker[dev]}
  /\ pc \in {"init", "clean", "extractVer", "decide"} =>
       /\ devVer \in {NONE, marker[dev]}
       /\ needUpgrade <=> devVer = NONE

MInv == Typed /\ MarkOK /\ UnmarkedIsInstalled

\* The temp note is what the current step takes it for, and a note is never empty.
LEMMA MarkInductive ==
  ASSUME NoteWhole, MInv, [Next]_vars
  PROVE  MarkOK'
<1> USE DEF MInv, MarkOK, Goto, disk, tablets, flags, loop
<1>0. /\ dev \in Devices /\ marker \in [Devices -> Note] /\ tmpMarker \in Note
      /\ NONE # EMPTY /\ NONE \notin Nat /\ EMPTY \notin Nat
  BY DataAssumption DEF Typed, TypeOK
<1>1. CASE BeginRun
  BY <1>1 DEF BeginRun
<1>2. CASE PullMarker
  BY <1>2, <1>0 DEF PullMarker
<1>3. CASE ReadMarker
  BY <1>3, <1>0 DEF ReadMarker, LeakIfEmpty, HasVersion, Note
<1>4. CASE InitUnzip
  BY <1>4 DEF InitUnzip, NoteWhole
<1>5. CASE CleanArchives
  BY <1>5 DEF CleanArchives
<1>6. CASE ExtractVersion
  <2>1. Copied("I")["I"].ver \in Nat
    BY CopiedType DEF Archive, Typed
  <2>2. pc = "extractVer" /\ pc' = "decide" /\ tmpMarker' # EMPTY
    BY <1>0, <1>6, <2>1 DEF ExtractVersion
  <2>3. UNCHANGED <<marker, dev, devVer, needUpgrade, leak, late>>
    BY <1>6 DEF ExtractVersion
  <2> QED
    BY <1>0, <2>2, <2>3
<1>7. CASE Decide
  BY <1>7 DEF Decide, LeakIfEmpty
<1>8. CASE UpdateNote
  <2>1. \A d \in Devices : marker'[d] \in {marker[d], NONE, tmpMarker}
    BY <1>8, <1>0 DEF UpdateNote, NoteWhole
  <2>2. pc' \in {"config", "personal"} /\ tmpMarker' = tmpMarker /\ leak' = leak
        /\ late' = {}
    BY <1>8 DEF UpdateNote, NoteWhole
  <2> QED
    BY <1>0, <2>1, <2>2
<1>9. CASE InstallOver
  BY <1>9, <1>0 DEF InstallOver
<1>10. CASE Restart
  BY <1>10 DEF Restart, NoteWhole
<1>11. CASE /\ UNCHANGED <<leak, tmpMarker, marker, late>>
            /\ pc' \notin {"aborted", "idle", "pull", "read", "init", "clean",
                           "extractVer", "decide"}
  BY <1>11
<1>12. CASE ReplacePackage
  BY <1>12 DEF ReplacePackage
<1>13. CASE UNCHANGED vars
  BY <1>13 DEF vars
<1>14. ASSUME Next
       PROVE  \/ BeginRun \/ PullMarker \/ ReadMarker \/ InitUnzip \/ CleanArchives
              \/ ExtractVersion \/ Decide \/ UpdateNote \/ InstallOver \/ Restart
              \/ ReplacePackage
              \/ RemovalLands
              \/ /\ UNCHANGED <<leak, tmpMarker, marker, late>>
                 /\ pc' \notin {"aborted", "idle", "pull", "read", "init", "clean",
                                "extractVer", "decide"}
  BY <1>14 DEF Next, Worker, Prepare, LoadIndex, ExtractItem, RunItem, UnlinkItem,
     ExtractProt, Extract, CopyItem, ItemsDone, CleanUp, LoadConfig, CleanConfig,
     Personalise
<1>15. CASE RemovalLands
  BY <1>15 DEF RemovalLands
<1> QED
  BY <1>1, <1>2, <1>3, <1>4, <1>5, <1>6, <1>7, <1>8, <1>9, <1>10, <1>11, <1>12,
     <1>13, <1>14, <1>15

\* Only a tablet whose own note was read is turned away, and the note stays.
LEMMA UnmarkedInductive ==
  ASSUME NoteWhole, MInv, [Next]_vars
  PROVE  UnmarkedIsInstalled'
<1> USE DEF MInv, UnmarkedIsInstalled, Goto, tablets, flags
<1>1. CASE Decide
  <2>1. /\ pc = "decide" /\ devVer \in {NONE, marker[dev]}
        /\ (needUpgrade <=> devVer = NONE) /\ UNCHANGED <<marker, dev>>
    BY <1>1 DEF Decide, MarkOK
  <2>2. marker[dev] \in Note /\ marker[dev] # EMPTY
    BY DEF MarkOK, Typed, TypeOK
  <2>3. pc' = "over" => ~needUpgrade
    BY <1>1 DEF Decide, Differs, HasVersion
  <2> QED
    BY <2>1, <2>2, <2>3 DEF Note
<1>2. CASE Personalise
  BY <1>2 DEF Personalise
<1>3. CASE UNCHANGED vars
  BY <1>3 DEF vars
<1>4. ASSUME Next
      PROVE  Decide \/ Personalise \/ RemovalLands \/ pc' # "over"
  BY <1>4 DEF Next, Worker, BeginRun, ReplacePackage, Restart, PullMarker,
     ReadMarker, InitUnzip, CleanArchives, ExtractVersion, Prepare, LoadIndex,
     ExtractItem, RunItem, UnlinkItem, ExtractProt, CopyItem, ItemsDone, CleanUp,
     UpdateNote, LoadConfig, CleanConfig, InstallOver
<1>5. CASE RemovalLands
  BY <1>5 DEF RemovalLands, MarkOK
<1> QED
  BY <1>1, <1>2, <1>3, <1>4, <1>5

(***************************************************************************)
(* UnmarkedIsInstalled: with failing pulls, extractions and installations  *)
(* a tablet without a version number is never turned away as up to date;   *)
(* that takes an empty note or a temp note that survives the run (the run  *)
(* InstallRun_cutoff shows how).                                           *)
(***************************************************************************)
THEOREM UnmarkedNotTurnedAway == ASSUME NoteWhole PROVE Spec => []UnmarkedIsInstalled
<1>1. Init => MInv
  <2> SUFFICES ASSUME Init PROVE MInv
    OBVIOUS
  <2>1. MarkOK /\ UnmarkedIsInstalled
    BY DataAssumption DEF Init, MarkOK, UnmarkedIsInstalled
  <2> QED
    BY <2>1, TypedInit DEF MInv
<1>2. MInv /\ [Next]_vars => MInv'
  BY TypedInductive, MarkInductive, UnmarkedInductive DEF MInv
<1>3. MInv => UnmarkedIsInstalled
  BY DEF MInv
<1> QED
  BY <1>1, <1>2, <1>3, PTL DEF Spec
=============================================================================
