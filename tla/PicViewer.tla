----------------------------- MODULE PicViewer -----------------------------
(***************************************************************************)
(* The part of Install_process that looks whether the picture viewer is on *)
(* the tablet and installs it if not: pull packages.xml, look it up, take  *)
(* the viewer's .apk out of I.bin, install it, clean up.  All files lie in *)
(* the temp folder, which is the current directory meanwhile.              *)
(***************************************************************************)
CONSTANT PvTablets

VARIABLES
  pvViewer,  \* the viewer is on each tablet
  pvDev,     \* the tablet of this run
  pvPc,
  pvList,    \* packages.xml in the temp folder
  pvZip,     \* I.bin is in the temp folder
  pvApk,     \* the viewer's .apk is in the temp folder
  pvFaults,  \* what went wrong in this run
  pvDied     \* the run before died

pvVars == <<pvViewer, pvDev, pvPc, pvList, pvZip, pvApk, pvFaults, pvDied>>

\* "cut" is a file that is not well-formed, because its pull was cut off.
Lists  == {"none", "cut", "with", "without"}
Faults == {"zip",      \* I.bin was not copied when the version was looked at
           "pull",     \* the pull fails, and ExecDosCmd returns 0
           "told",     \* the pull fails, and ExecDosCmd returns something else
           "unzip",    \* the .apk does not come out of I.bin
           "install"}  \* adb install fails

PvInit ==
  /\ pvViewer \in [PvTablets -> BOOLEAN] /\ pvDev \in PvTablets /\ pvPc = "idle"
  /\ pvList = "none" /\ pvZip = FALSE /\ pvApk = FALSE
  /\ pvFaults = {} /\ pvDied = FALSE

PvGoto(from, to) == pvPc = from /\ pvPc' = to
Fault(f) == pvFaults' = pvFaults \cup {f}

\* The copy of I.bin is deleted and made anew when the version is looked at.
PvBegin ==
  /\ PvGoto("idle", "pull")
  /\ pvDev' \in PvTablets
  /\ \/ pvZip' = TRUE /\ pvFaults' = {}
     \/ pvZip' = FALSE /\ pvFaults' = {"zip"}
  /\ UNCHANGED <<pvViewer, pvList, pvApk, pvDied>>

\* Download_Packages_index.  "unable" in adb's output makes the result 0xFFFF,
\* "connected" makes it 1: such a pull counts as done though it failed.  A pull
\* that fails leaves what is there, or the beginning of the new file.
PullPackages ==
  /\ \/ /\ PvGoto("pull", "find") /\ UNCHANGED pvFaults
        /\ pvList' = IF pvViewer[pvDev] THEN "with" ELSE "without"
     \/ PvGoto("pull", "clean") /\ Fault("pull") /\ pvList' \in {pvList, "cut"}
     \/ PvGoto("pull", "find") /\ Fault("told") /\ pvList' \in {pvList, "cut"}
  /\ UNCHANGED <<pvViewer, pvDev, pvZip, pvApk, pvDied>>

\* Find_packages_inXML (module Markup): FALSE if there is no file or if it is
\* not well-formed.
FindViewer ==
  /\ PvGoto("find", IF pvList = "with" THEN "clean" ELSE "extract")
  /\ UNCHANGED <<pvViewer, pvDev, pvList, pvZip, pvApk, pvFaults, pvDied>>

\* ExtractFiles, called in the temp folder: a missing I.bin would be copied from
\* the current directory, onto itself.
ExtractViewer ==
  /\ PvGoto("extract", "install")
  /\ \/ pvZip /\ pvApk' = TRUE /\ UNCHANGED pvFaults
     \/ ~pvZip /\ UNCHANGED <<pvApk, pvFaults>>
     \/ Fault("unzip") /\ UNCHANGED pvApk
  /\ UNCHANGED <<pvViewer, pvDev, pvList, pvZip, pvDied>>

\* Start_install_apk with 'I'; a viewer that is there already stays.
InstallViewer ==
  /\ PvGoto("install", "unlink")
  /\ \/ pvApk /\ pvViewer' = [pvViewer EXCEPT ![pvDev] = TRUE] /\ UNCHANGED pvFaults
     \/ ~pvApk /\ UNCHANGED <<pvViewer, pvFaults>>
     \/ Fault("install") /\ UNCHANGED pvViewer
  /\ UNCHANGED <<pvDev, pvList, pvZip, pvApk, pvDied>>

UnlinkViewer ==
  /\ PvGoto("unlink", "clean") /\ pvApk' = FALSE
  /\ UNCHANGED <<pvViewer, pvDev, pvList, pvZip, pvFaults, pvDied>>

\* Mutant: packages.xml is not deleted.
DeletePackagesNot ==
  /\ PvGoto("clean", "done")
  /\ UNCHANGED <<pvViewer, pvDev, pvList, pvZip, pvApk, pvFaults, pvDied>>

DeletePackages ==
  /\ PvGoto("clean", "done") /\ pvList' = "none"
  /\ UNCHANGED <<pvViewer, pvDev, pvZip, pvApk, pvFaults, pvDied>>

PvEnd ==
  /\ PvGoto("done", "idle") /\ pvDied' = FALSE
  /\ UNCHANGED <<pvViewer, pvDev, pvList, pvZip, pvApk, pvFaults>>

\* The program dies in the middle of a run and is started again.
PvDie ==
  /\ pvPc # "idle" /\ pvPc' = "idle" /\ pvDied' = TRUE
  /\ UNCHANGED <<pvViewer, pvDev, pvList, pvZip, pvApk, pvFaults>>

\* The viewer is removed from a tablet by its user.
UserRemoves ==
  /\ pvPc = "idle"
  /\ \E d \in PvTablets : pvViewer' = [pvViewer EXCEPT ![d] = FALSE]
  /\ UNCHANGED <<pvDev, pvPc, pvList, pvZip, pvApk, pvFaults, pvDied>>

PvNext ==
  \/ PvBegin \/ PullPackages \/ FindViewer \/ ExtractViewer \/ InstallViewer
  \/ UnlinkViewer \/ DeletePackages \/ PvEnd \/ PvDie \/ UserRemoves

PvSpec == PvInit /\ [][PvNext]_pvVars

(***************************************************************************)
(* A run leaves the viewer on its tablet if archive and installation work  *)
(* and either the pull of packages.xml does, or it counts as done though   *)
(* it failed and the run before did not die: the list of another tablet is *)
(* not there to be read, and without a list the viewer is installed.       *)
(***************************************************************************)
ViewerThere ==
  pvPc = "done" /\ pvFaults \subseteq {"told"} /\ (pvDied => pvFaults = {}) =>
    pvViewer[pvDev]
=============================================================================
