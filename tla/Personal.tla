------------------------------ MODULE Personal ------------------------------
(***************************************************************************)
(* The part of Install_process that makes a tablet a student's own: the    *)
(* tablet's settings.db and tiledb are pulled into the program's folder,   *)
(* edited there with SQLite and pushed back.                               *)
(*                                                                         *)
(* A file is known by the tablet it came from and by what the program      *)
(* changes in it.  Two databases and two folders are written one after the *)
(* other, so the program may die, and a transfer fail, between any two     *)
(* steps; what is left in the program's folder is there in the next run,   *)
(* for the next tablet.                                                    *)
(***************************************************************************)
EXTENDS Integers, Sequences, FiniteSets

CONSTANTS
  Devices,       \* the tablets
  Students,      \* numbers of the students; 0 stands for no student found
  NOBODY,        \* the owner of a database without tables
  ABSENT,        \* no file
  Disturbances,  \* what may go wrong: failing pulls and pushes, crashes
  MaxHome        \* bound: home tiles in a stale tiledb that is edited again

ASSUME PersonalAssumption ==
  /\ Students \subseteq Nat
  /\ NOBODY \notin Devices /\ MaxHome \in Nat
  /\ Disturbances \subseteq {"pull", "push", "crash"}

VARIABLES
  settings, tiles,       \* the databases on the tablets
  locSet, locTile,       \* settings.db and tiledb in the program's folder
  heldSet, heldTile,     \* a SQLite handle on them was never closed
  pc, dev,               \* where Install_process is, and on which tablet
  student,               \* this_sid
  spoilt                 \* a transfer of tiledb has failed in this run

tablets == <<settings, tiles>>
folder  == <<locSet, locTile>>
held    == <<heldSet, heldTile>>
run     == <<dev, student>>
psVars  == <<tablets, folder, held, run, pc, spoilt>>

\* Table system names the student the address was set for, table secure has
\* the program's input methods or not.
Settings == [own : Devices \cup {NOBODY}, for : Students \cup {ABSENT}, ime : BOOLEAN]

\* The rows of table tiles at x = 0, y = 0: the title, and whether CheckVaild
\* finds the other columns filled in.
Tile  == [title : Students \cup {ABSENT}, filled : BOOLEAN]
Tiles == [own : Devices \cup {NOBODY}, home : Seq(Tile)]

ASSUME AbsentAssumption == ABSENT \notin Settings /\ ABSENT \notin Tiles

\* A file that was cut off, or a new one: the CREATE TABLE statements of both
\* databases lack a parenthesis, so that no table is ever created.
NoSettings == [own |-> NOBODY, for |-> ABSENT, ime |-> FALSE]
NoTiles    == [own |-> NOBODY, home |-> <<>>]

Steps == {"idle", "pullSet", "edit", "push", "edit2", "pullTile", "insert",
          "delete", "pushTile", "end"}

TypeOK ==
  /\ settings \in [Devices -> Settings] /\ tiles \in [Devices -> Tiles]
  /\ locSet \in Settings \cup {ABSENT} /\ locTile \in Tiles \cup {ABSENT}
  /\ heldSet \in BOOLEAN /\ heldTile \in BOOLEAN
  /\ pc \in Steps /\ dev \in Devices /\ student \in Students
  /\ spoilt \in BOOLEAN
  \* The edits find the file the pull before them left.
  /\ pc \in {"edit", "push", "edit2"} => locSet # ABSENT
  /\ pc \in {"delete", "pushTile"} => locTile # ABSENT

FactoryTiles(d) ==
  { [own |-> d, home |-> <<[title |-> ABSENT, filled |-> f]>>] : f \in BOOLEAN }

PsInit ==
  /\ settings = [d \in Devices |-> [own |-> d, for |-> ABSENT, ime |-> FALSE]]
  /\ tiles \in [Devices -> UNION {FactoryTiles(d) : d \in Devices}]
  /\ \A d \in Devices : tiles[d].own = d
  /\ locSet = ABSENT /\ locTile = ABSENT
  /\ heldSet = FALSE /\ heldTile = FALSE
  /\ pc = "idle" /\ dev \in Devices /\ student \in Students
  /\ spoilt = FALSE

Goto(from, to) == pc = from /\ pc' = to

\* A tablet that is already up to date goes to _Install_over at once.
BeginRun ==
  /\ pc = "idle" /\ pc' \in {"pullSet", "end"}
  /\ dev' \in Devices /\ student' \in Students /\ spoilt' = FALSE
  /\ UNCHANGED <<tablets, folder, held>>

\* The program is closed or dies, which closes its handles.
Restart ==
  /\ pc = "idle" \/ "crash" \in Disturbances
  /\ pc' = "idle"
  /\ heldSet' = FALSE /\ heldTile' = FALSE
  /\ UNCHANGED <<tablets, folder, run, spoilt>>

-----------------------------------------------------------------------------
(* settings.db *)

\* if( this_id ): nothing is written on the launcher for nobody.
TilesNext == IF student = 0 THEN "end" ELSE "pullTile"

\* Mutant: the result of the pull is not tested.
PullSettingsUntested ==
  /\ Goto("pullSet", "edit")
  /\ \/ locSet' = settings[dev]
     \/ "pull" \in Disturbances /\ locSet' \in ({locSet, NoSettings} \ {ABSENT})
  /\ UNCHANGED <<tablets, locTile, held, run, spoilt>>

\* Download_Setting_DBfile: a pull that fails leaves the file that is there, or
\* the beginning of the new one, and the two edits and the push are skipped.
PullSettings ==
  /\ \/ Goto("pullSet", "edit") /\ locSet' = settings[dev]
     \/ /\ "pull" \in Disturbances /\ Goto("pullSet", TilesNext)
        /\ locSet' \in {locSet, NoSettings}
  /\ UNCHANGED <<tablets, locTile, held, run, spoilt>>

Readable(file) == file.own # NOBODY

\* Check_Android_SettingDB writes the six rows of the static address.  Only the
\* last of its six statements is finalized, and sqlite3_close then fails.
EditSettings ==
  /\ Goto("edit", "push")
  /\ locSet' = IF Readable(locSet) THEN [locSet EXCEPT !.for = student] ELSE locSet
  /\ heldSet' = (heldSet \/ Readable(locSet))
  /\ UNCHANGED <<tablets, locTile, heldTile, run, spoilt>>

\* Mutant: settings.db is deleted as soon as it has been sent.
PushSettingsMoving ==
  /\ Goto("push", "edit2")
  /\ settings' = [settings EXCEPT ![dev] = locSet] /\ locSet' = ABSENT
  /\ UNCHANGED <<tiles, locTile, held, run, spoilt>>

\* Upload_Setting_DBfile; its result is ignored.
PushSettings ==
  /\ Goto("push", "edit2")
  /\ \/ settings' = [settings EXCEPT ![dev] = locSet]
     \/ "push" \in Disturbances /\ UNCHANGED settings
     \/ "push" \in Disturbances /\ settings' = [settings EXCEPT ![dev] = NoSettings]
  /\ UNCHANGED <<tiles, folder, held, run, spoilt>>

\* Check_Android_SettingDB2, after the upload: the input methods go nowhere.
EditSettings2 ==
  /\ Goto("edit2", TilesNext)
  /\ locSet' = IF Readable(locSet) THEN [locSet EXCEPT !.ime = TRUE] ELSE locSet
  /\ heldSet' = (heldSet \/ Readable(locSet))
  /\ UNCHANGED <<tablets, locTile, heldTile, run, spoilt>>

-----------------------------------------------------------------------------
(* tiledb *)

\* Download_LauncherDB_file; its result is ignored.
PullTiles ==
  /\ Goto("pullTile", "insert")
  /\ \/ locTile' = tiles[dev] /\ UNCHANGED spoilt
     \/ /\ "pull" \in Disturbances
        /\ locTile' \in {NoTiles} \cup
             {f \in {locTile} : f # ABSENT => Len(f.home) <= MaxHome}
        /\ spoilt' = TRUE
  /\ UNCHANGED <<tablets, locSet, held, run>>

\* initDataBase creates the file if there is none.
Opened == IF locTile = ABSENT THEN NoTiles ELSE locTile

\* SQLite_Process takes the first row at (0,0) and SavetoSQLite gives up if
\* CheckVaild finds a column empty.
Relabels(file) == file.home # <<>> /\ file.home[1].filled

\* SavetoSQLite inserts a copy of the row under the student's name.
InsertTile ==
  /\ \/ /\ Relabels(Opened) /\ Goto("insert", "delete")
        /\ locTile' = [Opened EXCEPT
             !.home = Append(@, [title |-> student, filled |-> TRUE])]
     \/ /\ ~Relabels(Opened) /\ Goto("insert", "pushTile")
        /\ locTile' = Opened
  /\ UNCHANGED <<tablets, locSet, held, run, spoilt>>

\* Mutant: the old row stays.
DeleteTileKept ==
  /\ Goto("delete", "pushTile")
  /\ heldTile' = TRUE
  /\ UNCHANGED <<tablets, folder, heldSet, run, spoilt>>

\* Delete_SQLite removes the old row; its statement is never finalized.
DeleteTile ==
  /\ Goto("delete", "pushTile")
  /\ locTile' = [locTile EXCEPT !.home = Tail(@)]
  /\ heldTile' = TRUE
  /\ UNCHANGED <<tablets, locSet, heldSet, run, spoilt>>

\* Upload_LauncherDB_file, whatever the file is; its result is ignored.
PushTiles ==
  /\ Goto("pushTile", "end")
  /\ \/ tiles' = [tiles EXCEPT ![dev] = locTile] /\ UNCHANGED spoilt
     \/ /\ "push" \in Disturbances /\ spoilt' = TRUE
        /\ tiles' \in {tiles, [tiles EXCEPT ![dev] = NoTiles]}
  /\ UNCHANGED <<settings, folder, held, run>>

\* _Install_over: DeleteFile fails on a file that is still open.
EndRun ==
  /\ Goto("end", "idle")
  /\ locSet' = IF heldSet THEN locSet ELSE ABSENT
  /\ locTile' = IF heldTile THEN locTile ELSE ABSENT
  /\ UNCHANGED <<tablets, held, run, spoilt>>

Worker ==
  \/ PullSettings \/ EditSettings \/ PushSettings \/ EditSettings2
  \/ PullTiles \/ InsertTile \/ DeleteTile \/ PushTiles \/ EndRun

PsNext == BeginRun \/ Restart \/ Worker

PsSpec == PsInit /\ [][PsNext]_psVars

-----------------------------------------------------------------------------
(* What the run checks and Personal_proofs proves. *)

(***************************************************************************)
(* Pulling, editing and pushing settings.db amounts to one change of the   *)
(* tablet's own database: the only thing that ever changes is the address, *)
(* set for the student of this run, whatever earlier runs left in the      *)
(* program's folder (the file is never deleted there, as its handle leaks) *)
(* and wherever they died.  At worst a push that is cut off destroys the   *)
(* database.  The input methods that Check_Android_SettingDB2 writes reach *)
(* no tablet.                                                              *)
(***************************************************************************)
SettingsOwn ==
  [][\A d \in Devices :
       settings'[d] \in {settings[d], NoSettings, [settings[d] EXCEPT !.for = student]}
       /\ (d # dev => settings'[d] = settings[d])]_psVars

(***************************************************************************)
(* The same for tiledb, but only in a run whose transfers work: the title  *)
(* of the home tile becomes the student's and nothing else of the tablet's *)
(* own tiles changes, no tile is lost or doubled and none comes from       *)
(* another tablet, although insertion and deletion are two statements and  *)
(* the local file outlives the run.  When the pull fails, a stale or empty *)
(* file is pushed all the same, which harms the tablet at hand only.       *)
(***************************************************************************)
TilesKept ==
  [][\A d \in Devices :
       \/ tiles'[d] = tiles[d]
       \/ d = dev /\ spoilt'
       \/ /\ d = dev /\ Relabels(tiles[d])
          /\ tiles'[d] = [tiles[d] EXCEPT
               !.home = Append(Tail(@), [title |-> student, filled |-> TRUE])]]_psVars
=============================================================================
