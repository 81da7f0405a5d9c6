# AutoAppInstall, specified

AutoAppInstall is a Windows dialog (MFC) that a school uses to set up Android
tablets. It polls for a tablet on USB with `adb`, looks up the next student in a
MySQL table, and on a click (or by itself) starts a worker thread that compares
version notes, installs and removes applications, configures the tablet, and
registers it for the student. This directory models that program in TLA+,
checks the models with TLC and proves the most important results with TLAPS.

Source lines. `AutoAppInstallDlg.cpp` is UTF-16; line numbers here and in
`PROJECT.json` are those of the decoded text. A byte-oriented tool counts up to
14 more towards the end of the file, so the last line of each mapped range has
that much slack; the symbol named beside a range is decisive.

## 1. Inventory

| Part | Source | State it keeps | Operations |
|---|---|---|---|
| Worker `Install_process` | AutoAppInstallDlg.cpp | `need_upgrade`, `remove_version_flag`, `force_install_flag`, `inst1`, `Install_sum`; the temp folder (`Installed.txt`, copies of `I.bin`, `IP.bin`, `C.bin`, unpacked .apk files); the tablet (version note, applications, protected copies) | one run: pull and compare the note, extract, install, remove, copy, push the note, configure, personalise, clean up |
| Registration | MysqlLoad.cpp, ToMysql.cpp, AutoAppInstallDlg.cpp | table `class1` (id, name, sid, MAC); `this_MAC_address`, `this_id`, `this_sid`, `this_username`, `listAll_flag`; the selection in the list of students | find the first student without a MAC, list all, write the MAC by name, write the MAC by id |
| Dialog | AutoAppInstallDlg.cpp | timer armed or not; Install, Next and Force enabled or visible; automatic mode; worker threads | `TimerProc1`, the four buttons, start and end of a worker |
| `ExecDosCmd` | AutoAppInstallDlg.cpp | global pipe handles, process information, buffers | run a command, wait for it, read 1000 bytes, classify |
| `CInfoZip` | infoZip1.cpp | handle, version and exec pointers of ZIPDLL.DLL and UNZDLL.DLL | initialise and finalise either or both, add files, extract |
| Settings database | SqliteSetting.cpp, AutoAppInstallDlg.cpp | the tablet's settings.db, the copy in the program's folder and its handle | pull, set the fixed address, push, add the input methods |
| Launcher tiles | SqliteEdit.cpp, AutoAppInstallDlg.cpp | the tablet's tiledb, the copy and its handle | pull or create, check, insert and delete the student's tile, push |
| Index parser | AutoAppInstallDlg.cpp | `indexbuf`, `inst1[500]` | read I.txt or C.txt into rows |
| Configuration rows | AutoAppInstallDlg.cpp | the rows of C.txt, files and folders on the tablet | make a folder, push a file, change mode and owner |
| Clock | AutoAppInstallDlg.cpp | none | the PC's time as the text of `date -s` |
| List of students | ToMysql.cpp, MysqlLoad.cpp, AutoAppInstallDlg.cpp | the text with 0x06 separators, the entries `sid.name`, the selection | pack, unpack, find the student, cut the name out |
| packages.xml | xmlDlg.cpp | the tree of CMarkup, the saved item | is a package installed; make viewer and launcher preferred (its call is commented out) |
| Picture viewer | AutoAppInstallDlg.cpp | packages.xml, I.bin and the viewer's .apk in the temp folder, the viewer on the tablet | pull packages.xml, look the viewer up, extract and install it, clean up |
| CMarkup | Markup.cpp (vendored) | the text, `ELEM`s linked by indexes, the position, saved positions | load, find an element, go in, read and set attributes, add an element, save and restore a position, save |
| Shell | AutoAppInstall.cpp, headers | none | MFC start-up |
| MySQL, SQLite, zlib | vendored headers | | external |

How they interact. `TimerProc1` runs on the UI thread every 5 s: it runs
`adb devices` and `dumpsys wifi` through `ExecDosCmd`, opens MySQL, fills the
list of students once and enables Install. Install starts `ThreadProc`, which
runs `Install_process` on the dialog object: it shares every global with the
timer, disables the button and kills the timer itself, and re-arms the timer
only through the operator's Next button (or by itself in automatic mode).
The worker calls `CInfoZip`, the MySQL functions, the SQLite functions and
`ExecDosCmd`, ignoring most results. The temp folder and the tablets survive a
run, a crash and the program.

What is hard: nothing is atomic over the USB cable, results are ignored, the
temp folder and globals carry data from one tablet to the next, commands may be
cut off, the program may die anywhere, timer and workers overlap. The list with
line numbers is under `hazards` in PROJECT.json.

What makes each part correct:

* worker: it installs exactly when the versions differ; the note on a tablet is
  never ahead of its applications; nothing of an earlier package or tablet
  reaches this one; it leaves no unpacked applications on the PC;
* registration: one student per tablet, the launcher shows that student, fixed
  addresses do not clash, a registration is lost at most to an address that was
  never read;
* dialog: one worker at a time, the timer quiet meanwhile, and the window
  usable again after every run;
* ExecDosCmd: every command ends and its result is that of this command;
* settings and tiles: pulling, editing and pushing changes on the tablet at hand
  what was edited and nothing else, whatever lies in the program's folder;
* index, list, clock, configuration: each takes the input for what it says;
* `CInfoZip`: a library said to be ready can be called, and is loaded once;
* CMarkup: what a document says is found, and no part of it twice or never; after
  an edit tree and text still agree;
* picture viewer: it is on the tablet after the run, whatever list an earlier run
  left behind;
* packages.xml: a changed file has the viewer and the launcher where they belong
  and is otherwise as before.

## 2. Modules

| Module | Models | Extends / instantiates |
|---|---|---|
| `PackageData` | packages, index rows, version notes | |
| `Provisioning` | abstract: what an installation promises about a tablet | `PackageData` |
| `InstallRun` | the worker `Install_process`, the temp folder, the tablets | `PackageData`; `Provisioning` as `Promise` |
| `Registration` | table `class1`, the timer's globals, the list of students, the launcher's tile, the address | |
| `Dialog` | timer, message boxes, buttons, overlapping workers, the DLL handle they share | |
| `ExecDosCmd` | pipe, process, handles, the shared globals, reading and classifying | |
| `Personal` | settings.db and tiledb on the tablets and in the program's folder | |
| `IndexFile` | the parser of I.txt and C.txt | |
| `StudentList` | the students from MySQL's rows to the selected name | |
| `Clock` | the text that sets the tablet's clock, and how it is read there | |
| `Config` | the rows of C.txt and their effects on the tablet | |
| `InfoZip` | the wrapper of both libraries, with every order of its functions | |
| `Markup` | CMarkup's tree of elements and the lookup in it | |
| `TokenPos` | CMarkup's cutting of a text into nodes and attributes | |
| `Preferred` | the change of packages.xml, with CMarkup's editing and saved position | |
| `PicViewer` | the lookup of the picture viewer in the worker and its installation | |
| `MCParts` | `Personal` and the nine modules above, one per behaviour | all of them |
| `Parts_proofs` | theorems about `InfoZip`, `PicViewer`, `Config`, `Clock`, `IndexFile`, `StudentList`, `TokenPos`, `Markup` | those modules, `TLAPS` |
| other `*_proofs` | theorems about the module named | `TLAPS` |
| `MC*` | the constants of the runs | |

**InstallRun.** `pc` is the place in `Install_process`; there is one action per
adb command, per file operation in the temp folder and per decision, since the
program may die between any two of them. `marker`, `apps`, `prot` are on the
tablets (the `Installed.txt` pushed to `/mnt/PD_Universe`, the installed
applications, the copies pushed to `/data/app`); `tmpMarker`, `tmpZip`,
`tmpApk` are the files of the temp folder; the other variables are the globals
and locals of the same name. A version number is a natural number (the code
only compares for equality), a file is absent (`NONE`), empty (`EMPTY`) or a
version. `Disturbances` selects what may go wrong. `leak` is the file handle
that `Get_Installed_version` leaves open when the file is empty: it makes the
later `DeleteFile` fail. `CommandFails` is adb refusing or failing, whose result
the code ignores. The note is removed with `ExecDosCmd_noWait`, which goes on
after 300 ms: under the disturbance "late" the removal is put into `late` and
`RemovalLands` carries it out at any later time, in a later run too.
`Provisioning` sees that as `ALose`. The module instantiates it as
`Promise == INSTANCE Provisioning WITH busy <- busy`; the other variables map to
themselves.

**Registration.** `class1[id]` is a row. `TickReady` and its siblings are the
branches of `TimerProc1`; `RegisterByName` to `Close` are the places of the
worker that read what the timer left. `odd` records how the runs so far were out
of the ordinary, so that each property names exactly the oddities it tolerates:
another student chosen (`other`), students of one name (`namesake`), a tablet
that comes back (`again`), a second tablet in a session (`second`), a tablet
exchanged after the poll (`swap`), no student left (`nobody`), MySQL away or
failing (`nosql`). GetName's query has no ORDER BY: the student found is any of
those unregistered. Any query or update may fail on an open connection, which the
code does not notice; the pointer that is then freed without having been set may
end the program, which is a `Restart`.

What `TimerProc1` finds in `mac_address` when `dumpsys` was not understood is
whatever the stack holds: the address of the poll before, fewer than 13
characters (`NONE`, which the query takes for unregistered) or other content
(`GARBAGE`). Install is enabled all the same. `read` says whether the address at
hand was given by `dumpsys`, and `NeverUnregistered` has it as its premise: a run
on what was left over may well take a registration away. Content longer than
`this_MAC_address` would overrun the globals behind it; that is not followed.

**Dialog.** The UI thread is pumping messages (`loop`) or inside `TimerProc1`
waiting for adb (`tick`). A message box of `Open_SchoolSQL` is a message loop
inside the tick, in which the timer goes on: `boxes` counts how many are nested.
A worker's calls of window functions wait until the UI thread pumps. `lapsed`
records the ways in which two workers, or a worker and a tick, can come to
overlap; `InstallRun` and `Registration` describe what happens when none did.

**ExecDosCmd.** `hRead`, `hWrite`, `hProcess`, `command` and `buf` are the
globals; `table` says what a handle value refers to now, so that a stale or a
doubly closed handle can hit another object. Output is a sequence of the words
the code searches for. ReadFile on an empty pipe waits, for the program itself
keeps the writing end open. A process that was not waited for goes on writing to
the pipe it was started with; a later call makes a pipe of its own, so that such
output never reaches it.

**Personal.** `pc` runs through Download, edit and Upload of settings.db, the
second edit that comes after the upload, and the same for tiledb. A database is
known by the tablet it came from (`own`) and by what the program changes in it:
the student the address was set for, the input methods, the tiles at (0,0).
Neither edit finalizes all its statements, so `sqlite3_close` fails and the file
cannot be deleted at `_Install_over`: `heldSet` and `heldTile`. A failing or
cut-off pull of settings.db skips the edits; that of tiledb does not. `spoilt`
remembers that a transfer of tiledb failed in this run.

**IndexFile.** `Ix` variables: the rows the file was written from, `indexbuf`
as characters, the position `f4`, and the rows read so far. A step reads one row
with the `strstr` calls of the code. Two unknown bytes lie behind the block.
`ixState` is "crash" where the code follows a NULL pointer.

**StudentList.** `Sl` variables: `Packed` is the text `ToMysql::SelectData`
builds; `ScanEnd` and `ScanOn` are one round of the loop of
`GetAllUser_from_MySQL`, which puts a 0 into the text at the end of each entry;
the prefix search is `CB_FINDSTRING`; `ReadUser` is the worker's cut at the dot.

**Clock, Config.** `SetTime` writes the digits without padding, `Number10`,
`DateOf` and `TimeOf` read them as the tablet's `date` does, from the right.
`ClockRight` is what the comment in the code promises, and is violated. In `Config`
a row that is not waited for goes to `cfPending` and is carried out at any later
time.

**InfoZip.** A pointer is set or not, a library is loaded so many times. Any
lookup may fail. `zUses` remembers which of the three pairs of functions was
used, since both `Initialize` functions ask for the unzip library only.

**Markup, TokenPos.** `Markup` takes a document as the nodes that
`TokenPos::ParseNode` returns; a step is one round of `x_ParseElem`'s loop, with
`elemstack`, `nMatchLevel` and the links parent, child, next and prev of
`ELEM`s; then `Find_packages_inXML` walks the tree. `TokenPos` goes down to the
characters: a step of `ParseNode` is one character, with the code's
end-of-node string and flags, then `FindAttrib` scans a tag for its attributes.

**Preferred.** `Fixed_preferred_Item`, one action per round of its loop and one
per call that adds to the file. `pfDoc` is the text as tokens (a name, a word of
a value, an end of line count as one), `pfElem` the `ELEM`s with start, length
and the lengths of their tags, `pfParent` and `pfPos` the position. `SetAttrib`
and `AddElem` edit the text in place; `Adjust` is `x_Adjust`'s walk over the
elements behind and around the edit. `Parse` gives what `x_ParseDoc` makes of a
well-formed text, which `Markup` and `TokenPos` model step by step.

**PicViewer.** The middle of Install_process, which `InstallRun!Prepare` passes
over since it touches nothing there: the current directory is the temp folder,
so that `ExtractFiles` cannot even fetch a missing I.bin. `pvList` is the
packages.xml in the temp folder; what `Find_packages_inXML` makes of a document
is in `Markup`. `pvFaults` are the faults of the run at hand, "told" being a
failed pull whose output makes `ExecDosCmd` return something other than 0.

## 3. Runs

All runs use two workers of TLC and finish within about two and a half minutes.

| Run | Expected | Shows |
|---|---|---|
| `InstallRun_decision` | pass | the version comparison decides rightly over any sequence of runs on two tablets, with failing commands and older packages |
| `InstallRun_promise` | pass | a note never runs ahead of the applications, with failing pulls and pushes of the note, a removal that takes effect late, a missing DLL and a crash at any step; the worker implements `Provisioning`; nothing of an older package in the temp folder reaches a tablet |
| `InstallRun_faulty` | pass | with failing pulls and extractions a tablet without a note is not turned away, and no .apk stays behind |
| `InstallRun_upgrade` | violation | adb refuses an application already installed; the upgrade is noted all the same |
| `InstallRun_cutoff` | violation | an empty note leaks a handle; the next fresh tablet is "already the latest" |
| `Registration_pass` | pass | one student per tablet, true launcher, distinct addresses, no registration lost except to an address dumpsys did not give |
| `Registration_second` | violation | the second tablet of a session takes the first one's student |
| `Registration_other` | violation | number and name of two different students on a launcher |
| `Dialog_pass` | pass | one worker at a time but for the lapses; runs end; the window stays usable; the automatic mode goes on |
| `ExecDosCmd_pass` | pass | a call returns the code of its own whole output, leaks no handle, touches no other, and ends |
| `Parts_pass` | pass | index file, list of students, clock, configuration, both libraries, parser, tree and lookup give what their inputs say; an edited packages.xml is right and CMarkup's tree agrees with it; the picture viewer is on the tablet after a run; with failing transfers, leaked handles and crashes, settings.db changes by this student's address only, tiledb by its title only if its transfers work |
| `Clock_padding` | violation | the date sent is not padded, and the tablet takes it for another one |

The five violations are disagreements between a comment of the source and what
the code does; `findings` in PROJECT.json quotes them.

Bounds, and why they are enough.

* `InstallRun`: two tablets (what one leaves behind meets the next), two
  applications, three packages: a first installation, an upgrade that removes
  an application, and one that removes more than it installs and so deletes the
  note. No counter is bounded. `OnlyCurrentPackage` is checked with the same two
  tablets: what one run leaves in the temp folder meets the other tablet.
* `Registration`: two tablets and two students; sessions, runs and restarts are
  unlimited. Every property relates at most two tablets or two students. The
  oddities `other`, `namesake` and `again` are left to the proofs and to the
  violation run: the properties say nothing after them. `Habits` are the oddities
  that may come together in one behaviour: the run takes the pairs of the other
  four but `nobody` with `swap`; the proofs have no such limit.
* `Dialog`: two workers (`StartWorker` leaves a third out) and two nested
  message boxes (`MaxBoxes`).
* `ExecDosCmd`: two threads, five handle values, a pipe of three words of which
  a read takes two, one kind of fault between two starts of the program
  (`MaxKinds`), and no new call once calls have overlapped, of which no property
  speaks. The commands are one of each kind the program has: several tablets
  listed, success and speed reported, more output than the pipe holds, not waited
  for and printing something late, silent and waited for.
* `Personal` (in `Parts_pass`): two tablets, a student and none (`Students = {0, 1}`), and at most
  `MaxHome = 2` home tiles in a stale file that is edited again. The properties
  speak of one tablet and the file of another; the code looks at one row only,
  so a third tile tells nothing new.
* `Parts`: three index rows with `IxLimit = 2`, so that the table is full and
  overrun; three students, with numbers that are prefixes of each other, equal,
  an empty name and a name with a dot; all months and the days and times at
  which the number of digits changes; four rows of C.txt (folder, file, mode and
  owner once each); three loads of a library (a second one is already wrong);
  documents of five nodes (two levels with a sibling, and one element that does
  not end); texts of two pieces chosen from 116 nodes of every type, and all
  texts of up to four characters out of nine, which has every beginning of a
  comment, a tag and an instruction; for `Preferred` files in three layouts, with
  and without an element before and behind, `preferred-activities` missing,
  empty, or with up to two items of six kinds (one item in the layouts with ends
  of line), and the function called twice; two tablets for `PicViewer` and any
  number of runs. These parts stop when they are done, so that run does not look
  for deadlocks; it has `INIT` and `NEXT` and no fairness.

Symmetry is used for the tablets where a run checks no liveness and compares no
tablet with a constant. In `Parts_pass` only `Personal` knows the tablets that are
exchanged.

Every property has a mutant: a definition changed as a plausible bug would
change the code (a forgotten `Delete_file`, an update without its WHERE, a wait
of two seconds instead of INFINITE ...), under which the run fails.

### Fairness

* `Dialog`: weak fairness of a tick that has begun (adb commands end; see
  `ExecDosCmd!CallsEnd` for which do), strong fairness of closing a message box
  (the operator does, some time) and of each worker: ticks come between its
  calls, but Windows delivers a sent message before a timer message, so a worker
  that is answered again and again gets through. Clicks have no fairness.
* `ExecDosCmd`: weak fairness of each thread and of each process.
* The others check safety only: a run may stop anywhere.

## 4. Proofs

All theorems are for any values of the constants allowed by the assumptions in
the modules.

* `PackageData_proofs` has facts about packages, `Provisioning_proofs` proves
  `PromiseTruthful`, from `AInv`: `Bounded` is needed there because a newer
  package on the PC must not match an old note by accident.
* `InstallRun_proofs`: `TypeCorrect`; `Truthful` and `Implementation` from
  `IInv == Typed /\ VersionsOK /\ TempOK /\ ProgressOK`, under `Sound` (no
  failing install, extraction or downgrade: with them the two are false, and
  `InstallRun_upgrade` shows it); `Implementation` has the late removal as a step
  of its own, which maps to `ALose`. `MarkerTruthful` is not inductive: that the
  note may be pushed needs `ProgressOK` (all rows before the index are done),
  that needs `TempOK` (what was unpacked is of the current package), and that a
  package replaced between runs does not match needs `VersionsOK`.
  `DecisionCorrect` from `DInv`, under `Calm` (only commands fail or packages
  change): `NoteOK` follows the temp `Installed.txt` from one Delete_file to the
  next.
* `Registration_proofs`: `NeverLost`, `OneStudent`, `LauncherTrue` and
  `AddressesDistinct`. All rest on `Known` (the table keeps its shape; no run
  starts or goes on without an address, if dumpsys gave what there is of one: an
  uninitialised `mac_address` enables Install too, and for such a run `NeverLost`
  claims nothing). `OneStudent` holds for these runs as well; it adds what the regular runs
  keep about the student found and the address polled; the other two follow a
  run from the selection to the tile.
* `Dialog_proofs`: `TypeCorrect` (with `Room`: a tick is begun below the bound),
  `OneRunAtATime` from `SerialInv`, `WindowUsable`, which is inductive by itself.
  In `SerialInv` the parts hold each other up: a box or a tick finds no worker
  alive, Next is only visible when none is, and from the first step of a worker
  no button is left to start another.
* `Personal_proofs`: `TypeCorrect`, `SettingsAtomic` and `TilesAtomic` from
  `IInv == TypeOK /\ Appended /\ SetCopy /\ TileCopy`. The two properties speak of
  the step that pushes, and nothing in that step says where the local file came
  from. `SetCopy` and `TileCopy` do: between pull and push the local file is the
  tablet's own database, edited as far as `pc` says, unless a transfer failed.
  No assumption is needed beyond the constants' own.
* `ExecDosCmd_proofs`: `TypeCorrect`, `AnswerIsOwn`, `NothingLeaks` and
  `OthersKept` from `IInv == Typed /\ SerialInv /\ QuietInv`, for any number of
  threads, handles, commands and texts. None of the three properties is inductive:
  that a handle closed at the end is the call's own needs `HandlesOK` (what each
  global handle refers to at each place of the call, and that nothing else of a
  pipe or a process is open), and that the text read is the command's own and
  whole needs `OutputOK` (what is in the pipe, what the process has still to write
  and what was read make up the output). `SerialInv` says both as long as no two
  calls overlapped, `QuietInv` adds what holds if nothing failed either.
* `Parts_proofs`, whose first lemmas are induction over the numbers and the
  existence of a function given step by step (`Stepwise`, `Joined`); with them the
  recursive functions of `Config`, `Clock`, `StudentList` and `TokenPos` can be
  reasoned about.
  * `InfoZip`: `ReadyWhenToldHolds` and `LoadsBalancedHolds` from a `ZipInv` that
    ties what was reported to what is set, for every bound on loads.
  * `PicViewer`: `ViewerInstalled` from an invariant that follows the local
    packages.xml (`NoList`: only a run that dies leaves it behind) and the
    decision it leads to (`OnTheWay`) from step to step.
  * `Config`: `NotWaitingLosesNothing` from `NoneMissing`: each part of the tablet
    that the rows so far would give, carried out in turn, is there already or still
    coming; the file itself is never only coming, since its push is waited for.
  * `Clock`: `ClockSet`, by the value of the digits written for numbers of one,
    two and four digits, and what remains of it modulo 100 and 10000. Beside
    `TwoDigitsRight` it shows that nothing better can be said (`RightJustThen`).
  * `IndexFile`: `IndexRead` from `IxInv`: `f4` is at the beginning of the row
    after those in `inst1`, so that each `strstr` stops at that row's own comma.
  * `StudentList`: `ListShown` and `SelectionKept` from `SlInv`: the loop stands
    within the row after the entries made, and the text from there on is still
    MySQL's. `RowEnd` shows that two separators in a row are seen only at the end
    of a row if no name is empty; `OneNumber` that an entry which begins with
    another has its number, since numbers have no dots.
  * `TokenPos`: `TextCovered` (`Covered`, the first half of `PiecesFound`) from
    `TokenInv`: the node at hand begins behind the last one, and nothing is known
    of it (no flag, no end looked for) before its first character, so that a node
    ended in front of a character cannot be empty. Every round of `ParseNode` is
    shown to take a character (`Takes`), to end a node (`Cuts`) or to look at a
    character again (`Named`); what follows is independent of the flags.
  * `Markup`: `ElementsKept` (`NoElementLost`) from `TreeInv`. The elements are
    numbered as they begin in the text, and all links follow from who is whose
    parent: child is the least of the children, next the least sibling behind
    (`Linked`); so the walk along next meets every child once and in order
    (`KidsAre`). A new element is put behind the *last* child, which the first
    child's prev names: that prev is right (`LastKnown`) for the elements that stay
    open, but not for one that was handed the children of an unended element, and
    the invariant has to say that such a one is closed before it gets another
    child (`Known`, below `nMatchLevel`). The open elements are the way `w` from
    `ELEM(0)` along the last children, one for each level of `elemstack` (`Way`),
    which is why `iPosMatch` some levels up is the element whose name is compared
    (`UpTheWay`). What is not on the way lies within its parent (`Closed`).
    `TreeIsRight` (`TreeRight`) and `LookupIsRight` (`LookupRight`) compare the
    tree with the text, which the parser never sees as a whole. `NestInv` does so
    for every beginning of the document: the parser has found no fault so far
    (`Clean`) exactly if the nodes read so far nest (`AllFine`), and then the open
    elements are the start tags the text has open at each depth (`OpenOnes`), every
    element lies in the one that encloses it in the text (`Placed`), ends with the
    end tag that belongs to it (`Ended`), and prev is the sibling before, of the
    first the last one (`Ringed`). How depth, enclosing element and end tags of a
    text change with one more node is `DocLonger`; nothing already read changes.
    After a fault nothing is claimed, so the steps that hand children on, or take
    an end tag for an outer element, only have to be shown to leave the flag set.
    `AcceptedRight` then makes `IsWellFormed` the definition of a well-formed
    document. For the lookup `LookInv` adds that no child of the root up to the
    current position is the package looked for, and `UnderRoot` that these children
    are the elements of depth 1.

What is assumed of the constants is in the `ASSUME` of each module, and is no more
than the types of the inputs and what the code relies on: names in an index file
contain no comma (`IndexAssumption`), years have four digits (`ClockAssumption`),
the separator is no character of a name and numbers have no dot
(`StudentsAssumption`), a text is a sequence of characters (`TokenAssumption`).
The theorems of `InstallRun` have the disturbances they
exclude as a hypothesis, and each is needed, as TLC shows: a failing extraction
after a crash installs an old .apk; a crash leaves an .apk; a note cut off, a crash,
a missing DLL, or a removal of the note that lands late once the package on the PC
has been exchanged for another one, turn a tablet without a note away.
`InstallRun_faulty` and `InstallRun_promise` are instances.

Further theorems of `InstallRun_proofs`: `PackageCurrent` (`OnlyCurrentPackage`,
under `NoStaleApk`) and `ApksDeleted` (`NoApkLeft`, without crashes) from
`FInv == Typed /\ ArchivesOwn /\ Spare /\ Fresh`: the archives in the temp folder
are of this run's package or absent once they were deleted, and an .apk there
belongs to the row at hand; `UnmarkedNotTurnedAway` (`UnmarkedIsInstalled`, under
`NoteWhole`) from `MarkOK`, which follows the temp note. `Registration_proofs` has
`TypeCorrect` too: what stands where a name is expected is the name of a student of
the table, whose names no update changes, empty, or was never initialised.

Only model-checked: liveness (`RunEnds`, `Unattended`, `CallsEnd`), which the
prover cannot do; the second half of `PiecesFound` and `AttribRight` of `TokenPos`,
which hold of texts made of proper pieces and so need a grammar of these, where
the runs have a list of them; and `TreeAgrees` and `FileRight` of `Preferred`,
whose recursive operators the prover cannot take.

## 5. What is not modelled, and the plan

Not modelled:

* the MFC shell, texts, the progress bar, buffers of fixed size, the language of
  the tablet, the student's picture and the remaining launcher keys (each a chain
  of adb commands whose results nobody reads and which touch nothing the
  properties speak of); `Upload_Packages_index`, whose call is commented out;
* the headers of MySQL, SQLite and zlib: declarations of libraries that are not
  in the repository;
* CMarkup's removal of elements, nodes other than elements, sub-documents, file
  mode, encodings and entities: xmlDlg.cpp uses none of them.

So most of the repository's lines have no model: of 24,677 lines of code about
3,400 are the program's own, the rest being those headers and the functions of
CMarkup it never calls. A part is modelled where the program runs it.
`Fixed_preferred_Item` is modelled although its call is commented out
(AutoAppInstallDlg.cpp:893): it is complete, and it is the only user of
CMarkup's editing.

Assumed of what lies outside: a timer may be stopped and set from a worker's
thread; adb pull replaces a file; adb push makes the folder, replaces the file
and loses its mode and owner; adb install without -r refuses an application
already there; the tablet's `date -s` takes the fields of its argument from the
right; `CB_FINDSTRING` looks for a prefix, begins after the given entry and
wraps around; MySQL compares MACs and names exactly; a crash loses the program's
memory and nothing on disk.

Seen in CMarkup and left as it is, since packages.xml does not contain it: after
an element without an end tag the link to the previous sibling may be wrong
(Markup.cpp:945); `FindAttrib` runs past its tag when a quote is not closed; a
comment that begins with `>` or `->` ends at once. The properties of `Markup`
and `TokenPos` name these exceptions in their premises.

Seen in `Fixed_preferred_Item`: an item whose first filter is for neither MAIN
nor VIEW leaves the position inside that filter, where the loop finds no further
item; the items behind it keep their names, an item for VIEW among them is not
seen, and every call adds another one. `FileRight` says what holds all the same
(nothing else in the file changes) and what holds without such an item.

Seen in `set_System_Time`: the fields are not padded, as the comment beside it
shows them; `Clock_padding` shows a tablet set wrong, and the theorem `ClockSet`
says exactly for which dates and times it gets the PC's clock.

Plan (done: the modules of section 2 and their proofs of section 4). Left:

1. `TokenPos`: that a text made of proper pieces is cut into just these, from a
   grammar of the pieces.
2. `Dialog` composed with `InstallRun`: two workers on one temp folder after a
   lapse.
