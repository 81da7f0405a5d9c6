-------------------------- MODULE Personal_proofs --------------------------
(***************************************************************************)
(* Proofs about Personal, for any tablets and students.  The local copy is *)
(* at every step the tablet's own database, edited as far as pc says: that *)
(* is the inductive invariant, and no step of it looks at earlier runs.    *)
(***************************************************************************)
EXTENDS Personal, SequenceTheorems, TLAPS

NewTile == [title |-> student, filled |-> TRUE]

\* What the local settings.db is, between its pull and its push.
SetCopy ==
  /\ pc = "edit" => locSet = settings[dev]
  /\ pc = "push" => locSet \in {settings[dev], [settings[dev] EXCEPT !.for = student]}

\* What the local tiledb is, if its transfers have worked.
TileCopy ==
  ~spoilt =>
    /\ pc = "insert" => locTile = tiles[dev]
    /\ pc = "delete" =>
         /\ Relabels(tiles[dev])
         /\ locTile = [tiles[dev] EXCEPT !.home = Append(@, NewTile)]
    /\ pc = "pushTile" =>
         \/ locTile = tiles[dev]
         \/ /\ Relabels(tiles[dev])
            /\ locTile = [tiles[dev] EXCEPT !.home = Append(Tail(@), NewTile)]

\* A tile is only deleted after one was appended.
Appended == pc = "delete" => locTile.home # <<>>

IInv == TypeOK /\ Appended /\ SetCopy /\ TileCopy

-----------------------------------------------------------------------------
\* Appending a row and dropping the first gives the same as the other way
\* round, if there is a first.
LEMMA TailAppend ==
  ASSUME NEW S, NEW s \in Seq(S), s # <<>>, NEW x \in S
  PROVE  /\ Tail(Append(s, x)) = Append(Tail(s), x)
         /\ Append(s, x) # <<>>
         /\ Append(s, x) \in Seq(S) /\ Tail(Append(s, x)) \in Seq(S)
<1>1. \A t \in Seq(S) :
        /\ Append(t, x) \in Seq(S) /\ Append(t, x) # <<>>
        /\ Len(Append(t, x)) = Len(t) + 1
        /\ \A k \in 1 .. Len(t) : Append(t, x)[k] = t[k]
        /\ Append(t, x)[Len(t) + 1] = x
  BY AppendProperties
<1>2. \A t \in Seq(S) : t # <<>> =>
        /\ Tail(t) \in Seq(S) /\ Len(Tail(t)) = Len(t) - 1
        /\ \A k \in 1 .. Len(t) - 1 : Tail(t)[k] = t[k + 1]
  BY HeadTailProperties
<1>3. Len(s) \in Nat \ {0}
  BY EmptySeq
<1>4. Tail(Append(s, x)) \in Seq(S) /\ Len(Tail(Append(s, x))) = Len(s)
  BY <1>1, <1>2, <1>3
<1>5. Append(Tail(s), x) \in Seq(S) /\ Len(Append(Tail(s), x)) = Len(s)
  BY <1>1, <1>2, <1>3
<1>6. ASSUME NEW k \in 1 .. Len(s)
      PROVE  Tail(Append(s, x))[k] = Append(Tail(s), x)[k]
  <2>1. Tail(Append(s, x))[k] = Append(s, x)[k + 1]
    BY <1>1, <1>2, <1>3
  <2>2. CASE k = Len(s)
    BY <1>1, <1>2, <1>3, <2>1, <2>2
  <2>3. CASE k < Len(s)
    <3>1. k + 1 \in 1 .. Len(s) /\ k \in 1 .. Len(Tail(s))
      BY <1>2, <1>3, <2>3
    <3>2. Append(s, x)[k + 1] = s[k + 1] /\ Tail(s)[k] = s[k + 1]
      BY <1>1, <1>2, <3>1
    <3>3. Append(Tail(s), x)[k] = Tail(s)[k]
      BY <1>1, <1>2, <3>1
    <3> QED
      BY <2>1, <3>2, <3>3
  <2> QED
    BY <1>3, <2>2, <2>3
<1>7. Tail(Append(s, x)) = Append(Tail(s), x)
  BY <1>4, <1>5, <1>6, SeqEqual
<1> QED
  BY <1>1, <1>4, <1>7

\* The program starts with nothing in its folder.
LEMMA InitInv == PsInit => IInv
<1> SUFFICES ASSUME PsInit PROVE IInv
  OBVIOUS
<1>1. settings \in [Devices -> Settings]
  BY DEF PsInit, Settings
<1>2. ASSUME NEW d \in Devices, NEW t \in FactoryTiles(d) PROVE t \in Tiles
  <2>1. PICK f \in BOOLEAN : t = [own |-> d, home |-> <<[title |-> ABSENT, filled |-> f]>>]
    BY <1>2 DEF FactoryTiles
  <2>2. [title |-> ABSENT, filled |-> f] \in Tile
    BY DEF Tile
  <2> QED
    BY <2>1, <2>2 DEF Tiles
<1>3. tiles \in [Devices -> Tiles]
  BY <1>2 DEF PsInit
<1>4. TypeOK
  BY <1>1, <1>3 DEF PsInit, TypeOK, Steps
<1> QED
  BY <1>4 DEF PsInit, IInv, Appended, SetCopy, TileCopy

\* Every variable keeps its type, and every edit finds its file.
LEMMA TypeInductive == TypeOK /\ Appended /\ [PsNext]_psVars => TypeOK' /\ Appended'
<1> SUFFICES ASSUME TypeOK, Appended, [PsNext]_psVars PROVE TypeOK' /\ Appended'
  OBVIOUS
<1> USE DEF Goto, Steps, tablets, folder, held, run, Appended
<1>0. /\ student \in Students /\ dev \in Devices
      /\ NoSettings \in Settings /\ NoTiles \in Tiles
      /\ settings[dev] \in Settings /\ tiles[dev] \in Tiles
      /\ ABSENT \notin Settings /\ ABSENT \notin Tiles
  <2>1. NoSettings \in Settings
    BY DEF NoSettings, Settings
  <2>2. NoTiles \in Tiles
    BY DEF NoTiles, Tiles
  <2> QED
    BY <2>1, <2>2, AbsentAssumption DEF TypeOK
<1>1. CASE BeginRun
  BY <1>1 DEF BeginRun, TypeOK
<1>2. CASE Restart
  BY <1>2 DEF Restart, TypeOK
<1>3. CASE PullSettings
  BY <1>0, <1>3 DEF PullSettings, TypeOK, TilesNext
<1>4. CASE EditSettings
  <2>1. locSet \in Settings
    BY <1>4 DEF EditSettings, TypeOK
  <2>2. [locSet EXCEPT !.for = student] \in Settings
    BY <1>0, <2>1 DEF Settings
  <2>3. locSet' \in Settings /\ heldSet' \in BOOLEAN
    BY <1>4, <2>1, <2>2 DEF EditSettings, Readable, TypeOK
  <2> QED
    BY <1>0, <1>4, <2>3 DEF EditSettings, TypeOK
<1>5. CASE PushSettings
  <2>1. locSet \in Settings
    BY <1>5 DEF PushSettings, TypeOK
  <2>2. settings' \in [Devices -> Settings]
    BY <1>0, <1>5, <2>1 DEF PushSettings, TypeOK
  <2> QED
    BY <1>0, <1>5, <2>1, <2>2 DEF PushSettings, TypeOK
<1>6. CASE EditSettings2
  <2>1. locSet \in Settings
    BY <1>6 DEF EditSettings2, TypeOK
  <2>2. [locSet EXCEPT !.ime = TRUE] \in Settings
    BY <1>0, <2>1 DEF Settings
  <2>3. locSet' \in Settings /\ heldSet' \in BOOLEAN
    BY <1>6, <2>1, <2>2 DEF EditSettings2, Readable, TypeOK
  <2> QED
    BY <1>0, <1>6, <2>3 DEF EditSettings2, TypeOK, TilesNext
<1>7. CASE PullTiles
  <2>1. locTile' \in Tiles \cup {ABSENT} /\ spoilt' \in BOOLEAN
    BY <1>0, <1>7 DEF PullTiles, TypeOK
  <2> QED
    BY <1>7, <2>1 DEF PullTiles, TypeOK
<1>8. CASE InsertTile
  <2>1. Opened \in Tiles
    BY <1>0 DEF Opened, TypeOK
  <2>2. Opened.home \in Seq(Tile) /\ NewTile \in Tile
    BY <1>0, <2>1 DEF Tiles, Tile, NewTile
  <2>3. Append(Opened.home, NewTile) \in Seq(Tile) /\ Append(Opened.home, NewTile) # <<>>
    BY <2>2, AppendProperties
  <2>4. [Opened EXCEPT !.home = Append(Opened.home, NewTile)] \in Tiles
    BY <2>1, <2>3 DEF Tiles
  <2>5. locTile' \in Tiles /\ (pc' = "delete" => locTile'.home # <<>>)
    BY <1>8, <2>1, <2>3, <2>4 DEF InsertTile, NewTile, Tiles
  <2> QED
    BY <1>0, <1>8, <2>5 DEF InsertTile, TypeOK
<1>9. CASE DeleteTile
  <2>1. locTile \in Tiles /\ locTile.home \in Seq(Tile) /\ locTile.home # <<>>
    BY <1>9 DEF DeleteTile, TypeOK, Tiles
  <2>2. Tail(locTile.home) \in Seq(Tile)
    BY <2>1, HeadTailProperties
  <2>3. locTile' \in Tiles
    BY <1>9, <2>1, <2>2 DEF DeleteTile, Tiles
  <2> QED
    BY <1>0, <1>9, <2>3 DEF DeleteTile, TypeOK
<1>10. CASE PushTiles
  <2>1. locTile \in Tiles
    BY <1>10 DEF PushTiles, TypeOK
  <2>2. tiles' \in [Devices -> Tiles] /\ spoilt' \in BOOLEAN
    BY <1>0, <1>10, <2>1 DEF PushTiles, TypeOK
  <2> QED
    BY <1>10, <2>1, <2>2 DEF PushTiles, TypeOK
<1>11. CASE EndRun
  BY <1>11 DEF EndRun, TypeOK
<1>12. CASE UNCHANGED psVars
  BY <1>12 DEF psVars, TypeOK
<1> QED
  BY <1>1, <1>2, <1>3, <1>4, <1>5, <1>6, <1>7, <1>8, <1>9, <1>10, <1>11, <1>12
     DEF PsNext, Worker

\* The local settings.db is the tablet's own, edited as far as pc says.
LEMMA SetInductive == IInv /\ [PsNext]_psVars => SetCopy'
<1> SUFFICES ASSUME IInv, [PsNext]_psVars PROVE SetCopy'
  OBVIOUS
<1> USE DEF IInv, SetCopy, Goto, tablets, folder, run
<1>1. CASE PullSettings
  BY <1>1 DEF PullSettings, TilesNext
<1>2. CASE EditSettings
  BY <1>2 DEF EditSettings
<1>3. CASE UNCHANGED psVars
  BY <1>3 DEF psVars
<1>4. ASSUME PsNext PROVE PullSettings \/ EditSettings \/ pc' \notin {"edit", "push"}
  BY <1>4 DEF PsNext, Worker, BeginRun, Restart, PushSettings, EditSettings2, PullTiles,
     InsertTile, DeleteTile, PushTiles, EndRun, TilesNext
<1> QED
  BY <1>1, <1>2, <1>3, <1>4

\* So is the local tiledb, in a run whose transfers have worked.
LEMMA TileInductive == IInv /\ [PsNext]_psVars => TileCopy'
<1> SUFFICES ASSUME IInv, [PsNext]_psVars, ~spoilt' PROVE TileCopy'
  BY DEF TileCopy
<1> USE DEF IInv, Goto, tablets, folder, run
<1>1. CASE PullTiles
  BY <1>1 DEF PullTiles, TileCopy
<1>2. CASE InsertTile
  <2>1. locTile = tiles[dev] /\ tiles[dev] \in Tiles /\ UNCHANGED <<tiles, dev, student>>
    BY <1>2 DEF InsertTile, TileCopy, TypeOK
  <2>2. Opened = tiles[dev]
    BY <2>1, AbsentAssumption DEF Opened
  <2>3. CASE Relabels(Opened)
    <3>1. pc' = "delete" /\ locTile' = [tiles[dev] EXCEPT !.home = Append(@, NewTile)]
      BY <1>2, <2>2, <2>3 DEF InsertTile, NewTile
    <3> QED
      BY <2>1, <2>2, <2>3, <3>1 DEF TileCopy, Relabels, NewTile
  <2>4. CASE ~Relabels(Opened)
    BY <1>2, <2>1, <2>2, <2>4 DEF InsertTile, TileCopy
  <2> QED
    BY <2>3, <2>4
<1>3. CASE DeleteTile
  <2>1. /\ Relabels(tiles[dev]) /\ UNCHANGED <<tiles, dev, student>>
        /\ locTile = [tiles[dev] EXCEPT !.home = Append(@, NewTile)]
        /\ pc' = "pushTile" /\ locTile' = [locTile EXCEPT !.home = Tail(@)]
    BY <1>3 DEF DeleteTile, TileCopy
  <2>2. tiles[dev] \in Tiles /\ tiles[dev].home \in Seq(Tile) /\ NewTile \in Tile
    BY DEF TypeOK, Tiles, Tile, NewTile
  <2>3. Tail(Append(tiles[dev].home, NewTile)) = Append(Tail(tiles[dev].home), NewTile)
    BY <2>1, <2>2, TailAppend DEF Relabels
  <2>4. locTile' = [tiles[dev] EXCEPT !.home = Append(Tail(@), NewTile)]
    BY <2>1, <2>2, <2>3 DEF Tiles
  <2> QED
    BY <2>1, <2>4 DEF TileCopy, Relabels, NewTile
<1>4. CASE UNCHANGED psVars
  BY <1>4 DEF psVars, TileCopy, Relabels, NewTile
<1>5. ASSUME PsNext
      PROVE  \/ PullTiles \/ InsertTile \/ DeleteTile
             \/ pc' \notin {"insert", "delete", "pushTile"}
  BY <1>5 DEF PsNext, Worker, BeginRun, Restart, PullSettings, EditSettings,
     PushSettings, EditSettings2, PushTiles, EndRun, TilesNext
<1>6. CASE pc' \notin {"insert", "delete", "pushTile"}
  BY <1>6 DEF TileCopy
<1> QED
  BY <1>1, <1>2, <1>3, <1>4, <1>5, <1>6

\* The invariant holds at the start and is kept.
LEMMA Inductive == IInv /\ [PsNext]_psVars => IInv'
  BY TypeInductive, SetInductive, TileInductive DEF IInv

(***************************************************************************)
(* The databases, on the tablets and in the program's folder, keep their   *)
(* types, and no edit or push is made without a file.                      *)
(***************************************************************************)
THEOREM TypeCorrect == PsSpec => []TypeOK
<1>1. IInv => TypeOK
  BY DEF IInv
<1> QED
  BY InitInv, Inductive, <1>1, PTL DEF PsSpec

(***************************************************************************)
(* For any tablets and students and with transfers and runs that fail      *)
(* anywhere, a tablet's settings.db changes only by its own address being  *)
(* set for the student of the run, or is cut off.                          *)
(***************************************************************************)
THEOREM SettingsAtomic == PsSpec => SettingsOwn
<1> DEFINE Own == \A d \in Devices :
       settings'[d] \in {settings[d], NoSettings, [settings[d] EXCEPT !.for = student]}
       /\ (d # dev => settings'[d] = settings[d])
<1>1. IInv /\ [PsNext]_psVars => [Own]_psVars
  <2> SUFFICES ASSUME IInv, [PsNext]_psVars PROVE Own \/ UNCHANGED psVars
    OBVIOUS
  <2>1. CASE PushSettings
    <3>1. locSet \in {settings[dev], [settings[dev] EXCEPT !.for = student]}
      BY <2>1 DEF PushSettings, Goto, IInv, SetCopy
    <3>2. settings \in [Devices -> Settings] /\ dev \in Devices
      BY DEF IInv, TypeOK
    <3>3. settings' \in {settings, [settings EXCEPT ![dev] = locSet],
                         [settings EXCEPT ![dev] = NoSettings]}
      BY <2>1 DEF PushSettings
    <3> QED
      BY <3>1, <3>2, <3>3
  <2>2. CASE UNCHANGED settings
    BY <2>2
  <2>3. ASSUME PsNext PROVE PushSettings \/ UNCHANGED settings
    BY <2>3 DEF PsNext, Worker, BeginRun, Restart, PullSettings, EditSettings,
       EditSettings2, PullTiles, InsertTile, DeleteTile, PushTiles, EndRun, tablets
  <2> QED
    BY <2>1, <2>2, <2>3
<1> QED
  BY InitInv, Inductive, <1>1, PTL DEF PsSpec, SettingsOwn

(***************************************************************************)
(* For any tablets and students, in a run whose transfers of tiledb work,  *)
(* the tablet's own home tile gets the student's title and nothing else    *)
(* changes; otherwise only the tablet at hand suffers.                     *)
(***************************************************************************)
THEOREM TilesAtomic == PsSpec => TilesKept
<1> DEFINE Kept == \A d \in Devices :
       \/ tiles'[d] = tiles[d]
       \/ d = dev /\ spoilt'
       \/ /\ d = dev /\ Relabels(tiles[d])
          /\ tiles'[d] = [tiles[d] EXCEPT
               !.home = Append(Tail(@), [title |-> student, filled |-> TRUE])]
<1>1. IInv /\ [PsNext]_psVars => [Kept]_psVars
  <2> SUFFICES ASSUME IInv, [PsNext]_psVars PROVE Kept \/ UNCHANGED psVars
    OBVIOUS
  <2>1. CASE PushTiles
    <3>1. tiles \in [Devices -> Tiles] /\ dev \in Devices
      BY DEF IInv, TypeOK
    <3>2. \A d \in Devices : d # dev => tiles'[d] = tiles[d]
      BY <2>1, <3>1 DEF PushTiles
    <3>3. CASE spoilt'
      BY <3>2, <3>3
    <3>4. CASE ~spoilt'
      <4>1. tiles'[dev] = locTile /\ ~spoilt /\ pc = "pushTile"
        BY <2>1, <3>1, <3>4 DEF PushTiles, Goto
      <4>2. \/ locTile = tiles[dev]
            \/ /\ Relabels(tiles[dev])
               /\ locTile = [tiles[dev] EXCEPT !.home = Append(Tail(@), NewTile)]
        BY <4>1 DEF IInv, TileCopy
      <4> QED
        BY <3>2, <4>1, <4>2 DEF NewTile
    <3> QED
      BY <3>3, <3>4
  <2>2. CASE UNCHANGED tiles
    BY <2>2
  <2>3. ASSUME PsNext PROVE PushTiles \/ UNCHANGED tiles
    BY <2>3 DEF PsNext, Worker, BeginRun, Restart, PullSettings, EditSettings,
       PushSettings, EditSettings2, PullTiles, InsertTile, DeleteTile, EndRun, tablets
  <2> QED
    BY <2>1, <2>2, <2>3
<1> QED
  BY InitInv, Inductive, <1>1, PTL DEF PsSpec, TilesKept
=============================================================================
