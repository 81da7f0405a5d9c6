------------------------ MODULE PackageData_proofs ------------------------
(***************************************************************************)
(* Facts about packages and about the tables of applications of all the    *)
(* tablets, used by the proofs about Provisioning and InstallRun.          *)
(***************************************************************************)
EXTENDS PackageData, TLAPS

Table == [Devices -> [Apps -> Installed]]

(***************************************************************************)
(* The parts of a package are typed, a package has at most one row per     *)
(* application, and the markers for "nothing" are no version numbers.      *)
(***************************************************************************)
LEMMA PackageFacts ==
  ASSUME NEW p \in Packages
  PROVE  /\ p.ver \in Nat /\ p.rows \in Seq(Row)
         /\ \A k \in DOMAIN p.rows :
              /\ p.rows[k] \in Row /\ p.rows[k].app \in Apps
              /\ Want(p, p.rows[k]) \in Installed
         /\ \A j, k \in DOMAIN p.rows :
              p.rows[j].app = p.rows[k].app => p.rows[j] = p.rows[k]
<1>1. p.ver \in Nat /\ p.rows \in Seq(Row)
  BY DataAssumption DEF Package
<1>2. \A k \in DOMAIN p.rows : p.rows[k] \in Row
  BY <1>1
<1>3. \A k \in DOMAIN p.rows : p.rows[k].app \in Apps
  BY <1>2 DEF Row
<1>4. \A k \in DOMAIN p.rows : Want(p, p.rows[k]) \in Installed
  BY <1>1 DEF Want, Installed
<1>5. \A j, k \in DOMAIN p.rows :
        p.rows[j].app = p.rows[k].app => p.rows[j] = p.rows[k]
  BY DataAssumption
<1> QED
  BY <1>1, <1>2, <1>3, <1>4, <1>5

(***************************************************************************)
(* Writing one entry of the table changes that entry and no other.         *)
(***************************************************************************)
LEMMA Put ==
  ASSUME NEW f \in Table, NEW d \in Devices, NEW x \in Apps, NEW v \in Installed,
         NEW g, g = [f EXCEPT ![d][x] = v]
  PROVE  /\ g \in Table
         /\ \A e \in Devices, y \in Apps :
              g[e][y] = IF e = d /\ y = x THEN v ELSE f[e][y]
<1> DEFINE h == [f[d] EXCEPT ![x] = v]
<1> USE DEF Table
<1>1. /\ h \in [Apps -> Installed] /\ h[x] = v
      /\ \A y \in Apps : y # x => h[y] = f[d][y]
  OBVIOUS
<1> HIDE DEF h
<1>2. g = [f EXCEPT ![d] = h]
  BY DEF h
<1> QED
  BY <1>1, <1>2

(***************************************************************************)
(* Carrying out a row on one tablet undoes no row of the package on any:   *)
(* an application has one row, which always wants the same.                *)
(***************************************************************************)
LEMMA RowKeeps ==
  ASSUME NEW p \in Packages, NEW k \in DOMAIN p.rows, NEW d \in Devices,
         NEW f \in Table, NEW g,
         g = f \/ g = [f EXCEPT ![d][p.rows[k].app] = Want(p, p.rows[k])]
  PROVE  /\ g \in Table
         /\ \A e \in Devices, j \in DOMAIN p.rows :
              f[e][p.rows[j].app] = Want(p, p.rows[j])
                => g[e][p.rows[j].app] = Want(p, p.rows[j])
<1> DEFINE r == p.rows[k]  w == Want(p, r)
<1>1. r.app \in Apps /\ w \in Installed
  BY PackageFacts
<1>2. \A j \in DOMAIN p.rows :
        p.rows[j].app \in Apps /\ (p.rows[j].app = r.app => Want(p, p.rows[j]) = w)
  BY PackageFacts
<1>3. CASE g = f
  BY <1>3
<1>4. CASE g = [f EXCEPT ![d][r.app] = w]
  <2> HIDE DEF r, w
  <2>1. /\ g \in Table
        /\ \A e \in Devices, y \in Apps :
             g[e][y] = IF e = d /\ y = r.app THEN w ELSE f[e][y]
    BY <1>1, <1>4, Put DEF Table
  <2>2. ASSUME NEW e \in Devices, NEW j \in DOMAIN p.rows,
               f[e][p.rows[j].app] = Want(p, p.rows[j])
        PROVE  g[e][p.rows[j].app] = Want(p, p.rows[j])
    <3>1. g[e][p.rows[j].app] = IF e = d /\ p.rows[j].app = r.app THEN w
                                ELSE f[e][p.rows[j].app]
      BY <1>2, <2>1
    <3> QED
      BY <1>2, <2>2, <3>1
  <2> QED
    BY <2>1, <2>2
<1> QED
  BY <1>3, <1>4
=============================================================================
