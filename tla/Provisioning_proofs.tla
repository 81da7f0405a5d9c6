------------------------ MODULE Provisioning_proofs ------------------------
(***************************************************************************)
(* What the promise alone guarantees, for any tablets and packages.        *)
(***************************************************************************)
EXTENDS Provisioning, PackageData_proofs

Bounded == \A d \in Devices : marker[d] \in Nat => marker[d] <= pkg.ver

AType ==
  /\ pkg \in Packages
  /\ marker \in [Devices -> Note]
  /\ apps \in Table
  /\ prot \in Table
  /\ busy \in Devices \cup {NONE}

\* Bounded keeps a newer package from matching an old note by accident.
AInv == AType /\ Bounded /\ MarkerTruthful

\* Every step of the promise keeps the invariant.
LEMMA AInvInductive == AInv /\ [ANext]_avars => AInv'
<1> SUFFICES ASSUME AInv, [ANext]_avars PROVE AInv'
  OBVIOUS
<1> USE DEF AInv
<1>1. CASE AReplace
  <2>1. PICK p \in Packages : p.ver > pkg.ver /\ pkg' = p
    BY <1>1 DEF AReplace
  <2>2. p.ver \in Nat /\ pkg.ver \in Nat
    BY PackageFacts DEF AType
  <2>3. AType'
    BY <1>1, <2>1 DEF AReplace, AType
  <2>4. Bounded' /\ MarkerTruthful'
    BY <1>1, <2>1, <2>2 DEF AReplace, Bounded, MarkerTruthful
  <2> QED
    BY <2>3, <2>4
<1>2. CASE ABegin
  BY <1>2 DEF ABegin, AType, Bounded, MarkerTruthful, Delivered, RowDone
<1>3. CASE ADeliver
  <2>1. PICK k \in DOMAIN pkg.rows :
          LET r == pkg.rows[k]
          IN  /\ \/ apps' = [apps EXCEPT ![busy][r.app] = Want(pkg, r)]
                 \/ UNCHANGED apps
              /\ \/ prot' = [prot EXCEPT ![busy][r.app] = Want(pkg, r)]
                 \/ UNCHANGED prot
    BY <1>3 DEF ADeliver
  <2>2. UNCHANGED <<pkg, marker, busy>> /\ busy \in Devices
    BY <1>3 DEF ADeliver, AType
  <2>3. /\ apps' \in Table
        /\ \A e \in Devices, j \in DOMAIN pkg.rows :
             apps[e][pkg.rows[j].app] = Want(pkg, pkg.rows[j])
               => apps'[e][pkg.rows[j].app] = Want(pkg, pkg.rows[j])
    BY <2>1, <2>2, RowKeeps DEF AType
  <2>4. /\ prot' \in Table
        /\ \A e \in Devices, j \in DOMAIN pkg.rows :
             prot[e][pkg.rows[j].app] = Want(pkg, pkg.rows[j])
               => prot'[e][pkg.rows[j].app] = Want(pkg, pkg.rows[j])
    BY <2>1, <2>2, RowKeeps DEF AType
  <2>5. AType' /\ Bounded'
    BY <2>2, <2>3, <2>4 DEF AType, Bounded
  <2>6. MarkerTruthful'
    BY <2>2, <2>3, <2>4 DEF MarkerTruthful, Delivered, RowDone
  <2> QED
    BY <2>5, <2>6
<1>4. CASE ACertify
  <2>1. AType'
    BY <1>4, PackageFacts DEF ACertify, AType, Note
  <2>2. Bounded' /\ MarkerTruthful'
    BY <1>4, PackageFacts DEF ACertify, AType, Bounded, MarkerTruthful, Delivered, RowDone
  <2> QED
    BY <2>1, <2>2
<1>5. CASE ARetract
  <2>1. PICK v \in {NONE, EMPTY} \cup (0 .. pkg.ver - 1) :
          marker' = [marker EXCEPT ![busy] = v]
    BY <1>5 DEF ARetract
  <2>2. pkg.ver \in Nat /\ v \in Note /\ (v \in Nat => v < pkg.ver) /\ v # pkg.ver
    BY PackageFacts, DataAssumption DEF AType, Note
  <2>3. AType' /\ Bounded' /\ MarkerTruthful'
    BY <1>5, <2>1, <2>2 DEF ARetract, AType, Bounded, MarkerTruthful, Delivered, RowDone
  <2> QED
    BY <2>3
<1>6. CASE AEnd
  BY <1>6 DEF AEnd, AType, Bounded, MarkerTruthful, Delivered, RowDone
<1>7. CASE UNCHANGED avars
  BY <1>7 DEF avars, AType, Bounded, MarkerTruthful, Delivered, RowDone
<1>8. CASE ALose
  <2>1. \A d \in Devices : marker'[d] \in {marker[d], NONE}
    BY <1>8 DEF ALose, AType
  <2>2. pkg.ver \in Nat /\ NONE \notin Nat
    BY PackageFacts, DataAssumption DEF AType
  <2>3. AType'
    BY <1>8 DEF ALose, AType, Note
  <2>4. Bounded' /\ MarkerTruthful'
    BY <1>8, <2>1, <2>2 DEF ALose, Bounded, MarkerTruthful, Delivered, RowDone
  <2> QED
    BY <2>3, <2>4
<1> QED
  BY <1>1, <1>2, <1>3, <1>4, <1>5, <1>6, <1>7, <1>8 DEF ANext

(***************************************************************************)
(* The promise keeps the version notes truthful: the note of no tablet is  *)
(* ever that of the package on the PC unless the package was delivered.    *)
(***************************************************************************)
THEOREM PromiseTruthful == ASpec => []MarkerTruthful
<1>1. AInit => AInv
  <2> SUFFICES ASSUME AInit PROVE AInv
    OBVIOUS
  <2>1. AType
    BY DEF AInit, AType, Note, Installed, Table
  <2>2. NONE \notin Nat /\ pkg.ver \in Nat
    BY <2>1, DataAssumption, PackageFacts DEF AType
  <2>3. Bounded /\ MarkerTruthful
    BY <2>2 DEF AInit, Bounded, MarkerTruthful
  <2> QED
    BY <2>1, <2>3 DEF AInv
<1>2. AInv => MarkerTruthful
  BY DEF AInv
<1> QED
  BY <1>1, <1>2, AInvInductive, PTL DEF ASpec
=============================================================================
