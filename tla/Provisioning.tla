--------------------------- MODULE Provisioning ---------------------------
(***************************************************************************)
(* What an installation promises about a tablet, whatever the order of the *)
(* commands and wherever the program dies: the version note on the tablet  *)
(* (Installed.txt) names a package only if every row of that package was   *)
(* carried out on that tablet.  InstallRun is shown to implement it.       *)
(***************************************************************************)
EXTENDS PackageData

VARIABLES
  pkg,        \* the package on the PC
  marker,     \* marker[d]: the version note on tablet d
  apps,       \* apps[d][a]: the version of application a installed on d
  prot,       \* prot[d][a]: the version of its protected copy in /data/app
  busy        \* the tablet an installation is working on, or NONE

avars == <<pkg, marker, apps, prot, busy>>

\* Row r of package p has been carried out on tablet d.
RowDone(d, p, r) == apps[d][r.app] = Want(p, r) /\ prot[d][r.app] = Want(p, r)

Delivered(d, p) == \A k \in DOMAIN p.rows : RowDone(d, p, p.rows[k])

-----------------------------------------------------------------------------
AInit ==
  /\ pkg \in Packages
  /\ marker = [d \in Devices |-> NONE]
  /\ apps = [d \in Devices |-> [a \in Apps |-> NONE]]
  /\ prot = [d \in Devices |-> [a \in Apps |-> NONE]]
  /\ busy = NONE

\* The operator puts a newer package on the PC between two installations.
AReplace ==
  /\ busy = NONE
  /\ \E p \in Packages : p.ver > pkg.ver /\ pkg' = p
  /\ UNCHANGED <<marker, apps, prot, busy>>

ABegin ==
  /\ busy = NONE
  /\ \E d \in Devices : busy' = d
  /\ UNCHANGED <<pkg, marker, apps, prot>>

\* One row of the package has an effect on the tablet being installed.
ADeliver ==
  /\ busy # NONE
  /\ \E k \in DOMAIN pkg.rows :
       LET r == pkg.rows[k]
       IN  /\ \/ apps' = [apps EXCEPT ![busy][r.app] = Want(pkg, r)]
              \/ UNCHANGED apps
           /\ \/ prot' = [prot EXCEPT ![busy][r.app] = Want(pkg, r)]
              \/ UNCHANGED prot
  /\ UNCHANGED <<pkg, marker, busy>>

\* Only a complete delivery may be noted on the tablet.
ACertify ==
  /\ busy # NONE
  /\ Delivered(busy, pkg)
  /\ marker' = [marker EXCEPT ![busy] = pkg.ver]
  /\ UNCHANGED <<pkg, apps, prot, busy>>

\* The note is removed, damaged by a push that was cut off, or replaced by an
\* older one: each costs a needless installation and promises nothing.
ARetract ==
  /\ busy # NONE
  /\ \E v \in {NONE, EMPTY} \cup (0 .. pkg.ver - 1) :
        marker' = [marker EXCEPT ![busy] = v]
  /\ UNCHANGED <<pkg, apps, prot, busy>>

\* A removal that was sent earlier takes effect, on whichever tablet.
ALose ==
  /\ \E d \in Devices : marker' = [marker EXCEPT ![d] = NONE]
  /\ UNCHANGED <<pkg, apps, prot, busy>>

AEnd ==
  /\ busy # NONE
  /\ busy' = NONE
  /\ UNCHANGED <<pkg, marker, apps, prot>>

ANext == AReplace \/ ABegin \/ ADeliver \/ ACertify \/ ARetract \/ ALose \/ AEnd

ASpec == AInit /\ [][ANext]_avars

(***************************************************************************)
(* A tablet that carries the version of the package on the PC, and will    *)
(* therefore be turned away as "already the latest", holds everything that *)
(* package installs and nothing that it removes.                           *)
(***************************************************************************)
MarkerTruthful ==
  \A d \in Devices : marker[d] = pkg.ver => Delivered(d, pkg)

=============================================================================
