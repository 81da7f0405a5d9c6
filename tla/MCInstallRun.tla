--------------------------- MODULE MCInstallRun ---------------------------
(***************************************************************************)
(* Two tablets, two applications and three packages: a first installation, *)
(* an upgrade that also removes an application, and a removal package      *)
(* (more 'U' rows than 'I' rows, so that the version note is deleted).     *)
(***************************************************************************)
EXTENDS InstallRun, TLC

CONSTANTS d1, d2, a, b

MCPackages ==
  { [ver |-> 1, rows |-> <<[act |-> "I", app |-> a], [act |-> "I", app |-> b]>>],
    [ver |-> 2, rows |-> <<[act |-> "I", app |-> b], [act |-> "U", app |-> a]>>],
    [ver |-> 3, rows |-> <<[act |-> "U", app |-> a], [act |-> "U", app |-> b]>>] }

\* For the runs with many disturbances: one installation and one removal.
MCTwoPackages == {p \in MCPackages : p.ver # 2}

Tablets == Permutations(Devices)
=============================================================================
