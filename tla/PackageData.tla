---------------------------- MODULE PackageData ----------------------------
(***************************************************************************)
(* The data an installation moves: packages, index rows and version notes. *)
(***************************************************************************)
EXTENDS Integers, Sequences

CONSTANTS
  Devices,    \* the tablets that may be plugged in
  Apps,       \* the applications the index files name
  Packages,   \* the packages (I.bin + IP.bin + C.bin) an operator may put on the PC
  NONE,       \* "no file", "not installed", "nobody"
  EMPTY       \* a version file of length zero

(***************************************************************************)
(* A package has a version number (kept in its Installed.txt) and an index *)
(* (I.txt): one row per application, 'I' to install it, 'U' to remove it.  *)
(***************************************************************************)
Row     == [act : {"I", "U"}, app : Apps]
Package == [ver : Nat, rows : Seq(Row)]

ASSUME DataAssumption ==
  /\ Packages \subseteq Package
  /\ \A p \in Packages : \A j, k \in DOMAIN p.rows :
        p.rows[j].app = p.rows[k].app => j = k
  /\ NONE \notin Nat /\ EMPTY \notin Nat /\ NONE # EMPTY
  /\ NONE \notin Packages /\ NONE \notin Devices

\* What row r of package p wants the tablet to hold of its application.
Want(p, r) == IF r.act = "I" THEN p.ver ELSE NONE

Installed == Nat \cup {NONE}          \* what is known of one application
Note      == Nat \cup {NONE, EMPTY}   \* what an Installed.txt may hold
=============================================================================
