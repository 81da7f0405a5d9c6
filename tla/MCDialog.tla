------------------------------ MODULE MCDialog ------------------------------
(***************************************************************************)
(* Two workers, so that one may start while another runs, and two nested   *)
(* message boxes.                                                          *)
(***************************************************************************)
EXTENDS Dialog

CONSTANTS w1, w2
=============================================================================
