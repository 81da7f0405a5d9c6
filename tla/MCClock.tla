------------------------------ MODULE MCClock ------------------------------
(* Every month; days and times with and without a leading zero. *)
EXTENDS Clock

MCDates == [year : {2012}, month : 1 .. 12, day : {1, 9, 10, 11, 29, 31}]
MCTimes == [hour : {0, 1, 9, 10, 23}, minute : {0, 1, 9, 10, 59}, second : {0, 5, 9, 10, 59}]
=============================================================================
