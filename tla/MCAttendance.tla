---------------------------- MODULE MCAttendance ----------------------------
(* Model-checking instance of Attendance. *)
EXTENDS Attendance, TLC

CONSTANTS a1
MCBusy == 1 :> a1
SessionSymmetry == Permutations(Sessions)
=============================================================================
