----------------------------- MODULE MCRoutines -----------------------------
(* Small instances of Routines. *)
EXTENDS Routines, TLC

CONSTANTS t1, c1, w1

OneTimer == {t1}
OneCaller == {c1}
OneWorker == {w1}
=============================================================================
