----------------------------- MODULE MCIncQueue ----------------------------
(* A small instance of IncQueue for TLC. *)
EXTENDS IncQueue

CONSTANTS f1, f2, c1

MCFormats == {f1, f2}
TwoTimes == {0, 2}
OneClearer == {c1}
=============================================================================
