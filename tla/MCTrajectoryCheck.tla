------------------------- MODULE MCTrajectoryCheck -------------------------
(* Two groups of one joint each; the names of a request may also repeat or *)
(* be unknown, its times run backward or be negative.                      *)
EXTENDS TrajectoryCheck, TLC

MCGroupOf == "s" :> 1 @@ "e" :> 2
MCStamps == -1 .. 2
=============================================================================
