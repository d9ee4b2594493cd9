---- MODULE MCMotionMode ----
(* Instances of MotionMode for TLC. *)
EXTENDS MotionMode
====
