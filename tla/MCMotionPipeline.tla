-------------------------- MODULE MCMotionPipeline -------------------------
(* Small instances of MotionPipeline for TLC. *)
EXTENDS MotionPipeline
=============================================================================
