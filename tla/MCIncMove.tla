----------------------------- MODULE MCIncMove ------------------------------
(* Two axes of a group: a step of one alone, and one back that takes both. *)
EXTENDS IncMove

MCIncrements == {<<1, 0>>, <<-1, 1>>}
=============================================================================
