---------------------------- MODULE MCFjtServer -----------------------------
(* FjtServer as it stands: bounds are in the configuration.                *)
EXTENDS FjtServer
=============================================================================
