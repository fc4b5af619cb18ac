-------------------------- MODULE MCReleaseOutcome --------------------------
(***************************************************************************)
(* Numbers only; the bounds are in the configuration.                      *)
(***************************************************************************)
EXTENDS ReleaseOutcome
=============================================================================
