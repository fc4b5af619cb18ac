-------------------------- MODULE MCReleaseTracking --------------------------
(***************************************************************************)
(* The environments of one chain.                                          *)
(***************************************************************************)
EXTENDS ReleaseTracking, TLC

CONSTANTS staging, prod

Upper == {staging, prod}

\* Environments are told apart by nothing but their names.
Symmetric == Permutations(Upper)
=============================================================================
