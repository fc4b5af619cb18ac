---------------------------- MODULE MCRepoToken -----------------------------
(***************************************************************************)
(* Two Applications and one Task: the handlers that meet are those of its  *)
(* own retries.                                                            *)
(***************************************************************************)
EXTENDS RepoToken

CONSTANTS shop, cart, c1

MCApps == {shop, cart}
MCCallers == [app: {shop}, kind: {"cicd", "pr", "dev"}]
MCCalls == {c1}
=============================================================================
