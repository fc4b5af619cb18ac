--------------------------- MODULE MCHousekeeping ---------------------------
(***************************************************************************)
(* A flow that builds and tests, another that only tests, so that their    *)
(* runs share the group of the test pipeline, and one with a step that     *)
(* announces nothing.                                                      *)
(***************************************************************************)
EXTENDS Housekeeping, TLC

CONSTANTS c1, c2, c3, c4

MCFlows ==
  [ci |-> <<"build", "test">>,
   nightly |-> <<"test">>,
   ship |-> <<"build", "gitops-image-bump", "release">>]

MCChains == (c1 :> "ci" @@ c2 :> "ci" @@ c3 :> "nightly" @@ c4 :> "ship")

\* Two chains of one flow; one of it beside one of another that shares a pipeline; one that
\* stops at its second step.
MCPushed == {{c1, c2}, {c1, c3}, {c4}}
=============================================================================
