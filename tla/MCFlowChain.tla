---------------------------- MODULE MCFlowChain -----------------------------
(***************************************************************************)
(* Small instances of FlowChain: every valid single flow of one or two     *)
(* steps, three-step flows, and pairs of flows that share an app, a name   *)
(* or a name prefix.                                                       *)
(***************************************************************************)
EXTENDS FlowChain, FiniteSets

CONSTANTS shop, cart, c1, c2

MCChains == {c1, c2}

MCApps == {shop, cart}
MCNames == {"ci", "ci-fast"}
MCHyphenPrefix == {<<"ci", "ci-fast">>}

Ci == [app |-> shop, name |-> "ci"]
CiFast == [app |-> shop, name |-> "ci-fast"]
OtherCi == [app |-> cart, name |-> "ci"]

Flow(event, steps) == [form |-> "map", source |-> "", event |-> event, steps |-> steps]

\* Stage sequences the chart accepts, of 1 to n steps.
Sequences(n) ==
  {s \in UNION {[1 .. k -> Stages] : k \in 1 .. n} : ValidFlow(Flow("push", s))}

\* A third step adds a step that chains from one that was chained to itself; build, deploy
\* and release differ only in the event they announce, which two steps show.
ThreeSteps ==
  {s \in Sequences(3) :
     Len(s) = 3 => s[1] \in {"build", "test"} /\ s[2] # "gitops-image-bump" /\ s[3] # "release"}

SingleFlows == {[k \in {Ci} |-> Flow("push", s)] : s \in ThreeSteps}

PairSteps == {<<"build", "test">>, <<"test", "deploy">>, <<"deploy", "test">>,
              <<"build", "release">>}

FlowPairs ==
  {[k \in {Ci, other} |-> Flow(IF k = Ci THEN "push" ELSE "tag", IF k = Ci THEN s ELSE t)] :
     other \in {CiFast, OtherCi}, s \in PairSteps, t \in PairSteps}

\* Flows only one of the two generators treats as rooted in git.
OddRoots ==
  {[k \in {Ci} |-> [form |-> fm, source |-> src, event |-> ev, steps |-> <<"build", "test">>]] :
     fm \in {"map", "list"}, src \in {"", "git", "event"}, ev \in {"push", "deploy", "artifact.published"}}

MCConfigs == {c \in SingleFlows \union FlowPairs \union OddRoots : ExactFilters(c)}

TwoChainSteps == {<<"build">>, <<"deploy", "gitops-image-bump">>}

\* Bound: a second chain of the app begins only in the smallest configurations, and c2 only
\* after c1, which stands for either order.
ChainBudget ==
  LET begun == {r.chain : r \in DOMAIN run}
  IN  /\ begun # {} => c1 \in begun
      /\ begun = MCChains =>
           Cardinality(DOMAIN flows) = 1 /\ flows[Ci].steps \in TwoChainSteps

\* A stage that comes back after the root of a git-rooted flow.
LoopConfigs == {[k \in {Ci} |-> Flow("tag", <<"test", "deploy", "test">>)]}
=============================================================================
