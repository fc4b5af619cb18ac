---------------------------- MODULE FlowTriggers ----------------------------
(***************************************************************************)
(* What the two generators make of an app's cicd.yaml `pipelines:` map.    *)
(*                                                                         *)
(*   - deliver-onboarding-files.yaml writes one .tekton/flow-<name>.yaml   *)
(*     per git-rooted flow: Pipelines-as-Code starts step 0 from it.       *)
(*   - flow-triggers.yaml renders one Trigger per later step, whose CEL    *)
(*     filter picks the CDEvents that start that step.                     *)
(*                                                                         *)
(* Names are data: a flow key is an app (one <app>-cicd namespace) and a   *)
(* flow name, and the only thing the filters read of a name is which names *)
(* start with "<other name>-".                                             *)
(***************************************************************************)
EXTENDS Naturals, Sequences

CONSTANTS
  Apps,          \* applications, one CI namespace each
  Names,         \* flow names, the keys of `pipelines:`
  HyphenPrefix   \* pairs <<n, m>> of distinct names where m starts with "n-"

Stages == {"build", "test", "deploy", "release", "gitops-image-bump"}

\* Trigger events PaC can be asked to match (on-event and CEL of the generated run).
GitEvents == {"push", "pull_request", "branch.created", "tag"}

FlowKey == [app: Apps, name: Names]

\* One step of one flow: what a PipelineRun's name prefix "<flow>-<idx>-<stage>-" says.
StepKey == [flow: FlowKey, idx: Nat]

(***************************************************************************)
(* A flow as written: the object form, or the legacy list form whose first *)
(* entry carries the trigger as a string.                                  *)
(***************************************************************************)
FlowCfg == [form: {"map", "list"},
            source: {"", "git", "event"},
            event: GitEvents \union {"", "deploy", "artifact.published"},
            steps: Seq(Stages)]

\* normalizeFlow: the root trigger's source, inferred from the event when not given.
RootSource(f) ==
  IF f.form = "list" THEN "git"
  ELSE IF f.source # "" THEN f.source
  ELSE IF f.event \in GitEvents \union {"deploy"} THEN "git"
  ELSE IF f.event # "" THEN "event" ELSE ""

\* deliver-onboarding-files: a flow gets a PaC run file that some git event can start.
PacRooted(f) ==
  /\ f.form = "map"
  /\ f.source \in {"", "git"}
  /\ f.event \in GitEvents
  /\ Len(f.steps) > 0

\* The stage of the 0-based step i.
StageAt(f, i) == f.steps[i + 1]

\* validateFlows, and the render error of a chained step 0 (index -1).
ValidFlow(f) ==
  Len(f.steps) > 0 =>
    /\ RootSource(f) # ""
    /\ RootSource(f) = "git" /\ StageAt(f, 0) = "release" => Len(f.steps) = 1
    /\ \A i \in 1 .. Len(f.steps) - 1 : StageAt(f, i) # "build"

\* $eventTypeMap: the domain event a completed stage announces; a stage that is not
\* in the map announces none, and the filter rendered for it matches no event.
EventType(stage) ==
  CASE stage = "build"   -> "artifact.published"
    [] stage = "test"    -> "testcaserun.finished"
    [] stage = "deploy"  -> "service.deployed"
    [] stage = "release" -> "change.created"
    [] OTHER             -> ""

\* The steps a Trigger is rendered for: every step but the first.
Triggers(flows) ==
  {t \in [flow: DOMAIN flows, idx: UNION {1 .. Len(flows[f].steps) : f \in DOMAIN flows}] :
     t.idx < Len(flows[t.flow].steps)}

\* Mutant: the generated git-rooted run always says it is the last one.
MutRootTerminal(flows, k) == k.idx \in {0, Len(flows[k.flow].steps) - 1}

IsTerminal(flows, k) == k.idx = Len(flows[k.flow].steps) - 1

\* The event's source starts with "/platform-cicd/<ns>/<sourcePrefix>": the flow's name
\* alone when the previous step is the git root, that one step otherwise.
SourceMatches(flows, t, from) ==
  /\ from.flow.app = t.flow.app
  /\ IF t.idx = 1 /\ RootSource(flows[t.flow]) = "git"
     THEN from.flow.name = t.flow.name \/ <<t.flow.name, from.flow.name>> \in HyphenPrefix
     ELSE from = [flow |-> t.flow, idx |-> t.idx - 1]

\* The type and source clauses of the CEL filter of Trigger t, for the domain event of
\* a run of step `from`.
Selects(flows, t, from) ==
  LET prev == StageAt(flows[t.flow], t.idx - 1)
      type == EventType(StageAt(flows[from.flow], from.idx))
  IN  /\ type # ""
      /\ type = EventType(prev)
      /\ SourceMatches(flows, t, from)

\* Mutant: the outcome of a test is not looked at.
MutAnyOutcome(flows, t, from, outcome) == Selects(flows, t, from)

\* The whole filter: chaining from a test also asks for the outcome.
Matches(flows, t, from, outcome) ==
  /\ Selects(flows, t, from)
  /\ StageAt(flows[t.flow], t.idx - 1) = "test" => outcome = "Succeeded"

(***************************************************************************)
(* What the filters are for: a Trigger selects the events of its flow's    *)
(* previous step and of no other step of any flow.                         *)
(***************************************************************************)
Steps(flows) ==
  {k \in [flow: DOMAIN flows, idx: UNION {0 .. Len(flows[f].steps) : f \in DOMAIN flows}] :
     k.idx < Len(flows[k.flow].steps)}

ExactFilters(flows) ==
  \A t \in Triggers(flows), k \in Steps(flows) :
    Selects(flows, t, k) => k = [flow |-> t.flow, idx |-> t.idx - 1]
=============================================================================
