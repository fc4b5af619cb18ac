----------------------------- MODULE FlowChain ------------------------------
(***************************************************************************)
(* Inter-stage chaining at run time: PipelineRuns, the CDEvents their      *)
(* `finally` blocks POST to the shared EventListener, and the runs the     *)
(* listener's Triggers create.                                             *)
(*                                                                         *)
(* A run is named "<flow>-<idx>-<stage>-<slug>-<event id>", the event id   *)
(* being a hash of the emitting run's name and the event type.  Taking the *)
(* hash to be injective, a name is the chain id with the path of steps     *)
(* that led to the run, which is how a run is written here.                *)
(***************************************************************************)
EXTENDS FlowTriggers

CONSTANTS
  Configs,      \* the `pipelines:` maps an app's chart may be rendered with
  Chains,       \* chain ids, one per git event that starts a flow
  CurlRetries,  \* curl --retry of cdevent_send
  MaxPath       \* bound: no run is created at the end of a longer path

ASSUME RetriesAssumption == CurlRetries \in Nat
ASSUME MaxPathAssumption == MaxPath \in Nat \ {0}

\* The chart renders only what its schema and validateFlows accept.
ASSUME ConfigsAssumption ==
  \A c \in Configs :
    /\ DOMAIN c \subseteq FlowKey
    /\ \A f \in DOMAIN c : c[f] \in FlowCfg /\ ValidFlow(c[f])

VARIABLES
  flows,    \* the rendered configuration: flow key -> flow
  run,      \* PipelineRuns in the cluster: run id -> state
  pending,  \* deliveries a Trigger selected and the listener has yet to act on
  lost      \* deliveries that ended without their run being created

vars == <<flows, run, pending, lost>>

RunId == [chain: Chains, path: Seq(StepKey)]

\* tasks: $(tasks.status).  send: the send-cdevent task of `finally`, tries its failed
\* POSTs.  span: end-flow closed the flow-root span.  done: the run's own condition.
RunState == [tasks: {"Running", "Succeeded", "Failed"},
             send: {"todo", "sent", "failed", "skipped"},
             tries: 0 .. CurlRetries,
             span: {"open", "closed"},
             done: {"no", "Succeeded", "Failed"}]

\* A Trigger's filter let the event of run `from` through.
Delivery == [from: RunId, to: StepKey]

KeyOf(r) == r.path[Len(r.path)]
StageOf(r) == StageAt(flows[KeyOf(r).flow], KeyOf(r).idx)

NewRun == [tasks |-> "Running", send |-> "todo", tries |-> 0, span |-> "open", done |-> "no"]

Create(r) ==
  run' = [q \in DOMAIN run \union {r} |-> IF q = r THEN NewRun ELSE run[q]]

RootRun(c, f) == [chain |-> c, path |-> <<[flow |-> f, idx |-> 0]>>]

\* The run Trigger d.to names after the event of run d.from.
ChildRun(d) == [chain |-> d.from.chain, path |-> Append(d.from.path, d.to)]

\* Stage Pipelines with a `finally` block; gitops-image-bump has none.
HasFinally(r) == StageOf(r) # "gitops-image-bump"

\* Mutant: release loses its send-cdevent task.
MutReleaseSilent(r) ==
  /\ StageOf(r) \notin {"gitops-image-bump", "release"}
  /\ StageOf(r) = "test" \/ run[r].tasks = "Succeeded"

\* test announces its verdict either way; the other stages only success.
Announces(r) ==
  /\ HasFinally(r)
  /\ StageOf(r) = "test" \/ run[r].tasks = "Succeeded"

\* Mutant: the filters keep their event type and lose their source prefix.
MutNoSource(r) ==
  {[from |-> r, to |-> t] :
     t \in {t \in Triggers(flows) :
             /\ t.flow = KeyOf(r).flow
             /\ StageAt(flows[t.flow], t.idx - 1) = StageOf(r)
             /\ run[r].tasks = "Succeeded"}}

Selected(r) ==
  {[from |-> r, to |-> t] :
     t \in {t \in Triggers(flows) : Matches(flows, t, KeyOf(r), run[r].tasks)}}

-----------------------------------------------------------------------------
Init ==
  /\ flows \in Configs
  /\ run = << >>
  /\ pending = {}
  /\ lost = {}

\* Mutant: the chain id is the commit's, so two flows it starts share one.
MutCommitChain(c, f) ==
  /\ PacRooted(flows[f])
  /\ RootRun(c, f) \notin DOMAIN run
  /\ Create(RootRun(c, f))
  /\ UNCHANGED <<flows, pending, lost>>

\* PaC creates the first step's run from the generated .tekton file; start-flow-root-span
\* draws the chain id.
GitPush(c, f) ==
  /\ PacRooted(flows[f])
  /\ \A r \in DOMAIN run : r.chain # c
  /\ Create(RootRun(c, f))
  /\ UNCHANGED <<flows, pending, lost>>

\* The stage's own tasks end; `finally` starts.
FinishTasks(r) ==
  /\ run[r].tasks = "Running"
  /\ \E s \in {"Succeeded", "Failed"} : run' = [run EXCEPT ![r].tasks = s]
  /\ UNCHANGED <<flows, pending, lost>>

\* The `when` of send-cdevent does not hold, there is no such task, or a task it takes a
\* result from did not get to it.
SkipSend(r) ==
  /\ run[r].tasks # "Running"
  /\ run[r].send = "todo"
  /\ Announces(r) => run[r].tasks = "Failed"
  /\ run' = [run EXCEPT ![r].send = "skipped"]
  /\ UNCHANGED <<flows, pending, lost>>

\* The listener accepts the POST and evaluates every Trigger's filter on it.  If the
\* reply is lost curl posts the same event again.
PostAccepted(r) ==
  /\ run[r].tasks # "Running"
  /\ run[r].send = "todo"
  /\ Announces(r)
  /\ pending' = pending \union Selected(r)
  /\ \/ run' = [run EXCEPT ![r].send = "sent"]
     \/ /\ run[r].tries < CurlRetries
        /\ run' = [run EXCEPT ![r].tries = @ + 1]
     \/ /\ run[r].tries = CurlRetries
        /\ run' = [run EXCEPT ![r].send = "failed"]
  /\ UNCHANGED <<flows, lost>>

\* Mutant: the retry that follows the last one is counted instead of giving up.
MutOneMoreRetry(r) ==
  /\ run[r].tasks # "Running"
  /\ run[r].send = "todo"
  /\ Announces(r)
  /\ run' = IF run[r].tries <= CurlRetries
            THEN [run EXCEPT ![r].tries = @ + 1]
            ELSE [run EXCEPT ![r].send = "failed"]
  /\ UNCHANGED <<flows, pending, lost>>

\* Mutant: the task ends well whatever curl returns.
MutRefusedIgnored(r) ==
  /\ run[r].tasks # "Running"
  /\ run[r].send = "todo"
  /\ Announces(r)
  /\ run' = IF run[r].tries < CurlRetries
            THEN [run EXCEPT ![r].tries = @ + 1]
            ELSE [run EXCEPT ![r].send = "sent"]
  /\ UNCHANGED <<flows, pending, lost>>

\* The POST never reaches the listener; after the last retry the task fails.
PostRefused(r) ==
  /\ run[r].tasks # "Running"
  /\ run[r].send = "todo"
  /\ Announces(r)
  /\ run' = IF run[r].tries < CurlRetries
            THEN [run EXCEPT ![r].tries = @ + 1]
            ELSE [run EXCEPT ![r].send = "failed"]
  /\ UNCHANGED <<flows, pending, lost>>

\* end-flow: the terminal stage's `finally` closes the flow-root span, whatever the verdict.
CloseSpan(r) ==
  /\ run[r].tasks # "Running"
  /\ run[r].span = "open"
  /\ run[r].done = "no"
  /\ HasFinally(r)
  /\ IsTerminal(flows, KeyOf(r))
  /\ run' = [run EXCEPT ![r].span = "closed"]
  /\ UNCHANGED <<flows, pending, lost>>

\* Every task of the run ended; end-flow is skipped when start-flow failed.  A failed
\* `finally` task fails the run: send-cdevent, or one that is not modelled (end-stage-span,
\* notify, pipelinerun-finished).
Complete(r) ==
  /\ run[r].done = "no"
  /\ run[r].tasks # "Running"
  /\ run[r].send # "todo"
  /\ HasFinally(r) /\ IsTerminal(flows, KeyOf(r)) /\ run[r].tasks = "Succeeded"
       => run[r].span = "closed"
  /\ \E d \in {"Succeeded", "Failed"} :
       /\ d = "Succeeded" => run[r].tasks = "Succeeded" /\ run[r].send # "failed"
       /\ d = "Failed" => run[r].tasks = "Failed" \/ HasFinally(r)
       /\ run' = [run EXCEPT ![r].done = d]
  /\ UNCHANGED <<flows, pending, lost>>

\* The listener creates the run the Trigger's template names; a name that exists already
\* is an AlreadyExists no-op.
Fire(d) ==
  /\ Len(d.from.path) < MaxPath
  /\ IF ChildRun(d) \in DOMAIN run THEN UNCHANGED run ELSE Create(ChildRun(d))
  /\ pending' = pending \ {d}
  /\ UNCHANGED <<flows, lost>>

\* The listener answered the POST, then failed to bind or create, or its pod went away.
Drop(d) ==
  /\ pending' = pending \ {d}
  /\ lost' = lost \union {d}
  /\ UNCHANGED <<flows, run>>

RunStep(r) ==
  \/ FinishTasks(r) \/ SkipSend(r) \/ PostAccepted(r) \/ PostRefused(r)
  \/ CloseSpan(r) \/ Complete(r)

Next ==
  \/ \E c \in Chains, f \in DOMAIN flows : GitPush(c, f)
  \/ \E r \in DOMAIN run : RunStep(r)
  \/ \E d \in pending : Fire(d) \/ Drop(d)

Spec == Init /\ [][Next]_vars

\* Tekton keeps reconciling a run that can progress, and the listener acts on what it
\* accepted; nothing makes a git event happen.
Fairness ==
  /\ WF_vars(\E r \in DOMAIN run : RunStep(r))
  /\ WF_vars(\E d \in pending : Fire(d) \/ Drop(d))

FairSpec == Spec /\ Fairness

-----------------------------------------------------------------------------
(***************************************************************************)
(* Properties                                                              *)
(***************************************************************************)

\* Runs are named by steps the configuration has, and a delivery is of a run that exists to a
\* Trigger that does.
TypeOK ==
  /\ DOMAIN run \subseteq RunId
  /\ \A r \in DOMAIN run :
       /\ Len(r.path) \in 1 .. MaxPath
       /\ KeyOf(r) \in Steps(flows)
       /\ run[r] \in RunState
  /\ \A d \in pending \union lost :
       /\ d \in Delivery
       /\ d.from \in DOMAIN run
       /\ d.to \in Triggers(flows)

\* However often an event is redelivered, and whatever other flows the app has, a chain
\* runs each step of its flow at most once (deterministic run names plus exact filters).
OneRunPerStep ==
  \A r, s \in DOMAIN run :
    r.chain = s.chain /\ KeyOf(r) = KeyOf(s) => r = s

\* A step runs only in a chain where every earlier step of the same flow ran and passed:
\* no step is skipped, and a failed test stops the chain although its event is sent.
PredecessorsPassed ==
  \A r \in DOMAIN run : \A i \in 0 .. KeyOf(r).idx - 1 :
    \E p \in DOMAIN run :
      /\ p.chain = r.chain
      /\ KeyOf(p) = [flow |-> KeyOf(r).flow, idx |-> i]
      /\ run[p].tasks = "Succeeded"

\* The flow-root span closes once, and when it has, every step of the chain has its verdict and
\* none begins any more: end-flow never closes the trace of a flow that goes on to another step.
\* Of the other Tasks in finally, which send the stages' spans beside it, nothing is said.
SpanClosesAfterSteps ==
  \A r, s \in DOMAIN run :
    r.chain = s.chain /\ run[r].span = "closed" =>
      /\ run[s].tasks # "Running"
      /\ run[s].span = "closed" => s = r

\* The delivery of r's event to the Trigger of its flow's next step.
NextDelivery(r) == [from |-> r, to |-> [flow |-> KeyOf(r).flow, idx |-> KeyOf(r).idx + 1]]

\* The event of r reached the Trigger of the next step: its delivery is waiting, ended without
\* a run and is known to have, or made the run.
HandedOn(r) ==
  NextDelivery(r) \in pending \union lost \/ ChildRun(NextDelivery(r)) \in DOMAIN run

\* Green means handed on: a PipelineRun that ended Succeeded before the last step of its flow
\* has its event with the listener, which did not miss it.  A chain that stops short stops at
\* a red run, at a delivery the listener lost, or at gitops-image-bump.
NoSilentStop ==
  \A r \in DOMAIN run :
    run[r].done = "Succeeded" /\ HasFinally(r) /\ ~IsTerminal(flows, KeyOf(r)) => HandedOn(r)

\* The end of a chain: its runs are done and the last step is among them, a run of it failed,
\* a delivery was lost, or gitops-image-bump ran, which announces nothing.
ChainEnds(c) ==
  LET rs == {r \in DOMAIN run : r.chain = c}
  IN  /\ \A r \in rs : run[r].done # "no"
      /\ \/ \E r \in rs : \/ IsTerminal(flows, KeyOf(r))
                          \/ run[r].done = "Failed"
                          \/ StageOf(r) = "gitops-image-bump"
         \/ \E d \in lost : d.from.chain = c

\* Every chain that begins comes to an end somebody can see, however often a POST is refused
\* or repeated: a run that passed never just leaves the next step unstarted.
EveryChainEnds ==
  \A c \in Chains : (\E r \in DOMAIN run : r.chain = c) ~> ChainEnds(c)

(***************************************************************************)
(* Chaining implements LinearFlow.                                         *)
(***************************************************************************)
ChainOfRun(r) == r.chain
FlowOfRun(r) == KeyOf(r).flow
IdxOfRun(r) == KeyOf(r).idx
Passed == {r \in DOMAIN run : run[r].tasks = "Succeeded"}
Failed == {r \in DOMAIN run : run[r].tasks = "Failed"}

Linear == INSTANCE LinearFlow WITH
  ChainOf <- ChainOfRun, FlowOf <- FlowOfRun, IdxOf <- IdxOfRun,
  started <- DOMAIN run, passed <- Passed, failed <- Failed

\* Each step of the detailed system is a step of the linear flow or a stutter.
ImplementsLinearFlow == Linear!Spec

(***************************************************************************)
(* Chaining implements StepRuns, which the CronJobs' models are built on.  *)
(***************************************************************************)
StepOf(r) == [chain |-> r.chain, idx |-> KeyOf(r).idx]
StepsOf(rs) == {StepOf(r) : r \in rs}

SilentRuns == {r \in DOMAIN run : IsTerminal(flows, KeyOf(r)) \/ ~HasFinally(r)}
GreenRuns == {r \in DOMAIN run : run[r].done = "Succeeded"}
RedRuns == {r \in DOMAIN run : run[r].done = "Failed"}
FiredRuns == {r \in DOMAIN run : ChildRun(NextDelivery(r)) \in DOMAIN run}
PendingRuns == {d.from : d \in pending} \ FiredRuns
MissedRuns == {d.from : d \in lost} \ (FiredRuns \union PendingRuns)

Chained == INSTANCE StepRuns WITH
  started <- StepsOf(DOMAIN run), silent <- StepsOf(SilentRuns),
  succeeded <- StepsOf(GreenRuns), failed <- StepsOf(RedRuns),
  pending <- StepsOf(PendingRuns), fired <- StepsOf(FiredRuns), missed <- StepsOf(MissedRuns)

\* What happens to the runs of an app is what StepRuns says, for those who see only the runs.
ImplementsStepRuns == Chained!StepSpec
=============================================================================
