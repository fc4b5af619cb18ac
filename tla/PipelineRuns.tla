---------------------------- MODULE PipelineRuns ----------------------------
(***************************************************************************)
(* The PipelineRuns of one Application namespace as the platform CronJobs  *)
(* see them: what StepRuns says of them, and when each ended, how old it   *)
(* is, whether it is labelled and whether it is still there.               *)
(***************************************************************************)
EXTENDS StepRuns, Sequences

CONSTANTS
  Flows,      \* flow -> the pipelines of its steps
  Chains,     \* chain -> its flow
  Pushed,     \* the sets of chains that git events may have started
  MaxFaults   \* bound: calls of the CronJobs that fail

ASSUME FlowsAssumption == \A f \in DOMAIN Flows : Flows[f] \in Seq(STRING)
ASSUME ChainsAssumption == \A c \in DOMAIN Chains : Chains[c] \in DOMAIN Flows
ASSUME FaultsAssumption == MaxFaults \in Nat

VARIABLES
  at,       \* step -> the place of its run's completionTime
  age,      \* step -> 1 after STALL_THRESHOLD_MINUTES, 2 after RETENTION_HOURS
  alerted,  \* the runs with the label stall-alerted
  pruned,   \* those that are deleted
  ended,    \* how many have ended
  faults

cronVars == <<at, age, alerted, pruned, ended>>
runVars == <<stepVars, cronVars, faults>>

\* A step of a chain, counted from 0 as platform.io/step-index is.
Steps == UNION {{[chain |-> c, idx |-> i] : i \in 0 .. Len(Flows[Chains[c]]) - 1} :
                c \in DOMAIN Chains}

Flow(k) == Chains[k.chain]
Pipeline(k) == Flows[Flow(k)][k.idx + 1]
Terminal(k) == k.idx = Len(Flows[Flow(k)]) - 1

\* Starts nothing: the last of its flow, or of the pipeline without a `finally`.
Silent(k) == Terminal(k) \/ Pipeline(k) = "gitops-image-bump"

Present(k) == k \in started \ pruned

\* Mutant: the completionTime is not looked at.
MutAnyRun(k) == k \in started \ pruned

\* Has a completionTime.
Completed(k) == k \in Ended \ pruned

\* Git events have started the first steps of some chains: when one came, a running first step
\* shows nowhere else.
RunsInit ==
  /\ \E cs \in Pushed : started = {k \in Steps : k.idx = 0 /\ k.chain \in cs}
  /\ silent = {k \in started : Silent(k)}
  /\ StepInit
  /\ at = [k \in Steps |-> 0]
  /\ age = [k \in Steps |-> 0]
  /\ alerted = {} /\ pruned = {}
  /\ ended = 0 /\ faults = 0

Fault == faults < MaxFaults /\ faults' = faults + 1

Finish(k) ==
  /\ Succeed(k) \/ Fail(k)
  /\ ended' = ended + 1
  /\ at' = [at EXCEPT ![k] = ended + 1]
  /\ UNCHANGED <<age, alerted, pruned, faults>>

\* The event of k is accepted, acted on or lost.
EventStep(k) ==
  /\ Announce(k) \/ Deliver(k) \/ Lose(k)
  /\ silent' = {j \in started' : Silent(j)}
  /\ UNCHANGED <<cronVars, faults>>

\* Time passes; what ended earlier is older.  An event is acted on or lost long before its
\* run is ten minutes old.
GrowOld(k) ==
  /\ Completed(k)
  /\ age[k] < 2
  /\ k \notin pending
  /\ \A j \in Steps : Completed(j) /\ at[j] < at[k] => age[j] > age[k]
  /\ age' = [age EXCEPT ![k] = @ + 1]
  /\ UNCHANGED <<stepVars, at, alerted, pruned, ended, faults>>

RunsNext == \E k \in Steps : Finish(k) \/ EventStep(k) \/ GrowOld(k)
=============================================================================
