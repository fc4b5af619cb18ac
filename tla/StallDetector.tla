---------------------------- MODULE StallDetector ----------------------------
(***************************************************************************)
(* The stalled-pipeline-detector CronJob.  A pass lists the runs once,     *)
(* then takes its candidates one by one: look for a run of the next step,  *)
(* create an Event, label the run.  Any call that fails ends the pass.     *)
(***************************************************************************)
EXTENDS PipelineRuns

VARIABLES
  stallPc,     \* where the pass is with its candidate: "lookup", "event", "label"
  toCheck,     \* candidates of its list not yet looked up; no pass is under way when there are none
  suspect,     \* the candidate at hand, a set of at most one
  events,      \* Events created for a run
  unlabelled   \* history: passes that ended between a run's Event and its label

detVars == <<stallPc, toCheck, suspect, events, unlabelled>>

DetInit ==
  /\ stallPc = "lookup"
  /\ toCheck = {}
  /\ suspect = {}
  /\ events = [k \in Steps |-> 0]
  /\ unlabelled = [k \in Steps |-> 0]

\* Mutant: alerted runs are not left out.
MutNoLabel(k) == k \in succeeded \ pruned /\ age[k] > 0 /\ ~Terminal(k)

\* Mutant: the last step of a flow is not left out.
MutTerminal(k) == k \in succeeded \ (pruned \union alerted) /\ age[k] > 0

\* What the list's selects and the age test let through.
Candidate(k) == k \in succeeded \ (pruned \union alerted) /\ age[k] > 0 /\ ~Terminal(k)

\* Mutant: the lookup asks for the run's own index.
MutNextIndex(k) == k.idx

NextIndex(k) == k.idx + 1

\* Any run of the flow with the next index, whichever chain it is of.
SuccessorExists(k) ==
  \E j \in Steps : Present(j) /\ Flow(j) = Flow(k) /\ j.idx = NextIndex(k)

\* The pass's clock is read before its list.  A list without a candidate changes nothing.
StartPass ==
  /\ stallPc = "lookup"
  /\ toCheck = {}
  /\ toCheck' = {k \in Steps : Candidate(k)}
  /\ toCheck' # {}
  /\ UNCHANGED <<runVars, stallPc, suspect, events, unlabelled>>

Lookup(k) ==
  /\ stallPc = "lookup"
  /\ k \in toCheck
  /\ toCheck' = toCheck \ {k}
  /\ \/ SuccessorExists(k) /\ UNCHANGED <<stallPc, suspect>>
     \/ ~SuccessorExists(k) /\ stallPc' = "event" /\ suspect' = {k}
  /\ UNCHANGED <<runVars, events, unlabelled>>

CreateEvent(k) ==
  /\ stallPc = "event"
  /\ k \in suspect
  /\ events' = [events EXCEPT ![k] = @ + 1]
  /\ stallPc' = "label"
  /\ UNCHANGED <<runVars, toCheck, suspect, unlabelled>>

Label(k) ==
  /\ stallPc = "label"
  /\ k \in suspect
  /\ Present(k)
  /\ alerted' = alerted \union {k}
  /\ stallPc' = "lookup"
  /\ suspect' = {}
  /\ UNCHANGED <<stepVars, at, age, pruned, ended, faults, toCheck, events, unlabelled>>

\* Under set -e a failed call ends the pass.
EndPass ==
  /\ stallPc' = "lookup"
  /\ toCheck' = {}
  /\ suspect' = {}
  /\ unlabelled' = [k \in Steps |-> IF stallPc = "label" /\ k \in suspect
                                    THEN unlabelled[k] + 1 ELSE unlabelled[k]]
  /\ UNCHANGED <<stepVars, cronVars, events>>

\* A run that is gone cannot be labelled.
LabelGone(k) ==
  /\ stallPc = "label"
  /\ k \in suspect
  /\ ~Present(k)
  /\ EndPass
  /\ UNCHANGED faults

CallFails ==
  /\ stallPc # "lookup" \/ toCheck # {}
  /\ EndPass
  /\ Fault

DetStep ==
  \/ StartPass
  \/ \E k \in Steps : Lookup(k) \/ CreateEvent(k) \/ Label(k) \/ LabelGone(k)

DetNext == DetStep \/ CallFails
=============================================================================
