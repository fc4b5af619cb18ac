------------------------------ MODULE RunPruner ------------------------------
(***************************************************************************)
(* The pipelinerun-pruner CronJob.  A pass lists the completed runs once,  *)
(* leaves out the newest of each pipeline and deletes what is over a day   *)
(* old of the rest, one by one.  Any call that fails ends the pass.        *)
(***************************************************************************)
EXTENDS PipelineRuns

VARIABLE
  toPrune   \* what a pass has left to delete; none is under way when there is nothing

PrunerInit == toPrune = {}

\* Mutant: the list of a group is not reversed, so its oldest is left out.
MutKeepOldest(k) ==
  \E j \in Steps : Completed(j) /\ Pipeline(j) = Pipeline(k) /\ at[j] < at[k]

\* Not the newest of its pipeline.
NotNewest(k) ==
  \E j \in Steps : Completed(j) /\ Pipeline(j) = Pipeline(k) /\ at[j] > at[k]

\* A list with nothing to delete changes nothing.
StartPrune ==
  /\ toPrune = {}
  /\ toPrune' = {k \in Steps : Completed(k) /\ NotNewest(k) /\ age[k] = 2}
  /\ toPrune' # {}
  /\ UNCHANGED runVars

\* Its TaskRuns, then the run itself; one that is gone already is no error.
Delete(k) ==
  /\ k \in toPrune
  /\ toPrune' = toPrune \ {k}
  /\ pruned' = pruned \union {k}
  /\ UNCHANGED <<stepVars, at, age, alerted, ended, faults>>

DeleteFails ==
  /\ toPrune # {}
  /\ toPrune' = {}
  /\ Fault
  /\ UNCHANGED <<stepVars, cronVars>>

PrunerNext == StartPrune \/ DeleteFails \/ \E k \in Steps : Delete(k)
=============================================================================
