---------------------------- MODULE Housekeeping -----------------------------
(***************************************************************************)
(* The detector and the pruner at work on the same PipelineRuns, while     *)
(* chains go on.                                                           *)
(***************************************************************************)
EXTENDS StallDetector, RunPruner

vars == <<runVars, stallPc, toCheck, suspect, events, unlabelled, toPrune>>

Init == RunsInit /\ DetInit /\ PrunerInit

Next ==
  \/ RunsNext /\ UNCHANGED <<detVars, toPrune>>
  \/ DetNext /\ UNCHANGED toPrune
  \/ PrunerNext /\ UNCHANGED detVars

Spec == Init /\ [][Next]_vars

\* Time passes, the broker acts on events or loses them, and the detector's passes come and
\* go on.  That runs end or post their events is not assumed.
Fairness ==
  /\ WF_vars((\E k \in Steps : GrowOld(k)) /\ UNCHANGED <<detVars, toPrune>>)
  /\ WF_vars((\E k \in pending : EventStep(k)) /\ UNCHANGED <<detVars, toPrune>>)
  /\ WF_vars(DetStep /\ UNCHANGED toPrune)

FairSpec == Spec /\ Fairness

-----------------------------------------------------------------------------
(***************************************************************************)
(* Properties                                                              *)
(***************************************************************************)

\* The CronJobs work on runs that exist or have existed, one suspect at a time.
TypeOK ==
  /\ started \subseteq Steps
  /\ silent = {k \in started : Silent(k)}
  /\ succeeded \union failed \union pending \union fired \union missed \subseteq started
  /\ at \in [Steps -> Nat]
  /\ age \in [Steps -> 0 .. 2]
  /\ alerted \union pruned \union toCheck \union toPrune \subseteq Ended
  /\ ended \in Nat
  /\ faults \in 0 .. MaxFaults
  /\ stallPc \in {"lookup", "event", "label"}
  /\ suspect \subseteq Ended
  /\ events \in [Steps -> Nat]
  /\ unlabelled \in [Steps -> Nat]
  /\ (stallPc = "lookup") <=> (suspect = {})

\* "The last surviving run of a pipeline can never be pruned" (the pruner's header), however
\* stale its list is: whatever was pruned, a newer run of that pipeline is still there.
NewestKept ==
  \A k \in pruned :
    \E j \in Steps : Completed(j) /\ Pipeline(j) = Pipeline(k) /\ at[j] > at[k]

\* A stall is announced once: a second Event of a run takes a pass that ended between the
\* first one and the label that keeps the next passes away.
AnnouncedOnce ==
  \A k \in Steps : events[k] <= 1 + unlabelled[k]

\* No run is announced for nothing: another was to follow, and it has no event to send, its event
\* was lost, or the run that event started has been pruned since.
AlertHasCause ==
  \A k \in Steps : events[k] > 0 =>
    /\ ~Terminal(k)
    /\ \/ k \in silent \union missed
       \/ k \in fired /\ NextStep(k) \in pruned

\* A run of the next step, of whatever chain, hides the stall.
Hidden(k) == \E j \in Steps : Present(j) /\ Flow(j) = Flow(k) /\ j.idx = k.idx + 1

\* The lost event of a run that passed is announced, unless another chain's run hides the stall
\* or the stalled run is pruned first.
StallAnnounced ==
  \A k \in {j \in Steps : ~Terminal(j)} :
    k \in missed \intersect succeeded ~> events[k] > 0 \/ Hidden(k) \/ k \in pruned

\* "A stage that completed successfully but whose expected next-stage PipelineRun never
\* appeared" (stalled-pipeline-detector-cronjob.yaml): what is announced has no successor and
\* never had one.
NeverAppeared ==
  \A k \in Steps : events[k] > 0 => NextStep(k) \notin started
=============================================================================
