------------------------- MODULE HousekeepingProofs -------------------------
(***************************************************************************)
(* Theorems about Housekeeping, for every set of flows and chains and any  *)
(* number of failed calls.                                                 *)
(***************************************************************************)
EXTENDS Housekeeping, TLAPS

-----------------------------------------------------------------------------
(***************************************************************************)
(* Steps.                                                                  *)
(***************************************************************************)

\* What membership in Steps says of a key.
LEMMA StepKeys ==
  ASSUME NEW k \in Steps
  PROVE  /\ k.chain \in DOMAIN Chains
         /\ Len(Flows[Flow(k)]) \in Nat
         /\ k.idx \in 0 .. Len(Flows[Flow(k)]) - 1
         /\ k = [chain |-> k.chain, idx |-> k.idx]
<1>1. PICK c \in DOMAIN Chains : k \in {[chain |-> c, idx |-> i] : i \in 0 .. Len(Flows[Chains[c]]) - 1}
  BY DEF Steps
<1>2. PICK i \in 0 .. Len(Flows[Chains[c]]) - 1 : k = [chain |-> c, idx |-> i]
  BY <1>1
<1>3. Len(Flows[Chains[c]]) \in Nat
  BY FlowsAssumption, ChainsAssumption
<1> QED BY <1>2, <1>3 DEF Flow

\* The step after one that is not its flow's last is a step, of the same flow.
LEMMA NextStepKeys ==
  ASSUME NEW k \in Steps, ~Terminal(k)
  PROVE  /\ NextStep(k) \in Steps
         /\ Flow(NextStep(k)) = Flow(k)
         /\ NextStep(k).idx = k.idx + 1
<1>1. /\ k.chain \in DOMAIN Chains
      /\ Len(Flows[Flow(k)]) \in Nat
      /\ k.idx \in 0 .. Len(Flows[Flow(k)]) - 1
  BY StepKeys
<1>2. k.idx + 1 \in 0 .. Len(Flows[Chains[k.chain]]) - 1
  BY <1>1 DEF Terminal, Flow
<1>3. NextStep(k) \in {[chain |-> k.chain, idx |-> i] : i \in 0 .. Len(Flows[Chains[k.chain]]) - 1}
  BY <1>2 DEF NextStep
<1>4. NextStep(k) \in Steps
  BY <1>1, <1>3 DEF Steps
<1> QED BY <1>4 DEF NextStep, Flow

-----------------------------------------------------------------------------
(***************************************************************************)
(* The inductive invariant.                                                *)
(***************************************************************************)

\* The variables' types.
Types ==
  /\ started \subseteq Steps
  /\ silent = {k \in started : Silent(k)}
  /\ succeeded \union failed \union pending \union fired \union missed \subseteq started
  /\ at \in [Steps -> Nat]
  /\ age \in [Steps -> 0 .. 2]
  /\ alerted \union pruned \union toCheck \union toPrune \subseteq Ended
  /\ ended \in Nat
  /\ faults \in 0 .. MaxFaults
  /\ stallPc \in {"lookup", "event", "label"}
  /\ suspect \subseteq Ended
  /\ events \in [Steps -> Nat]
  /\ unlabelled \in [Steps -> Nat]

\* What is known of a run's event by the time anybody looks at the run.
EventsInv ==
  /\ (pending \union fired \union missed) \intersect silent = {}
  /\ succeeded \subseteq silent \union pending \union fired \union missed
  /\ \A k \in fired : NextStep(k) \in started
  /\ \A k \in Steps : age[k] > 0 => k \in Ended \ pending

\* The newest run of a pipeline is there, and what is pruned or about to be is not it.
PrunerInv ==
  /\ \A k \in Ended : at[k] <= ended
  /\ \A k \in Ended :
       \E j \in Steps :
         /\ Completed(j) /\ Pipeline(j) = Pipeline(k)
         /\ \A i \in Ended : Pipeline(i) = Pipeline(k) => at[i] <= at[j]
  /\ \A k \in toPrune \union pruned :
       \E i \in Ended : Pipeline(i) = Pipeline(k) /\ at[i] > at[k]

Cause(k) ==
  /\ ~Terminal(k)
  /\ \/ k \in silent \union missed
     \/ k \in fired /\ NextStep(k) \in pruned

\* A run is labelled, or about to be, or its pass ended, for each of its Events.
DetectorInv ==
  /\ (stallPc = "lookup") <=> (suspect = {})
  /\ \A j \in suspect, k \in suspect : j = k
  /\ toCheck \intersect suspect = {}
  /\ \A k \in toCheck \union suspect : k \in succeeded \ (pending \union alerted) /\ ~Terminal(k)
  /\ \A k \in suspect : Cause(k)
  /\ \A k \in Steps : events[k] > 0 => k \in Ended /\ Cause(k)
  /\ \A k \in suspect : stallPc = "label" => events[k] <= unlabelled[k] + 1
  /\ \A k \in alerted : events[k] <= unlabelled[k] + 1
  /\ \A k \in Steps : k \notin alerted /\ ~(stallPc = "label" /\ k \in suspect) =>
                        events[k] <= unlabelled[k]

IInv == Types /\ EventsInv /\ PrunerInv /\ DetectorInv

LEMMA InitIInv == Init => IInv
<1> SUFFICES ASSUME Init PROVE IInv
  OBVIOUS
<1> USE DEF Init, RunsInit, StepInit, DetInit, PrunerInit, Ended
<1>1. Types
  BY FaultsAssumption DEF Types
<1>2. EventsInv
  BY DEF EventsInv
<1>3. PrunerInv
  BY DEF PrunerInv
<1>4. DetectorInv
  BY DEF DetectorInv
<1> QED BY <1>1, <1>2, <1>3, <1>4 DEF IInv

-----------------------------------------------------------------------------
(***************************************************************************)
(* Types.                                                                  *)
(***************************************************************************)

\* What a step of a chain does to the sets that describe the runs.
LEMMA EventStepFrame ==
  ASSUME Types, EventsInv, NEW k \in Steps, EventStep(k)
  PROVE  /\ UNCHANGED <<succeeded, failed, cronVars, faults>>
         /\ started \subseteq started' /\ started' \subseteq Steps
         /\ silent' = {j \in started' : Silent(j)}
         /\ silent \subseteq silent'
         /\ pending' \union fired' \union missed' \subseteq started
         /\ (pending' \union fired' \union missed') \intersect silent = {}
         /\ (pending \union fired \union missed) \subseteq (pending' \union fired' \union missed')
         /\ pending' \intersect Ended \subseteq pending
         /\ missed \intersect Ended \subseteq missed'
         /\ fired \subseteq fired'
         /\ \A j \in fired' : j \in fired \/ NextStep(j) \in started'
<1> USE DEF EventStep, Types, EventsInv
<1>1. CASE Announce(k)
  BY <1>1 DEF Announce
<1>2. CASE Deliver(k)
  <2>1. k \in started \ silent
    BY <1>2 DEF Deliver
  <2>2. NextStep(k) \in Steps
    BY <2>1, NextStepKeys DEF Silent
  <2> QED BY <1>2, <2>1, <2>2 DEF Deliver, Create
<1>3. CASE Lose(k)
  BY <1>3 DEF Lose
<1> QED BY <1>1, <1>2, <1>3

LEMMA TypesStep == Types /\ EventsInv /\ DetectorInv /\ [Next]_vars => Types'
<1> SUFFICES ASSUME Types, EventsInv, DetectorInv, [Next]_vars PROVE Types'
  OBVIOUS
<1> USE DEF Types, Ended
<1>1. ASSUME NEW k \in Steps, Finish(k), UNCHANGED <<detVars, toPrune>>
      PROVE  Types'
  <2>1. at' \in [Steps -> Nat] /\ ended' \in Nat
    BY <1>1 DEF Finish
  <2>2. /\ UNCHANGED <<started, silent, pending, fired, missed, age, alerted, pruned, faults>>
        /\ succeeded \subseteq succeeded' /\ failed \subseteq failed'
        /\ succeeded' \union failed' \subseteq started
    BY <1>1 DEF Finish, Succeed, Fail
  <2> QED BY <1>1, <2>1, <2>2 DEF detVars, Silent, Terminal, Pipeline, Flow
<1>2. ASSUME NEW k \in Steps, EventStep(k), UNCHANGED <<detVars, toPrune>>
      PROVE  Types'
  BY <1>2, EventStepFrame DEF detVars, cronVars, Silent, Terminal, Pipeline, Flow
<1>3. ASSUME UNCHANGED stepVars
      PROVE  /\ UNCHANGED <<started, silent, succeeded, failed, pending, fired, missed>>
             /\ silent' = {k \in started' : Silent(k)'}
  BY <1>3 DEF stepVars, Silent, Terminal, Pipeline, Flow
<1>4. ASSUME NEW k \in Steps, GrowOld(k), UNCHANGED <<detVars, toPrune>>
      PROVE  Types'
  <2>1. age' \in [Steps -> 0 .. 2]
    <3>1. age[k] + 1 \in 0 .. 2
      BY <1>4 DEF GrowOld
    <3> QED BY <1>4, <3>1 DEF GrowOld
  <2> QED BY <1>3, <1>4, <2>1 DEF GrowOld, detVars
<1>5. ASSUME StartPass, UNCHANGED toPrune
      PROVE  Types'
  <2>1. \A k : Candidate(k) => k \in Ended
    BY DEF Candidate
  <2> QED BY <1>3, <1>5, <2>1 DEF StartPass, runVars, cronVars
<1>6. ASSUME NEW k \in Steps, Lookup(k) \/ CreateEvent(k) \/ Label(k), UNCHANGED toPrune
      PROVE  Types'
  <2>1. CASE Lookup(k)
    BY <1>3, <1>6, <2>1 DEF Lookup, runVars, cronVars
  <2>2. CASE CreateEvent(k)
    <3>1. events' \in [Steps -> Nat]
      BY <2>2 DEF CreateEvent
    <3> QED BY <1>3, <1>6, <2>2, <3>1 DEF CreateEvent, runVars, cronVars
  <2>3. CASE Label(k)
    BY <1>3, <1>6, <2>3 DEF Label
  <2> QED BY <1>6, <2>1, <2>2, <2>3
<1>7. ASSUME EndPass, UNCHANGED faults \/ Fault, UNCHANGED toPrune
      PROVE  Types'
  <2>1. faults' \in 0 .. MaxFaults
    BY <1>7, FaultsAssumption DEF Fault
  <2>2. unlabelled' \in [Steps -> Nat]
    BY <1>7 DEF EndPass
  <2> QED BY <1>3, <1>7, <2>1, <2>2 DEF EndPass, cronVars
<1>8. ASSUME PrunerNext, UNCHANGED detVars
      PROVE  Types'
  <2>1. CASE StartPrune
    <3>1. \A k : Completed(k) => k \in Ended
      BY DEF Completed
    <3> QED BY <1>3, <1>8, <2>1, <3>1 DEF StartPrune, runVars, cronVars, detVars
  <2>2. CASE DeleteFails
    BY <1>3, <1>8, <2>2, FaultsAssumption DEF DeleteFails, Fault, cronVars, detVars
  <2>3. ASSUME NEW k \in Steps, Delete(k) PROVE Types'
    BY <1>3, <1>8, <2>3 DEF Delete, detVars
  <2> QED BY <1>8, <2>1, <2>2, <2>3 DEF PrunerNext
<1>9. CASE UNCHANGED vars
  BY <1>3, <1>9 DEF vars, runVars, cronVars
<1> QED BY <1>1, <1>2, <1>4, <1>5, <1>6, <1>7, <1>8, <1>9
        DEF Next, RunsNext, DetNext, DetStep, LabelGone, CallFails

-----------------------------------------------------------------------------
(***************************************************************************)
(* Events.                                                                 *)
(***************************************************************************)
LEMMA EventsStep == Types /\ EventsInv /\ [Next]_vars => EventsInv'
<1> SUFFICES ASSUME Types, EventsInv, [Next]_vars PROVE EventsInv'
  OBVIOUS
<1>1. ASSUME NEW k \in Steps, Finish(k) PROVE EventsInv'
  <2>1. /\ UNCHANGED <<started, silent, pending, fired, missed, age>>
        /\ Ended \subseteq Ended'
        /\ succeeded' \subseteq silent \union pending \union fired \union missed
    BY <1>1 DEF Finish, Succeed, Fail, EventsInv, Ended
  <2> QED BY <2>1 DEF EventsInv, NextStep
<1>2. ASSUME NEW k \in Steps, EventStep(k) PROVE EventsInv'
  <2>1. Ended' = Ended
    BY <1>2, EventStepFrame DEF Ended
  <2>2. \A j \in fired' : NextStep(j) \in started'
    BY <1>2, EventStepFrame DEF EventsInv
  <2>3. \A j \in Steps : age'[j] > 0 => j \in Ended' \ pending'
    BY <1>2, <2>1, EventStepFrame DEF EventsInv, cronVars
  <2>4. (pending' \union fired' \union missed') \intersect silent' = {}
    BY <1>2, EventStepFrame DEF Types
  <2>5. succeeded' \subseteq silent' \union pending' \union fired' \union missed'
    BY <1>2, EventStepFrame DEF EventsInv
  <2> QED BY <2>2, <2>3, <2>4, <2>5 DEF EventsInv, NextStep
<1>3. ASSUME NEW k \in Steps, GrowOld(k) PROVE EventsInv'
  <2>1. k \in Ended \ pending /\ UNCHANGED stepVars /\ Ended' = Ended
        /\ \A j \in Steps : j # k => age'[j] = age[j]
    BY <1>3 DEF GrowOld, Completed, Types, stepVars, Ended
  <2> QED BY <2>1 DEF EventsInv, stepVars, NextStep
<1>4. CASE UNCHANGED <<stepVars, age>>
  BY <1>4 DEF EventsInv, stepVars, NextStep, Ended
<1> QED BY <1>1, <1>2, <1>3, <1>4
        DEF Next, RunsNext, DetNext, DetStep, StartPass, Lookup, CreateEvent, Label, LabelGone,
            CallFails, EndPass, PrunerNext, StartPrune, Delete, DeleteFails, vars, runVars, cronVars

-----------------------------------------------------------------------------
(***************************************************************************)
(* The pruner.                                                             *)
(***************************************************************************)

\* A step that ends no run, prunes none and puts none on the pruner's list.
LEMMA PrunerUnchanged ==
  ASSUME PrunerInv, UNCHANGED <<ended, at, pruned, succeeded, failed>>, toPrune' \subseteq toPrune
  PROVE  PrunerInv'
<1>1. Ended' = Ended
  BY DEF Ended
<1>2. \A k : Completed(k)' <=> Completed(k)
  BY <1>1 DEF Completed
<1> QED BY <1>1, <1>2 DEF PrunerInv, Pipeline, Flow

\* The run that ends is the newest of its pipeline.
LEMMA FinishPruner ==
  ASSUME Types, PrunerInv, NEW k \in Steps, Finish(k), UNCHANGED toPrune
  PROVE  PrunerInv'
<1>1. /\ at'[k] = ended + 1 /\ ended' = ended + 1 /\ ended \in Nat
      /\ pruned' = pruned
      /\ \A i \in Steps : i # k => at'[i] = at[i]
      /\ \A i \in Steps : at[i] \in Nat
  BY DEF Finish, Types
<1>2. k \notin Ended /\ Ended' = Ended \union {k} /\ Ended \subseteq Steps /\ k \notin pruned
  BY DEF Finish, Succeed, Fail, Ended, Types
<1>3. \A i \in Ended' : at'[i] <= ended'
  BY <1>1, <1>2 DEF PrunerInv
<1>4. Completed(k)' /\ \A i \in Ended : Completed(i)' <=> Completed(i)
  BY <1>1, <1>2 DEF Completed
<1>5. ASSUME NEW j \in Ended'
      PROVE  \E w \in Steps :
               /\ Completed(w)' /\ Pipeline(w) = Pipeline(j)
               /\ \A i \in Ended' : Pipeline(i) = Pipeline(j) => at'[i] <= at'[w]
  <2>1. CASE Pipeline(j) = Pipeline(k)
    BY <1>1, <1>3, <1>4, <2>1
  <2>2. CASE Pipeline(j) # Pipeline(k)
    <3>1. PICK w \in Steps :
            /\ Completed(w) /\ Pipeline(w) = Pipeline(j)
            /\ \A i \in Ended : Pipeline(i) = Pipeline(j) => at[i] <= at[w]
      BY <1>2, <1>5, <2>2 DEF PrunerInv
    <3>2. Completed(w)' /\ w # k
      BY <1>2, <1>4, <3>1 DEF Completed
    <3> QED BY <1>1, <1>2, <2>2, <3>1, <3>2
  <2> QED BY <2>1, <2>2
<1>6. ASSUME NEW j \in toPrune \union pruned
      PROVE  \E i \in Ended' : Pipeline(i) = Pipeline(j) /\ at'[i] > at'[j]
  <2>1. j \in Ended
    BY DEF Types
  <2>2. PICK i \in Ended : Pipeline(i) = Pipeline(j) /\ at[i] > at[j]
    BY DEF PrunerInv
  <2> QED BY <1>1, <1>2, <2>1, <2>2
<1> QED BY <1>1, <1>3, <1>5, <1>6 DEF PrunerInv, Pipeline, Flow

\* The run that is deleted is not the newest of its pipeline.
LEMMA DeletePruner ==
  ASSUME Types, PrunerInv, NEW k \in Steps, Delete(k)
  PROVE  PrunerInv'
<1>1. /\ UNCHANGED <<at, ended>> /\ Ended' = Ended
      /\ k \in toPrune /\ toPrune' \subseteq toPrune /\ pruned' = pruned \union {k}
      /\ \A i \in Ended : at[i] \in Nat
  BY DEF Delete, stepVars, Ended, Types
<1>2. PICK n \in Ended : Pipeline(n) = Pipeline(k) /\ at[n] > at[k]
  BY <1>1 DEF PrunerInv
<1>3. ASSUME NEW j \in Ended
      PROVE  \E w \in Steps :
               /\ Completed(w)' /\ Pipeline(w) = Pipeline(j)
               /\ \A i \in Ended : Pipeline(i) = Pipeline(j) => at[i] <= at[w]
  <2>1. PICK w \in Steps :
          /\ Completed(w) /\ Pipeline(w) = Pipeline(j)
          /\ \A i \in Ended : Pipeline(i) = Pipeline(j) => at[i] <= at[w]
    BY DEF PrunerInv
  <2>2. w # k
    <3>1. SUFFICES ASSUME w = k PROVE FALSE
      OBVIOUS
    <3>2. at[n] <= at[k] /\ at[n] \in Nat /\ at[k] \in Nat
      BY <1>1, <1>2, <2>1, <3>1 DEF Types
    <3> QED BY <1>2, <3>2
  <2>3. Completed(w)'
    BY <1>1, <2>1, <2>2 DEF Completed
  <2> QED BY <2>1, <2>3
<1>4. \A j \in toPrune' \union pruned' : \E i \in Ended : Pipeline(i) = Pipeline(j) /\ at[i] > at[j]
  BY <1>1 DEF PrunerInv
<1> QED BY <1>1, <1>3, <1>4 DEF PrunerInv, Pipeline, Flow

LEMMA StartPruner ==
  ASSUME PrunerInv, StartPrune
  PROVE  PrunerInv'
<1>1. UNCHANGED <<at, ended, pruned>> /\ Ended' = Ended
  BY DEF StartPrune, runVars, cronVars, stepVars, Ended
<1>2. \A k \in toPrune' : \E i \in Ended : Pipeline(i) = Pipeline(k) /\ at[i] > at[k]
  BY DEF StartPrune, NotNewest, Completed
<1> QED BY <1>1, <1>2 DEF PrunerInv, Completed, Pipeline, Flow

LEMMA PrunerStep == IInv /\ [Next]_vars => PrunerInv'
<1> SUFFICES ASSUME IInv, [Next]_vars PROVE PrunerInv'
  OBVIOUS
<1> USE DEF IInv
<1>1. ASSUME NEW k \in Steps, Finish(k), UNCHANGED toPrune PROVE PrunerInv'
  BY <1>1, FinishPruner
<1>2. ASSUME NEW k \in Steps, EventStep(k), UNCHANGED toPrune PROVE PrunerInv'
  BY <1>2, EventStepFrame, PrunerUnchanged DEF cronVars
<1>3. ASSUME UNCHANGED <<stepVars, at, pruned, ended>>, toPrune' \subseteq toPrune PROVE PrunerInv'
  BY <1>3, PrunerUnchanged DEF stepVars
<1>4. CASE RunsNext /\ UNCHANGED toPrune
  BY <1>1, <1>2, <1>3, <1>4 DEF RunsNext, GrowOld
<1>5. CASE DetNext /\ UNCHANGED toPrune
  BY <1>3, <1>5
     DEF DetNext, DetStep, StartPass, Lookup, CreateEvent, Label, LabelGone, CallFails, EndPass,
         runVars, cronVars
<1>6. CASE PrunerNext
  BY <1>3, <1>6, StartPruner, DeletePruner DEF PrunerNext, DeleteFails, cronVars
<1> QED BY <1>3, <1>4, <1>5, <1>6 DEF Next, vars, runVars, cronVars

-----------------------------------------------------------------------------
(***************************************************************************)
(* The detector.                                                           *)
(***************************************************************************)

\* What is known of a run that ended stays: a step of its chain does not take its event back,
\* and nothing brings a pruned run back.
RunsKept ==
  /\ silent \subseteq silent'
  /\ succeeded \subseteq succeeded' /\ Ended \subseteq Ended'
  /\ pending' \intersect Ended \subseteq pending
  /\ missed \intersect Ended \subseteq missed'
  /\ fired \subseteq fired'
  /\ pruned \subseteq pruned'
  /\ alerted' = alerted

\* Why the cause of an alert stays.
LEMMA CauseKept ==
  ASSUME RunsKept, NEW k \in Ended, Cause(k)
  PROVE  Cause(k)'
BY DEF Cause, RunsKept, NextStep, Terminal, Flow

LEMMA DetectorUnchanged ==
  ASSUME Types, DetectorInv, RunsKept, UNCHANGED detVars
  PROVE  DetectorInv'
<1>1. UNCHANGED <<stallPc, toCheck, suspect, events, unlabelled>> /\ alerted' = alerted
  BY DEF detVars, RunsKept
<1>2. \A k \in toCheck \union suspect :
        k \in succeeded' \ (pending' \union alerted') /\ ~Terminal(k)
  BY DEF DetectorInv, RunsKept, Ended
<1>3. /\ \A k \in suspect : Cause(k)'
      /\ \A k \in Steps : events[k] > 0 => k \in Ended' /\ Cause(k)'
  BY CauseKept DEF DetectorInv, RunsKept, Types
<1> QED BY <1>1, <1>2, <1>3 DEF DetectorInv, Terminal, Flow

LEMMA RunsStepKept ==
  ASSUME IInv, [Next]_vars, ~DetNext
  PROVE  RunsKept
<1> USE DEF IInv
<1>1. ASSUME NEW k \in Steps, Finish(k) PROVE RunsKept
  BY <1>1 DEF Finish, Succeed, Fail, Ended, RunsKept
<1>2. ASSUME NEW k \in Steps, EventStep(k) PROVE RunsKept
  BY <1>2, EventStepFrame DEF RunsKept, cronVars, Ended
<1>3. CASE UNCHANGED <<stepVars, alerted>> /\ pruned \subseteq pruned'
  BY <1>3 DEF RunsKept, stepVars, Ended
<1> QED BY <1>1, <1>2, <1>3
        DEF Next, RunsNext, GrowOld, PrunerNext, StartPrune, Delete, DeleteFails, vars, runVars,
            cronVars

\* A step of the detector that leaves the runs and their labels alone.
LEMMA CausesStand ==
  ASSUME UNCHANGED <<stepVars, pruned>>
  PROVE  /\ \A k : (Cause(k)' <=> Cause(k)) /\ (Terminal(k)' <=> Terminal(k))
         /\ UNCHANGED <<succeeded, pending>> /\ Ended' = Ended
BY DEF Cause, stepVars, Ended, NextStep, Terminal, Flow

\* What the list lets through has had its event acted on or lost, if it had one.
LEMMA StartPassDetector ==
  ASSUME IInv, StartPass
  PROVE  DetectorInv'
<1> USE DEF IInv
<1>1. /\ UNCHANGED <<stepVars, pruned, alerted, stallPc, suspect, events, unlabelled>>
      /\ suspect = {}
      /\ toCheck' = {k \in Steps : Candidate(k)}
  BY DEF StartPass, runVars, cronVars, DetectorInv
<1>2. \A k \in toCheck' : k \in succeeded \ (pending \union alerted) /\ ~Terminal(k)
  BY <1>1 DEF Candidate, EventsInv
<1>3. /\ \A k : (Cause(k)' <=> Cause(k)) /\ (Terminal(k)' <=> Terminal(k))
      /\ UNCHANGED <<succeeded, pending>> /\ Ended' = Ended
  BY <1>1, CausesStand
<1> QED BY <1>1, <1>2, <1>3 DEF DetectorInv

\* A candidate whose successor is not there has a cause.
LEMMA LookupDetector ==
  ASSUME IInv, NEW k \in Steps, Lookup(k)
  PROVE  DetectorInv'
<1> USE DEF IInv
<1>1. /\ UNCHANGED <<stepVars, pruned, alerted, events, unlabelled>>
      /\ k \in toCheck /\ toCheck' = toCheck \ {k}
      /\ stallPc = "lookup" /\ suspect = {}
  BY DEF Lookup, runVars, cronVars, DetectorInv
<1>2. /\ \A j : (Cause(j)' <=> Cause(j)) /\ (Terminal(j)' <=> Terminal(j))
      /\ UNCHANGED <<succeeded, pending>> /\ Ended' = Ended
  BY <1>1, CausesStand
<1>3. CASE SuccessorExists(k)
  <2>1. UNCHANGED <<stallPc, suspect>>
    BY <1>3 DEF Lookup
  <2> QED BY <1>1, <1>2, <2>1 DEF DetectorInv
<1>4. CASE ~SuccessorExists(k)
  <2>1. stallPc' = "event" /\ suspect' = {k}
    BY <1>4 DEF Lookup
  <2>2. k \in succeeded \ (pending \union alerted) /\ ~Terminal(k)
    BY <1>1 DEF DetectorInv
  <2>3. /\ NextStep(k) \in Steps /\ Flow(NextStep(k)) = Flow(k)
        /\ NextStep(k).idx = NextIndex(k)
    BY <2>2, NextStepKeys DEF NextIndex
  <2>4. ~Present(NextStep(k))
    BY <1>4, <2>3 DEF SuccessorExists
  <2>5. Cause(k)
    BY <2>2, <2>4 DEF EventsInv, Cause, Present
  <2> QED BY <1>1, <1>2, <2>1, <2>2, <2>5 DEF DetectorInv
<1> QED BY <1>3, <1>4

LEMMA CreateEventDetector ==
  ASSUME IInv, NEW k \in Steps, CreateEvent(k)
  PROVE  DetectorInv'
<1> USE DEF IInv
<1>1. /\ UNCHANGED <<stepVars, pruned, alerted, toCheck, suspect, unlabelled>>
      /\ stallPc = "event" /\ stallPc' = "label" /\ k \in suspect
      /\ \A j \in suspect : j = k
  BY DEF CreateEvent, runVars, cronVars, DetectorInv
<1>2. /\ events'[k] = events[k] + 1 /\ \A j \in Steps : j # k => events'[j] = events[j]
      /\ \A j \in Steps : events[j] \in Nat /\ unlabelled[j] \in Nat
  BY DEF CreateEvent, Types
<1>3. Cause(k) /\ k \in Ended /\ k \notin alerted /\ events[k] <= unlabelled[k]
  BY <1>1 DEF DetectorInv, Types
<1>4. \A j \in Steps : events'[j] > 0 => j \in Ended /\ Cause(j)
  BY <1>2, <1>3 DEF DetectorInv
<1>5. /\ \A j \in suspect : events'[j] <= unlabelled[j] + 1
      /\ \A j \in alerted : events'[j] <= unlabelled[j] + 1
      /\ \A j \in Steps : j \notin alerted /\ j \notin suspect => events'[j] <= unlabelled[j]
  <2>1. alerted \subseteq Steps
    BY DEF Types, Ended
  <2> QED BY <1>1, <1>2, <1>3, <2>1 DEF DetectorInv
<1>6. /\ \A j : (Cause(j)' <=> Cause(j)) /\ (Terminal(j)' <=> Terminal(j))
      /\ UNCHANGED <<succeeded, pending>> /\ Ended' = Ended
  BY <1>1, CausesStand
<1> QED BY <1>1, <1>4, <1>5, <1>6 DEF DetectorInv

LEMMA LabelDetector ==
  ASSUME IInv, NEW k \in Steps, Label(k)
  PROVE  DetectorInv'
<1> USE DEF IInv
<1>1. /\ UNCHANGED <<stepVars, pruned, toCheck, events, unlabelled>>
      /\ stallPc = "label" /\ stallPc' = "lookup"
      /\ k \in suspect /\ suspect' = {} /\ k \notin toCheck
      /\ alerted' = alerted \union {k}
      /\ \A j \in suspect : j = k
  BY DEF Label, DetectorInv
<1>2. /\ \A j : (Cause(j)' <=> Cause(j)) /\ (Terminal(j)' <=> Terminal(j))
      /\ UNCHANGED <<succeeded, pending>> /\ Ended' = Ended
  BY <1>1, CausesStand
<1>3. /\ \A j \in alerted' : events[j] <= unlabelled[j] + 1
      /\ \A j \in Steps : j \notin alerted' => events[j] <= unlabelled[j]
  BY <1>1 DEF DetectorInv
<1> QED BY <1>1, <1>2, <1>3 DEF DetectorInv

LEMMA EndPassDetector ==
  ASSUME IInv, EndPass
  PROVE  DetectorInv'
<1> USE DEF IInv
<1>1. /\ UNCHANGED <<stepVars, pruned, alerted, events>>
      /\ stallPc' = "lookup" /\ toCheck' = {} /\ suspect' = {}
  BY DEF EndPass, cronVars
<1>2. \A k \in Steps : /\ events[k] \in Nat /\ unlabelled[k] \in Nat
                       /\ unlabelled'[k] = IF stallPc = "label" /\ k \in suspect
                                           THEN unlabelled[k] + 1 ELSE unlabelled[k]
  BY DEF EndPass, Types
<1>3. /\ \A k \in alerted : events[k] <= unlabelled'[k] + 1
      /\ \A k \in Steps : k \notin alerted => events[k] <= unlabelled'[k]
  <2>1. alerted \subseteq Steps
    BY DEF Types, Ended
  <2> QED BY <1>2, <2>1 DEF DetectorInv
<1>4. /\ \A j : (Cause(j)' <=> Cause(j)) /\ (Terminal(j)' <=> Terminal(j))
      /\ UNCHANGED <<succeeded, pending>> /\ Ended' = Ended
  BY <1>1, CausesStand
<1> QED BY <1>1, <1>3, <1>4 DEF DetectorInv

LEMMA DetectorStep == IInv /\ [Next]_vars => DetectorInv'
<1> SUFFICES ASSUME IInv, [Next]_vars PROVE DetectorInv'
  OBVIOUS
<1>1. CASE DetNext
  BY <1>1, StartPassDetector, LookupDetector, CreateEventDetector, LabelDetector, EndPassDetector
     DEF DetNext, DetStep, LabelGone, CallFails
<1>2. CASE ~DetNext
  <2>1. UNCHANGED detVars
    BY <1>2 DEF Next, vars, detVars
  <2> QED BY <1>2, <2>1, RunsStepKept, DetectorUnchanged DEF IInv
<1> QED BY <1>1, <1>2

-----------------------------------------------------------------------------
(***************************************************************************)
(* The theorems.                                                           *)
(***************************************************************************)
LEMMA IInvariant == Spec => []IInv
<1>1. IInv /\ [Next]_vars => IInv'
  BY TypesStep, EventsStep, PrunerStep, DetectorStep DEF IInv
<1> QED BY <1>1, InitIInv, PTL DEF Spec

\* The CronJobs work only on runs that ended, whatever ends, is pruned or fails meanwhile.
THEOREM TypeCorrect == Spec => []TypeOK
<1>1. IInv => TypeOK
  BY DEF IInv, Types, DetectorInv, TypeOK
<1> QED BY <1>1, IInvariant, PTL

\* The pruner never takes the newest completed run of a pipeline, however old its list.
THEOREM NewestIsKept == Spec => []NewestKept
<1>1. IInv => NewestKept
  <2> SUFFICES ASSUME IInv, NEW k \in pruned
               PROVE  \E j \in Steps : /\ Completed(j) /\ Pipeline(j) = Pipeline(k)
                                       /\ at[j] > at[k]
    BY DEF NewestKept
  <2>1. k \in Ended /\ Ended \subseteq Steps
    BY DEF IInv, Types, Ended
  <2>2. PICK i \in Ended : Pipeline(i) = Pipeline(k) /\ at[i] > at[k]
    BY DEF IInv, PrunerInv
  <2>3. PICK j \in Steps : /\ Completed(j) /\ Pipeline(j) = Pipeline(k)
                          /\ at[i] <= at[j]
    BY <2>2 DEF IInv, PrunerInv
  <2>4. at[i] \in Nat /\ at[j] \in Nat /\ at[k] \in Nat
    BY <2>1 DEF IInv, Types
  <2> QED BY <2>2, <2>3, <2>4
<1> QED BY <1>1, IInvariant, PTL

\* The detector announces a stalled run once, plus once for each pass that ended between
\* an Event and its label.
THEOREM AnnouncementsBounded == Spec => []AnnouncedOnce
<1>1. IInv => AnnouncedOnce
  <2> SUFFICES ASSUME IInv, NEW k \in Steps PROVE events[k] <= 1 + unlabelled[k]
    BY DEF AnnouncedOnce
  <2>1. events[k] \in Nat /\ unlabelled[k] \in Nat
    BY DEF IInv, Types
  <2> QED BY <2>1 DEF IInv, DetectorInv
<1> QED BY <1>1, IInvariant, PTL

\* The detector announces only a run that another step was to follow and does not: nothing was to
\* start it, its event was lost, or it was pruned.
THEOREM AlertsHaveCause == Spec => []AlertHasCause
<1>1. IInv => AlertHasCause
  BY DEF IInv, DetectorInv, AlertHasCause, Cause
<1> QED BY <1>1, IInvariant, PTL

\* The chains go on as StepRuns says, whatever the CronJobs do: neither of them starts, ends or
\* stops a run, so what FlowChain implements is what the two work on.
THEOREM ChainsAreStepRuns == Spec => StepSpec
<1>1. Init => StepInit
  BY DEF Init, RunsInit
<1>2. IInv /\ [Next]_vars => [StepNext]_stepVars
  <2> SUFFICES ASSUME IInv, [Next]_vars PROVE StepNext \/ UNCHANGED stepVars
    OBVIOUS
  <2>1. ASSUME NEW k \in Steps, Finish(k) PROVE StepNext
    BY <2>1 DEF Finish, Succeed, Fail, StepNext
  <2>2. ASSUME NEW k \in Steps, EventStep(k) PROVE StepNext
    <3>1. k \in started
      BY <2>2 DEF EventStep, Announce, Deliver, Lose, IInv, Types
    <3> QED BY <2>2, <3>1 DEF EventStep, StepNext
  <2>3. ASSUME NEW k \in Steps, GrowOld(k) PROVE UNCHANGED stepVars
    BY <2>3 DEF GrowOld
  <2>4. CASE DetNext
    BY <2>4 DEF DetNext, DetStep, StartPass, Lookup, CreateEvent, Label, LabelGone, CallFails,
                EndPass, runVars
  <2>5. CASE PrunerNext
    BY <2>5 DEF PrunerNext, StartPrune, Delete, DeleteFails, runVars
  <2>6. CASE UNCHANGED vars
    BY <2>6 DEF vars, runVars
  <2> QED BY <2>1, <2>2, <2>3, <2>4, <2>5, <2>6 DEF Next, RunsNext
<1> QED BY <1>1, <1>2, IInvariant, PTL DEF Spec, StepSpec
=============================================================================
