-------------------------- MODULE FlowChainProofs ---------------------------
(***************************************************************************)
(* Theorems about FlowChain, for every number of apps, flows, chains and   *)
(* steps, every retry budget and every rendered configuration.             *)
(***************************************************************************)
EXTENDS FlowChain, SequenceTheorems, TLAPS

-----------------------------------------------------------------------------
(***************************************************************************)
(* Steps and Triggers of a configuration.                                  *)
(***************************************************************************)

\* The flows of a configuration have a length.
LEMMA FlowLengths ==
  ASSUME NEW c \in Configs, NEW f \in DOMAIN c
  PROVE  Len(c[f].steps) \in Nat
<1>1. c[f] \in FlowCfg
  BY ConfigsAssumption
<1>2. c[f].steps \in Seq(Stages)
  BY <1>1 DEF FlowCfg
<1> QED BY <1>2

\* What membership in Steps says of a key.
LEMMA StepKeys ==
  ASSUME NEW c \in Configs, NEW k \in Steps(c)
  PROVE  /\ k \in StepKey
         /\ k.flow \in DOMAIN c
         /\ k.idx \in Nat
         /\ k.idx < Len(c[k.flow].steps)
         /\ Len(c[k.flow].steps) \in Nat
<1>1. DOMAIN c \subseteq FlowKey
  BY ConfigsAssumption
<1>2. \A f \in DOMAIN c : Len(c[f].steps) \in Nat
  BY FlowLengths
<1>3. k \in [flow: DOMAIN c, idx: UNION {0 .. Len(c[f].steps) : f \in DOMAIN c}]
  BY DEF Steps
<1>4. k.idx < Len(c[k.flow].steps)
  BY DEF Steps
<1>5. k.idx \in Nat
  BY <1>2, <1>3
<1> QED BY <1>1, <1>2, <1>3, <1>4, <1>5 DEF StepKey

\* A Trigger starts a step of its flow that has a predecessor.
LEMMA TriggersAreSteps ==
  ASSUME NEW c \in Configs, NEW t \in Triggers(c)
  PROVE  t \in Steps(c) /\ t.idx # 0
<1>1. \A f \in DOMAIN c : Len(c[f].steps) \in Nat
  BY FlowLengths
<1>2. t \in [flow: DOMAIN c, idx: UNION {1 .. Len(c[f].steps) : f \in DOMAIN c}]
  BY DEF Triggers
<1>3. PICK f \in DOMAIN c : t.idx \in 1 .. Len(c[f].steps)
  BY <1>2
<1>4. t.idx \in 0 .. Len(c[f].steps) /\ t.idx # 0
  BY <1>1, <1>3
<1>5. t.idx < Len(c[t.flow].steps)
  BY DEF Triggers
<1> QED BY <1>2, <1>3, <1>4, <1>5 DEF Steps

\* The first step of a flow with a PaC run file is a step.
LEMMA RootsAreSteps ==
  ASSUME NEW c \in Configs, NEW f \in DOMAIN c, PacRooted(c[f])
  PROVE  [flow |-> f, idx |-> 0] \in Steps(c)
<1>1. Len(c[f].steps) \in Nat /\ Len(c[f].steps) > 0
  BY FlowLengths DEF PacRooted
<1>2. 0 \in 0 .. Len(c[f].steps)
  BY <1>1
<1> QED BY <1>1, <1>2 DEF Steps

\* Which configurations have exact filters: every git-rooted flow begins with a build, the
\* usual shape, and no flow of the app has a name that extends its name with
\* a hyphen.  (The FlowLoop run shows what a flow rooted in another stage can do.)
THEOREM BuildRootedIsExact ==
  ASSUME NEW c \in Configs,
         \A f \in DOMAIN c : RootSource(c[f]) = "git" /\ Len(c[f].steps) > 0 =>
           /\ StageAt(c[f], 0) = "build"
           /\ \A g \in DOMAIN c : g.app = f.app => <<f.name, g.name>> \notin HyphenPrefix
  PROVE  ExactFilters(c)
<1> SUFFICES ASSUME NEW t \in Triggers(c), NEW k \in Steps(c), Selects(c, t, k)
             PROVE  k = [flow |-> t.flow, idx |-> t.idx - 1]
  BY DEF ExactFilters
<1>1. /\ t.flow \in DOMAIN c /\ t.idx \in Nat \ {0} /\ t.idx < Len(c[t.flow].steps)
      /\ k \in StepKey /\ k.flow \in DOMAIN c /\ k.idx \in Nat /\ k.idx < Len(c[k.flow].steps)
  BY TriggersAreSteps, StepKeys
<1>2. t.flow \in FlowKey /\ k.flow \in FlowKey
  BY <1>1, ConfigsAssumption
<1>3. CASE ~(t.idx = 1 /\ RootSource(c[t.flow]) = "git")
  BY <1>3 DEF Selects, SourceMatches
<1>4. CASE t.idx = 1 /\ RootSource(c[t.flow]) = "git"
  <2>1. StageAt(c[t.flow], 0) = "build" /\ Len(c[t.flow].steps) > 0
    BY <1>1, <1>4, FlowLengths
  <2>2. k.flow = t.flow
    <3>1. k.flow.app = t.flow.app
      BY DEF Selects, SourceMatches
    <3>2. k.flow.name = t.flow.name
      BY <1>1, <1>4, <2>1, <3>1 DEF Selects, SourceMatches
    <3> QED BY <1>2, <3>1, <3>2 DEF FlowKey
  <2>3. StageAt(c[k.flow], k.idx) = "build"
    <3>1. EventType("build") = "artifact.published"
      BY DEF EventType
    <3>2. EventType(StageAt(c[k.flow], k.idx)) = EventType(StageAt(c[t.flow], 0))
      <4>1. EventType(StageAt(c[k.flow], k.idx)) = EventType(StageAt(c[t.flow], t.idx - 1))
        BY DEF Selects
      <4>2. t.idx - 1 = 0
        BY <1>4
      <4> QED BY <4>1, <4>2
    <3>3. \A s : EventType(s) = "artifact.published" => s = "build"
      BY DEF EventType
    <3> QED BY <2>1, <3>1, <3>2, <3>3
  <2>4. k.idx \notin 1 .. Len(c[k.flow].steps) - 1
    <3>1. ValidFlow(c[k.flow]) /\ Len(c[k.flow].steps) > 0
      BY <1>1, FlowLengths, ConfigsAssumption
    <3> QED BY <2>3, <3>1 DEF ValidFlow
  <2>5. k.idx = 0
    BY <1>1, <2>4, FlowLengths
  <2> QED BY <1>1, <1>4, <2>2, <2>5 DEF StepKey
<1> QED BY <1>3, <1>4

-----------------------------------------------------------------------------
(***************************************************************************)
(* Type correctness.                                                       *)
(***************************************************************************)

TypeInv == flows \in Configs /\ TypeOK

\* A run's key is a step, and is read from a non-empty path.
LEMMA RunTypes ==
  ASSUME TypeInv, NEW r \in DOMAIN run
  PROVE  /\ r \in RunId
         /\ r.path \in Seq(StepKey)
         /\ Len(r.path) \in Nat \ {0}
         /\ Len(r.path) <= MaxPath
         /\ KeyOf(r) \in Steps(flows)
         /\ run[r] \in RunState
<1>1. r \in RunId /\ Len(r.path) \in 1 .. MaxPath /\ KeyOf(r) \in Steps(flows) /\ run[r] \in RunState
  BY DEF TypeInv, TypeOK
<1>2. r.path \in Seq(StepKey)
  BY <1>1 DEF RunId
<1> QED BY <1>1, <1>2, MaxPathAssumption

\* A run id of one step, and of one step more.
LEMMA RootRunType ==
  ASSUME TypeInv, NEW c \in Chains, NEW f \in DOMAIN flows, PacRooted(flows[f])
  PROVE  /\ RootRun(c, f) \in RunId
         /\ Len(RootRun(c, f).path) = 1
         /\ KeyOf(RootRun(c, f)) = [flow |-> f, idx |-> 0]
         /\ KeyOf(RootRun(c, f)) \in Steps(flows)
<1> DEFINE k == [flow |-> f, idx |-> 0]
<1>1. k \in Steps(flows)
  BY RootsAreSteps DEF TypeInv
<1>2. k \in StepKey
  BY <1>1, StepKeys DEF TypeInv
<1> HIDE DEF k
<1>3. RootRun(c, f) = [chain |-> c, path |-> <<k>>]
  BY DEF RootRun, k
<1>4. <<k>> \in Seq(StepKey) /\ Len(<<k>>) = 1 /\ <<k>>[1] = k
  BY <1>2
<1> QED BY <1>1, <1>3, <1>4 DEF RunId, KeyOf, k

LEMMA ChildRunType ==
  ASSUME TypeInv, NEW d \in pending
  PROVE  /\ d.from \in DOMAIN run
         /\ d.to \in Steps(flows)
         /\ d.to.idx # 0
         /\ ChildRun(d) \in RunId
         /\ ChildRun(d).chain = d.from.chain
         /\ Len(ChildRun(d).path) = Len(d.from.path) + 1
         /\ \A i \in 1 .. Len(d.from.path) : ChildRun(d).path[i] = d.from.path[i]
         /\ KeyOf(ChildRun(d)) = d.to
<1>1. d.from \in DOMAIN run /\ d.to \in Triggers(flows) /\ flows \in Configs
  BY DEF TypeInv, TypeOK
<1>2. d.to \in Steps(flows) /\ d.to.idx # 0
  BY <1>1, TriggersAreSteps
<1>3. d.to \in StepKey
  BY <1>1, <1>2, StepKeys
<1>4. d.from \in RunId /\ d.from.path \in Seq(StepKey) /\ Len(d.from.path) \in Nat \ {0}
  BY <1>1, RunTypes
<1>5. ChildRun(d) = [chain |-> d.from.chain, path |-> Append(d.from.path, d.to)]
  BY DEF ChildRun
<1>6. /\ Append(d.from.path, d.to) \in Seq(StepKey)
      /\ Len(Append(d.from.path, d.to)) = Len(d.from.path) + 1
      /\ \A i \in 1 .. Len(d.from.path) : Append(d.from.path, d.to)[i] = d.from.path[i]
      /\ Append(d.from.path, d.to)[Len(d.from.path) + 1] = d.to
  BY <1>3, <1>4
<1>7. d.from.chain \in Chains
  BY <1>4 DEF RunId
<1> QED BY <1>1, <1>2, <1>5, <1>6, <1>7 DEF RunId, KeyOf

\* What a step of one run leaves alone.
LEMMA RunStepFrame ==
  ASSUME TypeInv, NEW r \in DOMAIN run, RunStep(r)
  PROVE  /\ flows' = flows
         /\ lost' = lost
         /\ DOMAIN run' = DOMAIN run
         /\ run'[r] \in RunState
         /\ \A q \in DOMAIN run : q # r => run'[q] = run[q]
         /\ pending' \subseteq pending \union Selected(r)
         /\ pending' = pending \/ Announces(r)
         /\ run[r].tasks # "Running" => run'[r].tasks = run[r].tasks
         /\ run'[r].span = "closed" =>
              /\ run'[r].tasks # "Running"
              /\ run[r].span = "closed" \/ IsTerminal(flows, KeyOf(r))
<1>1. run[r] \in RunState
  BY RunTypes
<1>2. CASE FinishTasks(r)
  BY <1>1, <1>2 DEF FinishTasks, RunState
<1>3. CASE SkipSend(r)
  BY <1>1, <1>3 DEF SkipSend, RunState
<1>4. CASE PostAccepted(r)
  BY <1>1, <1>4, RetriesAssumption DEF PostAccepted, RunState
<1>5. CASE PostRefused(r)
  BY <1>1, <1>5, RetriesAssumption DEF PostRefused, RunState
<1>6. CASE CloseSpan(r)
  BY <1>1, <1>6 DEF CloseSpan, RunState
<1>7. CASE Complete(r)
  BY <1>1, <1>7 DEF Complete, RunState
<1> QED BY <1>2, <1>3, <1>4, <1>5, <1>6, <1>7 DEF RunStep

\* No step leaves the types.
LEMMA TypeInvInductive ==
  ASSUME TypeInv, [Next]_vars
  PROVE  TypeInv'
<1>1. ASSUME NEW c \in Chains, NEW f \in DOMAIN flows, GitPush(c, f) PROVE TypeInv'
  <2> DEFINE n == RootRun(c, f)
  <2>1. n \in RunId /\ Len(n.path) = 1 /\ KeyOf(n) \in Steps(flows)
    BY <1>1, RootRunType DEF GitPush
  <2> HIDE DEF n
  <2>2. /\ DOMAIN run' = DOMAIN run \union {n}
        /\ \A q \in DOMAIN run : run'[q] \in {run[q], NewRun}
        /\ run'[n] = NewRun
    BY <1>1 DEF GitPush, Create, n
  <2>3. NewRun \in RunState
    BY RetriesAssumption DEF NewRun, RunState
  <2>4. flows' = flows /\ pending' = pending /\ lost' = lost
    BY <1>1 DEF GitPush
  <2>5. Len(n.path) \in 1 .. MaxPath
    BY <2>1, MaxPathAssumption
  <2> QED BY <2>1, <2>2, <2>3, <2>4, <2>5 DEF TypeInv, TypeOK, KeyOf
<1>2. ASSUME NEW r \in DOMAIN run, RunStep(r) PROVE TypeInv'
  <2>1. \A d \in Selected(r) : d \in Delivery /\ d.from = r /\ d.to \in Triggers(flows)
    <3>1. r \in RunId
      BY RunTypes
    <3>2. \A t \in Triggers(flows) : t \in StepKey
      BY TriggersAreSteps, StepKeys DEF TypeInv
    <3> QED BY <3>1, <3>2 DEF Selected, Delivery
  <2> QED BY <1>2, <2>1, RunStepFrame DEF TypeInv, TypeOK, KeyOf
<1>3. ASSUME NEW d \in pending, Fire(d) PROVE TypeInv'
  <2> DEFINE n == ChildRun(d)
  <2>1. n \in RunId /\ Len(n.path) = Len(d.from.path) + 1 /\ KeyOf(n) \in Steps(flows)
    BY ChildRunType
  <2> HIDE DEF n
  <2>2. Len(n.path) \in 1 .. MaxPath
    <3>1. Len(d.from.path) \in Nat \ {0}
      BY ChildRunType, RunTypes
    <3> QED BY <1>3, <2>1, <3>1, MaxPathAssumption DEF Fire
  <2>3. /\ DOMAIN run' = DOMAIN run \union {n}
        /\ \A q \in DOMAIN run : run'[q] \in {run[q], NewRun}
        /\ n \notin DOMAIN run => run'[n] = NewRun
    BY <1>3 DEF Fire, Create, n
  <2>4. NewRun \in RunState
    BY RetriesAssumption DEF NewRun, RunState
  <2>5. flows' = flows /\ pending' \subseteq pending /\ lost' = lost
    BY <1>3 DEF Fire
  <2> QED BY <2>1, <2>2, <2>3, <2>4, <2>5 DEF TypeInv, TypeOK, KeyOf
<1>4. ASSUME NEW d \in pending, Drop(d) PROVE TypeInv'
  <2>1. /\ flows' = flows /\ run' = run
        /\ pending' \union lost' \subseteq pending \union lost
    BY <1>4 DEF Drop
  <2> QED BY <2>1 DEF TypeInv, TypeOK, KeyOf
<1>5. CASE UNCHANGED vars
  BY <1>5 DEF vars, TypeInv, TypeOK, KeyOf
<1> QED BY <1>1, <1>2, <1>3, <1>4, <1>5 DEF Next

\* Every state of FlowChain is well typed: run ids and deliveries name steps and Triggers of
\* the rendered configuration, retries stay within curl's budget.
THEOREM TypeCorrect == Spec => [](flows \in Configs /\ TypeOK)
<1>1. Init => TypeInv
  BY DEF Init, TypeInv, TypeOK
<1>2. TypeInv /\ [Next]_vars => TypeInv'
  BY TypeInvInductive
<1> QED BY <1>1, <1>2, PTL DEF Spec, TypeInv

-----------------------------------------------------------------------------
(***************************************************************************)
(* A chain that stops is seen to stop, whatever the configuration.         *)
(*                                                                         *)
(* NoSilentStop looks at a run that is done; what makes it true was done    *)
(* when its event was posted.  The invariant therefore follows the `send`  *)
(* task: it is not looked at before the stage's tasks end, and once it     *)
(* says "sent" the next step's Trigger has the event.                      *)
(***************************************************************************)

SentInv ==
  \A r \in DOMAIN run :
    /\ run[r].send # "todo" => run[r].tasks # "Running"
    /\ run[r].done # "no" => run[r].send # "todo"
    /\ run[r].done = "Succeeded" => run[r].tasks = "Succeeded" /\ run[r].send # "failed"
    /\ run[r].send = "skipped" /\ run[r].tasks = "Succeeded" => ~HasFinally(r)
    /\ run[r].send = "sent" /\ run[r].tasks = "Succeeded" /\ HasFinally(r)
         /\ ~IsTerminal(flows, KeyOf(r)) => HandedOn(r)

\* A stage that announces anything announces it to the Trigger of the next step.
LEMMA NextIsSelected ==
  ASSUME TypeInv, NEW r \in DOMAIN run, HasFinally(r), run[r].tasks = "Succeeded",
         ~IsTerminal(flows, KeyOf(r))
  PROVE  NextDelivery(r) \in Selected(r)
<1> DEFINE k == KeyOf(r)
           t == [flow |-> k.flow, idx |-> k.idx + 1]
<1>1. k \in Steps(flows) /\ flows \in Configs
  BY RunTypes DEF TypeInv
<1>2. /\ k \in StepKey /\ k.flow \in DOMAIN flows /\ k.idx \in Nat
      /\ k.idx < Len(flows[k.flow].steps) /\ Len(flows[k.flow].steps) \in Nat
  BY <1>1, StepKeys
<1>3. ~IsTerminal(flows, k)
  OBVIOUS
<1> HIDE DEF k
<1>4. t \in Triggers(flows)
  <2>1. k.idx + 1 < Len(flows[k.flow].steps)
    BY <1>2, <1>3 DEF IsTerminal
  <2>2. k.idx + 1 \in 1 .. Len(flows[k.flow].steps)
    BY <1>2, <2>1
  <2> QED BY <1>2, <2>1, <2>2 DEF Triggers
<1>5. StageAt(flows[t.flow], t.idx - 1) = StageOf(r)
  <2>1. t.idx - 1 = k.idx
    BY <1>2
  <2> QED BY <2>1 DEF StageOf, k
<1>6. EventType(StageOf(r)) # ""
  <2>1. StageOf(r) \in Stages
    <3>1. flows[k.flow].steps \in Seq(Stages)
      BY <1>1, <1>2, ConfigsAssumption DEF FlowCfg
    <3>2. k.idx + 1 \in 1 .. Len(flows[k.flow].steps)
      BY <1>2
    <3>3. flows[k.flow].steps[k.idx + 1] \in Stages
      BY <3>1, <3>2
    <3> QED BY <3>3 DEF StageOf, StageAt, k
  <2>2. StageOf(r) \in {"build", "test", "deploy", "release"}
    BY <2>1 DEF Stages, HasFinally
  <2> QED BY <2>2 DEF EventType
<1>7. SourceMatches(flows, t, k)
  <2>1. k = [flow |-> t.flow, idx |-> t.idx - 1]
    BY <1>2 DEF StepKey
  <2> QED BY <2>1 DEF SourceMatches
<1>8. Matches(flows, t, k, run[r].tasks)
  <2>1. EventType(StageAt(flows[k.flow], k.idx)) = EventType(StageOf(r))
    BY DEF StageOf, k
  <2> QED BY <1>5, <1>6, <1>7, <2>1 DEF Matches, Selects
<1> QED BY <1>4, <1>8 DEF Selected, NextDelivery, k

\* An event that reached the next step's Trigger stays accounted for: its delivery waits, makes
\* the run or is dropped.
LEMMA HandedOnKept ==
  ASSUME TypeInv, [Next]_vars, NEW r, HandedOn(r)
  PROVE  HandedOn(r)'
<1> DEFINE d == NextDelivery(r)
<1>1. d \in pending \union lost \/ ChildRun(d) \in DOMAIN run
  BY DEF HandedOn
<1> HIDE DEF d
<1>2. d \in pending' \union lost' \/ ChildRun(d) \in DOMAIN run'
  <2>1. ASSUME NEW c \in Chains, NEW f \in DOMAIN flows, GitPush(c, f)
        PROVE  DOMAIN run \subseteq DOMAIN run' /\ pending' = pending /\ lost' = lost
    BY <2>1 DEF GitPush, Create
  <2>2. ASSUME NEW q \in DOMAIN run, RunStep(q)
        PROVE  DOMAIN run' = DOMAIN run /\ pending \subseteq pending' /\ lost' = lost
    BY <2>2, RunStepFrame DEF RunStep, FinishTasks, SkipSend, PostAccepted, PostRefused, CloseSpan,
                              Complete
  <2>3. ASSUME NEW e \in pending, Fire(e)
        PROVE  /\ DOMAIN run \subseteq DOMAIN run' /\ lost' = lost
               /\ pending' = pending \ {e} /\ ChildRun(e) \in DOMAIN run'
    BY <2>3 DEF Fire, Create
  <2>4. ASSUME NEW e \in pending, Drop(e)
        PROVE  run' = run /\ pending \union lost \subseteq pending' \union lost'
    BY <2>4 DEF Drop
  <2>5. CASE UNCHANGED vars
    BY <1>1, <2>5 DEF vars
  <2> QED BY <1>1, <2>1, <2>2, <2>3, <2>4, <2>5 DEF Next
<1> QED BY <1>2 DEF HandedOn, d, ChildRun, NextDelivery, KeyOf

\* One step of a run keeps what SentInv says of it.
LEMMA SentByRunStep ==
  ASSUME TypeInv, SentInv, NEW r \in DOMAIN run, RunStep(r), HandedOn(r) => HandedOn(r)'
  PROVE  /\ run'[r].send # "todo" => run'[r].tasks # "Running"
         /\ run'[r].done # "no" => run'[r].send # "todo"
         /\ run'[r].done = "Succeeded" => run'[r].tasks = "Succeeded" /\ run'[r].send # "failed"
         /\ run'[r].send = "skipped" /\ run'[r].tasks = "Succeeded" => ~HasFinally(r)
         /\ run'[r].send = "sent" /\ run'[r].tasks = "Succeeded" /\ HasFinally(r)
              /\ ~IsTerminal(flows, KeyOf(r)) => HandedOn(r)'
<1>1. run[r] \in RunState
  BY RunTypes
<1>2. /\ run[r].send # "todo" => run[r].tasks # "Running"
      /\ run[r].done # "no" => run[r].send # "todo"
      /\ run[r].done = "Succeeded" => run[r].tasks = "Succeeded" /\ run[r].send # "failed"
      /\ run[r].send = "skipped" /\ run[r].tasks = "Succeeded" => ~HasFinally(r)
      /\ run[r].send = "sent" /\ run[r].tasks = "Succeeded" /\ HasFinally(r)
           /\ ~IsTerminal(flows, KeyOf(r)) => HandedOn(r)
  BY DEF SentInv
<1>3. CASE FinishTasks(r)
  BY <1>1, <1>2, <1>3 DEF FinishTasks, RunState
<1>4. CASE SkipSend(r)
  <2>1. run[r].tasks = "Succeeded" => ~HasFinally(r)
    BY <1>4 DEF SkipSend, Announces
  <2> QED BY <1>1, <1>2, <1>4, <2>1 DEF SkipSend, RunState
<1>5. CASE PostAccepted(r)
  <2>1. /\ run'[r].tasks = run[r].tasks /\ run'[r].done = run[r].done
        /\ run[r].send = "todo" /\ run[r].tasks # "Running"
        /\ run'[r].send \in {"todo", "sent", "failed"}
        /\ run[r].done = "no"
    BY <1>1, <1>2, <1>5 DEF PostAccepted, RunState
  <2>2. ASSUME run[r].tasks = "Succeeded", HasFinally(r), ~IsTerminal(flows, KeyOf(r))
        PROVE  HandedOn(r)'
    BY <1>5, <2>2, NextIsSelected DEF PostAccepted, HandedOn, NextDelivery, KeyOf
  <2> QED BY <2>1, <2>2
<1>6. CASE PostRefused(r)
  BY <1>1, <1>2, <1>6 DEF PostRefused, RunState
<1>7. CASE CloseSpan(r)
  BY <1>1, <1>2, <1>7 DEF CloseSpan, RunState
<1>8. CASE Complete(r)
  BY <1>1, <1>2, <1>8 DEF Complete, RunState
<1> QED BY <1>3, <1>4, <1>5, <1>6, <1>7, <1>8 DEF RunStep

LEMMA SentInvInductive ==
  ASSUME TypeInv, SentInv, [Next]_vars
  PROVE  SentInv'
<1>1. \A r : HandedOn(r) => HandedOn(r)'
  BY HandedOnKept
<1>2. ASSUME flows' = flows
      PROVE  \A r : (HasFinally(r)' <=> HasFinally(r))
                    /\ (IsTerminal(flows', KeyOf(r)') <=> IsTerminal(flows, KeyOf(r)))
  BY <1>2 DEF HasFinally, StageOf, KeyOf
<1>3. /\ NewRun.send = "todo" /\ NewRun.done = "no"
  BY DEF NewRun
<1>4. ASSUME flows' = flows, \A q \in DOMAIN run' : IF q \in DOMAIN run THEN run'[q] = run[q]
                                                                      ELSE run'[q] = NewRun
      PROVE  SentInv'
  <2> SUFFICES ASSUME NEW q \in DOMAIN run'
               PROVE  /\ run'[q].send # "todo" => run'[q].tasks # "Running"
                      /\ run'[q].done # "no" => run'[q].send # "todo"
                      /\ run'[q].done = "Succeeded" =>
                           run'[q].tasks = "Succeeded" /\ run'[q].send # "failed"
                      /\ run'[q].send = "skipped" /\ run'[q].tasks = "Succeeded" => ~HasFinally(q)'
                      /\ run'[q].send = "sent" /\ run'[q].tasks = "Succeeded" /\ HasFinally(q)'
                           /\ ~IsTerminal(flows', KeyOf(q)') => HandedOn(q)'
    BY DEF SentInv
  <2>1. CASE q \in DOMAIN run
    BY <1>1, <1>2, <1>4, <2>1 DEF SentInv
  <2>2. CASE q \notin DOMAIN run
    BY <1>3, <1>4, <2>2
  <2> QED BY <2>1, <2>2
<1>5. ASSUME NEW c \in Chains, NEW f \in DOMAIN flows, GitPush(c, f) PROVE SentInv'
  <2>1. RootRun(c, f) \notin DOMAIN run
    BY <1>5 DEF GitPush, RootRun
  <2> QED BY <1>4, <1>5, <2>1 DEF GitPush, Create
<1>6. ASSUME NEW d \in pending, Fire(d) PROVE SentInv'
  BY <1>4, <1>6 DEF Fire, Create
<1>7. ASSUME NEW d \in pending, Drop(d) PROVE SentInv'
  BY <1>4, <1>7 DEF Drop
<1>8. CASE UNCHANGED vars
  BY <1>4, <1>8 DEF vars
<1>9. ASSUME NEW r \in DOMAIN run, RunStep(r) PROVE SentInv'
  <2>1. flows' = flows /\ DOMAIN run' = DOMAIN run /\ \A q \in DOMAIN run : q # r => run'[q] = run[q]
    BY <1>9, RunStepFrame
  <2> SUFFICES ASSUME NEW q \in DOMAIN run
               PROVE  /\ run'[q].send # "todo" => run'[q].tasks # "Running"
                      /\ run'[q].done # "no" => run'[q].send # "todo"
                      /\ run'[q].done = "Succeeded" =>
                           run'[q].tasks = "Succeeded" /\ run'[q].send # "failed"
                      /\ run'[q].send = "skipped" /\ run'[q].tasks = "Succeeded" => ~HasFinally(q)'
                      /\ run'[q].send = "sent" /\ run'[q].tasks = "Succeeded" /\ HasFinally(q)'
                           /\ ~IsTerminal(flows', KeyOf(q)') => HandedOn(q)'
    BY <2>1 DEF SentInv
  <2>2. CASE q # r
    BY <1>1, <1>2, <2>1, <2>2 DEF SentInv
  <2>3. CASE q = r
    BY <1>1, <1>2, <1>9, <2>1, <2>3, SentByRunStep
  <2> QED BY <2>2, <2>3
<1> QED BY <1>5, <1>6, <1>7, <1>8, <1>9 DEF Next

\* For every configuration, exact or not: a run that ended Succeeded before the last step of its
\* flow has handed its event on, and what became of it is recorded.
THEOREM GreenIsHandedOn == Spec => []NoSilentStop
<1>1. Init => TypeInv /\ SentInv
  BY DEF Init, TypeInv, TypeOK, SentInv
<1>2. TypeInv /\ SentInv /\ [Next]_vars => TypeInv' /\ SentInv'
  BY TypeInvInductive, SentInvInductive
<1>3. TypeInv /\ SentInv => NoSilentStop
  <2> SUFFICES ASSUME TypeInv, SentInv, NEW r \in DOMAIN run, run[r].done = "Succeeded",
                      HasFinally(r), ~IsTerminal(flows, KeyOf(r))
               PROVE  HandedOn(r)
    BY DEF NoSilentStop
  <2>1. run[r].send \in {"todo", "sent", "failed", "skipped"}
    BY RunTypes DEF RunState
  <2> QED BY <2>1 DEF SentInv
<1> QED BY <1>1, <1>2, <1>3, PTL DEF Spec

-----------------------------------------------------------------------------
(***************************************************************************)
(* The inductive invariant, for configurations whose filters are exact.    *)
(*                                                                         *)
(* OneRunPerStep says nothing of how a run came to be, so no step preserves *)
(* it by itself.  What makes it true is that the path in a run's name is   *)
(* forced: a chain has one root, and a delivery only ever names the next   *)
(* step of the run it came from.  The path is then determined by its       *)
(* length, hence so is the run.                                            *)
(***************************************************************************)

CanonicalPaths ==
  \A r \in DOMAIN run : \A i \in 1 .. Len(r.path) :
    r.path[i] = [flow |-> r.path[1].flow, idx |-> i - 1]

OneRootPerChain ==
  \A r, s \in DOMAIN run : r.chain = s.chain => r.path[1].flow = s.path[1].flow

PrefixesPassed ==
  \A r \in DOMAIN run : \A i \in 1 .. Len(r.path) - 1 :
    \E p \in DOMAIN run :
      p.chain = r.chain /\ Len(p.path) = i /\ run[p].tasks = "Succeeded"

NextStepOnly ==
  \A d \in pending :
    /\ d.to = [flow |-> KeyOf(d.from).flow, idx |-> KeyOf(d.from).idx + 1]
    /\ run[d.from].tasks = "Succeeded"

ClosedAtTheEnd ==
  \A r \in DOMAIN run :
    run[r].span = "closed" => run[r].tasks # "Running" /\ IsTerminal(flows, KeyOf(r))

IInv ==
  /\ TypeInv
  /\ CanonicalPaths
  /\ OneRootPerChain
  /\ PrefixesPassed
  /\ NextStepOnly
  /\ ClosedAtTheEnd

\* A run's key, by the length of its path.
LEMMA KeyByLength ==
  ASSUME IInv, NEW r \in DOMAIN run
  PROVE  KeyOf(r) = [flow |-> r.path[1].flow, idx |-> Len(r.path) - 1]
<1>1. Len(r.path) \in 1 .. Len(r.path)
  BY RunTypes DEF IInv
<1> QED BY <1>1 DEF IInv, CanonicalPaths, KeyOf

\* Two runs of a chain with paths of one length are one run.
LEMMA RunByLength ==
  ASSUME IInv, NEW r \in DOMAIN run, NEW s \in DOMAIN run,
         r.chain = s.chain, Len(r.path) = Len(s.path)
  PROVE  r = s
<1>1. r \in RunId /\ s \in RunId /\ r.path \in Seq(StepKey) /\ s.path \in Seq(StepKey)
  BY RunTypes DEF IInv
<1>2. r.path[1].flow = s.path[1].flow
  BY DEF IInv, OneRootPerChain
<1>3. \A i \in 1 .. Len(r.path) : r.path[i] = s.path[i]
  BY <1>2 DEF IInv, CanonicalPaths
<1>4. r.path = s.path
  BY <1>1, <1>3, SeqEqual
<1> QED BY <1>1, <1>4 DEF RunId

UniqueByLength ==
  \A r, s \in DOMAIN run : r.chain = s.chain /\ Len(r.path) = Len(s.path) => r = s

LEMMA IInvUnique == IInv' => UniqueByLength'
<1>1. IInv => UniqueByLength
  BY RunByLength DEF UniqueByLength
<1> QED BY <1>1, PTL

\* An exact filter lets through only the event of the step before, and only once it passed.
LEMMA SelectedIsNext ==
  ASSUME TypeInv, ExactFilters(flows),
         NEW r \in DOMAIN run, Announces(r), NEW d \in Selected(r)
  PROVE  /\ d.from = r
         /\ d.to = [flow |-> KeyOf(r).flow, idx |-> KeyOf(r).idx + 1]
         /\ run[r].tasks = "Succeeded"
<1>1. PICK t \in Triggers(flows) :
        /\ d = [from |-> r, to |-> t]
        /\ Matches(flows, t, KeyOf(r), run[r].tasks)
  BY DEF Selected
<1>2. KeyOf(r) = [flow |-> t.flow, idx |-> t.idx - 1]
  <2>1. KeyOf(r) \in Steps(flows)
    BY RunTypes
  <2> QED BY <1>1, <2>1 DEF ExactFilters, Matches
<1>3. t = [flow |-> t.flow, idx |-> t.idx] /\ t.idx \in Nat
  BY TriggersAreSteps, StepKeys DEF TypeInv, StepKey
<1>4. t = [flow |-> KeyOf(r).flow, idx |-> KeyOf(r).idx + 1]
  BY <1>2, <1>3
<1>5. run[r].tasks = "Succeeded"
  <2>1. CASE StageOf(r) = "test"
    BY <1>1, <1>2, <2>1 DEF Matches, StageOf
  <2>2. CASE StageOf(r) # "test"
    BY <2>2 DEF Announces
  <2> QED BY <2>1, <2>2
<1> QED BY <1>1, <1>4, <1>5

LEMMA IInvGitPush ==
  ASSUME IInv, TypeInv', NEW c \in Chains, NEW f \in DOMAIN flows, GitPush(c, f)
  PROVE  IInv'
<1> DEFINE n == RootRun(c, f)
<1>1. Len(n.path) = 1 /\ n.chain = c /\ n.path[1] = [flow |-> f, idx |-> 0]
  BY RootRunType DEF GitPush, RootRun, IInv
<1>2. n \notin DOMAIN run /\ \A r \in DOMAIN run : r.chain # n.chain
  BY <1>1 DEF GitPush
<1> HIDE DEF n
<1>3. /\ DOMAIN run' = DOMAIN run \union {n}
      /\ \A q \in DOMAIN run : run'[q] = run[q]
      /\ run'[n] = NewRun
  BY <1>2 DEF GitPush, Create, n
<1>4. flows' = flows /\ pending' = pending
  BY DEF GitPush
<1>5. CanonicalPaths'
  <2>1. \A i \in 1 .. Len(n.path) : n.path[i] = [flow |-> n.path[1].flow, idx |-> i - 1]
    BY <1>1
  <2> QED BY <1>3, <2>1 DEF IInv, CanonicalPaths
<1>6. OneRootPerChain'
  BY <1>2, <1>3 DEF IInv, OneRootPerChain
<1>7. PrefixesPassed'
  <2> SUFFICES ASSUME NEW r \in DOMAIN run', NEW i \in 1 .. Len(r.path) - 1
               PROVE  \E p \in DOMAIN run' :
                        p.chain = r.chain /\ Len(p.path) = i /\ run'[p].tasks = "Succeeded"
    BY DEF PrefixesPassed
  <2>1. r # n
    <3>1. 1 .. Len(n.path) - 1 = {}
      BY <1>1
    <3> QED BY <3>1
  <2>2. r \in DOMAIN run
    BY <1>3, <2>1
  <2>3. PICK p \in DOMAIN run :
          p.chain = r.chain /\ Len(p.path) = i /\ run[p].tasks = "Succeeded"
    BY <2>2 DEF IInv, PrefixesPassed
  <2> QED BY <1>3, <2>3
<1>8. NextStepOnly'
  <2>1. \A d \in pending : d.from \in DOMAIN run
    BY DEF IInv, TypeInv, TypeOK
  <2> QED BY <1>3, <1>4, <2>1 DEF IInv, NextStepOnly, KeyOf
<1>9. ClosedAtTheEnd'
  <2>1. NewRun.span # "closed"
    BY DEF NewRun
  <2> QED BY <1>3, <1>4, <2>1 DEF IInv, ClosedAtTheEnd, KeyOf
<1> QED BY <1>5, <1>6, <1>7, <1>8, <1>9 DEF IInv

LEMMA IInvRunStep ==
  ASSUME IInv, TypeInv', ExactFilters(flows), NEW r \in DOMAIN run, RunStep(r)
  PROVE  IInv'
<1>1. /\ flows' = flows
      /\ DOMAIN run' = DOMAIN run
      /\ \A q \in DOMAIN run : q # r => run'[q] = run[q]
      /\ pending' \subseteq pending \union Selected(r)
      /\ pending' = pending \/ Announces(r)
      /\ run[r].tasks # "Running" => run'[r].tasks = run[r].tasks
      /\ run'[r].span = "closed" =>
           /\ run'[r].tasks # "Running"
           /\ run[r].span = "closed" \/ IsTerminal(flows, KeyOf(r))
  BY RunStepFrame DEF IInv
<1>2. \A q \in DOMAIN run : run[q].tasks = "Succeeded" => run'[q].tasks = "Succeeded"
  BY <1>1
<1>3. CanonicalPaths' /\ OneRootPerChain'
  BY <1>1 DEF IInv, CanonicalPaths, OneRootPerChain
<1>4. PrefixesPassed'
  BY <1>1, <1>2 DEF IInv, PrefixesPassed
<1>5. NextStepOnly'
  <2>1. ASSUME NEW d \in pending
        PROVE  /\ d.to = [flow |-> KeyOf(d.from).flow, idx |-> KeyOf(d.from).idx + 1]
               /\ run'[d.from].tasks = "Succeeded"
    <3>1. d.from \in DOMAIN run
      BY DEF IInv, TypeInv, TypeOK
    <3> QED BY <1>2, <3>1 DEF IInv, NextStepOnly
  <2>2. ASSUME NEW d \in Selected(r), Announces(r)
        PROVE  /\ d.to = [flow |-> KeyOf(d.from).flow, idx |-> KeyOf(d.from).idx + 1]
               /\ run'[d.from].tasks = "Succeeded"
    BY <1>2, <2>2, SelectedIsNext DEF IInv
  <2> QED BY <1>1, <2>1, <2>2 DEF NextStepOnly, KeyOf
<1>6. ClosedAtTheEnd'
  BY <1>1 DEF IInv, ClosedAtTheEnd, KeyOf
<1> QED BY <1>3, <1>4, <1>5, <1>6 DEF IInv

LEMMA IInvFire ==
  ASSUME IInv, TypeInv', NEW d \in pending, Fire(d)
  PROVE  IInv'
<1> DEFINE n == ChildRun(d)
           p == d.from
<1>1. /\ p \in DOMAIN run
      /\ n.chain = p.chain
      /\ Len(n.path) = Len(p.path) + 1
      /\ \A i \in 1 .. Len(p.path) : n.path[i] = p.path[i]
      /\ n.path[Len(n.path)] = d.to
  BY ChildRunType DEF IInv, KeyOf
<1>2. d.to = [flow |-> p.path[1].flow, idx |-> Len(p.path)] /\ run[p].tasks = "Succeeded"
  <2>1. Len(p.path) \in Nat
    BY <1>1, RunTypes DEF IInv
  <2> QED BY <1>1, <2>1, KeyByLength DEF IInv, NextStepOnly
<1>3. Len(p.path) \in Nat \ {0}
  BY <1>1, RunTypes DEF IInv
<1> HIDE DEF n, p
<1>4. flows' = flows /\ pending' \subseteq pending
  BY DEF Fire
<1>5. CASE n \in DOMAIN run
  <2>1. run' = run
    BY <1>5 DEF Fire, n
  <2> QED
    BY <1>4, <2>1 DEF IInv, CanonicalPaths, OneRootPerChain, PrefixesPassed, NextStepOnly,
                      ClosedAtTheEnd, KeyOf
<1>6. CASE n \notin DOMAIN run
  <2>1. /\ DOMAIN run' = DOMAIN run \union {n}
        /\ \A q \in DOMAIN run : run'[q] = run[q]
        /\ run'[n] = NewRun
    BY <1>6 DEF Fire, Create, n
  <2>2. n.path[1] = p.path[1]
    BY <1>1, <1>3
  <2>3. \A i \in 1 .. Len(n.path) : n.path[i] = [flow |-> n.path[1].flow, idx |-> i - 1]
    <3> SUFFICES ASSUME NEW i \in 1 .. Len(n.path)
                 PROVE  n.path[i] = [flow |-> n.path[1].flow, idx |-> i - 1]
      OBVIOUS
    <3>1. CASE i \in 1 .. Len(p.path)
      <4>1. n.path[i] = p.path[i]
        BY <1>1, <3>1
      <4>2. p.path[i] = [flow |-> p.path[1].flow, idx |-> i - 1]
        BY <1>1, <3>1 DEF IInv, CanonicalPaths
      <4> QED BY <2>2, <4>1, <4>2
    <3>2. CASE i = Len(n.path)
      BY <1>1, <1>2, <1>3, <2>2, <3>2
    <3> QED BY <1>1, <1>3, <3>1, <3>2
  <2>4. CanonicalPaths'
    BY <2>1, <2>3 DEF IInv, CanonicalPaths
  <2>5. OneRootPerChain'
    BY <1>1, <2>1, <2>2 DEF IInv, OneRootPerChain
  <2>6. PrefixesPassed'
    <3>1. ASSUME NEW i \in 1 .. Len(n.path) - 1
          PROVE  \E q \in DOMAIN run :
                   q.chain = n.chain /\ Len(q.path) = i /\ run[q].tasks = "Succeeded"
      <4>1. CASE i = Len(p.path)
        BY <1>1, <1>2, <4>1
      <4>2. CASE i \in 1 .. Len(p.path) - 1
        BY <1>1, <4>2 DEF IInv, PrefixesPassed
      <4> QED BY <1>1, <1>3, <4>1, <4>2
    <3> QED BY <2>1, <3>1 DEF IInv, PrefixesPassed
  <2>7. NextStepOnly'
    <3>1. \A e \in pending : e.from \in DOMAIN run
      BY DEF IInv, TypeInv, TypeOK
    <3> QED BY <1>4, <2>1, <3>1 DEF IInv, NextStepOnly, KeyOf
  <2>8. ClosedAtTheEnd'
    <3>1. NewRun.span # "closed"
      BY DEF NewRun
    <3> QED BY <1>4, <2>1, <3>1 DEF IInv, ClosedAtTheEnd, KeyOf
  <2> QED BY <2>4, <2>5, <2>6, <2>7, <2>8 DEF IInv
<1> QED BY <1>5, <1>6

\* The invariant is inductive as long as the filters are exact.
LEMMA IInvInductive ==
  ASSUME IInv, ExactFilters(flows), TypeInv', [Next]_vars
  PROVE  IInv'
<1>1. ASSUME NEW d \in pending, Drop(d) PROVE IInv'
  BY <1>1 DEF Drop, IInv, CanonicalPaths, OneRootPerChain, PrefixesPassed, NextStepOnly,
              ClosedAtTheEnd, KeyOf
<1>2. CASE UNCHANGED vars
  BY <1>2 DEF vars, IInv, CanonicalPaths, OneRootPerChain, PrefixesPassed, NextStepOnly,
              ClosedAtTheEnd, KeyOf
<1> QED BY <1>1, <1>2, IInvGitPush, IInvRunStep, IInvFire DEF Next

-----------------------------------------------------------------------------
(***************************************************************************)
(* The theorems.                                                           *)
(***************************************************************************)

LEMMA IInvInvariant ==
  ASSUME \A c \in Configs : ExactFilters(c)
  PROVE  Spec => []IInv
<1>1. Init => IInv
  BY DEF Init, IInv, TypeInv, TypeOK, CanonicalPaths, OneRootPerChain, PrefixesPassed,
         NextStepOnly, ClosedAtTheEnd
<1>2. IInv /\ [Next]_vars => IInv'
  <2> SUFFICES ASSUME IInv, [Next]_vars PROVE IInv'
    OBVIOUS
  <2>1. ExactFilters(flows)
    BY DEF IInv, TypeInv
  <2>2. TypeInv'
    BY TypeInvInductive DEF IInv
  <2> QED BY <2>1, <2>2, IInvInductive
<1> QED BY <1>1, <1>2, PTL DEF Spec

\* With exact filters a chain runs each step of its flow at most once, however often events
\* are posted again and whichever deliveries the listener drops.
THEOREM StepsRunOnce ==
  ASSUME \A c \in Configs : ExactFilters(c)
  PROVE  Spec => []OneRunPerStep
<1>1. IInv => OneRunPerStep
  <2> SUFFICES ASSUME IInv, NEW r \in DOMAIN run, NEW s \in DOMAIN run,
                      r.chain = s.chain, KeyOf(r) = KeyOf(s)
               PROVE  r = s
    BY DEF OneRunPerStep
  <2>1. Len(r.path) \in Nat /\ Len(s.path) \in Nat
    BY RunTypes DEF IInv
  <2>2. Len(r.path) = Len(s.path)
    BY <2>1, KeyByLength
  <2> QED BY <2>2, RunByLength
<1> QED BY <1>1, IInvInvariant, PTL

\* With exact filters a step only ever runs after every earlier step of its chain passed.
THEOREM NoStepSkipped ==
  ASSUME \A c \in Configs : ExactFilters(c)
  PROVE  Spec => []PredecessorsPassed
<1>1. IInv => PredecessorsPassed
  <2> SUFFICES ASSUME IInv, NEW r \in DOMAIN run, NEW i \in 0 .. KeyOf(r).idx - 1
               PROVE  \E p \in DOMAIN run :
                        /\ p.chain = r.chain
                        /\ KeyOf(p) = [flow |-> KeyOf(r).flow, idx |-> i]
                        /\ run[p].tasks = "Succeeded"
    BY DEF PredecessorsPassed
  <2>1. Len(r.path) \in Nat /\ KeyOf(r) = [flow |-> r.path[1].flow, idx |-> Len(r.path) - 1]
    BY RunTypes, KeyByLength DEF IInv
  <2>2. i + 1 \in 1 .. Len(r.path) - 1
    BY <2>1
  <2>3. PICK p \in DOMAIN run :
          p.chain = r.chain /\ Len(p.path) = i + 1 /\ run[p].tasks = "Succeeded"
    BY <2>2 DEF IInv, PrefixesPassed
  <2>4. KeyOf(p) = [flow |-> r.path[1].flow, idx |-> i]
    <3>1. p.path[1].flow = r.path[1].flow
      BY <2>3 DEF IInv, OneRootPerChain
    <3>2. KeyOf(p) = [flow |-> p.path[1].flow, idx |-> Len(p.path) - 1]
      BY KeyByLength
    <3>3. Len(p.path) - 1 = i
      BY <2>3
    <3> QED BY <3>1, <3>2, <3>3
  <2> QED BY <2>1, <2>3, <2>4
<1> QED BY <1>1, IInvInvariant, PTL

\* Every run of a chain before the longest has passed.
LEMMA ShorterRunPassed ==
  ASSUME IInv, NEW r \in DOMAIN run, NEW s \in DOMAIN run,
         r.chain = s.chain, Len(s.path) < Len(r.path)
  PROVE  run[s].tasks = "Succeeded"
<1>1. Len(s.path) \in Nat \ {0} /\ Len(r.path) \in Nat
  BY RunTypes DEF IInv
<1>2. Len(s.path) \in 1 .. Len(r.path) - 1
  BY <1>1
<1>3. PICK p \in DOMAIN run :
        p.chain = r.chain /\ Len(p.path) = Len(s.path) /\ run[p].tasks = "Succeeded"
  BY <1>2 DEF IInv, PrefixesPassed
<1>4. p = s
  BY <1>3, RunByLength
<1> QED BY <1>3, <1>4

\* With exact filters every step of a chain has its verdict once the chain's flow-root span is
\* closed, no step begins after, and one run only closes it.  Stage spans are not modelled.
THEOREM SpanClosedAfterSteps ==
  ASSUME \A c \in Configs : ExactFilters(c)
  PROVE  Spec => []SpanClosesAfterSteps
<1>1. IInv => SpanClosesAfterSteps
  <2> SUFFICES ASSUME IInv, NEW r \in DOMAIN run, NEW s \in DOMAIN run,
                      r.chain = s.chain, run[r].span = "closed"
               PROVE  /\ run[s].tasks # "Running"
                      /\ run[s].span = "closed" => s = r
    BY DEF SpanClosesAfterSteps
  <2> DEFINE last == Len(flows[r.path[1].flow].steps) - 1
  <2>1. /\ Len(r.path) \in Nat /\ Len(s.path) \in Nat
        /\ KeyOf(r) \in Steps(flows) /\ KeyOf(s) \in Steps(flows)
    BY RunTypes DEF IInv
  <2>2. /\ KeyOf(r) = [flow |-> r.path[1].flow, idx |-> Len(r.path) - 1]
        /\ KeyOf(s) = [flow |-> r.path[1].flow, idx |-> Len(s.path) - 1]
    BY KeyByLength DEF IInv, OneRootPerChain
  <2>3. last \in Int /\ Len(s.path) - 1 <= last
    BY <2>1, <2>2, StepKeys DEF IInv, TypeInv
  <2>4. Len(r.path) - 1 = last /\ run[r].tasks # "Running"
    BY <2>2 DEF IInv, ClosedAtTheEnd, IsTerminal
  <2>5. CASE Len(s.path) = Len(r.path)
    BY <2>4, <2>5, RunByLength
  <2>6. CASE Len(s.path) < Len(r.path)
    <3>1. run[s].tasks = "Succeeded"
      BY <2>6, ShorterRunPassed
    <3>2. ~IsTerminal(flows, KeyOf(s))
      BY <2>1, <2>2, <2>3, <2>4, <2>6 DEF IsTerminal
    <3> QED BY <3>1, <3>2 DEF IInv, ClosedAtTheEnd
  <2> QED BY <2>1, <2>3, <2>4, <2>5, <2>6
<1> QED BY <1>1, IInvInvariant, PTL

-----------------------------------------------------------------------------
(***************************************************************************)
(* Refinement.                                                             *)
(***************************************************************************)

\* A push begins a chain.
LEMMA GitPushBegins ==
  ASSUME IInv, NEW c \in Chains, NEW f \in DOMAIN flows, GitPush(c, f)
  PROVE  Linear!Begin
<1> DEFINE n == RootRun(c, f)
<1>1. n.chain = c /\ KeyOf(n) = [flow |-> f, idx |-> 0]
  BY RootRunType DEF GitPush, RootRun, IInv
<1>2. n \notin DOMAIN run /\ \A r \in DOMAIN run : r.chain # n.chain
  BY <1>1 DEF GitPush
<1> HIDE DEF n
<1>3. /\ DOMAIN run' = DOMAIN run \union {n}
      /\ \A q \in DOMAIN run : run'[q] = run[q]
      /\ run'[n] = NewRun
  BY <1>2 DEF GitPush, Create, n
<1>4. NewRun.tasks = "Running"
  BY DEF NewRun
<1>5. Passed' = Passed /\ Failed' = Failed
  BY <1>3, <1>4 DEF Passed, Failed
<1>6. IdxOfRun(n) = 0 /\ \A q \in DOMAIN run : ChainOfRun(q) # ChainOfRun(n)
  BY <1>1, <1>2 DEF IdxOfRun, ChainOfRun
<1> QED BY <1>2, <1>3, <1>5, <1>6 DEF Linear!Begin

\* A delivery that creates a run takes the chain one step further.
LEMMA FireAdvances ==
  ASSUME IInv, NEW d \in pending, Fire(d), ChildRun(d) \notin DOMAIN run, IInv'
  PROVE  Linear!Advance
<1> DEFINE n == ChildRun(d)
           p == d.from
<1>1. p \in DOMAIN run /\ n.chain = p.chain /\ Len(n.path) = Len(p.path) + 1 /\ KeyOf(n) = d.to
  BY ChildRunType DEF IInv
<1>2. d.to = [flow |-> KeyOf(p).flow, idx |-> KeyOf(p).idx + 1] /\ run[p].tasks = "Succeeded"
  BY DEF IInv, NextStepOnly
<1> HIDE DEF n, p
<1>3. /\ DOMAIN run' = DOMAIN run \union {n}
      /\ \A q \in DOMAIN run : run'[q] = run[q]
      /\ run'[n] = NewRun
      /\ n \notin DOMAIN run
  BY DEF Fire, Create, n
<1>4. NewRun.tasks = "Running"
  BY DEF NewRun
<1>5. Passed' = Passed /\ Failed' = Failed
  BY <1>3, <1>4 DEF Passed, Failed
<1>6. ASSUME NEW q \in DOMAIN run, q.chain = n.chain
      PROVE  KeyOf(q).idx <= KeyOf(p).idx
  <2>1. Len(q.path) \in Nat \ {0} /\ Len(p.path) \in Nat \ {0}
    BY <1>1, RunTypes DEF IInv
  <2>2. KeyOf(q).idx = Len(q.path) - 1 /\ KeyOf(p).idx = Len(p.path) - 1
    BY <1>1, KeyByLength
  <2>3. CASE Len(q.path) <= Len(p.path)
    BY <2>1, <2>2, <2>3
  <2>4. CASE Len(q.path) = Len(n.path)
    <3>1. q \in DOMAIN run' /\ n \in DOMAIN run'
      BY <1>3
    <3>2. q = n
      BY <1>6, <2>4, <3>1, IInvUnique DEF UniqueByLength
    <3> QED BY <1>3, <3>2
  <2>5. CASE Len(q.path) > Len(n.path)
    <3>1. Len(n.path) \in 1 .. Len(q.path) - 1
      BY <1>1, <2>1, <2>5
    <3>2. PICK s \in DOMAIN run : s.chain = q.chain /\ Len(s.path) = Len(n.path)
      BY <3>1 DEF IInv, PrefixesPassed
    <3>3. s \in DOMAIN run' /\ n \in DOMAIN run'
      BY <1>3
    <3>4. s = n
      BY <1>6, <3>2, <3>3, IInvUnique DEF UniqueByLength
    <3> QED BY <1>3, <3>4
  <2> QED BY <1>1, <2>1, <2>3, <2>4, <2>5
<1>7. p \in Passed
  BY <1>1, <1>2 DEF Passed
<1>8. /\ ChainOfRun(n) = ChainOfRun(p)
      /\ FlowOfRun(n) = FlowOfRun(p)
      /\ IdxOfRun(n) = IdxOfRun(p) + 1
      /\ \A q \in DOMAIN run : ChainOfRun(q) = ChainOfRun(n) => IdxOfRun(q) <= IdxOfRun(p)
  BY <1>1, <1>2, <1>6 DEF ChainOfRun, FlowOfRun, IdxOfRun
<1> QED BY <1>3, <1>5, <1>7, <1>8 DEF Linear!Advance

\* Within a run only its verdict shows.
LEMMA RunStepSettles ==
  ASSUME IInv, NEW r \in DOMAIN run, RunStep(r)
  PROVE  Linear!Next \/ UNCHANGED Linear!vars
<1>1. /\ DOMAIN run' = DOMAIN run
      /\ \A q \in DOMAIN run : q # r => run'[q] = run[q]
      /\ run[r].tasks # "Running" => run'[r].tasks = run[r].tasks
      /\ run[r] \in RunState /\ run'[r] \in RunState
  BY RunStepFrame, RunTypes DEF IInv
<1>2. CASE run[r].tasks # "Running"
  <2>1. \A q \in DOMAIN run : run'[q].tasks = run[q].tasks
    BY <1>1, <1>2
  <2>2. Passed' = Passed /\ Failed' = Failed
    BY <1>1, <2>1 DEF Passed, Failed
  <2> QED BY <1>1, <2>2 DEF Linear!vars
<1>3. CASE run[r].tasks = "Running" /\ run'[r].tasks = "Running"
  <2>1. \A q \in DOMAIN run : run'[q].tasks = run[q].tasks
    BY <1>1, <1>3
  <2>2. Passed' = Passed /\ Failed' = Failed
    BY <1>1, <2>1 DEF Passed, Failed
  <2> QED BY <1>1, <2>2 DEF Linear!vars
<1>4. CASE run[r].tasks = "Running" /\ run'[r].tasks = "Succeeded"
  <2>1. Passed' = Passed \union {r} /\ Failed' = Failed
    BY <1>1, <1>4 DEF Passed, Failed
  <2>2. r \in DOMAIN run \ (Passed \union Failed)
    BY <1>4 DEF Passed, Failed
  <2> QED BY <1>1, <2>1, <2>2 DEF Linear!Next, Linear!Settle
<1>5. CASE run[r].tasks = "Running" /\ run'[r].tasks = "Failed"
  <2>1. Failed' = Failed \union {r} /\ Passed' = Passed
    BY <1>1, <1>5 DEF Passed, Failed
  <2>2. r \in DOMAIN run \ (Passed \union Failed)
    BY <1>5 DEF Passed, Failed
  <2> QED BY <1>1, <2>1, <2>2 DEF Linear!Next, Linear!Settle
<1> QED BY <1>1, <1>2, <1>3, <1>4, <1>5 DEF RunState

\* With exact filters chaining implements the linear flow: events, retries, duplicate and
\* dropped deliveries are invisible but for the steps that start and their verdicts.
THEOREM ChainingIsLinear ==
  ASSUME \A c \in Configs : ExactFilters(c)
  PROVE  Spec => ImplementsLinearFlow
<1>1. Init => Linear!Init
  BY DEF Init, Linear!Init, Passed, Failed
<1>2. IInv /\ IInv' /\ [Next]_vars => Linear!Next \/ UNCHANGED Linear!vars
  <2> SUFFICES ASSUME IInv, IInv', [Next]_vars PROVE Linear!Next \/ UNCHANGED Linear!vars
    OBVIOUS
  <2>1. ASSUME NEW d \in pending, Fire(d) PROVE Linear!Next \/ UNCHANGED Linear!vars
    <3>1. CASE ChildRun(d) \in DOMAIN run
      BY <2>1, <3>1 DEF Fire, Linear!vars, Passed, Failed
    <3>2. CASE ChildRun(d) \notin DOMAIN run
      BY <2>1, <3>2, FireAdvances DEF Linear!Next
    <3> QED BY <3>1, <3>2
  <2>2. ASSUME NEW d \in pending, Drop(d) PROVE Linear!Next \/ UNCHANGED Linear!vars
    BY <2>2 DEF Drop, Linear!vars, Passed, Failed
  <2>3. CASE UNCHANGED vars
    BY <2>3 DEF vars, Linear!vars, Passed, Failed
  <2>4. ASSUME NEW c \in Chains, NEW f \in DOMAIN flows, GitPush(c, f) PROVE Linear!Next
    BY <2>4, GitPushBegins DEF Linear!Next
  <2>5. ASSUME NEW r \in DOMAIN run, RunStep(r) PROVE Linear!Next \/ UNCHANGED Linear!vars
    BY <2>5, RunStepSettles
  <2> QED BY <2>1, <2>2, <2>3, <2>4, <2>5 DEF Next
<1> QED BY <1>1, <1>2, IInvInvariant, PTL DEF Spec, ImplementsLinearFlow, Linear!Spec

-----------------------------------------------------------------------------
(***************************************************************************)
(* Refinement of StepRuns.                                                 *)
(*                                                                         *)
(* A run is seen as its step.  One lemma says when that is the same thing, *)
(* one lemma per abstract action what the sets of runs must do for the     *)
(* sets of steps to do what the action says, and one lemma per concrete    *)
(* action what it does to the sets of runs.                                *)
(***************************************************************************)

RunSets == /\ SilentRuns \subseteq DOMAIN run /\ GreenRuns \subseteq DOMAIN run
           /\ RedRuns \subseteq DOMAIN run /\ FiredRuns \subseteq DOMAIN run
           /\ PendingRuns \subseteq DOMAIN run /\ MissedRuns \subseteq DOMAIN run

LEMMA RunSetsTyped == IInv => RunSets
<1> SUFFICES ASSUME IInv PROVE RunSets
  OBVIOUS
<1>1. \A d \in pending \union lost : d.from \in DOMAIN run
  BY DEF IInv, TypeInv, TypeOK
<1> QED BY <1>1 DEF RunSets, SilentRuns, GreenRuns, RedRuns, FiredRuns, PendingRuns, MissedRuns

\* Two runs of a step are one run.
LEMMA StepOfInjective ==
  ASSUME IInv, NEW r \in DOMAIN run, NEW s \in DOMAIN run, StepOf(r) = StepOf(s)
  PROVE  r = s
<1>1. r.chain = s.chain /\ KeyOf(r).idx = KeyOf(s).idx
  BY DEF StepOf
<1>2. KeyOf(r).idx = Len(r.path) - 1 /\ KeyOf(s).idx = Len(s.path) - 1
  BY KeyByLength
<1>3. Len(r.path) \in Nat /\ Len(s.path) \in Nat
  BY RunTypes DEF IInv
<1>4. Len(r.path) = Len(s.path)
  <2>1. Len(r.path) - 1 = Len(s.path) - 1
    BY <1>1, <1>2
  <2> QED BY <1>3, <2>1
<1> QED BY <1>1, <1>4, RunByLength

LEMMA StepsOfMember ==
  ASSUME IInv, NEW rs \in SUBSET DOMAIN run, NEW r \in DOMAIN run
  PROVE  /\ StepOf(r) \in StepsOf(rs) <=> r \in rs
         /\ StepsOf(rs \union {r}) = StepsOf(rs) \union {StepOf(r)}
         /\ StepsOf(rs \ {r}) = StepsOf(rs) \ {StepOf(r)}
<1>1. \A s \in rs : StepOf(s) = StepOf(r) => s = r
  BY StepOfInjective
<1> HIDE DEF StepOf
<1> QED BY <1>1 DEF StepsOf

\* What is seen of the next state is what is seen of its sets of runs.
LEMMA StepsOfPrimed ==
  /\ StepsOf(DOMAIN run)' = StepsOf(DOMAIN run')
  /\ StepsOf(SilentRuns)' = StepsOf(SilentRuns')
  /\ StepsOf(GreenRuns)' = StepsOf(GreenRuns')
  /\ StepsOf(RedRuns)' = StepsOf(RedRuns')
  /\ StepsOf(PendingRuns)' = StepsOf(PendingRuns')
  /\ StepsOf(FiredRuns)' = StepsOf(FiredRuns')
  /\ StepsOf(MissedRuns)' = StepsOf(MissedRuns')
BY DEF StepsOf, StepOf, KeyOf

LEMMA StutterSeen ==
  ASSUME DOMAIN run' = DOMAIN run, UNCHANGED <<SilentRuns, GreenRuns, RedRuns, PendingRuns,
                                              FiredRuns, MissedRuns>>
  PROVE  UNCHANGED Chained!stepVars
BY StepsOfPrimed DEF Chained!stepVars

LEMMA AnnounceSeen ==
  ASSUME IInv, NEW r \in DOMAIN run,
         r \notin GreenRuns \union RedRuns \union SilentRuns \union PendingRuns \union FiredRuns,
         DOMAIN run' = DOMAIN run, UNCHANGED <<SilentRuns, GreenRuns, RedRuns, FiredRuns>>,
         PendingRuns' = PendingRuns \union {r}, MissedRuns' = MissedRuns \ {r}
  PROVE  Chained!Announce(StepOf(r))
<1>1. RunSets
  BY RunSetsTyped
<1>2. /\ StepOf(r) \in StepsOf(DOMAIN run)
      /\ StepOf(r) \notin StepsOf(GreenRuns) /\ StepOf(r) \notin StepsOf(RedRuns)
      /\ StepOf(r) \notin StepsOf(SilentRuns) /\ StepOf(r) \notin StepsOf(PendingRuns)
      /\ StepOf(r) \notin StepsOf(FiredRuns)
      /\ StepsOf(PendingRuns') = StepsOf(PendingRuns) \union {StepOf(r)}
      /\ StepsOf(MissedRuns') = StepsOf(MissedRuns) \ {StepOf(r)}
  BY <1>1, StepsOfMember DEF RunSets
<1> QED BY <1>2, StepsOfPrimed DEF Chained!Announce, Chained!Ended

LEMMA EndSeen ==
  ASSUME IInv, NEW r \in DOMAIN run, r \notin GreenRuns \union RedRuns,
         DOMAIN run' = DOMAIN run, UNCHANGED <<SilentRuns, PendingRuns, FiredRuns, MissedRuns>>,
         \/ /\ r \in SilentRuns \union PendingRuns \union FiredRuns \union MissedRuns
            /\ GreenRuns' = GreenRuns \union {r} /\ RedRuns' = RedRuns
         \/ RedRuns' = RedRuns \union {r} /\ GreenRuns' = GreenRuns
  PROVE  Chained!Succeed(StepOf(r)) \/ Chained!Fail(StepOf(r))
<1>1. RunSets
  BY RunSetsTyped
<1>2. /\ StepOf(r) \in StepsOf(DOMAIN run)
      /\ StepOf(r) \notin StepsOf(GreenRuns) /\ StepOf(r) \notin StepsOf(RedRuns)
  BY <1>1, StepsOfMember DEF RunSets
<1>3. CASE /\ r \in SilentRuns \union PendingRuns \union FiredRuns \union MissedRuns
           /\ GreenRuns' = GreenRuns \union {r} /\ RedRuns' = RedRuns
  <2>1. /\ \/ StepOf(r) \in StepsOf(SilentRuns) \/ StepOf(r) \in StepsOf(PendingRuns)
           \/ StepOf(r) \in StepsOf(FiredRuns) \/ StepOf(r) \in StepsOf(MissedRuns)
        /\ StepsOf(GreenRuns') = StepsOf(GreenRuns) \union {StepOf(r)}
    BY <1>1, <1>3, StepsOfMember DEF RunSets
  <2> QED BY <1>2, <1>3, <2>1, StepsOfPrimed DEF Chained!Succeed, Chained!Ended
<1>4. CASE RedRuns' = RedRuns \union {r} /\ GreenRuns' = GreenRuns
  <2>1. StepsOf(RedRuns') = StepsOf(RedRuns) \union {StepOf(r)}
    BY <1>1, <1>4, StepsOfMember DEF RunSets
  <2> QED BY <1>2, <1>4, <2>1, StepsOfPrimed DEF Chained!Fail, Chained!Ended
<1> QED BY <1>3, <1>4

LEMMA LoseSeen ==
  ASSUME IInv, NEW r \in PendingRuns,
         DOMAIN run' = DOMAIN run, UNCHANGED <<SilentRuns, GreenRuns, RedRuns, FiredRuns>>,
         PendingRuns' = PendingRuns \ {r}, MissedRuns' = MissedRuns \union {r}
  PROVE  Chained!Lose(StepOf(r))
<1>1. RunSets /\ r \in DOMAIN run
  BY RunSetsTyped DEF RunSets
<1>2. /\ StepOf(r) \in StepsOf(PendingRuns)
      /\ StepsOf(PendingRuns') = StepsOf(PendingRuns) \ {StepOf(r)}
      /\ StepsOf(MissedRuns') = StepsOf(MissedRuns) \union {StepOf(r)}
  BY <1>1, StepsOfMember DEF RunSets
<1> QED BY <1>2, StepsOfPrimed DEF Chained!Lose

\* A new run n shows in the sets of runs and of those that start nothing.
LEMMA CreateSeen ==
  ASSUME NEW n, DOMAIN run' = DOMAIN run \union {n},
         SilentRuns' \in {SilentRuns, SilentRuns \union {n}}
  PROVE  Chained!Create(StepOf(n))
<1>1. /\ StepsOf(DOMAIN run \union {n}) = StepsOf(DOMAIN run) \union {StepOf(n)}
      /\ StepsOf(SilentRuns \union {n}) = StepsOf(SilentRuns) \union {StepOf(n)}
  BY DEF StepsOf
<1> QED BY <1>1, StepsOfPrimed DEF Chained!Create

\* Which steps of other runs a new run disturbs: none.
LEMMA NewRunFrame ==
  ASSUME IInv, NEW n, n \notin DOMAIN run, flows' = flows,
         DOMAIN run' = DOMAIN run \union {n}, run'[n] = NewRun,
         \A q \in DOMAIN run : run'[q] = run[q]
  PROVE  /\ SilentRuns' \in {SilentRuns, SilentRuns \union {n}}
         /\ UNCHANGED <<GreenRuns, RedRuns>>
<1>1. \A r : (HasFinally(r)' <=> HasFinally(r))
             /\ (IsTerminal(flows', KeyOf(r)') <=> IsTerminal(flows, KeyOf(r)))
  BY DEF HasFinally, StageOf, KeyOf
<1>2. SilentRuns' \in {SilentRuns, SilentRuns \union {n}}
  BY <1>1 DEF SilentRuns
<1>3. NewRun.done = "no"
  BY DEF NewRun
<1> QED BY <1>2, <1>3 DEF GreenRuns, RedRuns

\* The delivery of a run's event names a path one step longer.
LEMMA ChildPath ==
  ASSUME TypeInv, NEW r \in DOMAIN run
  PROVE  /\ ChildRun(NextDelivery(r)).chain = r.chain
         /\ Len(ChildRun(NextDelivery(r)).path) = Len(r.path) + 1
         /\ \A i \in 1 .. Len(r.path) : ChildRun(NextDelivery(r)).path[i] = r.path[i]
<1> DEFINE t == [flow |-> KeyOf(r).flow, idx |-> KeyOf(r).idx + 1]
<1>1. r.path \in Seq(StepKey) /\ KeyOf(r) \in Steps(flows) /\ flows \in Configs
  BY RunTypes DEF TypeInv
<1>2. KeyOf(r) \in StepKey /\ KeyOf(r).idx \in Nat
  BY <1>1, StepKeys
<1>3. t \in StepKey
  BY <1>2 DEF StepKey
<1> HIDE DEF t
<1>4. ChildRun(NextDelivery(r)) = [chain |-> r.chain, path |-> Append(r.path, t)]
  BY DEF ChildRun, NextDelivery, t
<1>5. /\ Len(Append(r.path, t)) = Len(r.path) + 1
      /\ \A i \in 1 .. Len(r.path) : Append(r.path, t)[i] = r.path[i]
  BY <1>1, <1>3
<1> QED BY <1>4, <1>5

\* A run whose event started another has passed.
FiredHavePassed == \A r \in FiredRuns : run[r].tasks = "Succeeded"

LEMMA FiredPassed == IInv => FiredHavePassed
<1> SUFFICES ASSUME IInv, NEW r \in FiredRuns PROVE run[r].tasks = "Succeeded"
  BY DEF FiredHavePassed
<1> DEFINE n == ChildRun(NextDelivery(r))
<1>1. r \in DOMAIN run /\ n \in DOMAIN run
  BY DEF FiredRuns
<1>2. n.chain = r.chain /\ Len(n.path) = Len(r.path) + 1 /\ Len(r.path) \in Nat
  BY <1>1, ChildPath, RunTypes DEF IInv
<1> HIDE DEF n
<1> QED BY <1>1, <1>2, ShorterRunPassed

LEMMA FiredPassedNext == IInv' => FiredHavePassed'
BY FiredPassed, PTL

\* Every pending delivery is its run's next.
LEMMA PendingIsNext ==
  ASSUME IInv, NEW d \in pending
  PROVE  d = NextDelivery(d.from) /\ d.from \in DOMAIN run
<1>1. d \in Delivery /\ d.from \in DOMAIN run
  BY DEF IInv, TypeInv, TypeOK
<1>2. d.to = [flow |-> KeyOf(d.from).flow, idx |-> KeyOf(d.from).idx + 1]
  BY DEF IInv, NextStepOnly
<1>3. d = [from |-> d.from, to |-> d.to]
  BY <1>1 DEF Delivery
<1> QED BY <1>1, <1>2, <1>3 DEF NextDelivery

\* A push begins a chain.
LEMMA GitPushSeen ==
  ASSUME IInv, IInv', NEW c \in Chains, NEW f \in DOMAIN flows, GitPush(c, f)
  PROVE  Chained!StepNext
<1> DEFINE n == RootRun(c, f)
<1>1. n.chain = c /\ Len(n.path) = 1 /\ KeyOf(n) = [flow |-> f, idx |-> 0]
  BY RootRunType DEF GitPush, RootRun, IInv
<1>2. n \notin DOMAIN run /\ \A r \in DOMAIN run : r.chain # n.chain
  BY <1>1 DEF GitPush
<1> HIDE DEF n
<1>3. /\ DOMAIN run' = DOMAIN run \union {n}
      /\ \A q \in DOMAIN run : run'[q] = run[q]
      /\ run'[n] = NewRun
      /\ UNCHANGED <<flows, pending, lost>>
  BY <1>2 DEF GitPush, Create, n
<1>4. SilentRuns' \in {SilentRuns, SilentRuns \union {n}} /\ UNCHANGED <<GreenRuns, RedRuns>>
  BY <1>2, <1>3, NewRunFrame
<1>5. FiredRuns' = FiredRuns
  <2>1. \A r : ChildRun(NextDelivery(r))' = ChildRun(NextDelivery(r))
    BY DEF ChildRun, NextDelivery, KeyOf
  <2>2. \A r \in DOMAIN run : ChildRun(NextDelivery(r)) # n
    BY <1>2, ChildPath DEF IInv
  <2>3. n \notin FiredRuns'
    BY <1>3, FiredPassedNext DEF FiredHavePassed, NewRun
  <2> QED BY <1>2, <1>3, <2>1, <2>2, <2>3 DEF FiredRuns
<1>6. UNCHANGED <<PendingRuns, MissedRuns>>
  BY <1>3, <1>5 DEF PendingRuns, MissedRuns
<1>7. Chained!Create(StepOf(n))
  BY <1>3, <1>4, CreateSeen
<1>8. /\ StepOf(n) \in StepsOf(DOMAIN run)' \ StepsOf(DOMAIN run)
      /\ StepOf(n).idx = 0
      /\ \A q \in StepsOf(DOMAIN run) : q.chain # StepOf(n).chain
  <2>1. StepOf(n).chain = n.chain /\ StepOf(n).idx = 0
    BY <1>1 DEF StepOf
  <2>2. \A q \in StepsOf(DOMAIN run) : q.chain # StepOf(n).chain
    BY <1>2, <2>1 DEF StepsOf, StepOf
  <2>3. StepOf(n) \in StepsOf(DOMAIN run')
    BY <1>3 DEF StepsOf
  <2> QED BY <2>1, <2>2, <2>3, StepsOfPrimed
<1>9. Chained!Begin(StepOf(n))
  BY <1>4, <1>5, <1>6, <1>7, <1>8, StepsOfPrimed DEF Chained!Begin
<1> QED BY <1>8, <1>9 DEF Chained!StepNext

\* What a run's own steps leave alone, for those who see only the runs.
LEMMA RunStepSeen ==
  ASSUME IInv, NEW r \in DOMAIN run, RunStep(r)
  PROVE  /\ DOMAIN run' = DOMAIN run /\ lost' = lost
         /\ UNCHANGED <<SilentRuns, FiredRuns>>
         /\ run'[r].done = run[r].done => UNCHANGED <<GreenRuns, RedRuns>>
         /\ pending' = pending => UNCHANGED <<PendingRuns, MissedRuns>>
<1>1. /\ flows' = flows /\ lost' = lost /\ DOMAIN run' = DOMAIN run
      /\ \A q \in DOMAIN run : q # r => run'[q] = run[q]
  BY RunStepFrame DEF IInv
<1>2. \A q : /\ HasFinally(q)' <=> HasFinally(q)
             /\ IsTerminal(flows', KeyOf(q)') <=> IsTerminal(flows, KeyOf(q))
             /\ ChildRun(NextDelivery(q))' = ChildRun(NextDelivery(q))
  BY <1>1 DEF HasFinally, StageOf, KeyOf, ChildRun, NextDelivery
<1>3. UNCHANGED <<SilentRuns, FiredRuns>>
  BY <1>1, <1>2 DEF SilentRuns, FiredRuns
<1>4. run'[r].done = run[r].done => UNCHANGED <<GreenRuns, RedRuns>>
  BY <1>1 DEF GreenRuns, RedRuns
<1>5. pending' = pending => UNCHANGED <<PendingRuns, MissedRuns>>
  BY <1>1, <1>3 DEF PendingRuns, MissedRuns
<1> QED BY <1>1, <1>3, <1>4, <1>5

\* A POST that is accepted announces the run, unless its event is known already or selects no
\* Trigger.
LEMMA PostAcceptedSeen ==
  ASSUME IInv, SentInv, ExactFilters(flows), NEW r \in DOMAIN run, PostAccepted(r)
  PROVE  Chained!StepNext \/ UNCHANGED Chained!stepVars
<1>1. /\ DOMAIN run' = DOMAIN run /\ lost' = lost
      /\ UNCHANGED <<SilentRuns, FiredRuns>>
      /\ run'[r].done = run[r].done => UNCHANGED <<GreenRuns, RedRuns>>
      /\ pending' = pending => UNCHANGED <<PendingRuns, MissedRuns>>
  BY RunStepSeen DEF RunStep
<1>2. /\ run[r].send = "todo" /\ Announces(r) /\ run'[r].done = run[r].done
      /\ pending' = pending \union Selected(r)
  BY RunTypes DEF PostAccepted, IInv, RunState
<1>3. r \notin GreenRuns \union RedRuns
  BY <1>2 DEF SentInv, GreenRuns, RedRuns
<1>4. CASE Selected(r) = {}
  BY <1>1, <1>2, <1>4, StutterSeen
<1>5. CASE Selected(r) # {}
  <2>1. \A d \in Selected(r) : d.from = r
    BY <1>2, SelectedIsNext DEF IInv
  <2>2. {d.from : d \in pending'} = {d.from : d \in pending} \union {r}
    BY <1>2, <1>5, <2>1
  <2>3. CASE r \in FiredRuns \union PendingRuns
    <3>1. UNCHANGED <<PendingRuns, MissedRuns>>
      BY <1>1, <2>2, <2>3 DEF PendingRuns, MissedRuns
    <3> QED BY <1>1, <1>2, <3>1, StutterSeen
  <2>4. CASE r \notin FiredRuns \union PendingRuns
    <3>1. PendingRuns' = PendingRuns \union {r}
      BY <1>1, <2>2, <2>4 DEF PendingRuns
    <3>2. MissedRuns' = MissedRuns \ {r}
      BY <1>1, <3>1 DEF MissedRuns
    <3>3. r \notin SilentRuns
      <4>1. PICK t \in Triggers(flows) : [from |-> r, to |-> t] \in Selected(r)
        BY <1>5 DEF Selected
      <4>2. t = [flow |-> KeyOf(r).flow, idx |-> KeyOf(r).idx + 1]
        BY <1>2, <4>1, SelectedIsNext DEF IInv
      <4>3. /\ t.idx < Len(flows[t.flow].steps) /\ Len(flows[t.flow].steps) \in Nat
            /\ KeyOf(r).idx \in Nat
        BY <4>1, TriggersAreSteps, StepKeys, RunTypes DEF IInv, TypeInv
      <4>4. ~IsTerminal(flows, KeyOf(r))
        BY <4>2, <4>3 DEF IsTerminal
      <4> QED BY <1>2, <4>4 DEF SilentRuns, Announces
    <3>4. Chained!Announce(StepOf(r))
      BY <1>1, <1>2, <1>3, <2>4, <3>1, <3>2, <3>3, AnnounceSeen
    <3>5. StepOf(r) \in StepsOf(DOMAIN run)
      BY DEF StepsOf
    <3> QED BY <3>4, <3>5 DEF Chained!StepNext
  <2> QED BY <2>3, <2>4
<1> QED BY <1>4, <1>5

\* A run that ends well has an event that was accepted, or none to send.
LEMMA CompleteSeen ==
  ASSUME IInv, SentInv, NEW r \in DOMAIN run, Complete(r)
  PROVE  Chained!StepNext
<1>1. /\ DOMAIN run' = DOMAIN run
      /\ UNCHANGED <<SilentRuns, FiredRuns, PendingRuns, MissedRuns>>
  BY RunStepSeen DEF RunStep, Complete
<1>2. /\ run[r].done = "no" /\ run[r].send # "todo"
      /\ run'[r].done \in {"Succeeded", "Failed"}
      /\ run'[r].done = "Succeeded" => run[r].tasks = "Succeeded" /\ run[r].send # "failed"
      /\ \A q \in DOMAIN run : q # r => run'[q] = run[q]
  BY RunTypes DEF Complete, IInv, RunState
<1>3. r \notin GreenRuns \union RedRuns
  BY <1>2 DEF GreenRuns, RedRuns
<1>4. CASE run'[r].done = "Failed"
  <2>1. RedRuns' = RedRuns \union {r} /\ GreenRuns' = GreenRuns
    BY <1>1, <1>2, <1>4 DEF GreenRuns, RedRuns
  <2> QED BY <1>1, <1>3, <2>1, EndSeen DEF Chained!StepNext, StepsOf
<1>5. CASE run'[r].done = "Succeeded"
  <2>1. GreenRuns' = GreenRuns \union {r} /\ RedRuns' = RedRuns
    BY <1>1, <1>2, <1>5 DEF GreenRuns, RedRuns
  <2>2. ASSUME r \notin SilentRuns
        PROVE  r \in PendingRuns \union FiredRuns \union MissedRuns
    <3>1. HasFinally(r) /\ ~IsTerminal(flows, KeyOf(r))
      BY <2>2 DEF SilentRuns
    <3>2. run[r].send = "sent"
      BY <1>2, <1>5, <3>1, RunTypes DEF SentInv, IInv, RunState
    <3>3. HandedOn(r)
      BY <1>2, <1>5, <3>1, <3>2 DEF SentInv
    <3>4. NextDelivery(r).from = r
      BY DEF NextDelivery
    <3> QED BY <3>3, <3>4 DEF HandedOn, PendingRuns, FiredRuns, MissedRuns
  <2> QED BY <1>1, <1>3, <2>1, <2>2, EndSeen DEF Chained!StepNext, StepsOf
<1> QED BY <1>2, <1>4, <1>5

LEMMA RunStepChained ==
  ASSUME IInv, SentInv, ExactFilters(flows), NEW r \in DOMAIN run, RunStep(r)
  PROVE  Chained!StepNext \/ UNCHANGED Chained!stepVars
<1>1. CASE FinishTasks(r) \/ SkipSend(r) \/ PostRefused(r) \/ CloseSpan(r)
  <2>1. pending' = pending /\ run'[r].done = run[r].done
    BY <1>1, RunTypes DEF IInv, RunState, FinishTasks, SkipSend, PostRefused, CloseSpan
  <2> QED BY <2>1, RunStepSeen, StutterSeen
<1> QED BY <1>1, PostAcceptedSeen, CompleteSeen DEF RunStep

\* A delivery that creates a run is a step of its chain, one that finds it there is none.
LEMMA FireSeen ==
  ASSUME IInv, IInv', NEW d \in pending, Fire(d)
  PROVE  Chained!StepNext \/ UNCHANGED Chained!stepVars
<1> DEFINE p == d.from
           n == ChildRun(d)
<1>1. d = NextDelivery(p) /\ p \in DOMAIN run /\ NextDelivery(p).from = p
  BY PendingIsNext DEF NextDelivery
<1>2. n = ChildRun(NextDelivery(p))
  BY <1>1
<1> HIDE DEF n, p
<1>3. flows' = flows /\ lost' = lost /\ pending' = pending \ {d} /\ d.from = p
  BY DEF Fire, p
<1>4. \A r : /\ HasFinally(r)' <=> HasFinally(r)
             /\ IsTerminal(flows', KeyOf(r)') <=> IsTerminal(flows, KeyOf(r))
             /\ ChildRun(NextDelivery(r))' = ChildRun(NextDelivery(r))
  BY <1>3 DEF HasFinally, StageOf, KeyOf, ChildRun, NextDelivery
<1>5. {e.from : e \in pending} \ {p} \subseteq {e.from : e \in pending'}
  BY <1>3
<1>6. {e.from : e \in pending'} \subseteq {e.from : e \in pending}
  BY <1>3
<1>7. CASE n \in DOMAIN run
  <2>1. run' = run
    BY <1>7 DEF Fire, n
  <2>2. UNCHANGED <<SilentRuns, GreenRuns, RedRuns, FiredRuns>>
    BY <1>4, <2>1 DEF SilentRuns, GreenRuns, RedRuns, FiredRuns
  <2>3. p \in FiredRuns
    BY <1>1, <1>2, <1>7 DEF FiredRuns
  <2>4. UNCHANGED <<PendingRuns, MissedRuns>>
    BY <1>3, <1>5, <1>6, <2>2, <2>3 DEF PendingRuns, MissedRuns
  <2> QED BY <2>1, <2>2, <2>4, StutterSeen
<1>8. CASE n \notin DOMAIN run
  <2>1. /\ DOMAIN run' = DOMAIN run \union {n}
        /\ \A q \in DOMAIN run : run'[q] = run[q]
        /\ run'[n] = NewRun
    BY <1>8 DEF Fire, Create, n
  <2>2. SilentRuns' \in {SilentRuns, SilentRuns \union {n}} /\ UNCHANGED <<GreenRuns, RedRuns>>
    BY <1>3, <1>8, <2>1, NewRunFrame
  <2>3. FiredRuns' = FiredRuns \union {p}
    <3>1. n \notin FiredRuns'
      BY <2>1, FiredPassedNext DEF FiredHavePassed, NewRun
    <3>2. ASSUME NEW q \in DOMAIN run, ChildRun(NextDelivery(q)) = n PROVE q = p
      <4>1. q.chain = p.chain /\ Len(q.path) + 1 = Len(p.path) + 1
        BY <1>1, <1>2, <3>2, ChildPath DEF IInv
      <4>2. Len(q.path) \in Nat /\ Len(p.path) \in Nat
        BY <1>1, RunTypes DEF IInv
      <4>3. Len(q.path) = Len(p.path)
        BY <4>1, <4>2
      <4> QED BY <1>1, <4>1, <4>3, RunByLength
    <3>3. \A q \in DOMAIN run :
            ChildRun(NextDelivery(q)) \in DOMAIN run' <=> q \in FiredRuns \/ q = p
      BY <1>2, <2>1, <3>2 DEF FiredRuns
    <3>4. FiredRuns' = {q \in DOMAIN run' : ChildRun(NextDelivery(q)) \in DOMAIN run'}
      BY <1>4 DEF FiredRuns
    <3>5. FiredRuns \subseteq DOMAIN run
      BY DEF FiredRuns
    <3> QED BY <1>1, <2>1, <3>1, <3>3, <3>4, <3>5
  <2>4. p \in PendingRuns
    BY <1>1, <1>2, <1>3, <1>8 DEF PendingRuns, FiredRuns
  <2>5. PendingRuns' = PendingRuns \ {p}
    BY <1>5, <1>6, <2>3 DEF PendingRuns
  <2>6. MissedRuns' = MissedRuns
    BY <1>3, <2>3, <2>4, <2>5 DEF MissedRuns
  <2>7. StepOf(n) = Chained!NextStep(StepOf(p))
    <3>1. KeyOf(n) = d.to /\ n.chain = p.chain
      BY ChildRunType DEF IInv, n, p
    <3>2. d.to.idx = KeyOf(p).idx + 1
      BY <1>1 DEF NextDelivery
    <3> QED BY <3>1, <3>2 DEF StepOf, Chained!NextStep
  <2>8. Chained!Create(Chained!NextStep(StepOf(p)))
    BY <2>1, <2>2, <2>7, CreateSeen
  <2>9. RunSets
    BY RunSetsTyped
  <2>10. /\ StepOf(p) \in StepsOf(PendingRuns) /\ StepOf(p) \in StepsOf(DOMAIN run)
         /\ StepsOf(PendingRuns') = StepsOf(PendingRuns) \ {StepOf(p)}
         /\ StepsOf(FiredRuns') = StepsOf(FiredRuns) \union {StepOf(p)}
    BY <1>1, <2>3, <2>4, <2>5, <2>9, StepsOfMember DEF RunSets
  <2>11. Chained!Deliver(StepOf(p))
    BY <2>2, <2>6, <2>8, <2>10, StepsOfPrimed DEF Chained!Deliver
  <2> QED BY <2>10, <2>11 DEF Chained!StepNext
<1> QED BY <1>7, <1>8

\* A delivery that is dropped loses the event, unless its run is there.
LEMMA DropSeen ==
  ASSUME IInv, NEW d \in pending, Drop(d)
  PROVE  Chained!StepNext \/ UNCHANGED Chained!stepVars
<1> DEFINE p == d.from
<1>1. p \in DOMAIN run /\ \A e \in pending : e.from = p => e = d
  BY PendingIsNext
<1> HIDE DEF p
<1>2. UNCHANGED <<flows, run>> /\ pending' = pending \ {d} /\ lost' = lost \union {d} /\ d.from = p
  BY DEF Drop, p
<1>3. UNCHANGED <<SilentRuns, GreenRuns, RedRuns, FiredRuns>>
  BY <1>2 DEF SilentRuns, GreenRuns, RedRuns, FiredRuns, HasFinally, StageOf, KeyOf, ChildRun,
              NextDelivery
<1>4. {e.from : e \in pending'} = {e.from : e \in pending} \ {p}
  BY <1>1, <1>2
<1>5. {e.from : e \in lost'} = {e.from : e \in lost} \union {p}
  BY <1>2
<1>6. CASE p \in FiredRuns
  <2>1. UNCHANGED <<PendingRuns, MissedRuns>>
    BY <1>3, <1>4, <1>5, <1>6 DEF PendingRuns, MissedRuns
  <2> QED BY <1>2, <1>3, <2>1, StutterSeen
<1>7. CASE p \notin FiredRuns
  <2>1. p \in PendingRuns
    BY <1>2, <1>7 DEF PendingRuns
  <2>2. PendingRuns' = PendingRuns \ {p}
    BY <1>3, <1>4 DEF PendingRuns
  <2>3. MissedRuns' = MissedRuns \union {p}
    BY <1>3, <1>5, <1>7, <2>2 DEF MissedRuns
  <2>4. Chained!Lose(StepOf(p))
    BY <1>2, <1>3, <2>1, <2>2, <2>3, LoseSeen
  <2>5. StepOf(p) \in StepsOf(DOMAIN run)
    BY <1>1 DEF StepsOf
  <2> QED BY <2>4, <2>5 DEF Chained!StepNext
<1> QED BY <1>6, <1>7

\* With exact filters the runs of an app are what StepRuns says: whatever is retried, repeated
\* or dropped, a step's run comes of its predecessor's event, and a run that ends well before
\* the last step has had its event accepted, unless it has none to send.
THEOREM ChainingIsStepRuns ==
  ASSUME \A c \in Configs : ExactFilters(c)
  PROVE  Spec => ImplementsStepRuns
<1>1. Init => Chained!StepInit
  BY DEF Init, Chained!StepInit, StepsOf, SilentRuns, GreenRuns, RedRuns, FiredRuns,
         PendingRuns, MissedRuns
<1>2. Init => SentInv
  BY DEF Init, SentInv
<1>3. IInv /\ SentInv /\ [Next]_vars => SentInv'
  BY SentInvInductive DEF IInv
<1>4. IInv /\ IInv' /\ SentInv /\ [Next]_vars => Chained!StepNext \/ UNCHANGED Chained!stepVars
  <2> SUFFICES ASSUME IInv, IInv', SentInv, [Next]_vars
               PROVE  Chained!StepNext \/ UNCHANGED Chained!stepVars
    OBVIOUS
  <2>1. ExactFilters(flows)
    BY DEF IInv, TypeInv
  <2>2. CASE UNCHANGED vars
    <3>1. UNCHANGED <<SilentRuns, GreenRuns, RedRuns, FiredRuns, PendingRuns, MissedRuns>>
      BY <2>2 DEF vars, SilentRuns, GreenRuns, RedRuns, FiredRuns, PendingRuns, MissedRuns,
                  HasFinally, StageOf, KeyOf, ChildRun, NextDelivery
    <3> QED BY <2>2, <3>1, StutterSeen DEF vars
  <2> QED BY <2>1, <2>2, GitPushSeen, RunStepChained, FireSeen, DropSeen DEF Next
<1> QED BY <1>1, <1>2, <1>3, <1>4, IInvInvariant, PTL
        DEF Spec, ImplementsStepRuns, Chained!StepSpec
=============================================================================
