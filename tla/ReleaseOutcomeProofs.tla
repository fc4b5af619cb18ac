------------------------ MODULE ReleaseOutcomeProofs ------------------------
(***************************************************************************)
(* Theorems about ReleaseOutcome, for any number of syncs, retries,        *)
(* faults and rotations.                                                   *)
(***************************************************************************)
EXTENDS ReleaseOutcome, FiniteSetTheorems, TLAPS

-----------------------------------------------------------------------------
(***************************************************************************)
(* The inductive invariant.                                                *)
(***************************************************************************)

Done == {s \in Syncs : sync[s].st = "done"}

\* As many pods as d syncs have at most.
PodsOf(d) == d * 2 * (JobRetries + 1)

\* There is a pod only while its Job's sync runs, it carries the present time and the event
\* noted for it, and time never runs ahead of the pods that the syncs may have.
PodInv ==
  /\ pod.st = "none" => now <= PodsOf(Cardinality(Done))
  /\ pod.st # "none" =>
       /\ pod.sync \in Syncs /\ pod.n \in 1 .. JobRetries + 1 /\ pod.at = now /\ now > 0
       /\ started[now] = EventOf(pod)
       /\ \/ sync[pod.sync].st = "PostSync" /\ now <= PodsOf(Cardinality(Done)) + pod.n
          \/ sync[pod.sync].st = "SyncFail"
             /\ now <= PodsOf(Cardinality(Done)) + JobRetries + 1 + pod.n

\* Every event, wherever it is, is the one that a pod's start noted.
EventInv ==
  /\ \A t \in Times : t > now => started[t] = NoEvent
  /\ \A t \in Times : started[t] # NoEvent => started[t].at = t
  /\ \A d \in pending : started[d.ev.at] = d.ev
  /\ \A t \in Times : run[t].pc # "none" => run[t].ev = started[t] /\ run[t].ev # NoEvent
  /\ \A ev \in acted : run[ev.at].pc # "none" /\ run[ev.at].ev = ev

\* The relay serves the pod that waits, with a secret it has had since the request came.
RequestInv ==
  /\ pod.st # "waiting" => req.pc = "none"
  /\ req.pc # "none" => relaySecret \in req.seen
  /\ req.pc = "forward" => pod.token \in req.seen

Delivered(s, status) ==
  \/ s \in lost
  \/ \E d \in pending : d.ev.sync = s /\ d.ev.status = status
  \/ \E ev \in acted : ev.sync = s /\ ev.status = status

\* An answer of 202, and a pod that got it, have their event delivered.
DeliveryInv ==
  /\ \A s \in Syncs : sync[s].reported # "none" => Delivered(s, sync[s].reported)
  /\ pod.st = "ok" => Delivered(pod.sync, Status(sync[pod.sync].st))
  /\ pod.st = "waiting" /\ req.pc = "done" /\ req.code = 202 =>
       Delivered(pod.sync, Status(sync[pod.sync].st))

IInv == TypeOK /\ PodInv /\ EventInv /\ RequestInv /\ DeliveryInv

-----------------------------------------------------------------------------
(***************************************************************************)
(* How many pods there may be.                                             *)
(***************************************************************************)
LEMMA PodsOfMore ==
  ASSUME NEW d \in Nat
  PROVE  /\ PodsOf(d) \in Nat
         /\ PodsOf(d + 1) = PodsOf(d) + JobRetries + 1 + JobRetries + 1
<1>1. JobRetries \in Nat
  BY CountsAssumption
<1>2. PICK k \in Nat : k = JobRetries + 1
  BY <1>1
<1>3. d * 2 * k \in Nat /\ (d + 1) * 2 * k = d * 2 * k + k + k
  BY <1>2
<1> QED BY <1>1, <1>2, <1>3 DEF PodsOf

LEMMA PodsOfMonotone ==
  ASSUME NEW d \in Nat, NEW e \in Nat, d <= e
  PROVE  PodsOf(d) <= PodsOf(e)
<1>1. JobRetries + 1 \in Nat
  BY CountsAssumption
<1>2. PICK k \in Nat : k = JobRetries + 1
  BY <1>1
<1>3. PICK c \in Nat : e = d + c
  <2>1. e - d \in Nat /\ e = d + (e - d)
    OBVIOUS
  <2> QED BY <2>1
<1>4. (d + c) * 2 * k = d * 2 * k + c * 2 * k /\ c * 2 * k \in Nat /\ d * 2 * k \in Nat
  BY <1>2
<1> QED BY <1>2, <1>3, <1>4 DEF PodsOf

\* Among the syncs, those that are done are at most all but one as long as one is not done.
LEMMA DoneCount ==
  /\ IsFiniteSet(Done) /\ Cardinality(Done) \in Nat
  /\ \A s \in Syncs \ Done : Cardinality(Done) + 1 <= MaxSyncs
<1>1. MaxSyncs \in Nat
  BY BoundsAssumption
<1>2. IsFiniteSet(Syncs) /\ Cardinality(Syncs) = MaxSyncs
  <2>1. IsFiniteSet(1 .. MaxSyncs) /\ Cardinality(1 .. MaxSyncs) = IF 1 > MaxSyncs THEN 0 ELSE MaxSyncs - 1 + 1
    BY <1>1, FS_Interval
  <2> QED BY <1>1, <2>1 DEF Syncs
<1>3. Done \subseteq Syncs
  BY DEF Done
<1>4. IsFiniteSet(Done) /\ Cardinality(Done) \in Nat
  BY <1>2, <1>3, FS_Subset, FS_CardinalityType
<1>5. ASSUME NEW s \in Syncs \ Done PROVE Cardinality(Done) + 1 <= MaxSyncs
  <2>1. Cardinality(Done \union {s}) = Cardinality(Done) + 1
    BY <1>4, FS_AddElement
  <2>2. Done \union {s} \subseteq Syncs
    BY <1>3
  <2> QED BY <1>2, <2>1, <2>2, FS_Subset
<1> QED BY <1>4, <1>5

\* While a sync runs or waits there is time for both its Jobs.
LEMMA RoomForPods ==
  ASSUME NEW s \in Syncs \ Done
  PROVE  PodsOf(Cardinality(Done)) + JobRetries + 1 + JobRetries + 1 <= PodsOf(MaxSyncs)
<1>1. /\ Cardinality(Done) \in Nat /\ Cardinality(Done) + 1 \in Nat
      /\ Cardinality(Done) + 1 <= MaxSyncs /\ MaxSyncs \in Nat
  BY DoneCount, BoundsAssumption
<1>2. PodsOf(Cardinality(Done) + 1) <= PodsOf(MaxSyncs)
  BY <1>1, PodsOfMonotone
<1>3. PodsOf(Cardinality(Done) + 1) = PodsOf(Cardinality(Done)) + JobRetries + 1 + JobRetries + 1
  BY <1>1, PodsOfMore
<1> QED BY <1>2, <1>3

LEMMA TimesArePods == Times = 0 .. PodsOf(MaxSyncs) /\ PodsOf(MaxSyncs) \in Nat /\ Times \subseteq Nat
<1>1. PodsOf(MaxSyncs) \in Nat
  BY PodsOfMore, BoundsAssumption
<1> QED BY <1>1 DEF Times, PodsOf

-----------------------------------------------------------------------------
(***************************************************************************)
(* What the type invariant and PodInv say of the pod.                      *)
(***************************************************************************)
LEMMA FaultKeepsType ==
  ASSUME faults \in 0 .. MaxFaults, Fault \/ NoFault
  PROVE  faults' \in 0 .. MaxFaults
BY BoundsAssumption DEF Fault, NoFault

LEMMA ThePod ==
  ASSUME IInv, pod.st # "none"
  PROVE  /\ pod.sync \in Syncs \ Done /\ sync[pod.sync] \in SyncStates
         /\ sync[pod.sync].st \in {"PostSync", "SyncFail"}
         /\ pod.n \in 1 .. JobRetries + 1 /\ pod.at = now /\ now \in Times /\ now > 0
         /\ EventOf(pod) \in Events /\ started[now] = EventOf(pod)
         /\ Status(sync[pod.sync].st) \in {"Succeeded", "Failed"}
<1>1. /\ pod.sync \in Syncs /\ pod.n \in 1 .. JobRetries + 1 /\ pod.at = now /\ now > 0
      /\ started[now] = EventOf(pod) /\ sync[pod.sync].st \in {"PostSync", "SyncFail"}
  BY DEF IInv, PodInv
<1>2. sync[pod.sync] \in SyncStates /\ now \in Times
  BY <1>1 DEF IInv, TypeOK
<1>3. Status(sync[pod.sync].st) \in {"Succeeded", "Failed"}
  BY DEF Status
<1> QED BY <1>1, <1>2, <1>3 DEF EventOf, Events, Done

LEMMA Literals ==
  /\ NoPod \in Pods /\ NoReq \in Requests /\ NoRun \in Runs
  /\ NoEvent \notin Events
<1>1. 0 \in Times
  BY TimesArePods
<1>2. 0 \in Versions /\ 0 \in 0 .. JobRetries + 1 /\ 0 \in 0 .. CurlRetries
  BY BoundsAssumption, CountsAssumption DEF Versions
<1> QED BY <1>1, <1>2 DEF NoPod, Pods, NoReq, Requests, NoRun, Runs, NoEvent, Events

-----------------------------------------------------------------------------
LEMMA InitIInv == Init => IInv
<1> SUFFICES ASSUME Init PROVE IInv
  OBVIOUS
<1>1. 0 \in Times /\ 0 \in Versions /\ 0 \in 0 .. MaxFaults
  BY TimesArePods, BoundsAssumption DEF Versions
<1>2. [st |-> "none", reported |-> "none"] \in SyncStates
  BY DEF SyncStates
<1>3. TypeOK
  BY <1>1, <1>2, Literals DEF Init, TypeOK
<1>4. PodInv
  <2>1. PodsOf(Cardinality(Done)) \in Nat
    BY DoneCount, PodsOfMore
  <2> QED BY <2>1 DEF Init, PodInv, NoPod
<1>5. EventInv
  BY DEF Init, EventInv, NoRun
<1>6. RequestInv
  BY DEF Init, RequestInv, NoReq
<1>7. DeliveryInv
  BY DEF Init, DeliveryInv, NoPod
<1> QED BY <1>3, <1>4, <1>5, <1>6, <1>7 DEF IInv

-----------------------------------------------------------------------------
(***************************************************************************)
(* A pod starts.                                                           *)
(***************************************************************************)

\* StartPod, with what its three users have in common.
LEMMA StartPodStep ==
  ASSUME IInv, NEW s \in Syncs, NEW n \in 1 .. JobRetries + 1, NEW st \in {"PostSync", "SyncFail"},
         StartPod(s, n, st), now + 1 \in Times, Done' = Done,
         UNCHANGED <<setup, secrets, pending, run, faults, acted, lost>>,
         sync' \in [Syncs -> SyncStates], sync'[s].st = st,
         \A q \in Syncs : sync'[q].reported = sync[q].reported,
         \A q \in Syncs : q # s => sync'[q] = sync[q],
         \/ st = "PostSync" /\ now + 1 <= PodsOf(Cardinality(Done)) + n
         \/ st = "SyncFail" /\ now + 1 <= PodsOf(Cardinality(Done)) + JobRetries + 1 + n
  PROVE  IInv'
<1> USE DEF IInv
<1> DEFINE ev == [sync |-> s, at |-> now + 1, status |-> Status(st)]
<1>1. /\ now \in Times /\ now \in Nat /\ Times \subseteq Nat
      /\ started \in [Times -> Events \union {NoEvent}]
      /\ started' = [started EXCEPT ![now + 1] = ev]
      /\ now' = now + 1 /\ req' = NoReq
      /\ pod' = [NoPod EXCEPT !.st = "secret", !.sync = s, !.n = n, !.at = now + 1]
  BY TimesArePods DEF TypeOK, StartPod
<1>2. ev \in Events
  BY DEF Events, Status
<1>3. /\ pod' \in Pods /\ pod'.st = "secret" /\ pod'.sync = s /\ pod'.n = n /\ pod'.at = now + 1
  <2>1. n \in 0 .. JobRetries + 1 /\ 0 \in Versions /\ 0 \in 0 .. CurlRetries
    BY BoundsAssumption, CountsAssumption DEF Versions
  <2> QED BY <1>1, <2>1 DEF NoPod, Pods
<1>4. started[now + 1] = NoEvent
  BY <1>1 DEF EventInv
<1>5. /\ started'[now + 1] = ev
      /\ \A t \in Times : started[t] # NoEvent => started'[t] = started[t]
      /\ \A t \in Times : t # now + 1 => started'[t] = started[t]
  BY <1>1, <1>4
<1>6. TypeOK'
  BY <1>1, <1>2, <1>3, Literals DEF TypeOK, secrets
<1>7. PodInv'
  <2>1. started'[now'] = EventOf(pod)'
    BY <1>1, <1>3, <1>5 DEF EventOf
  <2>2. /\ pod'.sync \in Syncs /\ pod'.n \in 1 .. JobRetries + 1 /\ pod'.at = now' /\ now' > 0
    BY <1>1, <1>3
  <2> QED BY <1>1, <1>3, <2>1, <2>2 DEF PodInv, PodsOf
<1>8. EventInv'
  <2>1. UNCHANGED <<pending, run, acted>>
    OBVIOUS
  <2>2. \A t \in Times : t > now' => started'[t] = NoEvent
    BY <1>1, <1>5 DEF EventInv
  <2>3. ASSUME NEW t \in Times, started'[t] # NoEvent
        PROVE  started'[t].at = t
    BY <1>5, <2>3 DEF EventInv
  <2>4. \A d \in pending : started'[d.ev.at] = d.ev
    <3> SUFFICES ASSUME NEW d \in pending PROVE started'[d.ev.at] = d.ev
      OBVIOUS
    <3>1. d.ev \in Events /\ d.ev.at \in Times
      BY DEF TypeOK, Events
    <3> QED BY <1>5, <3>1, Literals DEF EventInv
  <2>5. \A t \in Times : run[t].pc # "none" => run[t].ev = started'[t] /\ run[t].ev # NoEvent
    BY <1>5 DEF EventInv
  <2> QED BY <2>1, <2>2, <2>3, <2>4, <2>5 DEF EventInv
<1>9. RequestInv'
  BY <1>1 DEF RequestInv, NoReq
<1>10. DeliveryInv'
  BY <1>3 DEF DeliveryInv, Delivered
<1> QED BY <1>6, <1>7, <1>8, <1>9, <1>10

\* A sync changes to another state that is not "done", and the set of those done stays.
LEMMA SameDone ==
  ASSUME NEW s \in Syncs, sync[s].st # "done", sync'[s].st # "done",
         \A q \in Syncs : q # s => sync'[q] = sync[q]
  PROVE  Done' = Done
BY DEF Done

LEMMA StartSyncStep ==
  ASSUME IInv, NEW s \in Syncs, NEW st \in {"PostSync", "SyncFail"}, StartSync(s, st)
  PROVE  IInv'
<1>1. sync[s].st = "none" /\ sync[s] \in SyncStates /\ pod.st = "none"
  BY DEF StartSync, IInv, TypeOK
<1>2. PICK x : x = [sync[s] EXCEPT !.st = st]
  OBVIOUS
<1>3. x \in SyncStates /\ x.st = st /\ x.reported = sync[s].reported
  BY <1>1, <1>2 DEF SyncStates
<1>4. sync' = [sync EXCEPT ![s] = x]
  BY <1>2 DEF StartSync
<1>5. /\ sync' \in [Syncs -> SyncStates] /\ sync'[s] = x
      /\ \A q \in Syncs : q # s => sync'[q] = sync[q]
      /\ \A q \in Syncs : sync'[q].reported = sync[q].reported
  BY <1>3, <1>4 DEF IInv, TypeOK
<1>6. Done' = Done
  BY <1>1, <1>3, <1>5, SameDone
<1>7. /\ PodsOf(Cardinality(Done)) \in Nat /\ JobRetries \in Nat /\ now \in Nat
      /\ now <= PodsOf(Cardinality(Done))
  BY <1>1, DoneCount, PodsOfMore, CountsAssumption, TimesArePods DEF IInv, PodInv, TypeOK
<1>8. now + 1 \in Times
  BY <1>1, <1>7, RoomForPods, TimesArePods DEF Done
<1>9. 1 \in 1 .. JobRetries + 1
  BY <1>7
<1>10. \/ st = "PostSync" /\ now + 1 <= PodsOf(Cardinality(Done)) + 1
       \/ st = "SyncFail" /\ now + 1 <= PodsOf(Cardinality(Done)) + JobRetries + 1 + 1
  BY <1>7
<1>11. /\ StartPod(s, 1, st)
       /\ UNCHANGED <<setup, secrets, pending, run, faults, acted, lost>>
  BY DEF StartSync
<1> QED BY <1>3, <1>5, <1>6, <1>8, <1>9, <1>10, <1>11, StartPodStep

LEMMA JobRetriesPodStep == IInv /\ JobRetriesPod => IInv'
<1> SUFFICES ASSUME IInv, JobRetriesPod PROVE IInv'
  OBVIOUS
<1> DEFINE s == pod.sync
           st == sync[pod.sync].st
           n == pod.n + 1
<1>1. /\ pod.st # "none" /\ pod.n <= JobRetries /\ StartPod(s, n, st)
      /\ UNCHANGED <<setup, secrets, sync, pending, run, faults, acted, lost>>
  BY DEF JobRetriesPod
<1>2. /\ s \in Syncs \ Done /\ pod.n \in 1 .. JobRetries + 1 /\ st \in {"PostSync", "SyncFail"}
      /\ now \in Nat /\ JobRetries \in Nat /\ PodsOf(Cardinality(Done)) \in Nat
  BY <1>1, ThePod, TimesArePods, DoneCount, PodsOfMore, CountsAssumption
<1>3. n \in 1 .. JobRetries + 1
  BY <1>1, <1>2
<1>4. \/ st = "PostSync" /\ now + 1 <= PodsOf(Cardinality(Done)) + n
      \/ st = "SyncFail" /\ now + 1 <= PodsOf(Cardinality(Done)) + JobRetries + 1 + n
  BY <1>1, <1>2 DEF IInv, PodInv
<1>5. now + 1 \in Times
  BY <1>2, <1>3, <1>4, RoomForPods, TimesArePods
<1>6. Done' = Done /\ sync' \in [Syncs -> SyncStates]
  BY <1>1 DEF Done, IInv, TypeOK
<1>7. /\ sync'[s].st = st
      /\ \A q \in Syncs : sync'[q].reported = sync[q].reported
      /\ \A q \in Syncs : q # s => sync'[q] = sync[q]
  BY <1>1, <1>2
<1>8. s \in Syncs
  BY <1>2
<1> HIDE DEF s, st, n
<1> QED BY <1>1, <1>2, <1>3, <1>4, <1>5, <1>6, <1>7, <1>8, StartPodStep

LEMMA PostSyncJobFailsStep == IInv /\ PostSyncJobFails => IInv'
<1> SUFFICES ASSUME IInv, PostSyncJobFails PROVE IInv'
  OBVIOUS
<1> DEFINE s == pod.sync
<1>1. /\ pod.st # "none" /\ pod.n = JobRetries + 1 /\ StartPod(s, 1, "SyncFail")
      /\ sync[s].st = "PostSync"
      /\ UNCHANGED <<setup, secrets, pending, run, faults, acted, lost>>
  BY DEF PostSyncJobFails
<1>2. /\ s \in Syncs \ Done /\ sync[s] \in SyncStates
      /\ now \in Nat /\ JobRetries \in Nat /\ PodsOf(Cardinality(Done)) \in Nat
  BY <1>1, ThePod, TimesArePods, DoneCount, PodsOfMore, CountsAssumption
<1>3. 1 \in 1 .. JobRetries + 1
  BY <1>2
<1>4. now + 1 <= PodsOf(Cardinality(Done)) + JobRetries + 1 + 1
  BY <1>1, <1>2 DEF IInv, PodInv
<1>5. now + 1 \in Times
  BY <1>2, <1>4, RoomForPods, TimesArePods
<1>6. PICK x : x = [sync[s] EXCEPT !.st = "SyncFail"]
  OBVIOUS
<1>7. x \in SyncStates /\ x.st = "SyncFail" /\ x.reported = sync[s].reported
  BY <1>2, <1>6 DEF SyncStates
<1>8. sync' = [sync EXCEPT ![s] = x]
  BY <1>6 DEF PostSyncJobFails
<1>9. /\ sync' \in [Syncs -> SyncStates] /\ sync'[s] = x
      /\ \A q \in Syncs : q # s => sync'[q] = sync[q]
      /\ \A q \in Syncs : sync'[q].reported = sync[q].reported
  BY <1>2, <1>7, <1>8 DEF IInv, TypeOK
<1>10. Done' = Done
  BY <1>1, <1>2, <1>7, <1>9, SameDone
<1>11. s \in Syncs
  BY <1>2
<1> HIDE DEF s
<1> QED BY <1>1, <1>3, <1>4, <1>5, <1>7, <1>9, <1>10, <1>11, StartPodStep

-----------------------------------------------------------------------------
(***************************************************************************)
(* A sync ends.                                                            *)
(***************************************************************************)
LEMMA SyncEndsStep ==
  ASSUME IInv, pod.st # "none", NEW x \in SyncStates, x.st = "done",
         sync' = [sync EXCEPT ![pod.sync] = x],
         x.reported = sync[pod.sync].reported \/ Delivered(pod.sync, x.reported),
         pod' = NoPod, req' = NoReq,
         UNCHANGED <<setup, secrets, now, pending, run, faults, hist>>
  PROVE  IInv'
<1> USE DEF IInv
<1> DEFINE s == pod.sync
<1>1. /\ s \in Syncs \ Done /\ sync[s].st \in {"PostSync", "SyncFail"} /\ pod.n \in 1 .. JobRetries + 1
      /\ now \in Nat /\ JobRetries \in Nat /\ PodsOf(Cardinality(Done)) \in Nat
      /\ Cardinality(Done) \in Nat /\ IsFiniteSet(Done)
  BY ThePod, TimesArePods, DoneCount, PodsOfMore, CountsAssumption
<1>2. /\ sync' \in [Syncs -> SyncStates] /\ sync'[s] = x /\ \A q \in Syncs : q # s => sync'[q] = sync[q]
  BY <1>1 DEF TypeOK
<1>3. TypeOK'
  BY <1>2, Literals DEF TypeOK, secrets, hist
<1>4. PodInv'
  <2>1. Done' = Done \union {s}
    BY <1>1, <1>2 DEF Done
  <2>2. Cardinality(Done') = Cardinality(Done) + 1
    BY <1>1, <2>1, FS_AddElement
  <2>3. PodsOf(Cardinality(Done) + 1) = PodsOf(Cardinality(Done)) + JobRetries + 1 + JobRetries + 1
    BY <1>1, PodsOfMore
  <2>4. now <= PodsOf(Cardinality(Done)) + JobRetries + 1 + JobRetries + 1
    BY <1>1 DEF PodInv
  <2>5. PodsOf(Cardinality(Done))' = PodsOf(Cardinality(Done'))
    BY DEF PodsOf
  <2> QED BY <2>2, <2>3, <2>4, <2>5 DEF PodInv, NoPod
<1>5. EventInv'
  <2>1. UNCHANGED <<now, started, pending, run, acted>>
    BY DEF hist
  <2> QED BY <2>1 DEF EventInv
<1>6. RequestInv'
  BY DEF RequestInv, NoReq
<1>7. DeliveryInv'
  <2>1. UNCHANGED <<lost, pending, acted>>
    BY DEF hist
  <2>2. ASSUME NEW q \in Syncs, sync'[q].reported # "none" PROVE Delivered(q, sync'[q].reported)
    <3>1. CASE q = s
      BY <1>1, <1>2, <2>2, <3>1 DEF DeliveryInv
    <3>2. CASE q # s
      BY <1>2, <2>2, <3>2 DEF DeliveryInv
    <3> QED BY <3>1, <3>2
  <2> QED BY <2>1, <2>2 DEF DeliveryInv, Delivered, NoPod
<1> QED BY <1>3, <1>4, <1>5, <1>6, <1>7

LEMMA JobSucceedsStep == IInv /\ JobSucceeds => IInv'
<1> SUFFICES ASSUME IInv, JobSucceeds PROVE IInv'
  OBVIOUS
<1> DEFINE s == pod.sync
<1>1. /\ pod.st = "ok" /\ s \in Syncs /\ sync[s] \in SyncStates
      /\ Status(sync[s].st) \in {"Succeeded", "Failed"}
  BY ThePod DEF JobSucceeds
<1>2. PICK x : x = [sync[s] EXCEPT !.st = "done", !.reported = Status(sync[s].st)]
  OBVIOUS
<1>3. x \in SyncStates /\ x.st = "done" /\ x.reported = Status(sync[s].st)
  BY <1>1, <1>2 DEF SyncStates
<1>4. Delivered(s, x.reported)
  BY <1>1, <1>3 DEF IInv, DeliveryInv
<1>5. sync' = [sync EXCEPT ![s] = x]
  BY <1>2 DEF JobSucceeds
<1> QED BY <1>1, <1>3, <1>4, <1>5, SyncEndsStep DEF JobSucceeds

LEMMA SyncFailJobFailsStep == IInv /\ SyncFailJobFails => IInv'
<1> SUFFICES ASSUME IInv, SyncFailJobFails PROVE IInv'
  OBVIOUS
<1> DEFINE s == pod.sync
<1>1. pod.st # "none" /\ s \in Syncs /\ sync[s] \in SyncStates
  BY ThePod DEF SyncFailJobFails
<1>2. PICK x : x = [sync[s] EXCEPT !.st = "done"]
  OBVIOUS
<1>3. x \in SyncStates /\ x.st = "done" /\ x.reported = sync[s].reported
  BY <1>1, <1>2 DEF SyncStates
<1>4. sync' = [sync EXCEPT ![s] = x]
  BY <1>2 DEF SyncFailJobFails
<1> QED BY <1>1, <1>3, <1>4, SyncEndsStep DEF SyncFailJobFails

-----------------------------------------------------------------------------
(***************************************************************************)
(* A step of the hook's pod or of the relay, with what they have in        *)
(* common.                                                                 *)
(***************************************************************************)
LEMMA PodStep ==
  ASSUME IInv, pod.st # "none", pod' \in Pods, pod'.st # "none",
         pod'.sync = pod.sync, pod'.n = pod.n, pod'.at = pod.at,
         req' \in Requests, pending' = pending \/ Accept, Fault \/ NoFault,
         UNCHANGED <<setup, secrets, now, sync, run, hist>>, RequestInv',
         \/ pod'.st = "ok"
         \/ pod'.st = "waiting" /\ req'.pc = "done" /\ req'.code = 202
         => Accept \/ Delivered(pod.sync, Status(sync[pod.sync].st))
  PROVE  IInv'
<1> USE DEF IInv
<1>1. /\ pod.sync \in Syncs /\ EventOf(pod) \in Events /\ started[now] = EventOf(pod)
      /\ pod.at = now /\ now \in Times /\ pod.try \in 0 .. CurlRetries
  BY ThePod DEF TypeOK, Pods
<1>2. UNCHANGED <<setup, vault, relaySecret, hookSecret, now, sync, run, started, acted, lost>>
  BY DEF secrets, hist
<1>3. pending \subseteq pending'
      /\ \A d \in pending' : d \in pending \/ d = [ev |-> EventOf(pod), try |-> pod.try]
  BY DEF Accept
<1>4. EventOf(pod)' = EventOf(pod)
  BY <1>2 DEF EventOf
<1>5. TypeOK'
  <2>1. pending' \subseteq [ev: Events, try: 0 .. CurlRetries]
    BY <1>1, <1>3 DEF TypeOK
  <2>2. faults' \in 0 .. MaxFaults
    BY FaultKeepsType DEF TypeOK
  <2> QED BY <1>2, <2>1, <2>2 DEF TypeOK, Versions
<1>6. PodInv'
  <2>1. Done' = Done
    BY <1>2 DEF Done
  <2> QED BY <1>2, <1>4, <2>1 DEF PodInv, PodsOf
<1>7. EventInv'
  <2>1. \A d \in pending' : started[d.ev.at] = d.ev
    <3> SUFFICES ASSUME NEW d \in pending' PROVE started[d.ev.at] = d.ev
      OBVIOUS
    <3>1. CASE d \in pending
      BY <3>1 DEF EventInv
    <3>2. CASE d = [ev |-> EventOf(pod), try |-> pod.try]
      BY <1>1, <3>2 DEF EventOf
    <3> QED BY <1>3, <3>1, <3>2
  <2> QED BY <1>2, <2>1 DEF EventInv
<1>8. DeliveryInv'
  <2>1. ASSUME NEW s, NEW status, Delivered(s, status) PROVE Delivered(s, status)'
    BY <1>2, <1>3, <2>1 DEF Delivered
  <2>2. Accept => Delivered(pod.sync, Status(sync[pod.sync].st))'
    <3> SUFFICES ASSUME Accept PROVE Delivered(pod.sync, Status(sync[pod.sync].st))'
      OBVIOUS
    <3>1. [ev |-> EventOf(pod), try |-> pod.try] \in pending'
      BY DEF Accept
    <3>2. EventOf(pod).sync = pod.sync /\ EventOf(pod).status = Status(sync[pod.sync].st)
      BY DEF EventOf
    <3> QED BY <1>2, <3>1, <3>2 DEF Delivered, Status
  <2>3. UNCHANGED <<Status(sync[pod.sync].st)>>
    BY <1>2 DEF Status
  <2>4. \A s \in Syncs : sync'[s].reported # "none" => Delivered(s, sync[s].reported)'
    BY <1>2, <2>1 DEF DeliveryInv
  <2>5. \/ pod'.st = "ok"
        \/ pod'.st = "waiting" /\ req'.pc = "done" /\ req'.code = 202
        => Delivered(pod.sync, Status(sync[pod.sync].st))'
    BY <2>1, <2>2, <2>3
  <2> QED BY <1>2, <2>3, <2>4, <2>5 DEF DeliveryInv, Delivered
<1> QED BY <1>5, <1>6, <1>7, <1>8

LEMMA PodMoves ==
  ASSUME pod \in Pods, NEW st \in {"post", "waiting", "ok", "failed"},
         pod' = [pod EXCEPT !.st = st]
  PROVE  /\ pod' \in Pods /\ pod'.st = st /\ pod'.sync = pod.sync /\ pod'.n = pod.n
         /\ pod'.at = pod.at /\ pod'.token = pod.token
BY DEF Pods

LEMMA PodTriesAgain ==
  ASSUME pod \in Pods, TryAgain
  PROVE  /\ pod' \in Pods /\ pod'.st \in {"post", "failed"} /\ pod'.sync = pod.sync
         /\ pod'.n = pod.n /\ pod'.at = pod.at
<1>1. CASE pod.try < CurlRetries /\ pod' = [pod EXCEPT !.st = "post", !.try = @ + 1]
  <2>1. pod.try + 1 \in 0 .. CurlRetries
    BY <1>1, CountsAssumption DEF Pods
  <2> QED BY <1>1, <2>1 DEF Pods
<1>2. CASE pod' = [pod EXCEPT !.st = "failed"]
  BY <1>2, PodMoves
<1> QED BY <1>1, <1>2 DEF TryAgain

LEMMA ReadTokenStep == IInv /\ ReadToken => IInv'
<1> SUFFICES ASSUME IInv, ReadToken PROVE IInv'
  OBVIOUS
<1>1. pod \in Pods /\ hookSecret \in Versions /\ req.pc = "none" /\ pod.st = "secret"
  BY DEF IInv, TypeOK, RequestInv, ReadToken
<1>2. /\ pod' \in Pods /\ pod'.st \in {"post", "failed"} /\ pod'.sync = pod.sync /\ pod'.n = pod.n
      /\ pod'.at = pod.at
  BY <1>1 DEF ReadToken, Pods
<1>3. req' = req /\ req' \in Requests /\ (Fault \/ NoFault) /\ pending' = pending
      /\ UNCHANGED <<setup, secrets, now, sync, run, hist>>
  BY DEF ReadToken, IInv, TypeOK
<1>4. RequestInv'
  BY <1>1, <1>2, <1>3 DEF RequestInv
<1> QED BY <1>1, <1>2, <1>3, <1>4, PodStep

LEMMA PostStep == IInv /\ Post => IInv'
<1> SUFFICES ASSUME IInv, Post PROVE IInv'
  OBVIOUS
<1>1. pod \in Pods /\ pod.st = "post" /\ relaySecret \in Versions
  BY DEF IInv, TypeOK, Post
<1>2. /\ pod' \in Pods /\ pod'.st = "waiting" /\ pod'.sync = pod.sync /\ pod'.n = pod.n
      /\ pod'.at = pod.at
  BY <1>1, PodMoves DEF Post
<1>3. /\ req' = [pc |-> "registry", code |-> 0, seen |-> {relaySecret}] /\ pending' = pending
      /\ UNCHANGED <<setup, secrets, now, sync, run, hist>> /\ NoFault
  BY DEF Post, NoFault
<1>4. req' \in Requests
  BY <1>1, <1>3 DEF Requests
<1>5. RequestInv'
  BY <1>2, <1>3 DEF RequestInv, secrets
<1> QED BY <1>1, <1>2, <1>3, <1>4, <1>5, PodStep

LEMMA ReceiveReplyStep == IInv /\ ReceiveReply => IInv'
<1> SUFFICES ASSUME IInv, ReceiveReply PROVE IInv'
  OBVIOUS
<1>1. pod \in Pods /\ pod.st = "waiting" /\ req.pc = "done"
  BY DEF IInv, TypeOK, ReceiveReply
<1>2. /\ req' = NoReq /\ req' \in Requests /\ pending' = pending
      /\ UNCHANGED <<setup, secrets, now, sync, run, hist>> /\ NoFault
  BY Literals DEF ReceiveReply, NoFault
<1>3. RequestInv'
  BY <1>2 DEF RequestInv, NoReq
<1>4. /\ pod' \in Pods /\ pod'.st \in {"ok", "post", "failed"} /\ pod'.sync = pod.sync
      /\ pod'.n = pod.n /\ pod'.at = pod.at
      /\ pod'.st = "ok" => req.code = 202
  <2>1. CASE req.code = 202 /\ pod' = [pod EXCEPT !.st = "ok"]
    BY <1>1, <2>1, PodMoves
  <2>2. CASE TryAgain
    BY <1>1, <2>2, PodTriesAgain
  <2>3. CASE pod' = [pod EXCEPT !.st = "failed"]
    BY <1>1, <2>3, PodMoves
  <2> QED BY <2>1, <2>2, <2>3 DEF ReceiveReply
<1>5. pod'.st = "ok" => Delivered(pod.sync, Status(sync[pod.sync].st))
  BY <1>1, <1>4 DEF IInv, DeliveryInv
<1> QED BY <1>1, <1>2, <1>3, <1>4, <1>5, PodStep

\* The pod's attempt ends without an answer.
LEMMA HangUpStep ==
  ASSUME IInv, pod.st = "waiting", TryAgain \/ pod' = [pod EXCEPT !.st = "failed"], req' = NoReq,
         pending' = pending \/ Accept, Fault \/ NoFault,
         UNCHANGED <<setup, secrets, now, sync, run, hist>>
  PROVE  IInv'
<1>1. pod \in Pods
  BY DEF IInv, TypeOK
<1>2. /\ pod' \in Pods /\ pod'.st \in {"post", "failed"} /\ pod'.sync = pod.sync
      /\ pod'.n = pod.n /\ pod'.at = pod.at
  <2>1. CASE TryAgain
    BY <1>1, <2>1, PodTriesAgain
  <2>2. CASE pod' = [pod EXCEPT !.st = "failed"]
    BY <1>1, <2>2, PodMoves
  <2> QED BY <2>1, <2>2
<1>3. req' \in Requests /\ RequestInv'
  BY Literals DEF RequestInv, NoReq
<1> QED BY <1>2, <1>3, PodStep

LEMMA TimeOutStep == IInv /\ TimeOut => IInv'
BY HangUpStep DEF TimeOut

LEMMA LostConnectionStep == IInv /\ LostConnection => IInv'
BY HangUpStep DEF LostConnection, NoFault

\* The relay's request moves on; a pod waits for it.
LEMMA ReplyTypes ==
  ASSUME req \in Requests, NEW code \in {0, 202, 400, 401, 502}, Reply(code)
  PROVE  req' \in Requests /\ req'.pc = "done" /\ req'.code = code /\ req'.seen = req.seen
<1>1. PICK q : q = [req EXCEPT !.pc = "done"]
  OBVIOUS
<1>2. q \in Requests /\ q.pc = "done" /\ q.seen = req.seen
  BY <1>1 DEF Requests
<1>3. req' = [q EXCEPT !.code = code]
  BY <1>1 DEF Reply, Requests
<1> QED BY <1>2, <1>3 DEF Requests

LEMMA GotoTypes ==
  ASSUME req \in Requests, NEW pc \in {"secret", "forward", "gone"}, Goto(pc)
  PROVE  req' \in Requests /\ req'.pc = pc /\ req'.seen = req.seen
BY DEF Goto, Requests

LEMMA RelayStep ==
  ASSUME IInv, req.pc \in {"registry", "secret", "forward"}, pod' = pod,
         req' \in Requests, req'.seen = req.seen,
         req'.pc \in {"secret", "forward", "done", "gone"},
         pending' = pending \/ Accept, Fault \/ NoFault,
         UNCHANGED <<setup, secrets, now, sync, run, hist>>,
         req'.pc = "done" /\ req'.code = 202 => Accept,
         req'.pc = "forward" => pod.token = relaySecret
  PROVE  IInv'
<1>1. pod \in Pods /\ pod.st = "waiting" /\ relaySecret \in req.seen
  BY DEF IInv, TypeOK, RequestInv
<1>2. RequestInv'
  BY <1>1 DEF RequestInv, secrets
<1> QED BY <1>1, <1>2, PodStep

LEMMA ReadRegistryStep == IInv /\ ReadRegistry => IInv'
<1> SUFFICES ASSUME IInv, ReadRegistry PROVE IInv'
  OBVIOUS
<1>1. req \in Requests
  BY DEF IInv, TypeOK
<1>2. Goto("secret") \/ Reply(401)
  BY DEF ReadRegistry
<1>3. /\ req' \in Requests /\ req'.seen = req.seen /\ req'.pc \in {"secret", "done"}
      /\ req'.pc = "done" => req'.code = 401
  BY <1>1, <1>2, ReplyTypes, GotoTypes
<1>4. /\ req.pc \in {"registry", "secret", "forward"} /\ pod' = pod /\ pending' = pending
      /\ Fault \/ NoFault
      /\ UNCHANGED <<setup, secrets, now, sync, run, hist>>
  BY DEF ReadRegistry
<1> QED BY <1>3, <1>4, RelayStep

LEMMA CheckTokenStep == IInv /\ CheckToken => IInv'
<1> SUFFICES ASSUME IInv, CheckToken PROVE IInv'
  OBVIOUS
<1>1. req \in Requests
  BY DEF IInv, TypeOK
<1>2. \/ Goto("forward") /\ pod.token = relaySecret
      \/ Reply(400)
      \/ Reply(401)
  BY DEF CheckToken, ExpectedToken
<1>3. /\ req' \in Requests /\ req'.seen = req.seen /\ req'.pc \in {"forward", "done"}
      /\ req'.pc = "done" => req'.code # 202
      /\ req'.pc = "forward" => pod.token = relaySecret
  BY <1>1, <1>2, ReplyTypes, GotoTypes
<1>4. /\ req.pc \in {"registry", "secret", "forward"} /\ pod' = pod /\ pending' = pending
      /\ Fault \/ NoFault
      /\ UNCHANGED <<setup, secrets, now, sync, run, hist>>
  BY DEF CheckToken
<1> QED BY <1>3, <1>4, RelayStep

LEMMA ForwardToBrokerStep == IInv /\ ForwardToBroker => IInv'
<1> SUFFICES ASSUME IInv, ForwardToBroker PROVE IInv'
  OBVIOUS
<1>1. req \in Requests
  BY DEF IInv, TypeOK
<1>2. (Reply(202) /\ Accept) \/ Reply(502)
  BY DEF ForwardToBroker
<1>3. /\ req' \in Requests /\ req'.seen = req.seen /\ req'.pc = "done"
      /\ req'.code = 202 => Accept
  BY <1>1, <1>2, ReplyTypes
<1>4. /\ req.pc \in {"registry", "secret", "forward"} /\ pod' = pod
      /\ pending' = pending \/ Accept
      /\ Fault \/ NoFault
      /\ UNCHANGED <<setup, secrets, now, sync, run, hist>>
  BY DEF ForwardToBroker
<1> QED BY <1>3, <1>4, RelayStep

LEMMA RelayRestartsStep == IInv /\ RelayRestarts => IInv'
<1> SUFFICES ASSUME IInv, RelayRestarts PROVE IInv'
  OBVIOUS
<1>1. req \in Requests
  BY DEF IInv, TypeOK
<1>2. req' \in Requests /\ req'.seen = req.seen /\ req'.pc = "gone"
  BY <1>1, GotoTypes DEF RelayRestarts
<1>3. /\ req.pc \in {"registry", "secret", "forward"} /\ pod' = pod
      /\ pending' = pending \/ Accept
      /\ Fault \/ NoFault
      /\ UNCHANGED <<setup, secrets, now, sync, run, hist>>
  BY DEF RelayRestarts
<1> QED BY <1>2, <1>3, RelayStep

-----------------------------------------------------------------------------
(***************************************************************************)
(* The secret's copies.                                                    *)
(***************************************************************************)
LEMMA SecretStep ==
  ASSUME IInv, vault' \in Versions, relaySecret' \in Versions, hookSecret' \in Versions,
         req' \in Requests, req'.pc = req.pc, req'.code = req.code, req.seen \subseteq req'.seen,
         req.pc # "none" => relaySecret' = relaySecret \/ relaySecret' \in req'.seen,
         UNCHANGED <<setup, now, sync, pod, pending, run, faults, hist>>
  PROVE  IInv'
<1> USE DEF IInv, hist
<1>1. TypeOK'
  BY DEF TypeOK
<1>2. PodInv'
  BY DEF PodInv, PodsOf, Done, EventOf, Status
<1>3. EventInv'
  BY DEF EventInv
<1>4. RequestInv'
  BY DEF RequestInv
<1>5. DeliveryInv'
  BY DEF DeliveryInv, Delivered, Status
<1> QED BY <1>1, <1>2, <1>3, <1>4, <1>5

LEMMA RotateStep == IInv /\ Rotate => IInv'
<1> SUFFICES ASSUME IInv, Rotate PROVE IInv'
  OBVIOUS
<1>1. /\ vault' \in Versions /\ relaySecret' = relaySecret /\ hookSecret' = hookSecret /\ req' = req
      /\ relaySecret \in Versions /\ hookSecret \in Versions /\ req \in Requests
  BY BoundsAssumption DEF IInv, TypeOK, Versions, Rotate
<1> QED BY <1>1, SecretStep DEF Rotate

LEMMA RefreshRelaySecretStep == IInv /\ RefreshRelaySecret => IInv'
<1> SUFFICES ASSUME IInv, RefreshRelaySecret PROVE IInv'
  OBVIOUS
<1>1. /\ vault \in Versions /\ vault' = vault /\ relaySecret' = vault /\ hookSecret' = hookSecret
      /\ hookSecret \in Versions /\ req \in Requests
  BY DEF IInv, TypeOK, RefreshRelaySecret
<1>2. /\ req' \in Requests /\ req'.pc = req.pc /\ req'.code = req.code /\ req.seen \subseteq req'.seen
      /\ req.pc # "none" => vault \in req'.seen
  BY <1>1 DEF RefreshRelaySecret, Requests
<1> QED BY <1>1, <1>2, SecretStep DEF RefreshRelaySecret

LEMMA RefreshHookSecretStep == IInv /\ RefreshHookSecret => IInv'
<1> SUFFICES ASSUME IInv, RefreshHookSecret PROVE IInv'
  OBVIOUS
<1>1. /\ vault' = vault /\ relaySecret' = relaySecret /\ hookSecret' = vault /\ req' = req
      /\ vault \in Versions /\ relaySecret \in Versions /\ req \in Requests
  BY DEF IInv, TypeOK, RefreshHookSecret
<1> QED BY <1>1, SecretStep DEF RefreshHookSecret

-----------------------------------------------------------------------------
(***************************************************************************)
(* The broker takes or loses a delivery.                                   *)
(***************************************************************************)
LEMMA DeliveryTypes ==
  ASSUME IInv, NEW d \in pending
  PROVE  d.ev \in Events /\ d.ev.at \in Times /\ d.ev.sync \in Syncs /\ started[d.ev.at] = d.ev
         /\ d.ev # NoEvent
<1>1. d.ev \in Events
  BY DEF IInv, TypeOK
<1> QED BY <1>1, Literals DEF Events, IInv, EventInv

LEMMA ActOnStep ==
  ASSUME IInv, NEW d \in pending, ActOn(d)
  PROVE  IInv'
<1> USE DEF IInv
<1> DEFINE t == d.ev.at
<1>1. /\ UNCHANGED <<setup, vault, relaySecret, hookSecret, now, sync, pod, req, faults,
                     started, lost>>
      /\ pending' = pending \ {d} /\ acted' = acted \union {d.ev}
  BY DEF ActOn, secrets
<1>2. d.ev \in Events /\ t \in Times /\ started[t] = d.ev /\ d.ev # NoEvent
  BY DeliveryTypes
<1>3. PICK q : q = [NoRun EXCEPT !.pc = "resolve", !.ev = d.ev]
  OBVIOUS
<1>4. q \in Runs /\ q.pc = "resolve" /\ q.ev = d.ev
  BY <1>2, <1>3 DEF NoRun, Runs
<1>5. /\ run \in [Times -> Runs]
      /\ run' = [run EXCEPT ![t] = IF run[t].pc = "none" THEN q ELSE run[t]]
  BY <1>3 DEF ActOn, Id, TypeOK
<1>6. /\ run' \in [Times -> Runs]
      /\ \A u \in Times : run[u].pc # "none" => run'[u] = run[u]
      /\ \A u \in Times : u # t => run'[u] = run[u]
      /\ run[t].pc = "none" => run'[t] = q
  BY <1>2, <1>4, <1>5
<1>7. TypeOK'
  BY <1>1, <1>2, <1>6 DEF TypeOK, Versions
<1>8. PodInv'
  BY <1>1 DEF PodInv, PodsOf, Done, EventOf, Status
<1>9. EventInv'
  <2>1. ASSUME NEW u \in Times, run'[u].pc # "none"
        PROVE  run'[u].ev = started[u] /\ run'[u].ev # NoEvent
    BY <1>2, <1>4, <1>6, <2>1 DEF EventInv
  <2>2. ASSUME NEW ev \in acted' PROVE run'[ev.at].pc # "none" /\ run'[ev.at].ev = ev
    <3>1. CASE ev \in acted
      <4>1. ev.at \in Times /\ run[ev.at].pc # "none" /\ run[ev.at].ev = ev
        BY <3>1 DEF TypeOK, Events, EventInv
      <4> QED BY <1>6, <4>1
    <3>2. CASE ev = d.ev
      <4>1. run'[t].pc # "none"
        BY <1>2, <1>4, <1>6
      <4> QED BY <1>2, <2>1, <3>2, <4>1
    <3> QED BY <1>1, <2>2, <3>1, <3>2
  <2> QED BY <1>1, <2>1, <2>2 DEF EventInv
<1>10. RequestInv'
  BY <1>1 DEF RequestInv
<1>11. DeliveryInv'
  <2>1. \A s, status : Delivered(s, status) => Delivered(s, status)'
    BY <1>1 DEF Delivered
  <2> QED BY <1>1, <2>1 DEF DeliveryInv, Status
<1> QED BY <1>7, <1>8, <1>9, <1>10, <1>11

LEMMA DropDeliveryStep ==
  ASSUME IInv, NEW d \in pending, DropDelivery(d)
  PROVE  IInv'
<1> USE DEF IInv
<1>1. /\ UNCHANGED <<setup, vault, relaySecret, hookSecret, now, sync, pod, req, run,
                     started, acted>>
      /\ pending' = pending \ {d} /\ lost' = lost \union {d.ev.sync}
  BY DEF DropDelivery, secrets
<1>2. d.ev.sync \in Syncs
  BY DeliveryTypes
<1>3. TypeOK'
  <2>1. faults' \in 0 .. MaxFaults
    BY FaultKeepsType DEF TypeOK, DropDelivery
  <2> QED BY <1>1, <1>2, <2>1 DEF TypeOK, Versions
<1>4. PodInv'
  BY <1>1 DEF PodInv, PodsOf, Done, EventOf, Status
<1>5. EventInv'
  BY <1>1 DEF EventInv
<1>6. RequestInv'
  BY <1>1 DEF RequestInv
<1>7. DeliveryInv'
  <2>1. \A s, status : Delivered(s, status) => Delivered(s, status)'
    BY <1>1 DEF Delivered
  <2> QED BY <1>1, <2>1 DEF DeliveryInv, Status
<1> QED BY <1>3, <1>4, <1>5, <1>6, <1>7

-----------------------------------------------------------------------------
(***************************************************************************)
(* A notify run's first Task ends.                                         *)
(***************************************************************************)
LEMMA ResolveMoves ==
  ASSUME IInv, NEW t \in Times, Resolve(t)
  PROVE  /\ run[t] \in Runs /\ run[t].pc # "none" /\ run' \in [Times -> Runs]
         /\ run'[t].pc \in {"done", "failed"}
         /\ run'[t].pc = "failed" => run[t].ev.sync \in lost'
         /\ \A u \in Times : u # t => run'[u] = run[u]
         /\ \A u \in Times : run'[u].ev = run[u].ev
         /\ lost' = lost \/ lost' = lost \union {run[t].ev.sync}
<1>1. run \in [Times -> Runs] /\ run[t].pc = "resolve"
  BY DEF Resolve, IInv, TypeOK
<1>2. PICK pc \in {"done", "failed"} :
        /\ run' = [run EXCEPT ![t].pc = pc]
        /\ pc = "failed" => run[t].ev.sync \in lost'
        /\ lost' = lost \/ lost' = lost \union {run[t].ev.sync}
  BY DEF Resolve
<1>3. PICK q : q = [run[t] EXCEPT !.pc = pc]
  OBVIOUS
<1>4. q \in Runs /\ q.pc = pc /\ q.ev = run[t].ev
  BY <1>1, <1>3 DEF Runs
<1>5. run' = [run EXCEPT ![t] = q]
  BY <1>2, <1>3
<1> QED BY <1>1, <1>2, <1>4, <1>5

LEMMA ResolveStep ==
  ASSUME IInv, NEW t \in Times, Resolve(t)
  PROVE  IInv'
<1> USE DEF IInv
<1>1. /\ UNCHANGED <<setup, vault, relaySecret, hookSecret, now, sync, pod, req, pending, started,
                     acted>>
      /\ Fault \/ NoFault
  BY DEF Resolve, secrets
<1>2. /\ run[t].pc # "none" /\ run' \in [Times -> Runs] /\ run'[t].pc # "none"
      /\ \A u \in Times : u # t => run'[u] = run[u]
      /\ \A u \in Times : run'[u].ev = run[u].ev
      /\ lost' = lost \/ lost' = lost \union {run[t].ev.sync}
  BY ResolveMoves
<1>3. run[t].ev.sync \in Syncs
  BY <1>2 DEF TypeOK, Events, EventInv
<1>4. TypeOK'
  <2>1. faults' \in 0 .. MaxFaults
    BY <1>1, FaultKeepsType DEF TypeOK
  <2> QED BY <1>1, <1>2, <1>3, <2>1 DEF TypeOK, Versions
<1>5. PodInv'
  BY <1>1 DEF PodInv, PodsOf, Done, EventOf, Status
<1>6. EventInv'
  <2>1. \A u \in Times : run'[u].pc # "none" => run'[u].ev = started[u] /\ run'[u].ev # NoEvent
    BY <1>2 DEF EventInv
  <2>2. \A ev \in acted : run'[ev.at].pc # "none" /\ run'[ev.at].ev = ev
    <3> SUFFICES ASSUME NEW ev \in acted PROVE run'[ev.at].pc # "none" /\ run'[ev.at].ev = ev
      OBVIOUS
    <3>1. ev.at \in Times /\ run[ev.at].pc # "none" /\ run[ev.at].ev = ev
      BY DEF TypeOK, Events, EventInv
    <3> QED BY <1>2, <3>1
  <2> QED BY <1>1, <2>1, <2>2 DEF EventInv
<1>7. RequestInv'
  BY <1>1 DEF RequestInv
<1>8. DeliveryInv'
  <2>1. \A p, status : Delivered(p, status) => Delivered(p, status)'
    BY <1>1, <1>2 DEF Delivered
  <2> QED BY <1>1, <2>1 DEF DeliveryInv, Status
<1> QED BY <1>4, <1>5, <1>6, <1>7, <1>8

-----------------------------------------------------------------------------
(***************************************************************************)
(* The theorems.                                                           *)
(***************************************************************************)
LEMMA NextIInv == IInv /\ [Next]_vars => IInv'
<1> SUFFICES ASSUME IInv, [Next]_vars PROVE IInv'
  OBVIOUS
<1>1. ASSUME NEW s \in Syncs, NEW st \in {"PostSync", "SyncFail"}, StartSync(s, st) PROVE IInv'
  BY <1>1, StartSyncStep
<1>2. CASE Jobs
  BY <1>2, JobSucceedsStep, JobRetriesPodStep, PostSyncJobFailsStep, SyncFailJobFailsStep DEF Jobs
<1>3. CASE Hook
  BY <1>3, ReadTokenStep, PostStep, ReceiveReplyStep, TimeOutStep, LostConnectionStep DEF Hook
<1>4. CASE Relay
  BY <1>4, ReadRegistryStep, CheckTokenStep, ForwardToBrokerStep, RelayRestartsStep DEF Relay
<1>5. CASE Secret
  BY <1>5, RotateStep, RefreshRelaySecretStep, RefreshHookSecretStep DEF Secret
<1>6. ASSUME NEW d \in pending, ActOn(d) \/ DropDelivery(d) PROVE IInv'
  BY <1>6, ActOnStep, DropDeliveryStep
<1>7. ASSUME NEW t \in Times, Resolve(t) PROVE IInv'
  BY <1>7, ResolveStep
<1>8. CASE UNCHANGED vars
  <2> USE <1>8 DEF vars, secrets, hist
  <2>1. TypeOK'
    BY DEF IInv, TypeOK, Versions
  <2>2. PodInv' /\ EventInv' /\ RequestInv'
    BY DEF IInv, PodInv, PodsOf, Done, EventOf, Status, EventInv, RequestInv
  <2>3. DeliveryInv'
    BY DEF IInv, DeliveryInv, Delivered, Status
  <2> QED BY <2>1, <2>2, <2>3 DEF IInv
<1> QED BY <1>1, <1>2, <1>3, <1>4, <1>5, <1>6, <1>7, <1>8 DEF Next

LEMMA Invariance == Spec => []IInv
BY InitIInv, NextIInv, PTL DEF Spec

\* Every process keeps to the states of its script, and a hook Job to its number of pods: the
\* syncs never have more pods than Times has room for.
THEOREM TypeCorrect == Spec => []TypeOK
<1>1. IInv => TypeOK
  BY DEF IInv
<1> QED BY <1>1, Invariance, PTL

\* However often a pod's event is posted, forwarded or delivered, all of its runs are one run,
\* which reports what that pod said.
THEOREM RunsArePods == Spec => []OneRunPerPod
<1>1. IInv => OneRunPerPod
  BY DEF IInv, EventInv, OneRunPerPod
<1> QED BY <1>1, Invariance, PTL

\* No event that the Trigger acts on is taken for a repetition of another one: the date in the
\* id of a hook pod's event tells it from every other pod's, failed Jobs' pods included.
THEOREM NoneSwallowed == Spec => []NoOutcomeSwallowed
<1>1. IInv => NoOutcomeSwallowed
  <2> SUFFICES ASSUME IInv, NEW ev \in acted
               PROVE  \E t \in Times : run[t].pc # "none" /\ run[t].ev = ev
    BY DEF NoOutcomeSwallowed
  <2>1. ev.at \in Times
    BY DEF IInv, TypeOK, Events
  <2>2. run[ev.at].pc # "none" /\ run[ev.at].ev = ev
    BY DEF IInv, EventInv
  <2> QED BY <2>1, <2>2
<1> QED BY <1>1, Invariance, PTL

\* The relay forwards no event with a token its Secret has not held since the request came,
\* however the source and the two copies change meanwhile.
THEOREM TokensAreFresh == Spec => []NoStaleToken
<1>1. IInv => NoStaleToken
  BY DEF IInv, RequestInv, NoStaleToken
<1> QED BY <1>1, Invariance, PTL

\* A hook Job ends well only when the broker has the event, whatever failed before.
THEOREM ReportsArrive == Spec => []ReportedIsDelivered
<1>1. IInv => ReportedIsDelivered
  BY DEF IInv, DeliveryInv, Delivered, ReportedIsDelivered
<1> QED BY <1>1, Invariance, PTL
-----------------------------------------------------------------------------
(***************************************************************************)
(* What a run that fails and a sync that is over leave behind.             *)
(***************************************************************************)

\* A failed notify run is known to be lost; an outcome is reported by the Job that ends its sync.
EndInv ==
  /\ \A t \in Times : run[t].pc = "failed" => run[t].ev.sync \in lost
  /\ \A s \in Syncs : sync[s].st # "done" => sync[s].reported = "none"

LEMMA EndInvInductive ==
  ASSUME IInv, EndInv, [Next]_vars
  PROVE  EndInv'
<1>0. sync \in [Syncs -> SyncStates] /\ run \in [Times -> Runs]
  BY DEF IInv, TypeOK
<1>1. ASSUME run' = run, lost \subseteq lost', NEW s, NEW w, w # "done",
             sync' = [sync EXCEPT ![s].st = w], sync[s].st # "done"
      PROVE  EndInv'
  BY <1>0, <1>1 DEF EndInv, SyncStates
<1>2. ASSUME sync' = sync, run' = run, lost \subseteq lost'
      PROVE  EndInv'
  BY <1>2 DEF EndInv
<1>3. ASSUME NEW s \in Syncs, NEW st \in {"PostSync", "SyncFail"}, StartSync(s, st) PROVE EndInv'
  BY <1>1, <1>3 DEF StartSync
<1>4. CASE JobSucceeds
  <2>1. PICK w : sync' = [sync EXCEPT ![pod.sync].st = "done", ![pod.sync].reported = w]
    BY <1>4 DEF JobSucceeds
  <2>2. PICK q : q = [sync[pod.sync] EXCEPT !.st = "done", !.reported = w]
    OBVIOUS
  <2>3. pod.sync \in Syncs => q.st = "done"
    BY <1>0, <2>2 DEF SyncStates
  <2>4. sync' = [sync EXCEPT ![pod.sync] = q]
    BY <2>1, <2>2
  <2> QED BY <1>0, <1>4, <2>3, <2>4 DEF JobSucceeds, hist, EndInv
<1>5. CASE SyncFailJobFails
  BY <1>0, <1>5 DEF SyncFailJobFails, hist, EndInv, SyncStates
<1>6. CASE PostSyncJobFails
  BY <1>1, <1>6 DEF PostSyncJobFails
<1>7. CASE JobRetriesPod
  BY <1>2, <1>7 DEF JobRetriesPod
<1>8. CASE Hook
  BY <1>2, <1>8 DEF Hook, ReadToken, Post, ReceiveReply, TimeOut, LostConnection, hist
<1>9. CASE Relay
  BY <1>2, <1>9 DEF Relay, ReadRegistry, CheckToken, ForwardToBroker, RelayRestarts, hist
<1>10. CASE Secret
  BY <1>2, <1>10 DEF Secret, Rotate, RefreshRelaySecret, RefreshHookSecret, hist
<1>11. ASSUME NEW d \in pending, ActOn(d) PROVE EndInv'
  <2>1. /\ sync' = sync /\ lost' = lost
        /\ \A t \in Times : run'[t] = run[t] \/ run'[t].pc = "resolve"
    <3>1. PICK q : q = [NoRun EXCEPT !.pc = "resolve", !.ev = d.ev]
      OBVIOUS
    <3>2. q.pc = "resolve"
      BY <3>1 DEF NoRun
    <3>3. run' = [run EXCEPT ![Id(d.ev)] = IF run[Id(d.ev)].pc = "none" THEN q ELSE run[Id(d.ev)]]
      BY <1>11, <3>1 DEF ActOn
    <3> QED BY <1>0, <1>11, <3>2, <3>3 DEF ActOn
  <2> QED BY <2>1 DEF EndInv
<1>12. ASSUME NEW d \in pending, DropDelivery(d) PROVE EndInv'
  BY <1>2, <1>12 DEF DropDelivery
<1>13. ASSUME NEW t \in Times, Resolve(t) PROVE EndInv'
  BY <1>13, ResolveMoves DEF EndInv, Resolve
<1>14. CASE UNCHANGED vars
  BY <1>2, <1>14 DEF vars
<1> QED BY <1>3, <1>4, <1>5, <1>6, <1>7, <1>8, <1>9, <1>10, <1>11, <1>12, <1>13, <1>14
        DEF Next, Jobs

LEMMA EndInvariance == Spec => [](IInv /\ EndInv)
<1>1. Init => EndInv
  BY DEF Init, EndInv, NoRun
<1> QED BY <1>1, Invariance, EndInvInductive, PTL DEF Spec

\* The safety half of OutcomeReported: once nothing is on its way, every reported outcome is in a
\* finished run, or its sync is one that is known to have lost an event.
THEOREM NoneForgotten == Spec => []NoOutcomeForgotten
<1>1. IInv /\ EndInv => NoOutcomeForgotten
  <2> SUFFICES ASSUME IInv, EndInv, pending = {},
                      \A t \in Times : run[t].pc \in {"none", "done", "failed"},
                      NEW s \in Syncs, sync[s].reported # "none", s \notin lost
               PROVE  \E t \in Times : run[t].pc = "done" /\ run[t].ev.sync = s
                                       /\ run[t].ev.status = sync[s].reported
    BY DEF NoOutcomeForgotten
  <2>1. PICK ev \in acted : ev.sync = s /\ ev.status = sync[s].reported
    BY DEF IInv, DeliveryInv, Delivered
  <2>2. ev.at \in Times /\ run[ev.at].pc # "none" /\ run[ev.at].ev = ev
    BY DEF IInv, TypeOK, Events, EventInv
  <2>3. run[ev.at].pc # "failed"
    BY <2>1, <2>2 DEF EndInv
  <2> QED BY <2>1, <2>2, <2>3
<1> QED BY <1>1, EndInvariance, PTL

-----------------------------------------------------------------------------
(***************************************************************************)
(* Refinement of OutcomeReports.                                           *)
(***************************************************************************)

\* What is said so far was said before now.
LEMMA SaidBefore ==
  ASSUME IInv, NEW e \in Said
  PROVE  e \in Events /\ e.at \in Nat /\ e.at <= now /\ now \in Nat /\ started[e.at] = e
<1>1. PICK t \in Times : started[t] # NoEvent /\ e = started[t]
  BY DEF Said
<1>2. e \in Events /\ e.at = t /\ t <= now /\ now \in Times
  BY <1>1, TimesArePods DEF IInv, TypeOK, EventInv
<1> QED BY <1>1, <1>2, TimesArePods

\* Steps that leave events, runs' names and outcomes alone show nothing.
LEMMA Silent ==
  ASSUME started' = started, pending' = pending, lost' = lost,
         \A t \in Times : (run'[t].pc = "none" <=> run[t].pc = "none") /\ run'[t].ev = run[t].ev,
         \A s \in Syncs : sync'[s].reported = sync[s].reported
  PROVE  UNCHANGED Reports!vars
<1>1. Said' = Said /\ Waiting' = Waiting
  BY DEF Said, Waiting
<1>2. Noted' = Noted
  BY DEF Noted
<1>3. Verdict' = Verdict
  BY DEF Verdict
<1> QED BY <1>1, <1>2, <1>3 DEF Reports!vars

\* A pod that starts says a new event.
LEMMA StartPodSays ==
  ASSUME IInv, EndInv, TypeOK', NEW s \in Syncs, NEW n, NEW st, StartPod(s, n, st), sync[s].st # "done",
         pending' = pending, run' = run, lost' = lost,
         \A q \in Syncs : sync'[q].reported = sync[q].reported
  PROVE  Reports!Say
<1> DEFINE ev == [sync |-> s, at |-> now + 1, status |-> Status(st)]
<1>1. /\ now \in Nat /\ now + 1 \in Times /\ ev.at = now + 1 /\ ev.sync = s /\ ev # NoEvent
      /\ started \in [Times -> Events \union {NoEvent}]
      /\ started' = [started EXCEPT ![now + 1] = ev]
  <2>1. now \in Nat /\ now + 1 \in Times
    BY TimesArePods DEF StartPod, IInv, TypeOK
  <2>2. ev # NoEvent
    BY <2>1 DEF NoEvent
  <2> QED BY <2>1, <2>2 DEF StartPod, IInv, TypeOK
<1> HIDE DEF ev
<1>2. started[now + 1] = NoEvent
  BY <1>1 DEF IInv, EventInv
<1>3. /\ started'[now + 1] = ev
      /\ \A t \in Times : t # now + 1 => started'[t] = started[t]
  BY <1>1
<1>4. Said' = Said \union {ev}
  BY <1>1, <1>2, <1>3 DEF Said
<1>5. \A e \in Said : e.at < ev.at
  BY <1>1, SaidBefore
<1>6. ev \notin Said
  BY <1>1, <1>5, SaidBefore
<1>7. Waiting' = Waiting /\ Noted' = Noted /\ Verdict' = Verdict
  BY DEF Waiting, Noted, Verdict
<1>8. Verdict[ev.sync] = "none"
  BY <1>1 DEF EndInv, Verdict
<1> QED BY <1>4, <1>5, <1>6, <1>7, <1>8 DEF Reports!Say

\* The event of the pod at hand is the last one said, and its outcome is open.
LEMMA PodIsCurrent ==
  ASSUME IInv, EndInv, pod.st # "none"
  PROVE  EventOf(pod) \in Said /\ Reports!Current(EventOf(pod)) /\ EventOf(pod).sync = pod.sync
<1>1. /\ pod.sync \in Syncs \ Done /\ pod.at = now /\ now \in Times
      /\ EventOf(pod) \in Events /\ started[now] = EventOf(pod)
  BY ThePod
<1>2. EventOf(pod) # NoEvent
  BY <1>1, Literals
<1>3. EventOf(pod) \in Said
  BY <1>1, <1>2 DEF Said
<1>4. EventOf(pod).at = now /\ EventOf(pod).sync = pod.sync
  BY <1>1 DEF EventOf
<1>5. Verdict[pod.sync] = "none"
  BY <1>1 DEF EndInv, Done, Verdict
<1> QED BY <1>3, <1>4, <1>5, SaidBefore DEF Reports!Current

LEMMA AcceptHears ==
  ASSUME IInv, EndInv, pod.st # "none", Accept,
         UNCHANGED <<started, run, lost, sync>>
  PROVE  Reports!Hear
<1>1. Waiting' = Waiting \union {EventOf(pod)}
  <2> DEFINE d == [ev |-> EventOf(pod), try |-> pod.try]
  <2>1. d.ev = EventOf(pod) /\ pending' = pending \union {d}
    BY DEF Accept
  <2> HIDE DEF d
  <2> QED BY <2>1 DEF Waiting
<1>2. Said' = Said /\ Noted' = Noted /\ Verdict' = Verdict
  BY DEF Said, Noted, Verdict
<1> QED BY <1>1, <1>2, PodIsCurrent DEF Reports!Hear

LEMMA JobSucceedsSettles ==
  ASSUME IInv, EndInv, JobSucceeds
  PROVE  Reports!Settle
<1> DEFINE ev == EventOf(pod)
<1>1. pod.st = "ok" /\ pod.st # "none" /\ UNCHANGED <<started, pending, run, lost>>
  BY DEF JobSucceeds, hist
<1>2. ev \in Said /\ Reports!Current(ev) /\ ev.sync = pod.sync
  BY <1>1, PodIsCurrent
<1>3. ev.status = Status(sync[pod.sync].st) /\ pod.sync \in Syncs
  BY <1>1, ThePod DEF EventOf
<1>4. Delivered(ev.sync, ev.status)
  BY <1>1, <1>2, <1>3 DEF IInv, DeliveryInv
<1> HIDE DEF ev
<1>5. ev.sync \in lost \/ \E e \in Waiting \union Noted : e.sync = ev.sync /\ e.status = ev.status
  <2>1. \A e \in acted : e \in Noted
    <3> SUFFICES ASSUME NEW e \in acted PROVE e \in Noted
      OBVIOUS
    <3>1. e.at \in Times /\ run[e.at].pc # "none" /\ run[e.at].ev = e
      BY DEF IInv, TypeOK, Events, EventInv
    <3> QED BY <3>1 DEF Noted
  <2>2. \A d \in pending : d.ev \in Waiting
    BY DEF Waiting
  <2> QED BY <1>4, <2>1, <2>2 DEF Delivered
<1>6. Said' = Said /\ Waiting' = Waiting /\ Noted' = Noted
  BY <1>1 DEF Said, Waiting, Noted
<1>7. Verdict' = [Verdict EXCEPT ![ev.sync] = ev.status]
  <2>1. sync \in [Syncs -> SyncStates]
    BY DEF IInv, TypeOK
  <2>2. PICK q : q = [sync[pod.sync] EXCEPT !.st = "done", !.reported = ev.status]
    OBVIOUS
  <2>3. q.reported = ev.status
    BY <1>3, <2>1, <2>2 DEF SyncStates
  <2>4. sync' = [sync EXCEPT ![pod.sync] = q]
    BY <1>3, <2>2 DEF JobSucceeds
  <2>5. \A s \in Syncs : sync'[s].reported = IF s = pod.sync THEN ev.status ELSE sync[s].reported
    BY <1>3, <2>1, <2>3, <2>4
  <2> QED BY <1>2, <2>5 DEF Verdict
<1> QED BY <1>1, <1>2, <1>5, <1>6, <1>7 DEF Reports!Settle

\* A delivery leaves; the same event may wait in another one.
LEMMA DeliveryLeaves ==
  ASSUME NEW d \in pending, pending' = pending \ {d}
  PROVE  d.ev \in Waiting /\ Reports!Leave(d.ev)
<1>1. Waiting' = Waiting \/ Waiting' = Waiting \ {d.ev}
  <2>1. CASE \E e \in pending : e # d /\ e.ev = d.ev
    <3>1. Waiting' = Waiting
      BY <2>1 DEF Waiting
    <3> QED BY <3>1
  <2>2. CASE ~\E e \in pending : e # d /\ e.ev = d.ev
    <3>1. Waiting' = Waiting \ {d.ev}
      BY <2>2 DEF Waiting
    <3> QED BY <3>1
  <2> QED BY <2>1, <2>2
<1> QED BY <1>1 DEF Waiting, Reports!Leave

LEMMA ActOnNotes ==
  ASSUME IInv, IInv', NEW d \in pending, ActOn(d)
  PROVE  Reports!Note
<1> DEFINE t == d.ev.at
<1>1. /\ UNCHANGED <<started, lost, sync>> /\ pending' = pending \ {d}
      /\ run \in [Times -> Runs] /\ run' \in [Times -> Runs]
      /\ \A u \in Times : u # t => run'[u] = run[u]
  BY DEF ActOn, Id, IInv, TypeOK
<1>2. t \in Times /\ started[t] = d.ev
  BY DeliveryTypes
<1>3. run'[t].pc # "none" /\ run'[t].ev = d.ev
  <2>1. d.ev \in acted'
    BY DEF ActOn
  <2> QED BY <2>1 DEF IInv, EventInv
<1>4. run[t].pc # "none" => run[t].ev = d.ev
  BY <1>2 DEF IInv, EventInv
<1>5. Noted' = Noted \union {d.ev}
  BY <1>1, <1>2, <1>3, <1>4 DEF Noted
<1>6. Said' = Said /\ Verdict' = Verdict
  BY <1>1 DEF Said, Verdict
<1> QED BY <1>1, <1>5, <1>6, DeliveryLeaves DEF Reports!Note

LEMMA DropDeliveryLoses ==
  ASSUME NEW d \in pending, DropDelivery(d)
  PROVE  Reports!Lose
<1>1. UNCHANGED <<started, run, sync>> /\ pending' = pending \ {d} /\ lost' = lost \union {d.ev.sync}
  BY DEF DropDelivery
<1>2. Said' = Said /\ Noted' = Noted /\ Verdict' = Verdict
  BY <1>1 DEF Said, Noted, Verdict
<1> QED BY <1>1, <1>2, DeliveryLeaves DEF Reports!Lose

LEMMA ResolveShows ==
  ASSUME IInv, NEW t \in Times, Resolve(t)
  PROVE  Reports!Break \/ UNCHANGED Reports!vars
<1>1. UNCHANGED <<started, pending, sync>>
  BY DEF Resolve
<1>2. /\ run[t].pc # "none" /\ run'[t].pc # "none"
      /\ \A u \in Times : u # t => run'[u] = run[u]
      /\ \A u \in Times : run'[u].ev = run[u].ev
      /\ lost' = lost \/ lost' = lost \union {run[t].ev.sync}
  BY ResolveMoves
<1>3. \A u \in Times : (run'[u].pc = "none" <=> run[u].pc = "none") /\ run'[u].ev = run[u].ev
  BY <1>2
<1>4. CASE lost' = lost
  BY <1>1, <1>3, <1>4, Silent
<1>5. CASE lost' = lost \union {run[t].ev.sync}
  <2>1. run[t].ev \in Noted
    BY <1>2 DEF Noted
  <2>2. Said' = Said /\ Waiting' = Waiting /\ Verdict' = Verdict
    BY <1>1 DEF Said, Waiting, Verdict
  <2>3. Noted' = Noted
    BY <1>3 DEF Noted
  <2> QED BY <1>5, <2>1, <2>2, <2>3 DEF Reports!Break
<1> QED BY <1>2, <1>4, <1>5

LEMMA StepShows ==
  ASSUME IInv, EndInv, IInv', [Next]_vars
  PROVE  Reports!Next \/ UNCHANGED Reports!vars
<1>0. sync \in [Syncs -> SyncStates] /\ TypeOK' /\ (req.pc # "none" => pod.st # "none")
  BY DEF IInv, TypeOK, RequestInv
<1>1. ASSUME UNCHANGED <<started, pending, run, lost>>,
             \A s \in Syncs : sync'[s].reported = sync[s].reported
      PROVE  UNCHANGED Reports!vars
  BY <1>1, Silent
<1>2. ASSUME NEW s \in Syncs, NEW st, sync' = [sync EXCEPT ![s].st = st]
      PROVE  \A q \in Syncs : sync'[q].reported = sync[q].reported
  BY <1>0, <1>2 DEF SyncStates
<1>3. ASSUME NEW s \in Syncs, NEW st \in {"PostSync", "SyncFail"}, StartSync(s, st)
      PROVE  Reports!Say
  <2>1. /\ StartPod(s, 1, st) /\ sync' = [sync EXCEPT ![s].st = st]
        /\ sync[s].st = "none" /\ UNCHANGED <<pending, run, lost>>
    BY <1>3 DEF StartSync
  <2>2. \A q \in Syncs : sync'[q].reported = sync[q].reported
    BY <1>2, <2>1
  <2> QED BY <1>0, <2>1, <2>2, StartPodSays
<1>4. CASE JobSucceeds
  BY <1>4, JobSucceedsSettles DEF Reports!Next
<1>5. CASE JobRetriesPod
  <2>1. pod.st # "none" /\ UNCHANGED <<sync, pending, run, lost>>
        /\ StartPod(pod.sync, pod.n + 1, sync[pod.sync].st)
    BY <1>5 DEF JobRetriesPod
  <2>2. pod.sync \in Syncs /\ sync[pod.sync].st # "done"
    BY <2>1, ThePod DEF Done
  <2> QED BY <1>0, <2>1, <2>2, StartPodSays DEF Reports!Next
<1>6. CASE PostSyncJobFails
  <2>1. /\ pod.st # "none" /\ UNCHANGED <<pending, run, lost>>
        /\ StartPod(pod.sync, 1, "SyncFail")
        /\ sync' = [sync EXCEPT ![pod.sync].st = "SyncFail"]
    BY <1>6 DEF PostSyncJobFails
  <2>2. pod.sync \in Syncs /\ sync[pod.sync].st # "done"
    BY <2>1, ThePod DEF Done
  <2>3. \A q \in Syncs : sync'[q].reported = sync[q].reported
    BY <1>2, <2>1, <2>2
  <2> QED BY <1>0, <2>1, <2>2, <2>3, StartPodSays DEF Reports!Next
<1>7. CASE SyncFailJobFails
  <2>1. pod.sync \in Syncs
    BY <1>7, ThePod DEF SyncFailJobFails
  <2> QED BY <1>1, <1>2, <1>7, <2>1 DEF SyncFailJobFails, hist
<1>8. CASE ReadToken \/ Post \/ ReceiveReply \/ LostConnection \/ ReadRegistry \/ CheckToken \/ Secret
  BY <1>1, <1>8 DEF ReadToken, Post, ReceiveReply, LostConnection, ReadRegistry, CheckToken, Secret,
                    Rotate, RefreshRelaySecret, RefreshHookSecret, hist
<1>9. CASE TimeOut \/ ForwardToBroker \/ RelayRestarts
  <2>1. /\ UNCHANGED <<started, run, lost, sync>> /\ pod.st # "none"
        /\ pending' = pending \/ Accept
    BY <1>0, <1>9 DEF TimeOut, ForwardToBroker, RelayRestarts, hist
  <2>2. CASE pending' = pending
    BY <1>1, <2>1, <2>2
  <2>3. CASE Accept
    BY <2>1, <2>3, AcceptHears DEF Reports!Next
  <2> QED BY <2>1, <2>2, <2>3
<1>10. ASSUME NEW d \in pending, ActOn(d) \/ DropDelivery(d) PROVE Reports!Next
  BY <1>10, ActOnNotes, DropDeliveryLoses DEF Reports!Next
<1>11. ASSUME NEW t \in Times, Resolve(t) PROVE Reports!Next \/ UNCHANGED Reports!vars
  BY <1>11, ResolveShows DEF Reports!Next
<1>12. CASE UNCHANGED vars
  BY <1>1, <1>12 DEF vars
<1> QED BY <1>3, <1>4, <1>5, <1>6, <1>7, <1>8, <1>9, <1>10, <1>11, <1>12
        DEF Next, Jobs, Hook, Relay, Reports!Next

\* Hooks with their retries, the relay, the broker and the runs implement OutcomeReports, whatever
\* fails, restarts, rotates or arrives twice, and however often ArgoCD syncs one release: each
\* sync's outcome is said, heard, noted and settled by itself.
THEOREM OutcomesAreReports == Spec => ImplementsOutcomeReports
<1>1. Init => Reports!Init
  <2> SUFFICES ASSUME Init PROVE Reports!Init
    OBVIOUS
  <2>1. Said = {} /\ Waiting = {} /\ Noted = {}
    BY DEF Init, Said, Waiting, Noted, NoRun
  <2>2. Verdict = [s \in Syncs |-> "none"]
    BY DEF Init, Verdict
  <2> QED BY <2>1, <2>2 DEF Reports!Init, Init
<1>2. (IInv /\ EndInv) /\ (IInv /\ EndInv)' /\ [Next]_vars => [Reports!Next]_(Reports!vars)
  BY StepShows
<1> QED BY <1>1, <1>2, EndInvariance, PTL DEF Spec, ImplementsOutcomeReports, Reports!Spec
=============================================================================
