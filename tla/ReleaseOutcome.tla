--------------------------- MODULE ReleaseOutcome ---------------------------
(***************************************************************************)
(* How the outcome of a release on another cluster comes back: a PostSync  *)
(* or SyncFail hook Job runs argocd-outcome-hook.sh, which posts an event  *)
(* to argocd-outcome-relay, which authenticates the cluster by its shared  *)
(* secret and forwards the event to the broker, whose Trigger starts a     *)
(* release-outcome-notify run.  That run's look-up of the pull request is  *)
(* in ReleaseTracking.                                                     *)
(*                                                                         *)
(* One Application and one upper environment, so every event has the same  *)
(* source.  ArgoCD syncs it one sync at a time, as often as it likes: each *)
(* sync runs its hooks, and several may be of one release (its retries     *)
(* after a failure, its periodic syncs).  Which release it is, is a field  *)
(* of the event that nothing here looks at, so syncs are all there is.     *)
(***************************************************************************)
EXTENDS Naturals

CONSTANTS
  JobRetries,    \* pods of a hook Job after its first
  CurlRetries,   \* curl --retry of the hook script
  MaxSyncs,      \* bound: syncs of the Application
  MaxFaults,     \* bound: failed and late calls, restarts
  MaxRotations   \* bound: rotations of the cluster's shared secret

ASSUME CountsAssumption == JobRetries \in Nat /\ CurlRetries \in Nat
ASSUME BoundsAssumption == MaxSyncs \in Nat /\ MaxFaults \in Nat /\ MaxRotations \in Nat

VARIABLES
  setup,        \* the relay's registry entry and the hook's CLUSTER: right, missing, disagreeing
  vault,        \* version of the shared secret at its source
  relaySecret, hookSecret,  \* its copies on the dev and on the upper cluster
  now,          \* the upper cluster's clock, in seconds that matter
  sync,         \* the syncs, in their order
  pod,          \* the hook Job's current pod
  req,          \* its request at the relay; seen: history of the relay's secret since it came
  pending,      \* deliveries the broker accepted and has not acted on
  run,          \* release-outcome-notify runs, by the suffix of their name
  faults,
  started,      \* history: the event of the pod started at a time
  acted,        \* history: events the Trigger acted on
  lost          \* history: syncs of which the broker dropped an event or a run failed

secrets == <<vault, relaySecret, hookSecret>>
hist == <<started, acted, lost>>
vars == <<setup, vault, relaySecret, hookSecret, now, sync, pod, req, pending, run, faults,
          started, acted, lost>>

Syncs == 1 .. MaxSyncs
Versions == 0 .. MaxRotations
\* At most two Jobs a sync.
Times == 0 .. MaxSyncs * 2 * (JobRetries + 1)

\* What one outcome event says, and of which sync; its source is the same for all.
Events == [sync: Syncs, at: Times, status: {"Succeeded", "Failed"}]
NoEvent == [sync |-> 0, at |-> 0, status |-> "none"]

SyncStates == [st: {"none", "PostSync", "SyncFail", "done"},
               reported: {"none", "Succeeded", "Failed"}]
Pods == [st: {"none", "secret", "post", "waiting", "ok", "failed"}, sync: Syncs \union {0},
         n: 0 .. JobRetries + 1, try: 0 .. CurlRetries, at: Times, token: Versions]
Requests == [pc: {"none", "registry", "secret", "forward", "done", "gone"},
             code: {0, 202, 400, 401, 502}, seen: SUBSET Versions]
Runs == [pc: {"none", "resolve", "done", "failed"}, ev: Events \union {NoEvent}]

NoPod == [st |-> "none", sync |-> 0, n |-> 0, try |-> 0, at |-> 0, token |-> 0]
NoReq == [pc |-> "none", code |-> 0, seen |-> {}]
NoRun == [pc |-> "none", ev |-> NoEvent]

Fault == faults < MaxFaults /\ faults' = faults + 1
NoFault == UNCHANGED faults

\* PHASE is baked into each of the two Jobs.
Status(st) == IF st = "PostSync" THEN "Succeeded" ELSE "Failed"

\* Mutant: the time is taken for every POST.
MutAtPost(p) == [sync |-> p.sync, at |-> p.at + p.try, status |-> Status(sync[p.sync].st)]

EventOf(p) == [sync |-> p.sync, at |-> p.at, status |-> Status(sync[p.sync].st)]

\* Mutant: the id is of the source and the type alone.
MutNoFinishedAt(ev) == 0

\* context.id, a digest of the source, the type and finishedAt.
Id(ev) == ev.at

\* Mutant: the relay keeps the secret it started with.
MutSecretAtStart == 0

ExpectedToken == relaySecret

-----------------------------------------------------------------------------
Init ==
  /\ setup \in {"good", "unregistered", "misnamed"}
  /\ vault = 0
  /\ relaySecret = 0
  /\ hookSecret = 0
  /\ now = 0
  /\ sync = [s \in Syncs |-> [st |-> "none", reported |-> "none"]]
  /\ pod = NoPod
  /\ req = NoReq
  /\ pending = {}
  /\ run = [t \in Times |-> NoRun]
  /\ faults = 0
  /\ started = [t \in Times |-> NoEvent]
  /\ acted = {}
  /\ lost = {}

(***************************************************************************)
(* A sync and the hook Jobs it runs.                                       *)
(***************************************************************************)
\* A pod of sync s's hook Job, the n-th.  Its date falls in a later second than any pod's
\* before it.
StartPod(s, n, st) ==
  /\ now' = now + 1
  /\ pod' = [NoPod EXCEPT !.st = "secret", !.sync = s, !.n = n, !.at = now + 1]
  /\ started' = [started EXCEPT ![now + 1] = [sync |-> s, at |-> now + 1, status |-> Status(st)]]
  /\ req' = NoReq

\* ArgoCD syncs, for a merged change, for a retry or in its own time: the hook Job of the
\* outcome starts.
StartSync(s, st) ==
  /\ sync[s].st = "none"
  /\ s > 1 => sync[s - 1].st = "done"
  /\ pod.st = "none"
  /\ sync' = [sync EXCEPT ![s].st = st]
  /\ StartPod(s, 1, st)
  /\ UNCHANGED <<setup, secrets, pending, run, faults, acted, lost>>

JobSucceeds ==
  /\ pod.st = "ok"
  /\ sync' = [sync EXCEPT ![pod.sync].st = "done", ![pod.sync].reported = Status(sync[pod.sync].st)]
  /\ pod' = NoPod
  /\ req' = NoReq
  /\ UNCHANGED <<setup, secrets, now, pending, run, faults, hist>>

\* Mutant: the Job has a pod too many.
MutOneMorePod ==
  /\ pod.st = "failed"
  /\ pod.n <= JobRetries + 1
  /\ StartPod(pod.sync, pod.n + 1, sync[pod.sync].st)
  /\ UNCHANGED <<setup, secrets, sync, pending, run, faults, acted, lost>>

JobRetriesPod ==
  /\ pod.st = "failed"
  /\ pod.n <= JobRetries
  /\ StartPod(pod.sync, pod.n + 1, sync[pod.sync].st)
  /\ UNCHANGED <<setup, secrets, sync, pending, run, faults, acted, lost>>

\* A PostSync hook that fails makes the sync fail: its SyncFail hook runs.
PostSyncJobFails ==
  /\ pod.st = "failed"
  /\ pod.n = JobRetries + 1
  /\ sync[pod.sync].st = "PostSync"
  /\ sync' = [sync EXCEPT ![pod.sync].st = "SyncFail"]
  /\ StartPod(pod.sync, 1, "SyncFail")
  /\ UNCHANGED <<setup, secrets, pending, run, faults, acted, lost>>

SyncFailJobFails ==
  /\ pod.st = "failed"
  /\ pod.n = JobRetries + 1
  /\ sync[pod.sync].st = "SyncFail"
  /\ sync' = [sync EXCEPT ![pod.sync].st = "done"]
  /\ pod' = NoPod
  /\ req' = NoReq
  /\ UNCHANGED <<setup, secrets, now, pending, run, faults, hist>>

(***************************************************************************)
(* argocd-outcome-hook.sh.                                                 *)
(***************************************************************************)
ReadToken ==
  /\ pod.st = "secret"
  /\ \/ pod' = [pod EXCEPT !.st = "post", !.token = hookSecret] /\ NoFault
     \/ pod' = [pod EXCEPT !.st = "failed"] /\ Fault
  /\ UNCHANGED <<setup, secrets, now, sync, req, pending, run, hist>>

\* curl sends the payload, the same one at every attempt.
Post ==
  /\ pod.st = "post"
  /\ pod' = [pod EXCEPT !.st = "waiting"]
  /\ req' = [pc |-> "registry", code |-> 0, seen |-> {relaySecret}]
  /\ UNCHANGED <<setup, secrets, now, sync, pending, run, faults, hist>>

\* The broker takes the event that is on its way.
Accept == pending' = pending \union {[ev |-> EventOf(pod), try |-> pod.try]}

\* curl's next attempt, or the script fails.
TryAgain ==
  pod' = IF pod.try < CurlRetries THEN [pod EXCEPT !.st = "post", !.try = @ + 1]
                                  ELSE [pod EXCEPT !.st = "failed"]

ReceiveReply ==
  /\ pod.st = "waiting"
  /\ req.pc = "done"
  /\ \/ req.code = 202 /\ pod' = [pod EXCEPT !.st = "ok"]
     \/ req.code = 502 /\ TryAgain
     \/ req.code \in {400, 401} /\ pod' = [pod EXCEPT !.st = "failed"]
  /\ req' = NoReq
  /\ UNCHANGED <<setup, secrets, now, sync, pending, run, faults, hist>>

\* Fifteen seconds: curl hangs up, which cancels the handler's calls.
TimeOut ==
  /\ pod.st = "waiting"
  /\ req.pc \in {"registry", "secret", "forward"}
  /\ TryAgain
  /\ req' = NoReq
  /\ \/ UNCHANGED pending
     \/ req.pc = "forward" /\ Accept
  /\ Fault
  /\ UNCHANGED <<setup, secrets, now, sync, run, hist>>

\* The relay's pod went: a refused connection is tried again, a broken one is not.
LostConnection ==
  /\ pod.st = "waiting"
  /\ req.pc = "gone"
  /\ TryAgain \/ pod' = [pod EXCEPT !.st = "failed"]
  /\ req' = NoReq
  /\ UNCHANGED <<setup, secrets, now, sync, pending, run, faults, hist>>

(***************************************************************************)
(* argocd-outcome-relay: handleOutcome, with authenticate and              *)
(* forwardToBroker.                                                        *)
(***************************************************************************)
Reply(code) == req' = [req EXCEPT !.pc = "done", !.code = code]
Goto(pc) == req' = [req EXCEPT !.pc = pc]

\* authenticate: the cluster's registry entry.
ReadRegistry ==
  /\ req.pc = "registry"
  /\ \/ setup # "unregistered" /\ Goto("secret") /\ NoFault
     \/ setup = "unregistered" /\ Reply(401) /\ NoFault
     \/ Reply(401) /\ Fault
  /\ UNCHANGED <<setup, secrets, now, sync, pod, pending, run, hist>>

\* authenticate: the Secret, read for this request; then the cluster the event claims.
CheckToken ==
  /\ req.pc = "secret"
  /\ \/ /\ NoFault
        /\ \/ pod.token # ExpectedToken /\ Reply(401)
           \/ pod.token = ExpectedToken /\ setup = "misnamed" /\ Reply(400)
           \/ pod.token = ExpectedToken /\ setup # "misnamed" /\ Goto("forward")
     \/ Reply(401) /\ Fault
  /\ UNCHANGED <<setup, secrets, now, sync, pod, pending, run, hist>>

\* Mutant: the answer does not wait for the broker's.
MutForwardBlind ==
  /\ req.pc = "forward"
  /\ Reply(202)
  /\ \/ Accept /\ NoFault
     \/ UNCHANGED pending /\ Fault
  /\ UNCHANGED <<setup, secrets, now, sync, pod, run, hist>>

\* forwardToBroker: the call may fail before or after the broker has accepted the event.
ForwardToBroker ==
  /\ req.pc = "forward"
  /\ \/ Accept /\ Reply(202) /\ NoFault
     \/ Accept /\ Reply(502) /\ Fault
     \/ UNCHANGED pending /\ Reply(502) /\ Fault
  /\ UNCHANGED <<setup, secrets, now, sync, pod, run, hist>>

RelayRestarts ==
  /\ req.pc \in {"registry", "secret", "forward"}
  /\ Goto("gone")
  /\ \/ UNCHANGED pending
     \/ req.pc = "forward" /\ Accept
  /\ Fault
  /\ UNCHANGED <<setup, secrets, now, sync, pod, run, hist>>

(***************************************************************************)
(* The shared secret: its source rotates, each cluster copies it in its    *)
(* own time.                                                               *)
(***************************************************************************)
Rotate ==
  /\ vault < MaxRotations
  /\ vault' = vault + 1
  /\ UNCHANGED <<setup, relaySecret, hookSecret, now, sync, pod, req, pending, run, faults, hist>>

RefreshRelaySecret ==
  /\ relaySecret # vault
  /\ relaySecret' = vault
  /\ req' = IF req.pc = "none" THEN req ELSE [req EXCEPT !.seen = @ \union {vault}]
  /\ UNCHANGED <<setup, vault, hookSecret, now, sync, pod, pending, run, faults, hist>>

RefreshHookSecret ==
  /\ hookSecret # vault
  /\ hookSecret' = vault
  /\ UNCHANGED <<setup, vault, relaySecret, now, sync, pod, req, pending, run, faults,
                 hist>>

(***************************************************************************)
(* The broker, which has answered already, and the run its Trigger starts. *)
(***************************************************************************)
\* The auth interceptor and the filter pass the relay's own token and the app's events.  A run
\* name that is taken makes nothing.
ActOn(d) ==
  /\ d \in pending
  /\ pending' = pending \ {d}
  /\ acted' = acted \union {d.ev}
  /\ run' = [run EXCEPT ![Id(d.ev)] =
               IF @.pc = "none" THEN [NoRun EXCEPT !.pc = "resolve", !.ev = d.ev] ELSE @]
  /\ UNCHANGED <<setup, secrets, now, sync, pod, req, faults, started, lost>>

\* A TokenReview that fails, or a listener that restarts: nobody is told.
DropDelivery(d) ==
  /\ d \in pending
  /\ pending' = pending \ {d}
  /\ lost' = lost \union {d.ev.sync}
  /\ Fault
  /\ UNCHANGED <<setup, secrets, now, sync, pod, req, run, started, acted>>

\* Mutant: a missing ConfigMap fails the Task.
MutMustExist(t) ==
  /\ run[t].pc = "resolve"
  /\ \E pc \in {"done", "failed"} : run' = [run EXCEPT ![t].pc = pc]
  /\ UNCHANGED <<setup, secrets, now, sync, pod, req, pending, faults, hist>>

\* resolve-release-tracking, before which no other Task of the run starts: found or not, it
\* ends well, but for a delete that fails.
Resolve(t) ==
  /\ run[t].pc = "resolve"
  /\ \/ run' = [run EXCEPT ![t].pc = "done"] /\ UNCHANGED lost /\ NoFault
     \/ /\ run' = [run EXCEPT ![t].pc = "failed"]
        /\ lost' = lost \union {run[t].ev.sync}
        /\ Fault
  /\ UNCHANGED <<setup, secrets, now, sync, pod, req, pending, started, acted>>

-----------------------------------------------------------------------------
Jobs == JobSucceeds \/ JobRetriesPod \/ PostSyncJobFails \/ SyncFailJobFails
Hook == ReadToken \/ Post \/ ReceiveReply \/ TimeOut \/ LostConnection
Relay == ReadRegistry \/ CheckToken \/ ForwardToBroker \/ RelayRestarts
Secret == Rotate \/ RefreshRelaySecret \/ RefreshHookSecret

Next ==
  \/ \E s \in Syncs, st \in {"PostSync", "SyncFail"} : StartSync(s, st)
  \/ Jobs \/ Hook \/ Relay \/ Secret
  \/ \E d \in pending : ActOn(d) \/ DropDelivery(d)
  \/ \E t \in Times : Resolve(t)

Spec == Init /\ [][Next]_vars

\* Kubernetes and ArgoCD run what they have, the relay answers or curl's clock ends the wait,
\* the broker acts on what it accepted, and Tekton runs its Tasks.  A sync need never come.
Fairness ==
  /\ WF_vars(Jobs)
  /\ WF_vars(Hook \/ Relay)
  /\ WF_vars(\E d \in pending : ActOn(d) \/ DropDelivery(d))
  /\ WF_vars(\E t \in Times : Resolve(t))

FairSpec == Spec /\ Fairness

-----------------------------------------------------------------------------
(***************************************************************************)
(* Properties                                                              *)
(***************************************************************************)

\* Every process is in a state of its script; no Job has more pods than its limit.
TypeOK ==
  /\ setup \in {"good", "unregistered", "misnamed"}
  /\ vault \in Versions
  /\ relaySecret \in Versions
  /\ hookSecret \in Versions
  /\ now \in Times
  /\ sync \in [Syncs -> SyncStates]
  /\ pod \in Pods
  /\ req \in Requests
  /\ pending \subseteq [ev: Events, try: 0 .. CurlRetries]
  /\ run \in [Times -> Runs]
  /\ faults \in 0 .. MaxFaults
  /\ started \in [Times -> Events \union {NoEvent}]
  /\ acted \subseteq Events
  /\ lost \subseteq Syncs

\* "A true redelivery of the same outcome still carries the same finishedAt, so idempotency is
\* preserved" (argocd-outcome-hook.sh): a run reports what one hook pod said, and however often
\* that pod's event is posted there is no second run of it.
OneRunPerPod ==
  \A t \in Times : run[t].pc # "none" => run[t].ev = started[t]

\* No outcome is taken for another one's repetition and swallowed with it: an event the
\* Trigger acted on has a run that says exactly what the event says.
NoOutcomeSwallowed ==
  \A ev \in acted : \E t \in Times : run[t].pc # "none" /\ run[t].ev = ev

\* What authenticate is uncached for: an event is forwarded only with a token that the relay's
\* Secret has held since the request came, rotated or not.
NoStaleToken ==
  req.pc = "forward" => pod.token \in req.seen

\* A hook Job that succeeded has told the broker: its event waits there, was acted on or was
\* lost there.
ReportedIsDelivered ==
  \A s \in Syncs : sync[s].reported # "none" =>
     \/ s \in lost
     \/ \E d \in pending : d.ev.sync = s /\ d.ev.status = sync[s].reported
     \/ \E ev \in acted : ev.sync = s /\ ev.status = sync[s].reported

\* When nothing is on its way any more and every notify run has ended, each outcome a Job
\* reported has a finished run that says so, or it is known which sync lost its word: no
\* outcome simply disappears between the hook and the run's own Tasks.
NoOutcomeForgotten ==
  (pending = {} /\ \A t \in Times : run[t].pc \in {"none", "done", "failed"}) =>
    \A s \in Syncs : sync[s].reported # "none" =>
      \/ s \in lost
      \/ \E t \in Times : run[t].pc = "done" /\ run[t].ev.sync = s
                          /\ run[t].ev.status = sync[s].reported

Ended(s) == sync[s].st = "done" /\ sync[s].reported # "none"

\* Every outcome whose hook Job succeeded reaches the notify run's own Tasks, whatever was
\* repeated, unless the broker or the run lost it.
OutcomeReported ==
  \A s \in Syncs : Ended(s) ~>
     \/ s \in lost
     \/ \E t \in Times : run[t].pc = "done" /\ run[t].ev.sync = s
                         /\ run[t].ev.status = sync[s].reported

(***************************************************************************)
(* The way back implements OutcomeReports.                                 *)
(***************************************************************************)
Said == {started[t] : t \in {u \in Times : started[u] # NoEvent}}
Waiting == {d.ev : d \in pending}
Noted == {run[t].ev : t \in {u \in Times : run[u].pc # "none"}}
Verdict == [s \in Syncs |-> sync[s].reported]

Reports == INSTANCE OutcomeReports WITH
  said <- Said, waiting <- Waiting, noted <- Noted, verdict <- Verdict

\* Each step of hooks, relay, broker and runs is a step of OutcomeReports or a stutter.
ImplementsOutcomeReports == Reports!Spec
=============================================================================
