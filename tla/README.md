# A verification of platform-cicd

platform-cicd is a CI/CD platform on Kubernetes, made of Helm templates, shell steps inside
Tekton Tasks and three small Go services. An app team writes flows in `cicd.yaml`; the
platform turns them into PipelineRuns that start one another through events, opens promotion
PRs that ArgoCD deploys, and counts the outcomes. There is no central controller: the order of
things rests on names, filters, annotations and ConfigMaps. This directory models those, checks
the models with TLC and proves what matters most with TLAPS.

`PROJECT.json` lists the runs, the theorems, the lines each definition translates, the mutants
that show each property can fail, the hazards and the findings.

## The system

| Component | State | Operations | Talks to | Modelled in |
| --- | --- | --- | --- | --- |
| Flow configuration (`_helpers.tpl`, `flow-triggers.yaml`, `deliver-onboarding-files.yaml`) | none: a function of `cicd.yaml` | normalise, validate, render a Trigger per later step and a run file per git-rooted flow | chaining | `FlowTriggers` |
| Chaining (stage Pipelines, `send-cdevent`, `cdevents.sh`, the EventListener) | PipelineRuns, events on their way | start from git, run, announce, retry, trigger, close the root span | configuration, detector, exporter | `FlowChain`, `LinearFlow`, `StepRuns` |
| dora-exporter (`main.go`) | Prometheus counters, `dora-metrics-state`, `dora-cluster-mapped-state`, annotations of an Application | informer handler, `/argocd-outcome`, persist, rehydrate | mark-release-pending, ArgoCD, outcome path | `DoraExporter`, `DurableCounter` |
| Release hand-off (`mark-release-pending`, `update-dora-metrics`) | the Application's `dora-*` annotations | read the baseline and annotate, unless `CLUSTER` is set; POST with retries | exporter | `DoraExporter` |
| Stalled-pipeline detector, PipelineRun pruner (CronJobs) | label `stall-alerted`; the set of runs | find runs without a successor, alert, label; delete old runs | chaining | `StepRuns`, `PipelineRuns`, `StallDetector`, `RunPruner`, `Housekeeping` |
| Cross-cluster release outcome (`argocd-outcome-hook.sh`, `argocd-outcome-relay`, `release-outcome-notify`) | the cluster's shared secret in three places; runs by name | POST from a remote cluster at each sync, authenticate, forward, act once per event | resolve-release-tracking, ArgoCD, exporter | `ReleaseOutcome`, `OutcomeReports` |
| The link of a release's PR (`open-release-pr`, `resolve-release-tracking`) | PRs by branch; ConfigMap `release-tracking-<chain>` | find or open the PR, record it; read and delete the record | GitHub, chaining, notify runs | `ReleaseTracking` |
| Token interceptor (`token-review-interceptor`, `githubapp.go`, `github-app.sh`) | none of its own; Repository CRs, namespaces and installations of others | verify the caller, check that its app owns the repository, mint a GitHub token | GitHub, every Task that pushes | `RepoToken` |
| Promotion in one cluster (`bump-manifest-pr`, `deploy-manifests`) | branch, commit, PR on GitHub | create each unless it exists | GitHub | no |
| Guardrails (`wait-for-release-guardrails`, `detect-bypass-merge`, `comment-pr-check-result`) | check-runs and comments of a PR | poll, merge, detect, comment | GitHub | no |
| Everything else (scanners and attestations, test runs, tracing, onboarding, preview environments, signing, RBAC, dashboards) | external or static | sequential scripts | external tools | no; the reasons are in `PROJECT.json` |

What makes the system hard to test:

- **Delivery.** Events are POSTed with `curl --retry`, so a lost reply sends an event twice, and
  the listener answers before it acts, so an accepted event may still be lost.
- **Matching.** Who an event starts is decided by string prefixes in a filter rendered by Helm,
  for every step of every flow of an app, against the events of every other.
- **Snapshots.** The exporter's handler acts on the Application it was notified of, then patches
  the one that exists by then. In between, ArgoCD and the next release write to it.
- **Partial failure.** Every API call may fail alone and is only logged. The process may die
  between recording an outcome, saving it and clearing the mark.
- **Two writers.** The informer path and the HTTP path read, change and write one ConfigMap.
- **Retries on retries.** A release outcome passes a Job's retries, curl's, and a broker that
  answers before it acts. Somewhere every repetition must become one run again, and no two
  outcomes may be taken for one.
- **Lists that grow stale.** The CronJobs list once and then act run by run, each on runs the
  other may have labelled or deleted; the interceptor's answer is of several calls, between which
  an Application may be removed or a namespace deleted.
- **Copies of a secret.** The shared secret's source rotates; the two clusters copy it when they do.

What makes each component correct, and who says so here: a chain runs each step of its flow
once, in order, and never past a failure (`ImplementsLinearFlow`, `OneRunPerStep`,
`PredecessorsPassed`); it comes to a visible end (`EveryChainEnds`), and a green run never stops
it unnoticed (`NoSilentStop`); its trace is closed once and after its last step (`SpanClosesAfterSteps`); and what the CronJobs take a
chain for is what it is (`ImplementsStepRuns`). The counters lose no saved outcome (`NoSaveLost`, `CountersAreDurable`), never
jump up at a restart (`StoreWithinMemory`), and a mark is matched with a sync of its own time
(`NotBeforeMark`) and settled (`ConfirmedIsSettled`). A stall is announced (`StallAnnounced`), once
(`AnnouncedOnce`), with a cause (`AlertHasCause`), and no pipeline loses its newest run
(`NewestKept`). Each outcome that a remote hook reports gets one run that says just that
(`OneRunPerPod`, `NoOutcomeSwallowed`, `ReportedIsDelivered`, `NoOutcomeForgotten`,
`OutcomeReported`, and all of it in `ImplementsOutcomeReports`), the relay accepts
no secret that is out of date (`NoStaleToken`). A release has one open PR (`OnePrPerRelease`), its
own (`NoPromotionSwallowed`), and its link is lost only in ways that are named (`PrLinkNotLost`). A
GitHub token is only for an owner (`MintedForOwner`), nobody is refused for nothing
(`FailedHasCause`), a script that goes on holds its token (`OkHasToken`), no token is made in vain
(`UnusedTokenHasCause`), and no Task hangs on it (`EveryCallEnds`).

## The modules

```
FlowTriggers     what the generators make of a configuration (operators only)
  FlowChain      runs, events, deliveries              --implements-->  LinearFlow, StepRuns
    MCFlowChain, FlowChainProofs
DoraExporter     both paths, ConfigMaps, ArgoCD        --implements-->  DurableCounter
  MCDoraExporter, DoraExporterProofs
ReleaseOutcome   remote hook, relay, broker, notify run --implements-->  OutcomeReports
  MCReleaseOutcome, ReleaseOutcomeProofs
ReleaseTracking  open-release-pr, its ConfigMap, the notify runs that read it
  MCReleaseTracking, ReleaseTrackingProofs
RepoToken        a Task, the token endpoint, GitHub
  MCRepoToken, RepoTokenProofs
StepRuns         what chaining promises those who see only PipelineRuns
  PipelineRuns   the runs of a namespace, as CronJobs see them
    StallDetector, RunPruner                           --composed in-->  Housekeeping
      MCHousekeeping, HousekeepingProofs
```

### FlowTriggers and FlowChain

`FlowTriggers` translates the templates. `RootSource` is `normalizeFlow`, `ValidFlow` is
`validateFlows`, `PacRooted` is the loop that writes run files, `Selects` and `Matches` are the
rendered CEL filter. The two generators disagree about which flows are rooted in git, and the
model keeps both answers. Names are data: all the filters read of a name is which other names
begin with it and a hyphen (`HyphenPrefix`).

`FlowChain` is what happens at run time. A run's name carries a hash of the name of the run whose
event started it, so a name determines the path of steps that led to it; a run is written as its
chain and that path (the hash, 32 bits of SHA-256, is taken to be injective). The actions:

- `GitPush` starts a chain; `FinishTasks` gives the stage a verdict.
- `SkipSend`, `PostAccepted`, `PostRefused` are the send-cdevent task of `finally`: its `when`, one
  POST that got through (with its reply, or without it) and one that did not, until curl's
  retries are used up and the task fails.
- `CloseSpan` and `Complete` are end-flow and the run's own condition. The other `finally` tasks
  appear only as possible failures in `Complete` (so the stages' own spans, which one of them sends at
any time beside end-flow, are not there); a task that takes the result of one that failed
  is skipped by Tekton, which is why a failed run may leave its event unsent or its span open.
- `Fire` and `Drop` are the listener acting on a delivery, or losing it.

`ExactFilters(c)` says that in configuration `c` every Trigger selects only the events of its
flow's previous step. It is what the filters are for, and what most properties need. Not every
configuration `validateFlows` accepts has it: see `flow_loop`.

`LinearFlow` is the promise to an app team in three actions: a chain begins, its furthest step
passed and the next one starts, a step gets its verdict. It has no events: the next step starts,
some time.

`StepRuns` is what the other parts of the platform count on, who see PipelineRuns and their labels
but neither filters nor names. A run's event is accepted (`Announce`), acted on (`Deliver`) or lost
(`Lose`), before or after the run ends, and again if it is posted again; a run ends well
(`Succeed`) only with its event accepted or with none to send, and may end badly (`Fail`) whatever
became of it. `FlowChain` is mapped to it by `StepOf`, the chain and index of a run, and by
what is known of a run's delivery to the next step (`FiredRuns`, `PendingRuns`, `MissedRuns`).

### DoraExporter

One app, one environment. `app` is the ArgoCD Application: the annotations and `operationState`.
Every API call is a step. The informer's queue holds *snapshots*; `RecordEvent` acts on the oldest,
and `SettleEvent` patches whatever the Application is by then. Persisting is `LockAndGet` and
`Patch`, under `stateMu`. `RecordRequest` and `SettleRequest` are the HTTP path around the same
two. The environment acts freely: `StartSync` and `FinishSync` are ArgoCD, whether for a promotion or
to heal drift, and `SkipMark`, `ReadBaseline` and `Annotate` are runs of `mark-release-pending`, any
number of which may overlap; each stamps a mark of its own, so a release that is marked again counts
as another mark. `Crash` and `Start` are the pod's, with rehydration. History variables (`seen`,
`twice`, `readAt`, `misread`, `saved`) record what the properties speak of; no action's guard reads
them.

The Task is taken by itself, not inside the release Pipeline, because at this commit the Pipeline
never marks: `open-release-pr` fails when `CLUSTER` is empty (`open-release-pr.yaml:162`),
`mark-release-pending`, which runs after it, does nothing when it is set
(`mark-release-pending.yaml:84`), and `release.yaml:206,233` passes the same value to both. So a
release inside one cluster fails before it is marked, against what `docs/admin/dora-metrics.md:59-64`
describes, and `Annotate` stands for the Task run on its own or the same annotations stamped by hand
(`dora-metrics.md:313`). The exporter's code is there for them, and is modelled as it is.

Abstractions: times are the order of syncs. `Error` is treated as `Failed`, as the code does. A
call that took effect although its reply was lost counts as one that succeeded. A request that
curl posts again while the first is still being handled is modelled as starting after it. A
ConfigMap that cannot be parsed is left out. Lead time observations are appended with each
deployment whose flow-start time parses, and are not kept apart from it.

`DurableCounter` says what the ConfigMap is for: an outcome adds to what is shown, a save adds
one outcome to what is stored and undoes none, a restart shows what was stored (or zero, if it
could not be read).

### ReleaseOutcome

One Application on one upper environment, whose ArgoCD syncs it again and again, one sync at a time
(`StartSync`): for a merged PR, for a retry after a failure, in its own time. Each sync runs its
hooks, and several syncs may be of one release: `docs/admin/multi-cluster.md:724-734` reports eight
SyncFail runs and then a PostSync of one. Nothing on the way looks at which release it is, so the
model has syncs only. `pod` is the present pod of the sync's hook Job: `ReadToken`, `Post`,
`ReceiveReply`, `TimeOut` and `LostConnection` are `argocd-outcome-hook.sh`, with curl's retries;
`JobSucceeds`, `JobRetriesPod`, `PostSyncJobFails` and `SyncFailJobFails` are what Kubernetes and
ArgoCD make of its end. `req` is the pod's request at the relay: `ReadRegistry` and `CheckToken` are
`authenticate`, call by call, `ForwardToBroker` is `forwardToBroker`, `RelayRestarts` its pod.
`Rotate`, `RefreshRelaySecret` and `RefreshHookSecret` are the shared secret's source and its two
copies. `ActOn` is the Trigger: the run's name is made of the event's id, so a name that is taken
makes nothing. `DropDelivery` is a broker that answered and then refused or forgot. `Resolve` is the
run's first Task as a whole, on which its other Tasks wait; its calls are in `ReleaseTracking`.

Times are the order of pods' starts: the script takes its date once, at its start, and the
model assumes that no two pods of the Application start within one second (Kubernetes backs off
ten seconds before it replaces a pod). The other Tasks of the notify run are outputs; its POST to
the exporter is `DoraExporter`'s `RecordRequest`. A timeout counts as a fault.

`OutcomeReports` is what all this is for, without any of it, sync by sync: attempts to report say an
event one after another and none of a sync whose outcome is settled, only what was said last can be
heard, what was heard gets a note or is known lost, and an outcome settles only when it was heard or
is known lost. A release that is synced again has another outcome to be told, so "one outcome per
release" is not promised, and the code does not keep it. `ReleaseOutcome` is mapped to it by `Said`
(the events of pods), `Waiting` (deliveries), `Noted` (events that have a run) and `Verdict`.

### ReleaseTracking

One chain that releases to several environments. `FindPr`, `PostPr` and `ApplyRecord` are
`open-release-pr`: the look for an open PR of the branch `release-<env>-<revision>`, the commit, push
and POST, and the apply of ConfigMap `release-tracking-<chain>`. Each may fail, the POST also after
GitHub obeyed it, and the Task may be triggered again, before or after the review has ended
(`EndReview`). The PR exists before its record, so a notify run (`StartRun`) may come before it; there
may be several runs of one PR, one for each sync. `GetTracking`, `ReadPrUrl`, `ReadPrCreatedAt` and
`DeleteTracking` are the four calls of `resolve-release-tracking`, each of which treats failure in a
way of its own. `fate` is a history variable: what became of each PR's record.

The ConfigMap has no environment in its name. So `PrLinkNotLost` does not say that every run has its
link: it says in which ways it can lose it (not applied, replaced, taken by another run, a failed
call), so that any other way, a delete too early or an apply that does not replace, is seen. What
the Task's result promises is `OwnLinkOrNone`, which `tracking_other` refutes. Left out: an empty
`CLUSTER` or chain-id, and two chains of one revision, of which the second reuses the first's PR and
leaves a ConfigMap of its own that nobody reads.

### RepoToken

Each call that `handleGitHubInstallationToken` makes is a step: `VerifyCaller` (TokenReview and
body), `VerifyAppOwnsRepo` and `VerifyPrOwnsRepo` (the lists of Repository CRs, the second for
environments of pull requests), `SignAppJWT`, `InstallationIDForRepo`, `MintInstallationToken`. In
between Applications come and go, namespaces are deleted, the App is uninstalled and installed
again (`Note`'s three users), the pod restarts, and the JWT expires. `Post`, `Receive`, `TimeOut`
and `LostConnection` are `github_app_installation_token`'s curl, whose output the model keeps
(`out`), since the script reads a token out of it. The handler passes no request context on, so
one that was given up goes on beside its retry: `req` has one handler per attempt.

Assumed: no Application has the name of another's GitOps repository; `extraGitopsRepos`, which an
operator grants, are left out; a repository's owner is not part of it, as in the code.

### PipelineRuns, StallDetector, RunPruner, Housekeeping

`PipelineRuns` EXTENDS `StepRuns` with what the CronJobs see besides: the runs' pipelines, the
order they ended in (`at`), an age in two steps (ten minutes, a day), the label, and which are
deleted. It adds to the actions of `StepRuns` only the configuration: `EventStep` makes a new run
silent exactly if it is its flow's last or of `gitops-image-bump`, the pipeline without a `finally`
(`Silent`). So the chains the CronJobs work on include all that `FlowChain` can make with exact filters: red runs
whose event started the next one, and runs whose successor starts, or ends, before they do.
`StallDetector` and `RunPruner` each list once (`StartPass`, `StartPrune`) and then make one call
at a time; under `set -e` a call that fails ends the pass. `Housekeeping` composes the two with the
chains. Assumed: an event is acted on or lost within ten minutes of its run's end (`GrowOld`); the git
events came before (`Pushed`: a first step that still runs is seen by nobody); a run and its
TaskRuns are deleted in one step.

## The runs

| Run | Shows | Bounds |
| --- | --- | --- |
| `flow_chain` | Type correctness, four safety properties, refinement of `LinearFlow` and of `StepRuns`, and that every chain ends, over 72 configurations | flows of up to 3 steps, pairs of 2-step flows in one app or two, one retry, `MaxPath` 4, 2 chains in the smallest configurations and 1 otherwise |
| `flow_loop` | The configuration `test, deploy, test` runs its steps again and again (finding) | one chain, `MaxPath` 6 |
| `dora_paths` | No saved outcome lost, the store within memory, refinement of `DurableCounter` | informer and one request with one retry, 2 runs of the Task (one mapped), 1 sync, 1 failed call, 1 crash |
| `dora_releases` | A mark is not recorded for an older sync, and is settled | 2 runs of the Task, 2 syncs, 1 fault (`OneFault`) |
| `dora_twice` | One mark is recorded twice (finding) | 1 run of the Task, 1 sync, no fault |
| `release_outcome` | Type correctness, five safety properties of the way back from a remote cluster, refinement of `OutcomeReports`, and that every reported outcome gets there | 2 syncs, 1 retry of the Job, 1 of curl, 2 faults, 1 rotation; the setup right, without the cluster, or with two names for it |
| `release_tracking` | Type correctness, one open PR per release and its own, no link lost in any other way than those named | 2 environments, 2 Tasks of each, 2 notify runs, 1 failed call |
| `tracking_other` | A run is told another release's PR (finding) | 2 environments, 1 Task of each, 1 run, no failed call |
| `repo_token` | Type correctness, tokens only for owners, no refusal and no unused token without a cause, a token for every success, every call ends | 2 Applications, one Task of any kind of namespace asking for any repository, 1 retry, 1 fault, 2 changes |
| `token_retry` | After a retry the Task's output is not the token alone (finding) | the same, no change |
| `housekeeping` | Type correctness, three safety properties of the CronJobs, and that a lost event is announced | 2 chains of a flow `build, test`; 1 of it and 1 of a flow `test`; 1 of `build, gitops-image-bump, release`; 1 failed call |
| `stall_false_alert` | A chain whose next step ran is announced as stalled (finding) | the same, no failed call |

Why the bounds are enough. A filter reads its own flow's shape, the step before it and the run an
event came from. Two steps show every pair of stages, the third a step chained from a chained
one, and pairs of flows the three ways two flows can be confused: a shared app, a shared name, a
shared prefix. One retry gives the same event twice, which is all a name can meet: what a third
delivery finds is what the second found. `MaxPath` 4 exceeds the longest flow, so a chain that went
wrong would show. `ChainBudget` keeps two chains to where they are cheap, since chains share only
the configuration, and lets `c1` begin first, since chains are alike. In `DoraExporter`, one request beside the informer gives the two writers; two
runs of the Task let one overtake the other, and two syncs are one too old and one new. `MaxQueue` bounds
only notifications that bring nothing new: changes are always queued. `OneFault` admits each
single fault at every point; two faults together are in `dora_paths`.

In `ReleaseOutcome`, two syncs give two outcomes to confuse, of one release or of two; one retry of the
Job and one of curl give every repetition its twin (the same pod's event twice, two pods' events of
one sync, the events of both Jobs), one fault starts each of those and a second one meets the first's
retry. In `ReleaseTracking`, two environments write one record, a second Task finds what a failed one
left, and a second run meets the first at each of its calls. In `RepoToken`, another
Application is one to be taken for; one retry makes two handlers of one call meet, and two changes
take something away and bring it back. In `Housekeeping`, two chains of one flow hide each other's
stalls and make one run of a pipeline the newest, a flow that shares only the second pipeline
separates a run from its successor in the pruner's eyes; a flow that stops by itself shows the third
cause of an alert. The three go in separate behaviours (`MCPushed`), which keeps each small.

No bound cuts a step that fairness forces. Syncs, PRs, marks, crashes, failures and git events are never
due, and `MaxPath` is above what any exact configuration reaches. Deadlock is not checked: the
systems may stop, when all chains have ended or nobody opens another PR.

### Fairness

`FlowChain!Fairness`: some run that can progress does, because Tekton's controller keeps
reconciling, and the listener in the end acts on what it accepted or loses it. Nothing makes a
git event happen, and nothing makes the listener succeed.

`DoraExporter!Fairness`: Kubernetes restarts the pod, the informer resyncs every ten minutes, a
handler that runs goes on, a sync that began ends. Taking `stateMu` is strongly fair: the lock is
free again and again and Go's mutex starves nobody. Without the resync a mark whose clearing
patch failed would stay for ever, which is the mutant of `ConfirmedIsSettled`.

`ReleaseOutcome!Fairness`: the Jobs' controller and ArgoCD act on what ended, the hook and the relay
go on (an answer comes, or curl's clock ends the wait), the broker acts on what it accepted or
loses it, Tekton runs the Tasks of a run. Nothing makes anyone merge, rotate or refresh.

`RepoToken!Fairness`: only the caller's: curl reads what arrives and its `--max-time` runs. The
handler and GitHub may never answer, and `EveryCallEnds` holds all the same.

`Housekeeping!Fairness`: time passes, events that were accepted are acted on or lost, and the
detector's passes come and go on. Neither the pruner nor any flow need ever do anything: that a run
ends or posts its event is not assumed.

## What is proved

`FlowChainProofs`, for any apps, names, configurations, chains, retries and bounds satisfying the
assumptions of the two modules:

- `TypeCorrect`: `TypeOK` and that the configuration never changes.
- `BuildRootedIsExact`: if every git-rooted flow begins with a build and no flow of the app has
  a name that extends its name with a hyphen, the configuration has exact filters. This is the
  usual shape of an app's flows, so the theorems below that assume exact filters are about real
  configurations.
- `GreenIsHandedOn` (`NoSilentStop`), in every configuration, exact or not.
- `StepsRunOnce`, `NoStepSkipped`, `SpanClosedAfterSteps`, `ChainingIsLinear`, `ChainingIsStepRuns`:
  `OneRunPerStep`, `PredecessorsPassed`, `SpanClosesAfterSteps` and the refinements of `LinearFlow` and of
  `StepRuns`, when every configuration has exact filters.

The properties are not inductive. The argument is `IInv`, a conjunction of five facts:
`CanonicalPaths` (the path of a run is its flow's steps 0, 1, ... in order, so a run is determined
by its chain, flow and length), `OneRootPerChain`, `PrefixesPassed` (every proper prefix of a path is
a run that passed), `NextStepOnly` (a pending delivery is from a run that passed to its next step,
which is where exact filters are used) and `ClosedAtTheEnd` (only a terminal run that has its
verdict closes the span). Two runs for one step are then one run. A run of step i has all
its predecessors. The terminal run is the longest path of its chain, so nothing else runs.

`NoSilentStop` looks at a run when it is done, but what makes it true happened when its event was
posted. `SentInv` follows the `send` task from there: it waits for the stage's verdict, the run waits
for it, and once it says "sent" the next step's Trigger has the event or its loss is recorded. A
delivery that is acted on only moves from the one to the other.

For `ChainingIsStepRuns` a run is its step (`UniqueByLength`, from `CanonicalPaths`), so the sets of
runs that `StepOf` maps can be reasoned about run by run. Each action is then shown to change at
most one of them (`AnnounceSeen`, `EndSeen`, `LoseSeen`, `CreateSeen`, or `StutterSeen` for what
cannot be seen from outside). The hard cases are repetitions. A POST repeated after its event
has fired is a stutter, one repeated after its delivery was lost is announced again, and a delivery
to a Trigger that already has its run (`Fire` on a name that is taken) ends the waiting of
nothing. That `Succeed` needs the event accepted is `SentInv` again.

`DoraExporterProofs`, for any set of requests and any bounds:

- `TypeCorrect`: `TypeOK`.
- `StoreIsWithinMemory` (`StoreWithinMemory`), from `OwedWithinMemory`: in each field, what is stored
  and the number of handlers between their recording and their patch together do not exceed what
  is shown. A handler adds to memory and to that number at once, its patch takes from the one what
  it gives the other, and one that fails only takes.
- `NoSaveIsLost` (`NoSaveLost`) and `ExporterIsDurable` (`CountersAreDurable`, the refinement of
  `DurableCounter`), from `PInv`: `ExclusiveCopy` (a handler between its Get and its Patch holds the
  lock and its copy *is* the ConfigMap), `RestoreIsSuccess` (a restore time comes with a success) and
  `HandlersNeedProcess` (a process that is down has no handler).
- `BaselineIsRespected` (`NotBeforeMark`), from `BInv`: every snapshot, in the queue or in the API
  server, has a mark of a Task that is done, a sync no newer than the Application's, and a baseline
  that is the one read for its mark unless that read failed. The handler may be arbitrarily late and
  Tasks may overlap: a snapshot it acts on carries its own proof.

`ReleaseOutcomeProofs`, for any number of syncs, retries, faults and rotations: `TypeCorrect`,
`RunsArePods`, `NoneSwallowed`, `TokensAreFresh`, `ReportsArrive` (`TypeOK` and four safety properties
of the run), from one inductive invariant of four parts besides the types. `PodInv` counts: a pod
carries the present time, and time is at most two Jobs' pods for each sync that is done, and those
of the one under way so far (`RoomForPods`), so times never run out. `EventInv` says that every
event, in `pending`, in `acted` or in a run, is the one that the pod of its time noted when it
started; an id therefore names one event. `RequestInv` keeps the relay's present secret among those
the request has seen. `DeliveryInv` follows an answer of 202 back to the broker, from the relay to
the pod to the sync.

`NoneForgotten` (`NoOutcomeForgotten`) is the safety half of `OutcomeReported`: `DeliveryInv` says where
the word on a sync is, and `EndInv` adds that a run that failed makes its sync known as lost.
With nothing on its way, the only place left is a finished run. `OutcomesAreReports` is the
refinement of `OutcomeReports`. Most actions are stutters; for the others `IInv` says what the
abstract action asks for: a pod that starts is later than every event said (`PodInv`, `EventInv`), a
request forwarded carries the last word of its sync, and a Job that succeeds had its event heard
(`DeliveryInv`).

`ReleaseTrackingProofs`, for any environments, Tasks, runs and failed calls: `TypeCorrect`, `OnePrOpen`
(`OnePrPerRelease`), `PromotionsAreKept` (`NoPromotionSwallowed`), `LinksAreKept` (`PrLinkNotLost`).
`TaskInv`: a Task about to post knows that its environment has no open PR, whatever an earlier Task
left, and one that goes on holds a PR of its environment. `RecordInv`: the ConfigMap holds the one
record that was neither replaced nor deleted, so a run whose record is kept reads its own. `RunInv`: a
run deletes nothing before its last call.

`RepoTokenProofs`, for any Applications, namespaces, calls, retries, faults and changes:
`TypeCorrect`, `TokensAreOwners` (`MintedForOwner`), `FailuresHaveCause` (`FailedHasCause`). `OwnerInv`: a
handler past the check has been its owner's at some moment since it arrived. `CauseInv`: while
everything is set up and no fault has hit, the attempt at hand can only succeed.

`UnusedTokensHaveCause` (`UnusedTokenHasCause`) and `SuccessHoldsToken` (`OkHasToken`) come from
`TokenInv`, in three parts. `RequestInv`: an attempt is handled only after it was made, and a handler
that its caller has given up is of a call that a fault or a timeout hit. `MintInv`: an answer of 200
has its token, and a token without one is of such a call. `PrintInv`: a token is printed last or not
at all. `WaitingCanEnd` is the safety half of `EveryCallEnds`: what a Task waits for is there.

`HousekeepingProofs`, for any flows, chains, git events and failed calls: `TypeCorrect`, `NewestIsKept`
(`NewestKept`), `AnnouncementsBounded` (`AnnouncedOnce`), `AlertsHaveCause` (`AlertHasCause`). `EventsInv`: a
run that ended well has an event whose fate is known, or none to send, and a candidate's fate is
decided before it is old enough to be one. `PrunerInv`: what is on the pruner's list has a newer run
of its pipeline that is not on it and stays. `DetectorInv`: a suspect has no Event beyond its
unlabelled passes, and a cause for one; causes stand, since nothing unprunes a run
(`CausesStand`). `ChainsAreStepRuns`: neither CronJob starts, ends or stops a run, so the chains they
work on satisfy `StepSpec`, which `ChainingIsStepRuns` shows of `FlowChain`'s.

Only model-checked: liveness (`EveryChainEnds`, `ConfirmedIsSettled`, `OutcomeReported`,
`EveryCallEnds`, `StallAnnounced`), which the prover cannot do. Of the first, third and fourth the
safety halves are proved (`GreenIsHandedOn`, `NoneForgotten`, `WaitingCanEnd`).

## Findings

1. **A flow that comes back to its first stage loops** (`flow_loop`). The filter of step 1 keeps
   only the flow's name when step 0 is rooted in git. The comment gives as the reason that there
   is only one root step, but a later step of the root's stage sends the same event type from a
   run of the same flow. `BuildRootedIsExact` says which configurations cannot.
2. **A mark can be recorded twice** (`dora_twice`). `reconcile` relies on the annotation being
   cleared, but reads it from a snapshot that may be older than the clearing.
3. **The detector announces chains that finished** (`stall_false_alert`). It asks whether the next
   run exists; the pruner may have deleted that one and kept the run before it. `AlertsHaveCause` names
   the only other causes of an alert.
4. **A run is told another release's PR** (`tracking_other`). The branch of a release got its
   environment in its name because one revision may be released to several; the ConfigMap that hands
   on the PR's link did not. Two releases of one chain overwrite each other's record. `LinksAreKept`
   names the other ways a link is lost.
5. **A retried token request prints more than the token** (`token_retry`). curl writes the body of
   every attempt, and the script's `jq` prints a line for each. On success the token is the last line,
   and there are no more lines than attempts (`SuccessHoldsToken`).

Seen while modelling and listed under "hazards": the release Pipeline cannot both open a PR and mark
a release (see DoraExporter above); a stage's span may end after the next stage began, and after the
flow's; the clearing patch may remove a newer mark than the one recorded; a moment's failure of the
API is answered 401, which curl does not retry, and enough of them leave an outcome unreported; steps after `gitops-image-bump` never start, and the detector then announces a stall;
the lists of git events disagree
about `deploy`; a rolling update runs two exporters, whose mutexes do not know each other. A
ConfigMap whose delete fails makes the notify run fail before its notifications, although the
Task says it always succeeds, and the ConfigMap of a release that never merges stays, since the
sweep named for it deletes only namespaces. A PostSync hook whose pods all fail makes the sync
itself fail, and its SyncFail hook then announces a failure of a release that is deployed. A run of
another chain hides a stall (`Hidden`).

## Not modelled

- **Promotion in one cluster.** `bump-manifest-pr` and `deploy-manifests`; `FlowChain` keeps their
  verdict. Of `open-release-pr`, commit, push and POST are one step.
- **Guardrails.** The check-runs of a PR and their readers; the two hazards listed for them stand.
- **Preview environments.** The state machine is ArgoCD's; the sweep is an age filter.
- **Onboarding, scanners, attestations, test runs.** Scripts around external tools, run in order;
  the stage's verdict is what `FlowChain` keeps of them.
- **Tracing, Slack, signing, RBAC, dashboards.** Best-effort outputs, install-time jobs and static
  manifests.
- In modelled components: restore times against failures, two exporters at once, starts of two
  syncs within one second, stage spans, and two chains of one revision that release to one environment.

## Plan

1. Promotion: commit, push and POST of `open-release-pr` and `bump-manifest-pr` as separate calls, and
   two chains of one revision that share a branch.
2. `Guardrails`: check-runs that are re-run, one reader that takes the latest and one that takes
   the first, duplicate comments.
3. In `DoraExporter`: restore times against failures, and a second process during a rolling update.
4. Proofs: what the abstract specifications themselves guarantee (that a step of `StepRuns` comes of
   its predecessor's event, that an outcome settled in `OutcomeReports` was heard or is known lost), so
   that a refinement carries more than its actions.
