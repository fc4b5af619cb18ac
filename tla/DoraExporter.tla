---------------------------- MODULE DoraExporter ----------------------------
(***************************************************************************)
(* dora-exporter, one app: the informer path (an ArgoCD Application marked *)
(* pending by runs of the Task mark-release-pending), the HTTP path        *)
(* (/argocd-outcome), the counters in memory and their copy in the         *)
(* dora-metrics-state ConfigMap.                                           *)
(*                                                                         *)
(* An API call is a step of its own, and may fail.  Times are the order of *)
(* syncs: a sync's number is its startedAt and its finishedAt.             *)
(***************************************************************************)
EXTENDS Naturals, Sequences, FiniteSets

CONSTANTS
  Requests,      \* runs of update-dora-metrics, each POSTing one outcome to /argocd-outcome
  Times,         \* finishedAt values the POSTed outcomes may carry
  Retries,       \* curl --retry of update-dora-metrics
  MaxMarks,      \* bound: runs of mark-release-pending for the environment
  Mapped,        \* those among them whose CLUSTER is set
  MaxSyncs,      \* bound: ArgoCD syncs of the Application
  MaxFailures,   \* bound: API calls that fail
  MaxCrashes,    \* bound: times the process dies
  MaxQueue       \* bound: a notification that brings nothing new comes to a shorter queue

Informer == "informer"

ASSUME BoundsAssumption ==
  /\ {Retries, MaxMarks, MaxSyncs, MaxFailures, MaxCrashes, MaxQueue} \subseteq Nat
  /\ Times \subseteq Nat \ {0}
  /\ Informer \notin Requests /\ IsFiniteSet(Requests)

VARIABLES
  app,        \* the Application: dora annotations and status.operationState
  task,       \* per run of mark-release-pending: its place, the baseline it read
  queue,      \* Application snapshots notified to the informer's handler
  up, primed, \* the process runs; it could read dora-metrics-state when it started
  mem,        \* the Prometheus collectors
  cm,         \* dora-metrics-state
  lastFail,   \* dora-cluster-mapped-state: time of the last failure, 0 for none
  holder,     \* holder of stateMu, {} or a singleton
  pc, job, copy, \* per handler: its place, what it recorded, the state it read
  post,       \* per request: what it posts
  tries,      \* per request: times it was posted again
  fails, crashes, \* bound counters
  saved,      \* history: successful patches of dora-metrics-state
  seen, twice, \* history: marks recorded, recorded again
  readAt, misread \* history: syncs begun when a mark's baseline was read; reads that failed

ci == <<task, readAt, misread>>
state == <<mem, cm, lastFail, saved>>
handler == <<holder, pc, job, copy, post, tries>>
ghosts == <<seen, twice>>
vars == <<app, task, queue, up, primed, mem, cm, lastFail, holder, pc, job, copy,
          post, tries, fails, crashes, saved, seen, twice, readAt, misread>>

Handlers == Requests \union {Informer}
\* A run of mark-release-pending stands for the mark it stamps.  A release that is triggered
\* again has another run, with a mark of its own.
Marks == 1 .. MaxMarks

D == INSTANCE DurableCounter WITH shown <- mem, stored <- cm

\* Error is recorded as Failed is.
Terminal == {"Succeeded", "Failed"}

\* mark: the run that stamped the pending annotations, 0 when dora-pending is unset.
\* baseline, lastFail, sync: times, 0 when unset.
Application == [mark: 0 .. MaxMarks, baseline: Nat, lastFail: Nat,
                phase: Terminal \union {"", "Running"}, sync: Nat]

\* outcomeResult, with the phase and time it is about.
Job == [phase: Terminal, fin: Nat, mttr: BOOLEAN, cleared: BOOLEAN]

NoJob == [phase |-> "Failed", fin |-> 0, mttr |-> FALSE, cleared |-> FALSE]

\* recordOutcome: a success measures from the last failure on record, if that is earlier.
Outcome(phase, fin, failedAt) ==
  [phase |-> phase, fin |-> fin,
   mttr |-> phase = "Succeeded" /\ failedAt # 0 /\ fin > failedAt,
   cleared |-> phase = "Succeeded" /\ failedAt # 0]

\* Mutant: every terminal phase counts as a deployment.
MutDelta(j) == [ok |-> 1,
                bad |-> IF j.phase = "Failed" THEN 1 ELSE 0,
                mttr |-> IF j.mttr THEN 1 ELSE 0]

\* What recordOutcome adds to the collectors, and persistMetricsState to the stored state.
Delta(j) == [ok |-> IF j.phase = "Succeeded" THEN 1 ELSE 0,
             bad |-> IF j.phase = "Failed" THEN 1 ELSE 0,
             mttr |-> IF j.mttr THEN 1 ELSE 0]

\* The last-failure time an outcome leaves where `now` was.
LastFailAfter(j, now) ==
  IF j.phase = "Failed" THEN j.fin ELSE IF j.cleared THEN 0 ELSE now

\* Mutant: no baseline check.
MutAnyTerminal(o) == o.mark # 0 /\ o.phase \in Terminal

\* reconcile's conditions: pending, terminal, and strictly newer than the baseline.
Confirmed(o) ==
  /\ o.mark # 0
  /\ o.phase \in Terminal
  /\ o.baseline # 0 => o.sync > o.baseline

CanFail == fails < MaxFailures

\* Mutant: one retry too many.
MutMayRetry(r) == tries[r] <= Retries

\* curl --retry: the outcome is posted again when its reply did not come.
MayRetry(r) == tries[r] < Retries

\* Mutant: stateMu does not exclude anyone.
MutLockFree == TRUE

\* stateMu.Lock does not block.
LockFree == holder = {}

\* Mutant: the counters start at zero, whatever is stored.
MutRehydrated == D!Zero

\* What primeMetricsFromState puts into the collectors.
Rehydrated == cm

\* A change of the Application, notified to the informer while it runs.
Change(o) ==
  /\ app' = o
  /\ queue' = IF up THEN Append(queue, o) ELSE queue

-----------------------------------------------------------------------------
Init ==
  /\ app = [mark |-> 0, baseline |-> 0, lastFail |-> 0, phase |-> "", sync |-> 0]
  /\ task = [m \in Marks |-> [pc |-> "idle", base |-> 0]]
  /\ queue = << >>
  /\ up = FALSE /\ primed = FALSE
  /\ mem = D!Zero /\ cm = D!Zero /\ lastFail = 0
  /\ holder = {}
  /\ pc = [t \in Handlers |-> "idle"]
  /\ job = [t \in Handlers |-> NoJob]
  /\ copy = [t \in Handlers |-> D!Zero]
  /\ post \in [Requests -> [phase: Terminal, fin: Times]]
  /\ tries = [r \in Requests |-> 0]
  /\ fails = 0 /\ crashes = 0 /\ saved = 0
  /\ seen = {} /\ twice = {}
  /\ readAt = [m \in Marks |-> 0] /\ misread = {}

-----------------------------------------------------------------------------
(***************************************************************************)
(* Runs of mark-release-pending, any number of them at once, and ArgoCD.   *)
(***************************************************************************)

\* Runs are numbered in the order they begin.
Begin(m) ==
  /\ task[m].pc = "idle"
  /\ \A k \in Marks : k < m => task[k].pc # "idle"

\* With CLUSTER set the Task does nothing.
SkipMark(m) ==
  /\ Begin(m)
  /\ m \in Mapped
  /\ task' = [task EXCEPT ![m].pc = "done"]
  /\ UNCHANGED <<app, queue, up, primed, state, handler, fails, crashes, ghosts, readAt,
                 misread>>

\* It reads operationState.startedAt; `|| echo ""` hides a failed read.
ReadBaseline(m) ==
  /\ Begin(m)
  /\ m \notin Mapped
  /\ readAt' = [readAt EXCEPT ![m] = app.sync]
  /\ \/ /\ task' = [task EXCEPT ![m] = [pc |-> "annotate", base |-> app.sync]]
        /\ UNCHANGED <<misread, fails>>
     \/ /\ CanFail
        /\ task' = [task EXCEPT ![m].pc = "annotate"]
        /\ misread' = misread \union {m}
        /\ fails' = fails + 1
  /\ UNCHANGED <<app, queue, up, primed, state, handler, crashes, ghosts>>

\* ... and stamps the annotations over whatever is there, or fails.
Annotate(m) ==
  /\ task[m].pc = "annotate"
  /\ task' = [task EXCEPT ![m].pc = "done"]
  /\ \/ /\ Change([app EXCEPT !.mark = m, !.baseline = task[m].base])
        /\ UNCHANGED fails
     \/ /\ CanFail
        /\ fails' = fails + 1
        /\ UNCHANGED <<app, queue>>
  /\ UNCHANGED <<up, primed, state, handler, crashes, ghosts, readAt, misread>>

\* ArgoCD syncs the environment's latest revision: a merged promotion, or a self-heal.
StartSync ==
  /\ app.phase # "Running"
  /\ app.sync < MaxSyncs
  /\ Change([app EXCEPT !.phase = "Running", !.sync = @ + 1])
  /\ UNCHANGED <<ci, up, primed, state, handler, fails, crashes, ghosts>>

FinishSync ==
  /\ app.phase = "Running"
  /\ \E p \in Terminal : Change([app EXCEPT !.phase = p])
  /\ UNCHANGED <<ci, up, primed, state, handler, fails, crashes, ghosts>>

\* Mutant: the informer has no resync period, and ArgoCD writes nothing else.
MutNoResync == FALSE

\* The informer's resync, or a status write of ArgoCD's to a field that is not modelled.
Notify ==
  /\ up
  /\ Len(queue) < MaxQueue
  /\ queue' = Append(queue, app)
  /\ UNCHANGED <<app, ci, up, primed, state, handler, fails, crashes, ghosts>>

-----------------------------------------------------------------------------
(***************************************************************************)
(* The process.                                                            *)
(***************************************************************************)

\* primeMetricsFromState, then the informer's Add for the Application; the HTTP server
\* listens last.  A failed read starts the counters at zero.
Start ==
  /\ ~up
  /\ up' = TRUE
  /\ queue' = <<app>>
  /\ \/ /\ mem' = Rehydrated
        /\ primed' = TRUE
        /\ UNCHANGED fails
     \/ /\ CanFail
        /\ mem' = D!Zero
        /\ primed' = FALSE
        /\ fails' = fails + 1
  /\ UNCHANGED <<app, ci, cm, lastFail, saved, handler, crashes, ghosts>>

\* The process dies with its memory, its queue and its handlers; an interrupted request is
\* posted again by curl while retries last.
Crash ==
  /\ up
  /\ crashes < MaxCrashes
  /\ crashes' = crashes + 1
  /\ up' = FALSE /\ primed' = FALSE
  /\ mem' = D!Zero
  /\ queue' = << >>
  /\ holder' = {}
  /\ LET again(r) == pc[r] \notin {"idle", "done"} /\ MayRetry(r)
     IN  /\ pc' = [t \in Handlers |->
                     IF t = Informer \/ pc[t] = "idle" \/ again(t) THEN "idle" ELSE "done"]
         /\ tries' = [r \in Requests |-> IF again(r) THEN tries[r] + 1 ELSE tries[r]]
  /\ job' = [t \in Handlers |-> NoJob]
  /\ copy' = [t \in Handlers |-> D!Zero]
  /\ UNCHANGED <<app, ci, cm, lastFail, saved, post, fails, ghosts>>

\* reconcile returns early.
IgnoreEvent ==
  /\ up /\ pc[Informer] = "idle"
  /\ queue # << >>
  /\ ~Confirmed(Head(queue))
  /\ queue' = Tail(queue)
  /\ UNCHANGED <<app, ci, up, primed, state, handler, fails, crashes, ghosts>>

\* reconcile records the outcome in memory and goes on to persist it.
RecordEvent ==
  /\ up /\ pc[Informer] = "idle"
  /\ queue # << >>
  /\ Confirmed(Head(queue))
  /\ queue' = Tail(queue)
  /\ LET o == Head(queue)
         j == Outcome(o.phase, o.sync, o.lastFail)
     IN  /\ mem' = D!Plus(mem, Delta(j))
         /\ job' = [job EXCEPT ![Informer] = j]
         /\ seen' = seen \union {o.mark}
         /\ twice' = IF o.mark \in seen THEN twice \union {o.mark} ELSE twice
  /\ pc' = [pc EXCEPT ![Informer] = "lock"]
  /\ UNCHANGED <<app, ci, up, primed, cm, lastFail, saved, holder, copy, post, tries, fails,
                 crashes>>

\* handleArgoCDOutcome reads the last failure (a failed read counts as none) and records.
RecordRequest(r) ==
  /\ up /\ pc[r] = "idle"
  /\ \E known \in BOOLEAN :
       LET j == Outcome(post[r].phase, post[r].fin, IF known THEN lastFail ELSE 0)
       IN  /\ known \/ CanFail
           /\ fails' = IF known THEN fails ELSE fails + 1
           /\ mem' = D!Plus(mem, Delta(j))
           /\ job' = [job EXCEPT ![r] = j]
  /\ pc' = [pc EXCEPT ![r] = "lock"]
  /\ UNCHANGED <<app, ci, queue, up, primed, cm, lastFail, saved, holder, copy, post, tries, crashes,
                 ghosts>>

(***************************************************************************)
(* persistMetricsState, under stateMu.                                     *)
(***************************************************************************)

\* Take the lock and Get dora-metrics-state: nobody else can touch either in between.  When
\* the Get fails the lock is given back and nothing is persisted.
LockAndGet(t) ==
  /\ pc[t] = "lock"
  /\ LockFree
  /\ \/ /\ holder' = {t}
        /\ copy' = [copy EXCEPT ![t] = cm]
        /\ pc' = [pc EXCEPT ![t] = "patch"]
        /\ UNCHANGED fails
     \/ /\ CanFail
        /\ fails' = fails + 1
        /\ pc' = [pc EXCEPT ![t] = "settle"]
        /\ UNCHANGED <<holder, copy>>
  /\ UNCHANGED <<app, ci, queue, up, primed, state, job, post, tries, crashes, ghosts>>

\* Patch it with what was read and the outcome added, and give the lock back.
Patch(t) ==
  /\ pc[t] = "patch"
  /\ \/ /\ cm' = D!Plus(copy[t], Delta(job[t]))
        /\ saved' = saved + 1
        /\ UNCHANGED fails
     \/ /\ CanFail
        /\ fails' = fails + 1
        /\ UNCHANGED <<cm, saved>>
  /\ pc' = [pc EXCEPT ![t] = "settle"]
  /\ holder' = {}
  /\ copy' = [copy EXCEPT ![t] = D!Zero]
  /\ UNCHANGED <<app, ci, queue, up, primed, mem, lastFail, job, post, tries, crashes, ghosts>>

\* patchAnnotations clears dora-pending, whoever stamped it by now, and moves the last-failure
\* annotation; a failure leaves the mark to a later notification.
SettleEvent ==
  /\ pc[Informer] = "settle"
  /\ \/ /\ Change([app EXCEPT !.mark = 0, !.lastFail = LastFailAfter(job[Informer], @)])
        /\ UNCHANGED fails
     \/ /\ CanFail
        /\ fails' = fails + 1
        /\ UNCHANGED <<app, queue>>
  /\ pc' = [pc EXCEPT ![Informer] = "idle"]
  /\ job' = [job EXCEPT ![Informer] = NoJob]
  /\ UNCHANGED <<ci, up, primed, state, holder, copy, post, tries, crashes, ghosts>>

\* patchClusterMappedLastFailure, then the reply; a reply that is lost has curl post again.
SettleRequest(r) ==
  /\ pc[r] = "settle"
  /\ \/ /\ lastFail' = LastFailAfter(job[r], lastFail)
        /\ UNCHANGED fails
     \/ /\ CanFail
        /\ fails' = fails + 1
        /\ UNCHANGED lastFail
  /\ \/ /\ pc' = [pc EXCEPT ![r] = "done"]
        /\ UNCHANGED tries
     \/ /\ MayRetry(r)
        /\ pc' = [pc EXCEPT ![r] = "idle"]
        /\ tries' = [tries EXCEPT ![r] = @ + 1]
  /\ job' = [job EXCEPT ![r] = NoJob]
  /\ UNCHANGED <<app, ci, queue, up, primed, mem, cm, saved, holder, copy, post, crashes,
                 ghosts>>

Persist(t) == LockAndGet(t) \/ Patch(t)

Next ==
  \/ \E m \in Marks : SkipMark(m) \/ ReadBaseline(m) \/ Annotate(m)
  \/ StartSync \/ FinishSync \/ Notify
  \/ Start \/ Crash
  \/ IgnoreEvent \/ RecordEvent \/ SettleEvent
  \/ \E r \in Requests : RecordRequest(r) \/ SettleRequest(r)
  \/ \E t \in Handlers : Persist(t)

Spec == Init /\ [][Next]_vars

\* Kubernetes restarts the pod, handlers run on, a lock that is free is taken in the end,
\* the informer resyncs every ten minutes and a sync that runs finishes.  Nobody has to
\* mark a release, POST an outcome or begin a sync.
Fairness ==
  /\ WF_vars(Start)
  /\ WF_vars(Notify)
  /\ WF_vars(FinishSync)
  /\ WF_vars(IgnoreEvent \/ RecordEvent)
  /\ WF_vars(SettleEvent)
  /\ \A t \in Handlers : SF_vars(LockAndGet(t)) /\ WF_vars(Patch(t))

FairSpec == Spec /\ Fairness

-----------------------------------------------------------------------------
(***************************************************************************)
(* Properties                                                              *)
(***************************************************************************)

EnvironmentTypeOK ==
  /\ app \in Application
  /\ task \in [Marks -> [pc: {"idle", "annotate", "done"}, base: Nat]]
  /\ queue \in Seq(Application)
  /\ readAt \in [Marks -> Nat]
  /\ misread \subseteq Marks

CountersTypeOK ==
  /\ up \in BOOLEAN
  /\ primed \in BOOLEAN
  /\ mem \in D!Counters
  /\ cm \in D!Counters
  /\ lastFail \in Nat
  /\ saved \in Nat
  /\ seen \subseteq Marks
  /\ twice \subseteq Marks

HandlersTypeOK ==
  /\ holder \subseteq Handlers
  /\ pc \in [Handlers -> {"idle", "lock", "patch", "settle", "done"}]
  /\ job \in [Handlers -> Job]
  /\ copy \in [Handlers -> D!Counters]
  /\ post \in [Requests -> [phase: Terminal, fin: Times]]
  /\ tries \in [Requests -> 0 .. Retries]
  /\ fails \in 0 .. MaxFailures
  /\ crashes \in 0 .. MaxCrashes

\* The state stays within what one app, its Application and the handlers can be in.
TypeOK == EnvironmentTypeOK /\ CountersTypeOK /\ HandlersTypeOK

\* Every patch of dora-metrics-state that succeeded is in it: no two handlers, of either
\* path, overwrite each other's outcome, and a crash undoes none.
NoSaveLost == cm.ok + cm.bad = saved

\* The stored counters never run ahead of the ones scraped, once those were rehydrated, so
\* a restart never makes a counter jump up.
StoreWithinMemory ==
  up /\ primed =>
    /\ cm.ok <= mem.ok
    /\ cm.bad <= mem.bad
    /\ cm.mttr <= mem.mttr

\* However old the snapshots the handler works from, and whichever runs of the Task overlap,
\* a mark whose baseline could be read is recorded only after a sync that began after that.
NotBeforeMark ==
  \A m \in seen \ misread : app.sync > readAt[m]

\* A release marked pending whose sync ended does not stay so: whatever calls fail and
\* wherever the process dies, a later notification or the Add after a restart settles it.
ConfirmedIsSettled ==
  \A m \in Marks : Confirmed(app) /\ app.mark = m ~> app.mark # m

\* The exporter's counters implement DurableCounter.
CountersAreDurable == D!Spec

-----------------------------------------------------------------------------
(***************************************************************************)
(* What the docs say and the code does not do.                             *)
(***************************************************************************)

\* A mark is recorded once: clearing dora-pending is the dedup mechanism.
RecordedOnce == twice = {}
=============================================================================
