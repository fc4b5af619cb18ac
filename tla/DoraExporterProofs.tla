------------------------ MODULE DoraExporterProofs -------------------------
(***************************************************************************)
(* Theorems about DoraExporter, for every set of requests and every bound. *)
(***************************************************************************)
EXTENDS DoraExporter, SequenceTheorems, FiniteSetTheorems, TLAPS

-----------------------------------------------------------------------------
(***************************************************************************)
(* Outcomes, counters, snapshots.                                          *)
(***************************************************************************)

LEMMA Bounds ==
  /\ Retries \in Nat /\ MaxMarks \in Nat /\ MaxSyncs \in Nat
  /\ MaxFailures \in Nat /\ MaxCrashes \in Nat /\ MaxQueue \in Nat
  /\ Times \subseteq Nat \ {0}
  /\ Informer \notin Requests /\ IsFiniteSet(Requests)
BY BoundsAssumption

LEMMA ZeroInBounds ==
  /\ 0 \in 0 .. Retries /\ 0 \in 0 .. MaxMarks
  /\ 0 \in 0 .. MaxFailures /\ 0 \in 0 .. MaxCrashes
BY Bounds

\* recordOutcome reports a restore time for a success only.
LEMMA OutcomeIsJob ==
  ASSUME NEW p \in Terminal, NEW fin \in Nat, NEW failedAt \in Nat
  PROVE  /\ Outcome(p, fin, failedAt) \in Job
         /\ Outcome(p, fin, failedAt).mttr => Outcome(p, fin, failedAt).phase = "Succeeded"
BY DEF Outcome, Job

\* What a recorded outcome adds is one of DurableCounter's outcomes, and one release.
LEMMA DeltaIsOutcome ==
  ASSUME NEW j \in Job, j.mttr => j.phase = "Succeeded"
  PROVE  /\ Delta(j) \in D!Outcomes
         /\ Delta(j).ok + Delta(j).bad = 1
BY DEF Delta, Job, Terminal, D!Outcomes

LEMMA DeltaIsCounters ==
  ASSUME NEW j \in Job
  PROVE  Delta(j) \in D!Counters
BY DEF Delta, D!Counters

LEMMA PlusIsCounters ==
  ASSUME NEW c \in D!Counters, NEW o \in D!Counters
  PROVE  D!Plus(c, o) \in D!Counters
BY DEF D!Plus, D!Counters

LEMMA ZeroIsCounters == D!Zero \in D!Counters
BY DEF D!Zero, D!Counters

\* A change of the Application keeps it and the queue typed.
LEMMA ChangeTypes ==
  ASSUME NEW o \in Application, app \in Application, queue \in Seq(Application), Change(o)
  PROVE  app' \in Application /\ queue' \in Seq(Application)
BY DEF Change

LEMMA LastFailAfterType ==
  ASSUME NEW j \in Job, NEW now \in Nat
  PROVE  LastFailAfter(j, now) \in Nat
BY DEF LastFailAfter, Job

\* The steps of the runs of mark-release-pending.
TaskStep == \E m \in Marks : SkipMark(m) \/ ReadBaseline(m) \/ Annotate(m)

-----------------------------------------------------------------------------
(***************************************************************************)
(* Type correctness, one part of the state at a time.                      *)
(***************************************************************************)

\* The first snapshot of a non-empty queue, and the rest of it.
LEMMA QueueHead ==
  ASSUME TypeOK, queue # << >>
  PROVE  Head(queue) \in Application /\ Tail(queue) \in Seq(Application)
BY DEF TypeOK, EnvironmentTypeOK

LEMMA InitTypes == Init => TypeOK
<1> SUFFICES ASSUME Init PROVE TypeOK
  OBVIOUS
<1>1. EnvironmentTypeOK
  <2>1. app \in Application
    BY ZeroInBounds DEF Init, Application
  <2>2. task \in [Marks -> [pc: {"idle", "annotate", "done"}, base: Nat]]
    BY DEF Init
  <2>3. queue \in Seq(Application)
    BY EmptySeq DEF Init
  <2>4. readAt \in [Marks -> Nat] /\ misread \subseteq Marks
    BY ZeroInBounds DEF Init
  <2> QED BY <2>1, <2>2, <2>3, <2>4 DEF Init, EnvironmentTypeOK
<1>2. CountersTypeOK
  BY ZeroIsCounters DEF Init, CountersTypeOK
<1>3. HandlersTypeOK
  <2>1. NoJob \in Job
    BY DEF NoJob, Job, Terminal
  <2>2. job \in [Handlers -> Job] /\ copy \in [Handlers -> D!Counters]
    BY <2>1, ZeroIsCounters DEF Init
  <2>3. /\ tries \in [Requests -> 0 .. Retries]
        /\ fails \in 0 .. MaxFailures /\ crashes \in 0 .. MaxCrashes
    BY ZeroInBounds DEF Init
  <2> QED BY <2>2, <2>3 DEF Init, HandlersTypeOK
<1> QED BY <1>1, <1>2, <1>3 DEF TypeOK

LEMMA EnvironmentTypes ==
  ASSUME TypeOK, [Next]_vars
  PROVE  EnvironmentTypeOK'
<1> USE DEF TypeOK, EnvironmentTypeOK
<1>1. ASSUME NEW m \in Marks, SkipMark(m)
      PROVE  EnvironmentTypeOK'
  BY <1>1 DEF SkipMark
<1>2. ASSUME NEW m \in Marks, ReadBaseline(m)
      PROVE  EnvironmentTypeOK'
  <2>1. app.sync \in Nat
    BY DEF Application
  <2>2. task' \in [Marks -> [pc: {"idle", "annotate", "done"}, base: Nat]]
    <3>1. CASE task' = [task EXCEPT ![m] = [pc |-> "annotate", base |-> app.sync]]
      BY <2>1, <3>1
    <3>2. CASE task' = [task EXCEPT ![m].pc = "annotate"]
      BY <3>2
    <3> QED BY <1>2, <3>1, <3>2 DEF ReadBaseline
  <2> QED BY <1>2, <2>1, <2>2 DEF ReadBaseline
<1>3. ASSUME NEW m \in Marks, Annotate(m)
      PROVE  EnvironmentTypeOK'
  <2>1. m \in 0 .. MaxMarks /\ task[m].base \in Nat
    BY Bounds DEF Marks
  <2>2. [app EXCEPT !.mark = m, !.baseline = task[m].base] \in Application
    BY <2>1 DEF Application
  <2>3. app' \in Application /\ queue' \in Seq(Application)
    BY <1>3, <2>2, ChangeTypes DEF Annotate
  <2> QED BY <1>3, <2>3 DEF Annotate
<1>5. CASE StartSync
  <2>1. [app EXCEPT !.phase = "Running", !.sync = @ + 1] \in Application
    <3>1. app.sync \in Nat
      BY DEF Application
    <3>2. app.sync + 1 \in Nat
      BY <3>1
    <3> QED BY <3>2 DEF Application
  <2> QED BY <1>5, <2>1, ChangeTypes DEF StartSync, ci
<1>6. CASE FinishSync
  <2>1. \A p \in Terminal : [app EXCEPT !.phase = p] \in Application
    BY DEF Application
  <2> QED BY <1>6, <2>1, ChangeTypes DEF FinishSync, ci
<1>7. CASE Notify
  BY <1>7 DEF Notify, ci
<1>8. CASE Start
  <2>1. <<app>> \in Seq(Application)
    OBVIOUS
  <2> QED BY <1>8, <2>1 DEF Start, ci
<1>9. CASE Crash
  BY <1>9 DEF Crash, ci
<1>10. CASE IgnoreEvent \/ RecordEvent
  BY <1>10, QueueHead DEF IgnoreEvent, RecordEvent, ci
<1>11. CASE SettleEvent
  <2>1. job[Informer] \in Job /\ app.lastFail \in Nat
    BY DEF HandlersTypeOK, Handlers, Application
  <2>2. LastFailAfter(job[Informer], app.lastFail) \in Nat
    BY <2>1, LastFailAfterType
  <2>3. 0 \in 0 .. MaxMarks
    BY Bounds
  <2>4. [app EXCEPT !.mark = 0, !.lastFail = LastFailAfter(job[Informer], @)] \in Application
    BY <2>2, <2>3 DEF Application
  <2> QED BY <1>11, <2>4, ChangeTypes DEF SettleEvent, ci
<1>12. ASSUME NEW r \in Requests, RecordRequest(r) \/ SettleRequest(r)
       PROVE  EnvironmentTypeOK'
  BY <1>12 DEF RecordRequest, SettleRequest, ci
<1>13. ASSUME NEW t \in Handlers, Persist(t)
       PROVE  EnvironmentTypeOK'
  BY <1>13 DEF Persist, LockAndGet, Patch, ci
<1>14. CASE UNCHANGED vars
  BY <1>14 DEF vars
<1> QED BY <1>1, <1>2, <1>3, <1>5, <1>6, <1>7, <1>8, <1>9, <1>10, <1>11, <1>12, <1>13,
           <1>14 DEF Next

LEMMA CountersTypes ==
  ASSUME TypeOK, [Next]_vars
  PROVE  CountersTypeOK'
<1> USE DEF TypeOK, CountersTypeOK
<1>1. CASE TaskStep
  BY <1>1 DEF TaskStep, SkipMark, ReadBaseline, Annotate, state, ghosts
<1>2. CASE StartSync \/ FinishSync \/ Notify
  BY <1>2 DEF StartSync, FinishSync, Notify, state, ghosts
<1>3. CASE Start \/ Crash
  BY <1>3, ZeroIsCounters DEF Start, Crash, Rehydrated, ghosts
<1>4. CASE IgnoreEvent \/ SettleEvent
  BY <1>4 DEF IgnoreEvent, SettleEvent, state, ghosts
<1>5. CASE RecordEvent
  <2> DEFINE o == Head(queue)
             j == Outcome(o.phase, o.sync, o.lastFail)
  <2>1. o \in Application /\ Confirmed(o)
    BY <1>5, QueueHead DEF RecordEvent
  <2>2. o.mark \in Marks /\ o.phase \in Terminal /\ o.sync \in Nat /\ o.lastFail \in Nat
    <3>1. o.mark \in 0 .. MaxMarks /\ o.mark # 0
      BY <2>1 DEF Confirmed, Application
    <3>2. o.phase \in Terminal /\ o.sync \in Nat /\ o.lastFail \in Nat
      BY <2>1 DEF Confirmed, Application
    <3>3. o.mark \in Marks
      BY <3>1, Bounds DEF Marks
    <3> QED BY <3>2, <3>3
  <2>3. D!Plus(mem, Delta(j)) \in D!Counters
    BY <2>2, OutcomeIsJob, DeltaIsCounters, PlusIsCounters
  <2> HIDE DEF j
  <2>4. mem' = D!Plus(mem, Delta(j)) /\ seen' = seen \union {o.mark}
    BY <1>5 DEF RecordEvent, j
  <2>5. twice' = twice \/ twice' = twice \union {o.mark}
    BY <1>5 DEF RecordEvent
  <2>6. UNCHANGED <<up, primed, cm, lastFail, saved>>
    BY <1>5 DEF RecordEvent
  <2> QED BY <2>2, <2>3, <2>4, <2>5, <2>6
<1>6. ASSUME NEW r \in Requests, RecordRequest(r) PROVE CountersTypeOK'
  <2>1. post[r].phase \in Terminal /\ post[r].fin \in Nat
    BY Bounds DEF HandlersTypeOK
  <2>2. \A known \in BOOLEAN :
          D!Plus(mem, Delta(Outcome(post[r].phase, post[r].fin, IF known THEN lastFail ELSE 0)))
            \in D!Counters
    BY <2>1, OutcomeIsJob, DeltaIsCounters, PlusIsCounters
  <2>3. mem' \in D!Counters
    BY <1>6, <2>2 DEF RecordRequest
  <2>4. UNCHANGED <<up, primed, cm, lastFail, saved, ghosts>>
    BY <1>6 DEF RecordRequest
  <2> QED BY <2>3, <2>4 DEF ghosts
<1>7. ASSUME NEW r \in Requests, SettleRequest(r) PROVE CountersTypeOK'
  <2>1. LastFailAfter(job[r], lastFail) \in Nat
    BY LastFailAfterType DEF HandlersTypeOK, Handlers
  <2> QED BY <1>7, <2>1 DEF SettleRequest, ghosts
<1>8. ASSUME NEW t \in Handlers, Persist(t) PROVE CountersTypeOK'
  <2>1. D!Plus(copy[t], Delta(job[t])) \in D!Counters
    BY DeltaIsCounters, PlusIsCounters DEF HandlersTypeOK
  <2> QED BY <1>8, <2>1 DEF Persist, LockAndGet, Patch, state, ghosts
<1>9. CASE UNCHANGED vars
  BY <1>9 DEF vars
<1> QED BY <1>1, <1>2, <1>3, <1>4, <1>5, <1>6, <1>7, <1>8, <1>9 DEF Next, TaskStep

LEMMA HandlersTypes ==
  ASSUME TypeOK, [Next]_vars
  PROVE  HandlersTypeOK'
<1> USE Bounds DEF TypeOK, HandlersTypeOK, CanFail
<1>1. CASE TaskStep
  BY <1>1 DEF TaskStep, SkipMark, ReadBaseline, Annotate, handler
<1>2. CASE StartSync \/ FinishSync \/ Notify
  BY <1>2 DEF StartSync, FinishSync, Notify, handler
<1>3. CASE Start
  BY <1>3 DEF Start, handler
<1>4. CASE Crash
  <2>1. NoJob \in Job
    BY DEF NoJob, Job, Terminal
  <2> QED BY <1>4, <2>1, ZeroIsCounters DEF Crash, MayRetry
<1>5. CASE IgnoreEvent
  BY <1>5 DEF IgnoreEvent, handler
<1>6. CASE RecordEvent
  <2> DEFINE o == Head(queue)
             j == Outcome(o.phase, o.sync, o.lastFail)
  <2>1. j \in Job
    <3>1. o \in Application /\ Confirmed(o)
      BY <1>6, QueueHead DEF RecordEvent
    <3> QED BY <3>1, OutcomeIsJob DEF Confirmed, Application
  <2> HIDE DEF j
  <2>2. job' = [job EXCEPT ![Informer] = j]
    BY <1>6 DEF RecordEvent, j
  <2> QED BY <1>6, <2>1, <2>2 DEF RecordEvent
<1>7. ASSUME NEW r \in Requests, RecordRequest(r) PROVE HandlersTypeOK'
  <2>1. post[r].phase \in Terminal /\ post[r].fin \in Nat
    OBVIOUS
  <2>2. \A known \in BOOLEAN :
          Outcome(post[r].phase, post[r].fin, IF known THEN lastFail ELSE 0) \in Job
    BY <2>1, OutcomeIsJob DEF CountersTypeOK
  <2>3. job' \in [Handlers -> Job]
    BY <1>7, <2>2 DEF RecordRequest
  <2> QED BY <1>7, <2>3 DEF RecordRequest
<1>8. CASE SettleEvent
  <2>1. NoJob \in Job
    BY DEF NoJob, Job, Terminal
  <2>2. fails' \in 0 .. MaxFailures
    BY <1>8 DEF SettleEvent
  <2> QED BY <1>8, <2>1, <2>2 DEF SettleEvent
<1>9. ASSUME NEW r \in Requests, SettleRequest(r) PROVE HandlersTypeOK'
  <2>1. NoJob \in Job
    BY DEF NoJob, Job, Terminal
  <2>2. tries' \in [Requests -> 0 .. Retries]
    BY <1>9 DEF SettleRequest, MayRetry
  <2>3. fails' \in 0 .. MaxFailures
    BY <1>9 DEF SettleRequest
  <2>4. job' \in [Handlers -> Job]
    BY <1>9, <2>1 DEF SettleRequest
  <2>5. pc' \in [Handlers -> {"idle", "lock", "patch", "settle", "done"}]
    BY <1>9 DEF SettleRequest
  <2> QED BY <1>9, <2>2, <2>3, <2>4, <2>5 DEF SettleRequest
<1>10. ASSUME NEW t \in Handlers, Persist(t) PROVE HandlersTypeOK'
  <2>1. fails' \in 0 .. MaxFailures
    BY <1>10 DEF Persist, LockAndGet, Patch
  <2>2. pc' \in [Handlers -> {"idle", "lock", "patch", "settle", "done"}]
    BY <1>10 DEF Persist, LockAndGet, Patch
  <2>3. copy' \in [Handlers -> D!Counters] /\ holder' \subseteq Handlers
    BY <1>10, ZeroIsCounters DEF Persist, LockAndGet, Patch, CountersTypeOK
  <2> QED BY <1>10, <2>1, <2>2, <2>3 DEF Persist, LockAndGet, Patch
<1>11. CASE UNCHANGED vars
  BY <1>11 DEF vars
<1> QED BY <1>1, <1>2, <1>3, <1>4, <1>5, <1>6, <1>7, <1>8, <1>9, <1>10, <1>11 DEF Next, TaskStep

\* Every state of DoraExporter is well typed; a request is posted again no more often than
\* curl is told to.
THEOREM TypeCorrect == Spec => []TypeOK
<1>1. TypeOK /\ [Next]_vars => TypeOK'
  BY EnvironmentTypes, CountersTypes, HandlersTypes DEF TypeOK
<1> QED BY <1>1, InitTypes, PTL DEF Spec

-----------------------------------------------------------------------------
(***************************************************************************)
(* dora-metrics-state.                                                     *)
(*                                                                         *)
(* NoSaveLost needs to know that what a handler is about to write is what  *)
(* is stored, plus its outcome: whoever is between its Get and its Patch   *)
(* holds stateMu, so nobody else writes.                                   *)
(***************************************************************************)

ExclusiveCopy ==
  \A t \in Handlers : pc[t] = "patch" => holder = {t} /\ copy[t] = cm

RestoreIsSuccess ==
  \A t \in Handlers : job[t].mttr => job[t].phase = "Succeeded"

HandlersNeedProcess ==
  \A t \in Handlers : pc[t] \in {"lock", "patch", "settle"} => up

PInv == TypeOK /\ ExclusiveCopy /\ RestoreIsSuccess /\ HandlersNeedProcess /\ NoSaveLost

\* A step other than of a handler or of the process leaves the counters and handlers alone.
LEMMA EnvironmentFrame ==
  ASSUME TaskStep \/ StartSync \/ FinishSync \/ Notify \/ IgnoreEvent
  PROVE  /\ up' = up /\ primed' = primed /\ mem' = mem /\ cm' = cm /\ saved' = saved
         /\ holder' = holder /\ pc' = pc /\ job' = job /\ copy' = copy
BY DEF TaskStep, SkipMark, ReadBaseline, Annotate, StartSync, FinishSync, Notify, IgnoreEvent,
       state, handler

\* What the steps of a handler outside stateMu do to the counters.
LEMMA RecordFrame ==
  ASSUME TypeOK, NEW t \in Handlers,
         \/ t = Informer /\ RecordEvent
         \/ t \in Requests /\ RecordRequest(t)
  PROVE  /\ up /\ up' = up /\ primed' = primed /\ cm' = cm /\ saved' = saved
         /\ holder' = holder /\ copy' = copy /\ pc[t] = "idle"
         /\ pc' = [pc EXCEPT ![t] = "lock"]
         /\ \E j \in Job : /\ j.mttr => j.phase = "Succeeded"
                           /\ job' = [job EXCEPT ![t] = j]
                           /\ mem' = D!Plus(mem, Delta(j))
<1>1. CASE t = Informer /\ RecordEvent
  <2> DEFINE o == Head(queue)
             j == Outcome(o.phase, o.sync, o.lastFail)
  <2>1. o \in Application /\ o.phase \in Terminal
    BY <1>1, QueueHead DEF RecordEvent, Confirmed
  <2>2. o.sync \in Nat /\ o.lastFail \in Nat
    BY <2>1 DEF Application
  <2>3. j \in Job /\ (j.mttr => j.phase = "Succeeded")
    BY <2>1, <2>2, OutcomeIsJob
  <2> HIDE DEF j
  <2>4. job' = [job EXCEPT ![t] = j] /\ mem' = D!Plus(mem, Delta(j))
    BY <1>1 DEF RecordEvent, j
  <2> QED BY <1>1, <2>3, <2>4 DEF RecordEvent
<1>2. CASE t \in Requests /\ RecordRequest(t)
  <2>1. PICK known \in BOOLEAN :
          LET j == Outcome(post[t].phase, post[t].fin, IF known THEN lastFail ELSE 0)
          IN  job' = [job EXCEPT ![t] = j] /\ mem' = D!Plus(mem, Delta(j))
    BY <1>2 DEF RecordRequest
  <2> DEFINE j == Outcome(post[t].phase, post[t].fin, IF known THEN lastFail ELSE 0)
  <2>2. post[t].phase \in Terminal /\ post[t].fin \in Nat
    BY <1>2, Bounds DEF TypeOK, HandlersTypeOK
  <2>3. j \in Job /\ (j.mttr => j.phase = "Succeeded")
    BY <2>2, OutcomeIsJob DEF TypeOK, CountersTypeOK
  <2>4. job' = [job EXCEPT ![t] = j] /\ mem' = D!Plus(mem, Delta(j))
    BY <2>1
  <2> HIDE DEF j
  <2> QED BY <1>2, <2>3, <2>4 DEF RecordRequest
<1> QED BY <1>1, <1>2

LEMMA SettleFrame ==
  ASSUME NEW t \in Handlers,
         \/ t = Informer /\ SettleEvent
         \/ t \in Requests /\ SettleRequest(t)
  PROVE  /\ up' = up /\ primed' = primed /\ mem' = mem /\ cm' = cm /\ saved' = saved
         /\ holder' = holder /\ copy' = copy /\ pc[t] = "settle"
         /\ job' = [job EXCEPT ![t] = NoJob]
         /\ \E p \in {"idle", "done"} : pc' = [pc EXCEPT ![t] = p]
BY DEF SettleEvent, SettleRequest, state

\* The sum of a counter and one outcome counts one release more.
LEMMA PlusCounts ==
  ASSUME NEW c \in D!Counters, NEW j \in Job, j.mttr => j.phase = "Succeeded"
  PROVE  D!Plus(c, Delta(j)).ok + D!Plus(c, Delta(j)).bad = c.ok + c.bad + 1
<1>1. c.ok \in Nat /\ c.bad \in Nat
  BY DEF D!Counters
<1>2. Delta(j).ok \in Nat /\ Delta(j).bad \in Nat
  BY DEF Delta
<1>3. Delta(j).ok + Delta(j).bad = 1
  BY DeltaIsOutcome
<1> QED BY <1>1, <1>2, <1>3 DEF D!Plus

LEMMA InitPInv == Init => PInv
<1> SUFFICES ASSUME Init PROVE PInv
  OBVIOUS
<1>1. TypeOK
  BY InitTypes
<1>2. ExclusiveCopy
  BY DEF Init, ExclusiveCopy
<1>3. RestoreIsSuccess
  BY DEF Init, RestoreIsSuccess, NoJob
<1>4. NoSaveLost
  <2>1. cm.ok = 0 /\ cm.bad = 0 /\ saved = 0
    BY DEF Init, D!Zero
  <2> QED BY <2>1 DEF NoSaveLost
<1>5. HandlersNeedProcess
  BY DEF Init, HandlersNeedProcess
<1> QED BY <1>1, <1>2, <1>3, <1>4, <1>5 DEF PInv

LEMMA PInvInductive ==
  ASSUME PInv, [Next]_vars
  PROVE  PInv'
<1>1. TypeOK'
  BY EnvironmentTypes, CountersTypes, HandlersTypes DEF PInv, TypeOK
<1> USE DEF PInv, ExclusiveCopy, RestoreIsSuccess, HandlersNeedProcess, NoSaveLost
<1>2. CASE TaskStep \/ StartSync \/ FinishSync \/ Notify \/ IgnoreEvent
  BY <1>1, <1>2, EnvironmentFrame
<1>3. CASE Start
  BY <1>1, <1>3 DEF Start, handler
<1>4. CASE Crash
  <2>1. \A t \in Handlers : pc'[t] \in {"idle", "done"}
    BY <1>4 DEF Crash
  <2>2. \A t \in Handlers : job'[t] = NoJob
    BY <1>4 DEF Crash
  <2>3. cm' = cm /\ saved' = saved
    BY <1>4 DEF Crash
  <2> QED BY <1>1, <2>1, <2>2, <2>3 DEF NoJob
<1>5. ASSUME NEW t \in Handlers,
             \/ t = Informer /\ RecordEvent
             \/ t \in Requests /\ RecordRequest(t)
      PROVE  PInv'
  BY <1>1, <1>5, RecordFrame DEF TypeOK, HandlersTypeOK
<1>6. ASSUME NEW t \in Handlers,
             \/ t = Informer /\ SettleEvent
             \/ t \in Requests /\ SettleRequest(t)
      PROVE  PInv'
  <2>1. /\ up' = up /\ cm' = cm /\ saved' = saved /\ holder' = holder /\ copy' = copy
        /\ job' = [job EXCEPT ![t] = NoJob]
    BY <1>6, SettleFrame
  <2>2. PICK p \in {"idle", "done"} : pc' = [pc EXCEPT ![t] = p]
    BY <1>6, SettleFrame
  <2>3. ExclusiveCopy' /\ HandlersNeedProcess'
    BY <2>1, <2>2 DEF TypeOK, HandlersTypeOK
  <2>4. RestoreIsSuccess'
    BY <2>1 DEF TypeOK, HandlersTypeOK, NoJob
  <2> QED BY <1>1, <2>1, <2>3, <2>4
<1>7. ASSUME NEW t \in Handlers, LockAndGet(t) PROVE PInv'
  <2>1. up' = up /\ cm' = cm /\ saved' = saved /\ job' = job
    BY <1>7 DEF LockAndGet, state
  <2>2. \A u \in Handlers : pc[u] # "patch"
    BY <1>7 DEF LockAndGet, LockFree
  <2>3. ExclusiveCopy' /\ HandlersNeedProcess'
    <3>1. CASE /\ holder' = {t}
               /\ copy' = [copy EXCEPT ![t] = cm]
               /\ pc' = [pc EXCEPT ![t] = "patch"]
      BY <1>7, <2>1, <2>2, <3>1 DEF LockAndGet, TypeOK, HandlersTypeOK
    <3>2. CASE pc' = [pc EXCEPT ![t] = "settle"]
      BY <1>7, <2>1, <2>2, <3>2 DEF LockAndGet, TypeOK, HandlersTypeOK
    <3> QED BY <1>7, <3>1, <3>2 DEF LockAndGet
  <2> QED BY <1>1, <2>1, <2>3
<1>8. ASSUME NEW t \in Handlers, Patch(t) PROVE PInv'
  <2>1. copy[t] = cm /\ holder = {t} /\ cm \in D!Counters /\ job[t] \in Job
    BY <1>8 DEF Patch, TypeOK, HandlersTypeOK, CountersTypeOK
  <2>2. ExclusiveCopy'
    BY <1>8, <2>1 DEF Patch, TypeOK, HandlersTypeOK
  <2>3. RestoreIsSuccess'
    BY <1>8 DEF Patch
  <2>4. NoSaveLost'
    <3>1. CASE cm' = cm /\ saved' = saved
      BY <3>1
    <3>2. CASE cm' = D!Plus(copy[t], Delta(job[t])) /\ saved' = saved + 1
      <4>1. cm'.ok + cm'.bad = cm.ok + cm.bad + 1
        BY <2>1, <3>2, PlusCounts
      <4> QED BY <3>2, <4>1
    <3> QED BY <1>8, <3>1, <3>2 DEF Patch
  <2>5. HandlersNeedProcess'
    BY <1>8 DEF Patch, TypeOK, HandlersTypeOK
  <2> QED BY <1>1, <2>2, <2>3, <2>4, <2>5
<1>9. CASE UNCHANGED vars
  BY <1>1, <1>9 DEF vars
<1> QED BY <1>2, <1>3, <1>4, <1>5, <1>6, <1>7, <1>8, <1>9 DEF Next, TaskStep, Persist, Handlers

\* Whatever the number of handlers, the calls that fail and the crashes: a patch of
\* dora-metrics-state that succeeded is never overwritten.
THEOREM NoSaveIsLost == Spec => []NoSaveLost
<1>1. PInv /\ [Next]_vars => PInv'
  BY PInvInductive
<1>2. PInv => NoSaveLost
  BY DEF PInv
<1> QED BY <1>1, <1>2, InitPInv, PTL DEF Spec

-----------------------------------------------------------------------------
(***************************************************************************)
(* The store within the memory.  Inductive is that what is stored, with    *)
(* what the handlers before their Patch have recorded and not stored yet,  *)
(* is no more than what is shown.                                          *)
(***************************************************************************)

Fields == {"ok", "bad", "mttr"}

\* The handlers that still owe the store one in a field.
Owing(f) == {t \in Handlers : pc[t] \in {"lock", "patch"} /\ Delta(job[t])[f] = 1}

OwedWithinMemory ==
  up /\ primed => \A f \in Fields : cm[f] + Cardinality(Owing(f)) <= mem[f]

OInv == PInv /\ OwedWithinMemory

LEMMA OwingIsFinite ==
  ASSUME NEW f
  PROVE  IsFiniteSet(Owing(f)) /\ Cardinality(Owing(f)) \in Nat
<1>1. IsFiniteSet(Handlers)
  BY Bounds, FS_AddElement DEF Handlers
<1>2. Owing(f) \subseteq Handlers
  BY DEF Owing
<1> QED BY <1>1, <1>2, FS_Subset, FS_CardinalityType

LEMMA FieldTypes ==
  ASSUME NEW f \in Fields, NEW c \in D!Counters
  PROVE  c[f] \in Nat
BY DEF Fields, D!Counters

LEMMA DeltaField ==
  ASSUME NEW f \in Fields, NEW j
  PROVE  Delta(j)[f] \in {0, 1}
BY DEF Fields, Delta

LEMMA PlusField ==
  ASSUME NEW f \in Fields, NEW c, NEW o
  PROVE  D!Plus(c, o)[f] = c[f] + o[f]
BY DEF Fields, D!Plus

\* A handler that records comes to owe what it recorded.
LEMMA RecordOwes ==
  ASSUME NEW f \in Fields, NEW t \in Handlers, pc[t] = "idle", NEW j,
         pc \in [Handlers -> {"idle", "lock", "patch", "settle", "done"}],
         job \in [Handlers -> Job],
         pc' = [pc EXCEPT ![t] = "lock"], job' = [job EXCEPT ![t] = j]
  PROVE  Cardinality(Owing(f)') = Cardinality(Owing(f)) + Delta(j)[f]
<1>1. t \notin Owing(f)
  BY DEF Owing
<1>2. /\ \A u \in Handlers : u # t => pc'[u] = pc[u] /\ job'[u] = job[u]
      /\ pc'[t] = "lock" /\ job'[t] = j
  OBVIOUS
<1>3. CASE Delta(j)[f] = 1
  <2>1. Owing(f)' = Owing(f) \union {t}
    BY <1>2, <1>3 DEF Owing, Delta
  <2> QED BY <1>1, <1>3, <2>1, OwingIsFinite, FS_AddElement
<1>4. CASE Delta(j)[f] = 0
  <2>1. Owing(f)' = Owing(f)
    BY <1>2, <1>4 DEF Owing, Delta
  <2> QED BY <1>4, <2>1, OwingIsFinite
<1> QED BY <1>3, <1>4, DeltaField

\* A handler that leaves persistMetricsState owes nothing any more.
LEMMA LeaveSettles ==
  ASSUME NEW f \in Fields, NEW t \in Handlers, pc[t] \in {"lock", "patch"},
         pc \in [Handlers -> {"idle", "lock", "patch", "settle", "done"}],
         pc' = [pc EXCEPT ![t] = "settle"], job' = job
  PROVE  Cardinality(Owing(f)') + Delta(job[t])[f] = Cardinality(Owing(f))
<1>1. /\ \A u \in Handlers : u # t => pc'[u] = pc[u]
      /\ pc'[t] = "settle"
  OBVIOUS
<1>2. CASE Delta(job[t])[f] = 1
  <2>1. t \in Owing(f) /\ Owing(f)' = Owing(f) \ {t}
    BY <1>1, <1>2 DEF Owing
  <2>2. Cardinality(Owing(f) \ {t}) = Cardinality(Owing(f)) - 1
    BY <2>1, OwingIsFinite, FS_RemoveElement
  <2> QED BY <1>2, <2>1, <2>2, OwingIsFinite
<1>3. CASE Delta(job[t])[f] = 0
  <2>1. Owing(f)' = Owing(f)
    BY <1>1, <1>3 DEF Owing
  <2> QED BY <1>3, <2>1, OwingIsFinite
<1> QED BY <1>2, <1>3, DeltaField

LEMMA OInvInductive ==
  ASSUME OInv, [Next]_vars
  PROVE  OInv'
<1>1. PInv'
  BY PInvInductive DEF OInv
<1>2. /\ cm \in D!Counters /\ mem \in D!Counters
      /\ pc \in [Handlers -> {"idle", "lock", "patch", "settle", "done"}]
      /\ job \in [Handlers -> Job]
  BY DEF OInv, PInv, TypeOK, CountersTypeOK, HandlersTypeOK
<1>3. \A f \in Fields : /\ cm[f] \in Nat /\ mem[f] \in Nat /\ Cardinality(Owing(f)) \in Nat
                        /\ \A j : Delta(j)[f] \in {0, 1}
  BY <1>2, FieldTypes, OwingIsFinite, DeltaField
<1> USE DEF OInv
<1>4. CASE TaskStep \/ StartSync \/ FinishSync \/ Notify \/ IgnoreEvent
  <2>1. UNCHANGED <<up, primed, mem, cm, pc, job>>
    BY <1>4, EnvironmentFrame
  <2> QED BY <1>1, <2>1 DEF OwedWithinMemory, Owing, Delta
<1>5. CASE Start
  <2>1. cm' = cm /\ pc' = pc /\ (primed' => mem' = cm)
    BY <1>5 DEF Start, handler, Rehydrated
  <2>2. \A f : Owing(f)' = {}
    BY <1>5, <2>1 DEF Start, PInv, HandlersNeedProcess, Owing
  <2>3. Cardinality({}) = 0
    BY FS_EmptySet
  <2> QED BY <1>1, <1>3, <2>1, <2>2, <2>3 DEF OwedWithinMemory
<1>6. CASE Crash
  BY <1>1, <1>6 DEF Crash, OwedWithinMemory
<1>7. ASSUME NEW t \in Handlers,
             \/ t = Informer /\ RecordEvent
             \/ t \in Requests /\ RecordRequest(t)
      PROVE  OInv'
  <2>1. /\ up' = up /\ primed' = primed /\ cm' = cm /\ pc[t] = "idle"
        /\ pc' = [pc EXCEPT ![t] = "lock"]
    BY <1>7, RecordFrame DEF PInv
  <2>2. PICK j \in Job : job' = [job EXCEPT ![t] = j] /\ mem' = D!Plus(mem, Delta(j))
    BY <1>7, RecordFrame DEF PInv
  <2>3. ASSUME NEW f \in Fields, up, primed PROVE cm[f] + Cardinality(Owing(f)') <= mem'[f]
    <3>1. Cardinality(Owing(f)') = Cardinality(Owing(f)) + Delta(j)[f]
      BY <1>2, <2>1, <2>2, RecordOwes
    <3>2. mem'[f] = mem[f] + Delta(j)[f]
      BY <2>2, PlusField
    <3>3. cm[f] + Cardinality(Owing(f)) <= mem[f]
      BY <2>3 DEF OwedWithinMemory
    <3> QED BY <1>3, <3>1, <3>2, <3>3
  <2> QED BY <1>1, <2>1, <2>3 DEF OwedWithinMemory
<1>8. ASSUME NEW t \in Handlers,
             \/ t = Informer /\ SettleEvent
             \/ t \in Requests /\ SettleRequest(t)
      PROVE  OInv'
  <2>1. /\ up' = up /\ primed' = primed /\ mem' = mem /\ cm' = cm /\ pc[t] = "settle"
        /\ job' = [job EXCEPT ![t] = NoJob]
    BY <1>8, SettleFrame
  <2>2. PICK p \in {"idle", "done"} : pc' = [pc EXCEPT ![t] = p]
    BY <1>8, SettleFrame
  <2>3. \A f : Owing(f)' = Owing(f)
    BY <1>2, <2>1, <2>2 DEF Owing, Delta
  <2> QED BY <1>1, <2>1, <2>3 DEF OwedWithinMemory
<1>9. ASSUME NEW t \in Handlers, LockAndGet(t) PROVE OInv'
  <2>1. UNCHANGED <<up, primed, mem, cm, job>> /\ pc[t] = "lock"
    BY <1>9 DEF LockAndGet, state
  <2>2. CASE pc' = [pc EXCEPT ![t] = "patch"]
    <3>1. \A f : Owing(f)' = Owing(f)
      BY <1>2, <2>1, <2>2 DEF Owing, Delta
    <3> QED BY <1>1, <2>1, <3>1 DEF OwedWithinMemory
  <2>3. CASE pc' = [pc EXCEPT ![t] = "settle"]
    <3>1. ASSUME NEW f \in Fields, up, primed PROVE cm[f] + Cardinality(Owing(f)') <= mem[f]
      <4>1. Cardinality(Owing(f)') + Delta(job[t])[f] = Cardinality(Owing(f))
        BY <1>2, <2>1, <2>3, LeaveSettles
      <4>2. Owing(f)' \subseteq Owing(f)
        BY <1>2, <2>1, <2>3 DEF Owing, Delta
      <4>3. Cardinality(Owing(f)') \in Nat /\ Cardinality(Owing(f)') <= Cardinality(Owing(f))
        BY <4>2, OwingIsFinite, FS_Subset, FS_CardinalityType
      <4>4. cm[f] + Cardinality(Owing(f)) <= mem[f]
        BY <3>1 DEF OwedWithinMemory
      <4> QED BY <1>3, <4>3, <4>4
    <3> QED BY <1>1, <2>1, <3>1 DEF OwedWithinMemory
  <2> QED BY <1>9, <2>2, <2>3 DEF LockAndGet
<1>10. ASSUME NEW t \in Handlers, Patch(t) PROVE OInv'
  <2>1. /\ UNCHANGED <<up, primed, mem, job>> /\ pc[t] = "patch" /\ copy[t] = cm
        /\ pc' = [pc EXCEPT ![t] = "settle"]
    BY <1>10 DEF Patch, PInv, ExclusiveCopy
  <2>2. cm' = cm \/ cm' = D!Plus(cm, Delta(job[t]))
    BY <1>10, <2>1 DEF Patch
  <2>3. ASSUME NEW f \in Fields, up, primed PROVE cm'[f] + Cardinality(Owing(f)') <= mem[f]
    <3>1. Cardinality(Owing(f)') + Delta(job[t])[f] = Cardinality(Owing(f))
      BY <1>2, <2>1, LeaveSettles
    <3>2. cm'[f] = cm[f] \/ cm'[f] = cm[f] + Delta(job[t])[f]
      BY <2>2, PlusField
    <3>3. cm[f] + Cardinality(Owing(f)) <= mem[f]
      BY <2>3 DEF OwedWithinMemory
    <3>4. Owing(f)' \subseteq Owing(f)
      BY <1>2, <2>1 DEF Owing, Delta
    <3>5. Cardinality(Owing(f)') \in Nat
      BY <3>4, OwingIsFinite, FS_Subset, FS_CardinalityType
    <3> QED BY <1>3, <3>1, <3>2, <3>3, <3>5
  <2> QED BY <1>1, <2>1, <2>3 DEF OwedWithinMemory
<1>11. CASE UNCHANGED vars
  <2>1. UNCHANGED <<up, primed, mem, cm, pc, job>>
    BY <1>11 DEF vars
  <2> QED BY <1>1, <2>1 DEF OwedWithinMemory, Owing, Delta
<1> QED BY <1>4, <1>5, <1>6, <1>7, <1>8, <1>9, <1>10, <1>11 DEF Next, TaskStep, Persist, Handlers

\* Once the counters were rehydrated, what is scraped is never less than what is stored: every
\* outcome is in memory before it is in the store, whoever of the handlers persists first.
THEOREM StoreIsWithinMemory == Spec => []StoreWithinMemory
<1>1. Init => OInv
  BY InitPInv DEF OInv, OwedWithinMemory, Init
<1>2. OInv => StoreWithinMemory
  <2> SUFFICES ASSUME OInv, up, primed, NEW f \in Fields PROVE cm[f] <= mem[f]
    BY DEF StoreWithinMemory, Fields
  <2>1. cm \in D!Counters /\ mem \in D!Counters
    BY DEF OInv, PInv, TypeOK, CountersTypeOK
  <2>2. cm[f] \in Nat /\ mem[f] \in Nat /\ Cardinality(Owing(f)) \in Nat
    BY <2>1, FieldTypes, OwingIsFinite
  <2>3. cm[f] + Cardinality(Owing(f)) <= mem[f]
    BY DEF OInv, OwedWithinMemory
  <2> QED BY <2>2, <2>3
<1>3. OInv /\ [Next]_vars => OInv'
  BY OInvInductive
<1> QED BY <1>1, <1>2, <1>3, PTL DEF Spec

-----------------------------------------------------------------------------
(***************************************************************************)
(* The refinement.                                                         *)
(***************************************************************************)

\* The exporter implements DurableCounter: each of its steps observes an outcome, saves one,
\* stops or restarts the counter, or does not show.
THEOREM ExporterIsDurable == Spec => CountersAreDurable
<1>1. Init => D!Init
  BY DEF Init, D!Init
<1>2. PInv /\ [Next]_vars => D!Next \/ UNCHANGED D!vars
  <2> SUFFICES ASSUME PInv, [Next]_vars PROVE D!Next \/ UNCHANGED D!vars
    OBVIOUS
  <2> USE DEF PInv
  <2>1. CASE TaskStep \/ StartSync \/ FinishSync \/ Notify \/ IgnoreEvent
    BY <2>1, EnvironmentFrame DEF D!vars
  <2>2. CASE Start
    BY <2>2 DEF Start, Rehydrated, D!Next, D!Boot
  <2>3. CASE Crash
    BY <2>3 DEF Crash, D!Next, D!Stop
  <2>4. ASSUME NEW t \in Handlers,
               \/ t = Informer /\ RecordEvent
               \/ t \in Requests /\ RecordRequest(t)
        PROVE  D!Observe
    <3>1. PICK j \in Job : (j.mttr => j.phase = "Succeeded") /\ mem' = D!Plus(mem, Delta(j))
      BY <2>4, RecordFrame
    <3>2. Delta(j) \in D!Outcomes
      BY <3>1, DeltaIsOutcome
    <3>3. up /\ up' = up /\ cm' = cm
      BY <2>4, RecordFrame
    <3> QED BY <3>1, <3>2, <3>3 DEF D!Observe
  <2>5. ASSUME NEW t \in Handlers,
               \/ t = Informer /\ SettleEvent
               \/ t \in Requests /\ SettleRequest(t)
        PROVE  UNCHANGED D!vars
    BY <2>5, SettleFrame DEF D!vars
  <2>6. ASSUME NEW t \in Handlers, LockAndGet(t) PROVE UNCHANGED D!vars
    BY <2>6 DEF LockAndGet, state, D!vars
  <2>7. ASSUME NEW t \in Handlers, Patch(t) PROVE D!Next \/ UNCHANGED D!vars
    <3>1. copy[t] = cm /\ Delta(job[t]) \in D!Outcomes
      BY <2>7, DeltaIsOutcome
         DEF Patch, ExclusiveCopy, RestoreIsSuccess, TypeOK, HandlersTypeOK
    <3>2. mem' = mem /\ up' = up
      BY <2>7 DEF Patch
    <3>3. up
      BY <2>7 DEF Patch, HandlersNeedProcess
    <3> QED BY <2>7, <3>1, <3>2, <3>3 DEF Patch, D!Next, D!Save, D!vars
  <2>8. CASE UNCHANGED vars
    BY <2>8 DEF vars, D!vars
  <2> QED BY <2>1, <2>2, <2>3, <2>4, <2>5, <2>6, <2>7, <2>8 DEF Next, TaskStep, Persist, Handlers, D!Next
<1>3. PInv /\ [Next]_vars => PInv'
  BY PInvInductive
<1> QED BY <1>1, <1>2, <1>3, InitPInv, PTL DEF Spec, CountersAreDurable, D!Spec

-----------------------------------------------------------------------------
(***************************************************************************)
(* The baseline.                                                           *)
(*                                                                         *)
(* The handler works from snapshots, some of them overtaken.  Each carries *)
(* the baseline that was read by the run it is marked by, because readAt   *)
(* only changes for a run that has stamped nothing yet, and none has seen  *)
(* more syncs than there are.                                              *)
(***************************************************************************)

\* What the handler may still be told of the Application: as it is now, and as it was when
\* the notifications in its queue were made.
Snapshots == {app} \union {queue[i] : i \in 1 .. Len(queue)}

Stamped(o) == o.mark # 0 => task[o.mark].pc = "done"

Dated(o) ==
  /\ o.sync <= app.sync
  /\ o.phase # "" => o.sync > 0

Based(o) ==
  o.mark # 0 /\ o.mark \notin misread => o.baseline = readAt[o.mark]

SnapshotOK(o) == Stamped(o) /\ Dated(o) /\ Based(o)

BaselineHeld ==
  \A m \in Marks \ misread : task[m].pc = "annotate" => task[m].base = readAt[m]

RunsBegan == \A m \in seen \union misread : task[m].pc # "idle"

BInv ==
  /\ TypeOK
  /\ \A o \in Snapshots : SnapshotOK(o)
  /\ BaselineHeld
  /\ RunsBegan
  /\ NotBeforeMark

LEMMA SnapshotTypes ==
  ASSUME TypeOK, NEW o \in Snapshots
  PROVE  /\ o \in Application
         /\ o.mark \in Nat /\ o.sync \in Nat /\ o.baseline \in Nat
         /\ o.mark # 0 => o.mark \in Marks
<1>1. o \in Application
  BY DEF Snapshots, TypeOK, EnvironmentTypeOK
<1>2. o.mark \in 0 .. MaxMarks /\ o.sync \in Nat /\ o.baseline \in Nat
  BY <1>1 DEF Application
<1> QED BY <1>1, <1>2, Bounds DEF Marks

LEMMA MarkNotZero == 0 \notin Marks
BY Bounds DEF Marks

\* A change of the Application adds one snapshot; taking the first event adds none.
LEMMA ChangeSnapshots ==
  ASSUME TypeOK, NEW o \in Application, Change(o)
  PROVE  Snapshots' \subseteq Snapshots \union {o}
<1>1. queue \in Seq(Application)
  BY DEF TypeOK, EnvironmentTypeOK
<1>2. CASE queue' = Append(queue, o)
  <2>1. /\ Len(queue') = Len(queue) + 1
        /\ \A i \in 1 .. Len(queue) : queue'[i] = queue[i]
        /\ queue'[Len(queue) + 1] = o
        /\ Len(queue) \in Nat
    BY <1>1, <1>2
  <2>2. \A i \in 1 .. Len(queue') : i \in 1 .. Len(queue) \/ i = Len(queue) + 1
    BY <2>1
  <2> QED BY <2>1, <2>2 DEF Snapshots, Change
<1>3. CASE queue' = queue
  BY <1>3 DEF Snapshots, Change
<1> QED BY <1>2, <1>3 DEF Change

LEMMA TailSnapshots ==
  ASSUME TypeOK, queue # << >>, queue' = Tail(queue), app' = app
  PROVE  Snapshots' \subseteq Snapshots /\ Head(queue) \in Snapshots
<1>1. queue \in Seq(Application)
  BY DEF TypeOK, EnvironmentTypeOK
<1>2. /\ Len(queue) \in Nat \ {0}
      /\ Len(Tail(queue)) = Len(queue) - 1
      /\ \A i \in 1 .. Len(queue) - 1 : Tail(queue)[i] = queue[i + 1]
      /\ Head(queue) = queue[1]
  BY <1>1
<1>3. \A i \in 1 .. Len(queue) - 1 : i + 1 \in 1 .. Len(queue)
  BY <1>2
<1>4. 1 \in 1 .. Len(queue)
  BY <1>2
<1> QED BY <1>2, <1>3, <1>4 DEF Snapshots


\* A step that marks nothing preserves the invariant if its new snapshots are in order.
LEMMA QuietStep ==
  ASSUME BInv, TypeOK', UNCHANGED <<task, misread, readAt, seen>>,
         app'.sync >= app.sync,
         \A o \in Snapshots' : o \in Snapshots \/ SnapshotOK(o)'
  PROVE  BInv'
<1>1. app.sync \in Nat /\ app'.sync \in Nat
  BY DEF BInv, TypeOK, EnvironmentTypeOK, Application
<1>2. ASSUME NEW o \in Snapshots' PROVE SnapshotOK(o)'
  <2>1. CASE o \in Snapshots
    <3>1. SnapshotOK(o) /\ o.sync \in Nat
      BY <2>1, SnapshotTypes DEF BInv
    <3>2. Stamped(o)' /\ Based(o)'
      BY <3>1 DEF SnapshotOK, Stamped, Based
    <3>3. o.sync <= app'.sync
      <4>1. o.sync <= app.sync
        BY <3>1 DEF SnapshotOK, Dated
      <4>2. o.sync \in Nat
        BY <3>1
      <4> QED BY <1>1, <4>1, <4>2
    <3>4. Dated(o)'
      BY <3>1, <3>3 DEF SnapshotOK, Dated
    <3> QED BY <3>2, <3>4 DEF SnapshotOK
  <2> QED BY <1>2, <2>1
<1>3. BaselineHeld' /\ RunsBegan'
  BY DEF BInv, BaselineHeld, RunsBegan
<1>4. NotBeforeMark'
  <2>1. \A m \in seen \ misread : readAt[m] \in Nat
    BY DEF BInv, TypeOK, EnvironmentTypeOK, CountersTypeOK
  <2> QED BY <1>1, <2>1 DEF BInv, NotBeforeMark
<1> QED BY <1>2, <1>3, <1>4 DEF BInv

LEMMA SkipMarkStep ==
  ASSUME BInv, TypeOK', NEW m \in Marks, SkipMark(m)
  PROVE  BInv'
<1>1. /\ \A n \in Marks : n # m => task'[n] = task[n]
      /\ task'[m].pc = "done"
  BY DEF BInv, TypeOK, EnvironmentTypeOK, SkipMark
<1>2. app' = app /\ Snapshots' = Snapshots /\ misread' = misread /\ readAt' = readAt /\ seen' = seen
  BY DEF SkipMark, ghosts, Snapshots
<1>3. \A o \in Snapshots : SnapshotOK(o)'
  <2> SUFFICES ASSUME NEW o \in Snapshots PROVE SnapshotOK(o)'
    OBVIOUS
  <2>1. SnapshotOK(o) /\ (o.mark # 0 => o.mark \in Marks)
    BY SnapshotTypes DEF BInv
  <2>2. Stamped(o)'
    BY <1>1, <2>1 DEF SnapshotOK, Stamped
  <2> QED BY <1>2, <2>1, <2>2 DEF SnapshotOK, Dated, Based
<1>4. BaselineHeld'
  BY <1>1, <1>2 DEF BInv, BaselineHeld
<1>5. RunsBegan'
  BY <1>1, <1>2 DEF BInv, RunsBegan, TypeOK, EnvironmentTypeOK, CountersTypeOK
<1> QED BY <1>2, <1>3, <1>4, <1>5 DEF BInv, NotBeforeMark

LEMMA ReadBaselineStep ==
  ASSUME BInv, TypeOK', NEW m \in Marks, ReadBaseline(m)
  PROVE  BInv'
<1>1. /\ task[m].pc = "idle"
      /\ \A n \in Marks : n # m => task'[n] = task[n] /\ readAt'[n] = readAt[n]
      /\ task'[m].pc = "annotate" /\ readAt'[m] = app.sync
      /\ \/ misread' = misread /\ task'[m].base = app.sync
         \/ misread' = misread \union {m}
  BY DEF BInv, TypeOK, EnvironmentTypeOK, ReadBaseline, Begin
<1>2. app' = app /\ Snapshots' = Snapshots /\ seen' = seen
  BY DEF ReadBaseline, ghosts, Snapshots
<1>3. ASSUME NEW o \in Snapshots PROVE SnapshotOK(o)'
  <2>1. SnapshotOK(o) /\ (o.mark # 0 => o.mark \in Marks)
    BY <1>1, SnapshotTypes DEF BInv
  <2>2. o.mark # m
    BY <1>1, <2>1, MarkNotZero DEF SnapshotOK, Stamped
  <2>3. Stamped(o)' /\ Dated(o)'
    BY <1>1, <1>2, <2>1, <2>2 DEF SnapshotOK, Stamped, Dated
  <2>4. Based(o)'
    BY <1>1, <2>1, <2>2 DEF SnapshotOK, Based
  <2> QED BY <2>3, <2>4 DEF SnapshotOK
<1>4. BaselineHeld'
  BY <1>1 DEF BInv, BaselineHeld
<1>5. RunsBegan'
  BY <1>1, <1>2 DEF BInv, RunsBegan, TypeOK, EnvironmentTypeOK, CountersTypeOK
<1>6. NotBeforeMark'
  <2>1. \A n \in seen : n \in Marks /\ n # m
    BY <1>1 DEF BInv, RunsBegan, TypeOK, CountersTypeOK
  <2> QED BY <1>1, <1>2, <2>1 DEF BInv, NotBeforeMark
<1>7. \A o \in Snapshots' : SnapshotOK(o)'
  BY <1>2, <1>3
<1> QED BY <1>4, <1>5, <1>6, <1>7 DEF BInv

LEMMA AnnotateStep ==
  ASSUME BInv, TypeOK', NEW m \in Marks, Annotate(m)
  PROVE  BInv'
<1>1. /\ task[m].pc = "annotate"
      /\ \A n \in Marks : n # m => task'[n] = task[n]
      /\ task'[m].pc = "done"
      /\ UNCHANGED <<misread, readAt, seen>>
  BY DEF BInv, TypeOK, EnvironmentTypeOK, Annotate, ghosts
<1>2. \A o : Stamped(o) /\ (o.mark # 0 => o.mark \in Marks) => Stamped(o)'
  BY <1>1 DEF Stamped
<1>3. BaselineHeld' /\ RunsBegan'
  BY <1>1 DEF BInv, BaselineHeld, RunsBegan, TypeOK, EnvironmentTypeOK, CountersTypeOK
<1>4. app' = app \/ (app'.sync = app.sync /\ app'.mark = m)
  BY DEF BInv, TypeOK, EnvironmentTypeOK, Application, Annotate, Change
<1>5. app'.sync = app.sync
  BY <1>4
<1>6. ASSUME NEW o \in Snapshots PROVE SnapshotOK(o)'
  <2>1. SnapshotOK(o) /\ (o.mark # 0 => o.mark \in Marks)
    BY SnapshotTypes DEF BInv
  <2>2. Stamped(o)'
    BY <1>2, <2>1 DEF SnapshotOK
  <2> QED BY <1>1, <1>5, <2>1, <2>2 DEF SnapshotOK, Dated, Based
<1>7. \A o \in Snapshots' : SnapshotOK(o)'
  <2>1. CASE UNCHANGED <<app, queue>>
    BY <1>6, <2>1 DEF Snapshots
  <2>2. CASE Change([app EXCEPT !.mark = m, !.baseline = task[m].base])
    <3>1. PICK n \in Application :
            /\ n.mark = m /\ n.baseline = task[m].base
            /\ n.sync = app.sync /\ n.phase = app.phase
            /\ Change(n)
      <4> DEFINE n == [app EXCEPT !.mark = m, !.baseline = task[m].base]
      <4>1. app \in Application /\ m \in 0 .. MaxMarks /\ task[m].base \in Nat
        BY Bounds DEF BInv, TypeOK, EnvironmentTypeOK, Marks
      <4>2. n \in Application
        BY <4>1 DEF Application
      <4>3. /\ n.mark = m /\ n.baseline = task[m].base
            /\ n.sync = app.sync /\ n.phase = app.phase
        BY <4>1 DEF Application
      <4> QED BY <2>2, <4>2, <4>3
    <3>5. Snapshots' \subseteq Snapshots \union {n}
      BY <3>1, ChangeSnapshots DEF BInv
    <3>6. Stamped(n)' /\ Based(n)'
      BY <1>1, <3>1 DEF BInv, BaselineHeld, Stamped, Based
    <3>7. Dated(n)'
      BY <1>5, <3>1 DEF BInv, SnapshotOK, Dated, Snapshots
    <3> QED BY <1>6, <3>5, <3>6, <3>7 DEF SnapshotOK
  <2> QED BY <2>1, <2>2 DEF Annotate
<1>8. NotBeforeMark'
  BY <1>1, <1>5 DEF BInv, NotBeforeMark
<1> QED BY <1>3, <1>7, <1>8 DEF BInv

LEMMA RecordEventStep ==
  ASSUME BInv, TypeOK', RecordEvent
  PROVE  BInv'
<1> DEFINE o == Head(queue)
<1>1. o \in Snapshots /\ Snapshots' \subseteq Snapshots /\ Confirmed(o)
  BY TailSnapshots DEF BInv, RecordEvent
<1>2. SnapshotOK(o) /\ o.mark \in Nat /\ o.sync \in Nat /\ o.baseline \in Nat
  BY <1>1, SnapshotTypes DEF BInv
<1>3. app' = app /\ seen' = seen \union {o.mark} /\ UNCHANGED <<task, misread, readAt>>
  BY DEF RecordEvent, ci
<1> HIDE DEF o
<1>4. \A s \in Snapshots' : SnapshotOK(s)'
  BY <1>1, <1>3 DEF BInv, SnapshotOK, Stamped, Dated, Based
<1>5. BaselineHeld'
  BY <1>3 DEF BInv, BaselineHeld
<1>6. RunsBegan'
  BY <1>1, <1>2, <1>3 DEF BInv, RunsBegan, SnapshotOK, Stamped, Confirmed
<1>7. o.mark \notin misread => app.sync > readAt[o.mark]
  <2> SUFFICES ASSUME o.mark \notin misread PROVE app.sync > readAt[o.mark]
    OBVIOUS
  <2>1. o.baseline = readAt[o.mark] /\ o.sync <= app.sync /\ o.sync > 0
    BY <1>1, <1>2 DEF SnapshotOK, Dated, Based, Confirmed, Terminal
  <2>2. o.sync > o.baseline
    BY <1>1, <1>2, <2>1 DEF Confirmed
  <2>3. app.sync \in Nat
    BY DEF BInv, TypeOK, EnvironmentTypeOK, Application
  <2> QED BY <1>2, <2>1, <2>2, <2>3
<1>8. NotBeforeMark'
  BY <1>3, <1>7 DEF BInv, NotBeforeMark
<1> QED BY <1>4, <1>5, <1>6, <1>8 DEF BInv

\* What the steps that write the Application without marking it do.
LEMMA StartSyncStep ==
  ASSUME BInv, TypeOK', StartSync
  PROVE  BInv'
<1>1. PICK n \in Application :
        /\ n.mark = app.mark /\ n.baseline = app.baseline
        /\ n.sync = app.sync + 1
        /\ Change(n)
  <2> DEFINE n == [app EXCEPT !.phase = "Running", !.sync = @ + 1]
  <2>1. n \in Application
    <3>1. app \in Application
      BY DEF BInv, TypeOK, EnvironmentTypeOK
    <3>2. app.sync \in Nat
      BY <3>1 DEF Application
    <3>3. app.sync + 1 \in Nat
      BY <3>2
    <3> QED BY <3>1, <3>3 DEF Application
  <2>2. n.mark = app.mark /\ n.baseline = app.baseline /\ n.sync = app.sync + 1
    BY DEF BInv, TypeOK, EnvironmentTypeOK, Application
  <2>3. Change(n)
    BY DEF StartSync
  <2> QED BY <2>1, <2>2, <2>3
<1>2. app' = n /\ UNCHANGED <<task, misread, readAt, seen>>
  BY <1>1 DEF StartSync, Change, ci, ghosts
<1>3. SnapshotOK(app) /\ app.sync \in Nat
  BY SnapshotTypes DEF BInv, Snapshots
<1>4. SnapshotOK(n)'
  <2>1. Stamped(n)' /\ Based(n)'
    BY <1>1, <1>2, <1>3 DEF SnapshotOK, Stamped, Based
  <2>2. Dated(n)'
    <3>1. n.sync \in Nat /\ n.sync > 0
      BY <1>1, <1>3
    <3>2. app'.sync = n.sync
      BY <1>2
    <3>3. n.sync <= app'.sync
      BY <3>1, <3>2
    <3> QED BY <3>1, <3>3 DEF Dated
  <2> QED BY <2>1, <2>2 DEF SnapshotOK
<1>5. \A o \in Snapshots' : o \in Snapshots \/ SnapshotOK(o)'
  BY <1>1, <1>4, ChangeSnapshots DEF BInv
<1>6. app'.sync >= app.sync
  BY <1>1, <1>2, <1>3
<1> QED BY <1>2, <1>5, <1>6, QuietStep

LEMMA FinishSyncStep ==
  ASSUME BInv, TypeOK', FinishSync
  PROVE  BInv'
<1>1. PICK n \in Application :
        /\ n.mark = app.mark /\ n.baseline = app.baseline /\ n.sync = app.sync
        /\ Change(n)
  <2> USE DEF Terminal
  <2>1. PICK p \in Terminal : Change([app EXCEPT !.phase = p])
    BY DEF FinishSync
  <2> DEFINE n == [app EXCEPT !.phase = p]
  <2>2. n \in Application
    <3>1. app \in Application
      BY DEF BInv, TypeOK, EnvironmentTypeOK
    <3> QED BY <2>1, <3>1 DEF Application
  <2>3. n.mark = app.mark /\ n.baseline = app.baseline /\ n.sync = app.sync
    BY DEF BInv, TypeOK, EnvironmentTypeOK, Application
  <2> QED BY <2>1, <2>2, <2>3
<1>2. app' = n /\ UNCHANGED <<task, misread, readAt, seen>>
  BY <1>1 DEF FinishSync, Change, ci, ghosts
<1>3. SnapshotOK(app) /\ app.sync \in Nat /\ app.phase = "Running"
  BY SnapshotTypes DEF BInv, Snapshots, FinishSync
<1>4. SnapshotOK(n)'
  <2>1. Stamped(n)' /\ Based(n)'
    BY <1>1, <1>2, <1>3 DEF SnapshotOK, Stamped, Based
  <2>2. app.sync > 0
    BY <1>3 DEF SnapshotOK, Dated
  <2>3. Dated(n)'
    <3>1. n.sync \in Nat /\ n.sync > 0
      BY <1>1, <1>3, <2>2
    <3>2. app'.sync = n.sync
      BY <1>2
    <3>3. n.sync <= app'.sync
      BY <3>1, <3>2
    <3> QED BY <3>1, <3>3 DEF Dated
  <2> QED BY <2>1, <2>3 DEF SnapshotOK
<1>5. \A o \in Snapshots' : o \in Snapshots \/ SnapshotOK(o)'
  BY <1>1, <1>4, ChangeSnapshots DEF BInv
<1>6. app'.sync >= app.sync
  BY <1>1, <1>2, <1>3
<1> QED BY <1>2, <1>5, <1>6, QuietStep

LEMMA SettleEventStep ==
  ASSUME BInv, TypeOK', SettleEvent
  PROVE  BInv'
<1>1. UNCHANGED <<task, misread, readAt, seen>>
  BY DEF SettleEvent, ci, ghosts
<1>2. SnapshotOK(app) /\ app.sync \in Nat
  BY SnapshotTypes DEF BInv, Snapshots
<1>3. CASE app' = app /\ queue' = queue
  BY <1>1, <1>2, <1>3, QuietStep DEF Snapshots
<1>4. CASE Change([app EXCEPT !.mark = 0, !.lastFail = LastFailAfter(job[Informer], @)])
  <2>1. PICK n \in Application :
          /\ n.mark = 0 /\ n.phase = app.phase /\ n.sync = app.sync
          /\ Change(n)
    <3> DEFINE n == [app EXCEPT !.mark = 0, !.lastFail = LastFailAfter(job[Informer], @)]
    <3>1. LastFailAfter(job[Informer], app.lastFail) \in Nat
      BY LastFailAfterType
         DEF BInv, TypeOK, EnvironmentTypeOK, HandlersTypeOK, Handlers, Application
    <3>2. app \in Application /\ 0 \in 0 .. MaxMarks
      BY Bounds DEF BInv, TypeOK, EnvironmentTypeOK
    <3>3. n \in Application
      BY <3>1, <3>2 DEF Application
    <3>4. n.mark = 0 /\ n.phase = app.phase /\ n.sync = app.sync
      BY <3>2 DEF Application
    <3> QED BY <1>4, <3>3, <3>4
  <2>2. app' = n
    BY <2>1 DEF Change
  <2>5. SnapshotOK(n)'
    <3>1. Stamped(n)' /\ Based(n)'
      BY <2>1 DEF Stamped, Based
    <3>2. n.sync \in Nat /\ app'.sync = n.sync
      BY <1>2, <2>1, <2>2
    <3>3. n.phase # "" => n.sync > 0
      BY <1>2, <2>1 DEF SnapshotOK, Dated
    <3>4. n.sync <= app'.sync
      BY <3>2
    <3>5. Dated(n)'
      BY <3>3, <3>4 DEF Dated
    <3> QED BY <3>1, <3>5 DEF SnapshotOK
  <2>6. \A o \in Snapshots' : o \in Snapshots \/ SnapshotOK(o)'
    BY <2>1, <2>5, ChangeSnapshots DEF BInv
  <2>7. app'.sync >= app.sync
    BY <1>2, <2>1, <2>2
  <2> QED BY <1>1, <2>6, <2>7, QuietStep
<1> QED BY <1>3, <1>4 DEF SettleEvent

\* The other steps add no snapshot that is not the Application as it is.
LEMMA UnmarkedStep ==
  ASSUME BInv, TypeOK', app' = app, UNCHANGED <<task, misread, readAt, seen>>,
         \/ queue' \in {queue, Append(queue, app), << >>, <<app>>}
         \/ queue # << >> /\ queue' = Tail(queue)
  PROVE  BInv'
<1>1. app.sync \in Nat /\ app'.sync >= app.sync /\ app \in Application
  BY SnapshotTypes DEF BInv, Snapshots
<1>2. Snapshots' \subseteq Snapshots
  <2>1. CASE queue' = queue
    BY <2>1 DEF Snapshots
  <2>2. CASE queue' = Append(queue, app)
    BY <1>1, <2>2, ChangeSnapshots DEF BInv, Change, Snapshots
  <2>3. CASE queue' = << >> \/ queue' = <<app>>
    BY <2>3 DEF Snapshots
  <2>4. CASE queue # << >> /\ queue' = Tail(queue)
    BY <2>4, TailSnapshots DEF BInv
  <2> QED BY <2>1, <2>2, <2>3, <2>4
<1> QED BY <1>1, <1>2, QuietStep

LEMMA InitBInv == Init => BInv
<1> SUFFICES ASSUME Init PROVE BInv
  OBVIOUS
<1>1. TypeOK /\ seen = {} /\ misread = {} /\ (\A m \in Marks : task[m].pc = "idle")
  BY InitTypes DEF Init
<1>2. Snapshots = {app}
  <2>1. Len(queue) = 0
    BY DEF Init
  <2> QED BY <2>1 DEF Snapshots
<1>3. app.mark = 0 /\ app.phase = "" /\ app.sync = 0
  BY DEF Init
<1>4. SnapshotOK(app)
  <2> DEFINE sync == app.sync
  <2>1. sync = 0
    BY <1>3, Zenon
  <2> HIDE DEF sync
  <2>2. sync <= sync
    BY <2>1
  <2>3. Stamped(app) /\ Based(app)
    BY <1>3 DEF Stamped, Based
  <2>4. Dated(app)
    BY <1>3, <2>2, Zenon DEF Dated, sync
  <2> QED BY <2>3, <2>4 DEF SnapshotOK
<1> QED BY <1>1, <1>2, <1>4 DEF BInv, BaselineHeld, RunsBegan, NotBeforeMark

LEMMA BInvInductive ==
  ASSUME BInv, [Next]_vars
  PROVE  BInv'
<1>1. TypeOK'
  BY EnvironmentTypes, CountersTypes, HandlersTypes DEF BInv, TypeOK
<1>2. CASE TaskStep \/ StartSync \/ FinishSync \/ RecordEvent \/ SettleEvent
  BY <1>1, <1>2, SkipMarkStep, ReadBaselineStep, AnnotateStep, StartSyncStep, FinishSyncStep,
     RecordEventStep, SettleEventStep DEF TaskStep
<1>3. CASE Notify \/ Start \/ Crash \/ IgnoreEvent
  BY <1>1, <1>3, UnmarkedStep DEF Notify, Start, Crash, IgnoreEvent, ci, ghosts
<1>4. ASSUME NEW r \in Requests, RecordRequest(r) \/ SettleRequest(r) PROVE BInv'
  BY <1>1, <1>4, UnmarkedStep DEF RecordRequest, SettleRequest, ci, ghosts
<1>5. ASSUME NEW t \in Handlers, Persist(t) PROVE BInv'
  BY <1>1, <1>5, UnmarkedStep DEF Persist, LockAndGet, Patch, ci, ghosts
<1>6. CASE UNCHANGED vars
  BY <1>1, <1>6, UnmarkedStep DEF vars
<1> QED BY <1>2, <1>3, <1>4, <1>5, <1>6 DEF Next, TaskStep

\* However stale the events the handler works from, and whichever runs of the Task
\* overlap, a mark whose baseline could be read is recorded only after a sync that began later.
THEOREM BaselineIsRespected == Spec => []NotBeforeMark
<1>1. BInv /\ [Next]_vars => BInv'
  BY BInvInductive
<1>2. BInv => NotBeforeMark
  BY DEF BInv
<1> QED BY <1>1, <1>2, InitBInv, PTL DEF Spec
=============================================================================
