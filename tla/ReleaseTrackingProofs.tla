------------------------ MODULE ReleaseTrackingProofs ------------------------
(***************************************************************************)
(* Theorems about ReleaseTracking, for any environments and any number of  *)
(* Tasks, runs and failed calls.                                           *)
(***************************************************************************)
EXTENDS ReleaseTracking, TLAPS

-----------------------------------------------------------------------------
(***************************************************************************)
(* The inductive invariant.                                                *)
(***************************************************************************)

\* A Task that is about to post knows that there is no pull request; one that has found or made
\* one has that of its environment.
TaskInv ==
  \A e \in Envs :
    /\ task[e].pc # "idle" => task[e].n \in 1 .. MaxTasks
    /\ task[e].pc = "post" => \A p \in PRs : pr[p] = "open" => p.env # e
    /\ task[e].pc \in {"apply", "done"} =>
         task[e].link \in PRs /\ task[e].link.env = e /\ pr[task[e].link] # "none"

\* The ConfigMap holds the one record that was neither replaced nor deleted.
RecordInv ==
  \A p \in PRs : fate[p].st = "kept" <=> record = p

\* A run is of some pull request, and deletes nothing before its last call.
RunInv ==
  \A i \in Runs :
    /\ run[i].pc # "none" => run[i].own \in PRs
    /\ run[i].pc \in {"none", "get", "url", "date", "delete"} =>
         \A p \in PRs : fate[p].st = "deleted" => fate[p].by # i

IInv == TypeOK /\ OnePrPerRelease /\ TaskInv /\ RecordInv /\ RunInv

-----------------------------------------------------------------------------
LEMMA Literals ==
  /\ NoPr \notin PRs /\ NoPr \in Links /\ PRs \subseteq Links /\ NoRun \in NotifyRuns
  /\ \A p \in PRs : p.env \in Envs /\ p.by \in 1 .. MaxTasks
  /\ \A e \in Envs, n \in 1 .. MaxTasks : [env |-> e, by |-> n] \in PRs
BY TrackingAssumption DEF NoPr, PRs, Links, NoRun, NotifyRuns

LEMMA FaultKeepsType ==
  ASSUME faults \in 0 .. MaxFaults, Fault \/ NoFault
  PROVE  faults' \in 0 .. MaxFaults
BY TrackingAssumption DEF Fault, NoFault

LEMMA InitIInv == Init => IInv
<1> SUFFICES ASSUME Init PROVE IInv
  OBVIOUS
<1>1. TypeOK
  <2>1. [pc |-> "idle", n |-> 0, link |-> NoPr] \in Tasks
    BY Literals, TrackingAssumption DEF Tasks
  <2>2. Fate("never", 0) \in Fates /\ 0 \in 0 .. MaxFaults
    BY TrackingAssumption DEF Fate, Fates
  <2> QED BY <2>1, <2>2, Literals DEF Init, TypeOK
<1>2. OnePrPerRelease /\ TaskInv
  BY DEF Init, OnePrPerRelease, TaskInv
<1>3. RecordInv /\ RunInv
  BY Literals DEF Init, RecordInv, RunInv, NoRun, Fate
<1> QED BY <1>1, <1>2, <1>3 DEF IInv

-----------------------------------------------------------------------------
(***************************************************************************)
(* open-release-pr.                                                        *)
(***************************************************************************)

\* A Task that changes leaves the others alone.
LEMMA TaskChanges ==
  ASSUME TypeOK, NEW e \in Envs, NEW t \in Tasks, task' = [task EXCEPT ![e] = t]
  PROVE  /\ task' \in [Envs -> Tasks] /\ task'[e] = t
         /\ \A d \in Envs : d # e => task'[d] = task[d]
BY DEF TypeOK

LEMMA FindPrStep ==
  ASSUME IInv, NEW e \in Envs, FindPr(e)
  PROVE  IInv'
<1> USE DEF IInv
<1> DEFINE n == task[e].n + 1
<1>1. /\ n \in 1 .. MaxTasks /\ UNCHANGED <<pr, record, run, fate>> /\ (Fault \/ NoFault)
  <2>1. task[e].n \in 0 .. MaxTasks
    BY DEF TypeOK, Tasks
  <2> QED BY <2>1, TrackingAssumption DEF FindPr
<1>2. PICK t : /\ task' = [task EXCEPT ![e] = t]
               /\ \/ \E p \in OpenOn(e) : t = [pc |-> "apply", n |-> n, link |-> p]
                  \/ OpenOn(e) = {} /\ t = [pc |-> "post", n |-> n, link |-> NoPr]
                  \/ t = [pc |-> "failed", n |-> n, link |-> NoPr]
  BY DEF FindPr, Branch
<1> HIDE DEF n
<1>3. \A p \in PRs : p \in OpenOn(e) <=> pr[p] = "open" /\ p.env = e
  BY DEF OpenOn, Branch
<1>4. /\ t \in Tasks /\ t.n = n /\ t.pc # "idle"
      /\ t.pc = "post" => \A p \in PRs : pr[p] = "open" => p.env # e
      /\ t.pc \in {"apply", "done"} => t.link \in PRs /\ t.link.env = e /\ pr[t.link] # "none"
  <2>0. n \in 0 .. MaxTasks /\ OpenOn(e) \subseteq PRs
    BY <1>1 DEF OpenOn
  <2>1. CASE \E p \in OpenOn(e) : t = [pc |-> "apply", n |-> n, link |-> p]
    BY <1>3, <2>0, <2>1, Literals DEF Tasks
  <2>2. CASE OpenOn(e) = {} /\ t = [pc |-> "post", n |-> n, link |-> NoPr]
    BY <1>3, <2>0, <2>2, Literals DEF Tasks
  <2>3. CASE t = [pc |-> "failed", n |-> n, link |-> NoPr]
    BY <2>0, <2>3, Literals DEF Tasks
  <2> QED BY <1>2, <2>1, <2>2, <2>3
<1>5. /\ task' \in [Envs -> Tasks] /\ task'[e] = t
      /\ \A d \in Envs : d # e => task'[d] = task[d]
  BY <1>2, <1>4, TaskChanges
<1>6. TypeOK'
  BY <1>1, <1>5, FaultKeepsType DEF TypeOK
<1>7. TaskInv'
  <2> SUFFICES ASSUME NEW d \in Envs
               PROVE  /\ task'[d].pc # "idle" => task'[d].n \in 1 .. MaxTasks
                      /\ task'[d].pc = "post" => \A p \in PRs : pr[p] = "open" => p.env # d
                      /\ task'[d].pc \in {"apply", "done"} =>
                           /\ task'[d].link \in PRs /\ task'[d].link.env = d
                           /\ pr[task'[d].link] # "none"
    BY <1>1 DEF TaskInv
  <2>1. CASE d = e
    BY <1>1, <1>4, <1>5, <2>1
  <2>2. CASE d # e
    BY <1>5, <2>2 DEF TaskInv
  <2> QED BY <2>1, <2>2
<1>8. OnePrPerRelease' /\ RecordInv' /\ RunInv'
  BY <1>1 DEF OnePrPerRelease, RecordInv, RunInv
<1> QED BY <1>6, <1>7, <1>8

LEMMA PostPrStep ==
  ASSUME IInv, NEW e \in Envs, PostPr(e)
  PROVE  IInv'
<1> USE DEF IInv
<1> DEFINE n == task[e].n
           p == [env |-> e, by |-> n]
<1>1. /\ task[e].pc = "post" /\ task[e] \in Tasks /\ n \in 1 .. MaxTasks
      /\ UNCHANGED <<record, run, fate>> /\ (Fault \/ NoFault)
  BY DEF PostPr, TypeOK, TaskInv
<1>2. p \in PRs /\ p.env = e
  BY <1>1, Literals
<1>3. \A q \in PRs : pr[q] = "open" => q.env # e
  BY <1>1 DEF TaskInv
<1>4. pr' = [pr EXCEPT ![p] = "open"] \/ pr' = pr
  BY DEF PostPr
<1>5. PICK t : /\ task' = [task EXCEPT ![e] = t] /\ t \in Tasks /\ t.n = n
               /\ \/ t.pc = "apply" /\ t.link = p /\ pr' = [pr EXCEPT ![p] = "open"]
                  \/ t.pc = "failed"
  <2>1. CASE task' = [task EXCEPT ![e].pc = "apply", ![e].link = p]
             /\ pr' = [pr EXCEPT ![p] = "open"]
    <3>1. PICK t : t = [task[e] EXCEPT !.pc = "apply", !.link = p]
      OBVIOUS
    <3>2. task' = [task EXCEPT ![e] = t]
      BY <2>1, <3>1
    <3>3. t \in Tasks /\ t.n = n /\ t.pc = "apply" /\ t.link = p
      BY <1>1, <1>2, <3>1, Literals DEF Tasks
    <3> HIDE DEF n, p
    <3> QED BY <2>1, <3>2, <3>3
  <2>2. CASE task' = [task EXCEPT ![e].pc = "failed"]
    <3>1. PICK t : t = [task[e] EXCEPT !.pc = "failed"]
      OBVIOUS
    <3>2. task' = [task EXCEPT ![e] = t] /\ t \in Tasks /\ t.n = n /\ t.pc = "failed"
      BY <1>1, <2>2, <3>1 DEF Tasks
    <3> QED BY <3>2
  <2> QED BY <2>1, <2>2 DEF PostPr
<1>6. /\ task' \in [Envs -> Tasks] /\ task'[e] = t
      /\ \A d \in Envs : d # e => task'[d] = task[d]
  BY <1>5, TaskChanges
<1> HIDE DEF p, n
<1>7. /\ pr' \in [PRs -> {"none", "open", "ended"}]
      /\ \A q \in PRs : q # p => pr'[q] = pr[q]
      /\ \A q \in PRs : pr[q] # "none" => pr'[q] # "none"
      /\ pr' = [pr EXCEPT ![p] = "open"] => pr'[p] = "open"
  BY <1>2, <1>4 DEF TypeOK
<1>8. TypeOK'
  BY <1>1, <1>6, <1>7, FaultKeepsType DEF TypeOK
<1>9. OnePrPerRelease'
  <2> SUFFICES ASSUME NEW q \in PRs, NEW r \in PRs, pr'[q] = "open", pr'[r] = "open", q.env = r.env
               PROVE  q = r
    BY DEF OnePrPerRelease
  <2>1. CASE q # p /\ r # p
    BY <1>7, <2>1 DEF OnePrPerRelease
  <2>2. CASE q = p \/ r = p
    BY <1>2, <1>3, <1>7, <2>2
  <2> QED BY <2>1, <2>2
<1>10. TaskInv'
  <2> SUFFICES ASSUME NEW d \in Envs
               PROVE  /\ task'[d].pc # "idle" => task'[d].n \in 1 .. MaxTasks
                      /\ task'[d].pc = "post" => \A q \in PRs : pr'[q] = "open" => q.env # d
                      /\ task'[d].pc \in {"apply", "done"} =>
                           /\ task'[d].link \in PRs /\ task'[d].link.env = d
                           /\ pr'[task'[d].link] # "none"
    BY DEF TaskInv
  <2>1. CASE d = e
    BY <1>1, <1>2, <1>5, <1>6, <1>7, <2>1
  <2>2. CASE d # e
    <3>1. task'[d] = task[d]
      BY <1>6, <2>2
    <3>2. task[d].pc = "post" => \A q \in PRs : pr'[q] = "open" => q.env # d
      BY <1>2, <1>7, <2>2 DEF TaskInv
    <3> QED BY <1>7, <3>1, <3>2 DEF TaskInv
  <2> QED BY <2>1, <2>2
<1>11. RecordInv' /\ RunInv'
  BY <1>1 DEF RecordInv, RunInv
<1> QED BY <1>8, <1>9, <1>10, <1>11

\* The record of a pull request takes the place of what there is.
LEMMA RecordKeeps ==
  ASSUME IInv, NEW p \in PRs, Record(p)
  PROVE  /\ record' = p /\ fate' \in [PRs -> Fates] /\ RecordInv'
         /\ \A q \in PRs : fate'[q].st = "deleted" => fate'[q] = fate[q]
<1>1. Fate("kept", 0) \in Fates /\ Fate("replaced", 0) \in Fates
  BY TrackingAssumption DEF Fate, Fates
<1>2. \A q \in PRs : fate'[q] = IF q = p THEN Fate("kept", 0)
                                ELSE IF fate[q].st = "kept" THEN Fate("replaced", 0) ELSE fate[q]
  BY DEF Record
<1>3. Fate("kept", 0).st = "kept" /\ Fate("replaced", 0).st = "replaced"
  BY DEF Fate
<1>4. record' = p /\ fate' \in [PRs -> Fates]
  BY <1>1 DEF Record, IInv, TypeOK
<1>5. \A q \in PRs : fate'[q].st = "kept" <=> q = p
  BY <1>2, <1>3
<1>6. \A q \in PRs : fate'[q].st = "deleted" => fate'[q] = fate[q]
  BY <1>2, <1>3
<1> QED BY <1>4, <1>5, <1>6 DEF RecordInv

LEMMA ApplyRecordStep ==
  ASSUME IInv, NEW e \in Envs, ApplyRecord(e)
  PROVE  IInv'
<1>1. /\ task[e].pc = "apply" /\ task[e] \in Tasks /\ task[e].link \in PRs
      /\ UNCHANGED <<pr, run>> /\ (Fault \/ NoFault)
      /\ Record(task[e].link) \/ UNCHANGED <<record, fate>>
  BY DEF ApplyRecord, IInv, TypeOK, TaskInv
<1>2. PICK pc \in {"done", "failed"} : task' = [task EXCEPT ![e].pc = pc]
  BY DEF ApplyRecord
<1>3. PICK t : t = [task[e] EXCEPT !.pc = pc]
  OBVIOUS
<1>4. task' = [task EXCEPT ![e] = t] /\ t \in Tasks /\ t.pc = pc /\ t.n = task[e].n
      /\ t.link = task[e].link
  BY <1>1, <1>2, <1>3 DEF Tasks
<1>5. /\ task' \in [Envs -> Tasks] /\ task'[e] = t
      /\ \A d \in Envs : d # e => task'[d] = task[d]
  BY <1>4, TaskChanges DEF IInv
<1>6. /\ record' \in Links /\ fate' \in [PRs -> Fates] /\ RecordInv'
      /\ \A q \in PRs : fate'[q].st = "deleted" => fate'[q] = fate[q]
  <2>1. CASE Record(task[e].link)
    BY <1>1, <2>1, RecordKeeps, Literals
  <2>2. CASE UNCHANGED <<record, fate>>
    BY <2>2 DEF IInv, TypeOK, RecordInv
  <2> QED BY <1>1, <2>1, <2>2
<1>7. TypeOK'
  BY <1>1, <1>5, <1>6, FaultKeepsType DEF IInv, TypeOK
<1>8. TaskInv'
  <2> SUFFICES ASSUME NEW d \in Envs
               PROVE  /\ task'[d].pc # "idle" => task'[d].n \in 1 .. MaxTasks
                      /\ task'[d].pc = "post" => \A q \in PRs : pr[q] = "open" => q.env # d
                      /\ task'[d].pc \in {"apply", "done"} =>
                           /\ task'[d].link \in PRs /\ task'[d].link.env = d
                           /\ pr[task'[d].link] # "none"
    BY <1>1 DEF TaskInv
  <2>1. CASE d = e
    BY <1>1, <1>4, <1>5, <2>1 DEF IInv, TaskInv
  <2>2. CASE d # e
    BY <1>5, <2>2 DEF IInv, TaskInv
  <2> QED BY <2>1, <2>2
<1>9. OnePrPerRelease'
  BY <1>1 DEF IInv, OnePrPerRelease
<1>10. RunInv'
  BY <1>1, <1>6 DEF IInv, RunInv
<1> QED BY <1>6, <1>7, <1>8, <1>9, <1>10 DEF IInv

LEMMA EndReviewStep ==
  ASSUME IInv, NEW p \in PRs, EndReview(p)
  PROVE  IInv'
<1>1. UNCHANGED <<task, record, run, faults, fate>>
  BY DEF EndReview
<1>2. /\ pr' \in [PRs -> {"none", "open", "ended"}]
      /\ \A q \in PRs : pr'[q] = "open" => pr[q] = "open"
      /\ \A q \in PRs : pr[q] # "none" => pr'[q] # "none"
  BY DEF EndReview, IInv, TypeOK
<1>3. TypeOK' /\ RecordInv' /\ RunInv'
  BY <1>1, <1>2 DEF IInv, TypeOK, RecordInv, RunInv
<1>4. OnePrPerRelease' /\ TaskInv'
  BY <1>1, <1>2 DEF IInv, OnePrPerRelease, TaskInv
<1> QED BY <1>3, <1>4 DEF IInv

-----------------------------------------------------------------------------
(***************************************************************************)
(* Notify runs.                                                            *)
(***************************************************************************)

\* A run moves on; what its step changes of the record, it may.
LEMMA RunMoves ==
  ASSUME IInv, NEW i \in Runs, NEW q \in NotifyRuns, run' = [run EXCEPT ![i] = q],
         q.pc # "none" => q.own \in PRs,
         \/ UNCHANGED <<record, fate>> /\ (run[i].pc \in {"done", "failed"} => q.pc = run[i].pc)
         \/ Delete(i) /\ q.pc \in {"done", "failed"},
         Fault \/ NoFault, UNCHANGED <<pr, task>>
  PROVE  IInv'
<1>1. run' \in [Runs -> NotifyRuns] /\ run'[i] = q /\ \A j \in Runs : j # i => run'[j] = run[j]
  BY DEF IInv, TypeOK
<1>2. OnePrPerRelease' /\ TaskInv'
  BY DEF IInv, OnePrPerRelease, TaskInv
<1>3. CASE UNCHANGED <<record, fate>> /\ (run[i].pc \in {"done", "failed"} => q.pc = run[i].pc)
  <2>1. TypeOK'
    BY <1>1, <1>3, FaultKeepsType DEF IInv, TypeOK
  <2>2. RecordInv'
    BY <1>3 DEF IInv, RecordInv
  <2>3. ASSUME q.pc \in {"none", "get", "url", "date", "delete"}
        PROVE  run[i].pc \in {"none", "get", "url", "date", "delete"}
    BY <1>3, <2>3 DEF IInv, TypeOK, NotifyRuns
  <2>4. RunInv'
    BY <1>1, <1>3, <2>3 DEF IInv, RunInv
  <2> QED BY <1>2, <2>1, <2>2, <2>4 DEF IInv
<1>4. CASE Delete(i) /\ q.pc \in {"done", "failed"}
  <2>1. \A p \in PRs : fate'[p] = IF fate[p].st = "kept" THEN Fate("deleted", i) ELSE fate[p]
    BY <1>4 DEF Delete
  <2>2. Fate("deleted", i) \in Fates /\ Fate("deleted", i).st = "deleted" /\ Fate("deleted", i).by = i
    BY TrackingAssumption DEF Fate, Fates, Runs
  <2>3. record' = NoPr /\ fate' \in [PRs -> Fates]
    BY <1>4, <2>2 DEF Delete, IInv, TypeOK
  <2>4. TypeOK'
    BY <1>1, <2>3, Literals, FaultKeepsType DEF IInv, TypeOK
  <2>5. RecordInv'
    BY <2>1, <2>2, <2>3, Literals DEF RecordInv
  <2>6. RunInv'
    <3> SUFFICES ASSUME NEW j \in Runs
                 PROVE  /\ run'[j].pc # "none" => run'[j].own \in PRs
                        /\ run'[j].pc \in {"none", "get", "url", "date", "delete"} =>
                             \A p \in PRs : fate'[p].st = "deleted" => fate'[p].by # j
      BY DEF RunInv
    <3>1. CASE j = i
      BY <1>1, <1>4, <3>1
    <3>2. CASE j # i
      BY <1>1, <2>1, <2>2, <3>2 DEF IInv, RunInv
    <3> QED BY <3>1, <3>2
  <2> QED BY <1>2, <2>4, <2>5, <2>6 DEF IInv
<1> QED BY <1>3, <1>4

LEMMA StartRunStep ==
  ASSUME IInv, NEW i \in Runs, NEW p \in PRs, StartRun(i, p)
  PROVE  IInv'
<1>1. /\ run[i] \in NotifyRuns /\ run[i].pc = "none" /\ NoFault
      /\ UNCHANGED <<pr, task, record, fate>>
  BY DEF StartRun, IInv, TypeOK, NoFault
<1>2. PICK q : q = [run[i] EXCEPT !.pc = "get", !.own = p]
  OBVIOUS
<1>3. run' = [run EXCEPT ![i] = q]
  BY <1>2 DEF StartRun
<1>4. q \in NotifyRuns /\ q.own \in PRs
  BY <1>1, <1>2, Literals DEF NotifyRuns
<1> QED BY <1>1, <1>3, <1>4, RunMoves

LEMMA ResolveStep ==
  ASSUME IInv, NEW i \in Runs, Resolve(i)
  PROVE  IInv'
<1>1. /\ run[i] \in NotifyRuns /\ run[i].pc \in {"get", "url", "date", "delete"}
      /\ run[i].own \in PRs /\ record \in Links /\ (Fault \/ NoFault) /\ UNCHANGED <<pr, task>>
  BY DEF Resolve, GetTracking, ReadPrUrl, ReadPrCreatedAt, DeleteTracking, IInv, TypeOK, RunInv
<1>2. CASE GetTracking(i) \/ DeleteTracking(i)
  <2>1. PICK pc \in {"url", "done", "failed"} :
          /\ run' = [run EXCEPT ![i].pc = pc]
          /\ \/ UNCHANGED <<record, fate>>
             \/ Delete(i) /\ pc \in {"done", "failed"}
    BY <1>2 DEF GetTracking, DeleteTracking
  <2>2. PICK q : q = [run[i] EXCEPT !.pc = pc]
    OBVIOUS
  <2>3. run' = [run EXCEPT ![i] = q] /\ q \in NotifyRuns /\ q.own = run[i].own /\ q.pc = pc
    BY <1>1, <2>1, <2>2 DEF NotifyRuns
  <2> QED BY <1>1, <2>1, <2>3, RunMoves
<1>3. CASE ReadPrUrl(i)
  <2>1. PICK link \in Links : run' = [run EXCEPT ![i].pc = "date", ![i].url = link]
    <3>1. CASE run' = [run EXCEPT ![i].pc = "date", ![i].url = record]
      BY <1>1, <3>1
    <3>2. CASE run' = [run EXCEPT ![i].pc = "date"]
      <4>1. run' = [run EXCEPT ![i].pc = "date", ![i].url = run[i].url]
        BY <1>1, <3>2 DEF IInv, TypeOK, NotifyRuns
      <4> QED BY <1>1, <4>1 DEF NotifyRuns
    <3> QED BY <1>3, <3>1, <3>2 DEF ReadPrUrl
  <2>2. PICK q : q = [run[i] EXCEPT !.pc = "date", !.url = link]
    OBVIOUS
  <2>3. run' = [run EXCEPT ![i] = q]
    BY <2>1, <2>2
  <2>4. q \in NotifyRuns /\ q.own = run[i].own /\ q.pc = "date" /\ UNCHANGED <<record, fate>>
    BY <1>1, <1>3, <2>2 DEF NotifyRuns, ReadPrUrl
  <2> QED BY <1>1, <2>3, <2>4, RunMoves
<1>4. CASE ReadPrCreatedAt(i)
  <2>1. PICK link \in Links : run' = [run EXCEPT ![i].pc = "delete", ![i].date = link]
    <3>1. CASE run' = [run EXCEPT ![i].pc = "delete", ![i].date = record]
      BY <1>1, <3>1
    <3>2. CASE run' = [run EXCEPT ![i].pc = "delete"]
      <4>1. run' = [run EXCEPT ![i].pc = "delete", ![i].date = run[i].date]
        BY <1>1, <3>2 DEF IInv, TypeOK, NotifyRuns
      <4> QED BY <1>1, <4>1 DEF NotifyRuns
    <3> QED BY <1>4, <3>1, <3>2 DEF ReadPrCreatedAt
  <2>2. PICK q : q = [run[i] EXCEPT !.pc = "delete", !.date = link]
    OBVIOUS
  <2>3. run' = [run EXCEPT ![i] = q]
    BY <2>1, <2>2
  <2>4. q \in NotifyRuns /\ q.own = run[i].own /\ q.pc = "delete" /\ UNCHANGED <<record, fate>>
    BY <1>1, <1>4, <2>2 DEF NotifyRuns, ReadPrCreatedAt
  <2> QED BY <1>1, <2>3, <2>4, RunMoves
<1> QED BY <1>2, <1>3, <1>4 DEF Resolve

-----------------------------------------------------------------------------
(***************************************************************************)
(* The theorems.                                                           *)
(***************************************************************************)
LEMMA NextIInv == IInv /\ [Next]_vars => IInv'
<1> SUFFICES ASSUME IInv, [Next]_vars PROVE IInv'
  OBVIOUS
<1>1. ASSUME NEW e \in Envs, OpenReleasePr(e) PROVE IInv'
  BY <1>1, FindPrStep, PostPrStep, ApplyRecordStep DEF OpenReleasePr
<1>2. ASSUME NEW p \in PRs, EndReview(p) PROVE IInv'
  BY <1>2, EndReviewStep
<1>3. ASSUME NEW i \in Runs, NEW p \in PRs, StartRun(i, p) PROVE IInv'
  BY <1>3, StartRunStep
<1>4. ASSUME NEW i \in Runs, Resolve(i) PROVE IInv'
  BY <1>4, ResolveStep
<1>5. CASE UNCHANGED vars
  BY <1>5 DEF vars, IInv, TypeOK, OnePrPerRelease, TaskInv, RecordInv, RunInv
<1> QED BY <1>1, <1>2, <1>3, <1>4, <1>5 DEF Next

LEMMA Invariance == Spec => []IInv
BY InitIInv, NextIInv, PTL DEF Spec

\* Tasks, runs and what becomes of records keep to the states of their scripts.
THEOREM TypeCorrect == Spec => []TypeOK
<1>1. IInv => TypeOK
  BY DEF IInv
<1> QED BY <1>1, Invariance, PTL

\* A release has one open pull request at most, however often it is triggered again and wherever
\* its Tasks failed: a Task posts only when no Task before it has one open.
THEOREM OnePrOpen == Spec => []OnePrPerRelease
<1>1. IInv => OnePrPerRelease
  BY DEF IInv
<1> QED BY <1>1, Invariance, PTL

\* A Task that ended well has handed on a pull request of its own environment, whatever the
\* other environments' Tasks of the same revision do.
THEOREM PromotionsAreKept == Spec => []NoPromotionSwallowed
<1>1. IInv => NoPromotionSwallowed
  BY DEF IInv, TaskInv, NoPromotionSwallowed
<1> QED BY <1>1, Invariance, PTL

\* What PrLinkNotLost says of one run.
Lost(i) ==
  \/ fate[run[i].own].st \in {"never", "replaced"}
  \/ fate[run[i].own].st = "deleted" /\ fate[run[i].own].by # i
  \/ faults' # faults

Learns(i) ==
  /\ Told(i, "url") => run'[i].url = run[i].own \/ Lost(i)
  /\ Told(i, "date") => run'[i].date = run[i].own \/ Lost(i)

\* A run learns its own pull request's link and date, unless its record was never applied,
\* another record replaced it, another run deleted it, or the run's own call failed: nothing
\* else comes between the look-up and the reads, for any number of releases of the chain, of
\* Tasks and of runs.
THEOREM LinksAreKept == Spec => PrLinkNotLost
<1>1. ASSUME IInv, [Next]_vars, NEW i \in Runs PROVE Learns(i)
  <2> SUFFICES ASSUME run[i].pc \in {"get", "url", "date"}, run'[i].pc # run[i].pc, ~Lost(i)
               PROVE  /\ run[i].pc = "get" => run'[i].pc = "url"
                      /\ run[i].pc = "url" => run'[i].url = run[i].own
                      /\ run[i].pc = "date" => run'[i].date = run[i].own
    BY DEF Learns, Told
  <2>1. run \in [Runs -> NotifyRuns] /\ run[i].own \in PRs /\ faults \in Nat /\ faults' = faults
    BY <1>1, TrackingAssumption DEF IInv, TypeOK, RunInv, Lost
  <2>2. record = run[i].own
    <3>1. fate[run[i].own].st = "deleted" => fate[run[i].own].by # i
      BY <1>1, <2>1 DEF IInv, RunInv
    <3>2. fate[run[i].own].st = "kept"
      BY <1>1, <2>1, <3>1 DEF IInv, TypeOK, Fates, Lost
    <3> QED BY <1>1, <2>1, <3>2 DEF IInv, RecordInv
  <2>3. record # NoPr /\ ~Fault
    BY <2>1, <2>2, Literals DEF Fault
  <2>4. ASSUME NEW j \in Runs, Resolve(j), j # i PROVE FALSE
    BY <2>1, <2>4 DEF Resolve, GetTracking, ReadPrUrl, ReadPrCreatedAt, DeleteTracking
  <2>5. Resolve(i)
    <3>1. ASSUME NEW e \in Envs, OpenReleasePr(e) PROVE FALSE
      BY <3>1 DEF OpenReleasePr, FindPr, PostPr, ApplyRecord
    <3>2. ASSUME NEW p \in PRs, EndReview(p) PROVE FALSE
      BY <3>2 DEF EndReview
    <3>3. ASSUME NEW j \in Runs, NEW p \in PRs, StartRun(j, p) PROVE FALSE
      <4>1. run[j].pc = "none" /\ run' = [run EXCEPT ![j].pc = "get", ![j].own = p]
        BY <3>3 DEF StartRun
      <4>2. j # i /\ run'[i] = run[i]
        BY <2>1, <4>1
      <4> QED BY <4>2
    <3>4. ~UNCHANGED vars
      BY DEF vars
    <3> QED BY <1>1, <2>4, <3>1, <3>2, <3>3, <3>4 DEF Next
  <2>6. CASE run[i].pc = "get"
    <3>1. run' = [run EXCEPT ![i].pc = "url"]
      BY <2>3, <2>5, <2>6 DEF Resolve, GetTracking, ReadPrUrl, ReadPrCreatedAt, DeleteTracking
    <3>2. run'[i].pc = "url"
      BY <2>1, <3>1 DEF NotifyRuns
    <3> QED BY <2>6, <3>2
  <2>7. CASE run[i].pc = "url"
    <3>1. run' = [run EXCEPT ![i].pc = "date", ![i].url = record]
      BY <2>3, <2>5, <2>7 DEF Resolve, GetTracking, ReadPrUrl, ReadPrCreatedAt, DeleteTracking
    <3>2. run'[i].url = record
      BY <2>1, <3>1 DEF NotifyRuns
    <3> QED BY <2>2, <2>7, <3>2
  <2>8. CASE run[i].pc = "date"
    <3>1. run' = [run EXCEPT ![i].pc = "delete", ![i].date = record]
      BY <2>3, <2>5, <2>8 DEF Resolve, GetTracking, ReadPrUrl, ReadPrCreatedAt, DeleteTracking
    <3>2. run'[i].date = record
      BY <2>1, <3>1 DEF NotifyRuns
    <3> QED BY <2>2, <2>8, <3>2
  <2> QED BY <2>6, <2>7, <2>8
<1>2. IInv /\ [Next]_vars => [\A i \in Runs : Learns(i)]_vars
  BY <1>1
<1>3. Spec => [][\A i \in Runs : Learns(i)]_vars
  BY <1>2, Invariance, PTL DEF Spec
<1> QED BY <1>3 DEF PrLinkNotLost, Learns, Lost
=============================================================================
