--------------------------- MODULE ReleaseTracking ---------------------------
(***************************************************************************)
(* How the link of a release's pull request gets from open-release-pr to   *)
(* the release-outcome-notify runs of that release: by a ConfigMap that is *)
(* named after the chain.  A chain may release to several environments,    *)
(* each with a pull request of its own, a release may be triggered again,  *)
(* and ArgoCD may sync one release several times, each time with a notify  *)
(* run of its own.                                                         *)
(*                                                                         *)
(* One chain: the ConfigMaps of two chains have two names.  Environments   *)
(* are those mapped to a cluster, without which open-release-pr ends at    *)
(* once with an error and there are no notify runs.                        *)
(* Tasks of one environment come one after another: a chain runs a step    *)
(* once, and it is triggered again when the run before has ended.          *)
(***************************************************************************)
EXTENDS Naturals

CONSTANTS
  Envs,        \* the environments the chain releases to
  MaxTasks,    \* bound: open-release-pr Tasks of an environment
  MaxRuns,     \* bound: notify runs of the chain
  MaxFaults    \* bound: failed calls

ASSUME TrackingAssumption == MaxTasks \in Nat /\ MaxRuns \in Nat /\ MaxFaults \in Nat

VARIABLES
  pr,       \* the pull requests of the gitops repository
  task,     \* environment -> its open-release-pr Task, the last one that began
  record,   \* the pull request the chain's ConfigMap tells of
  run,      \* notify runs; each begins with resolve-release-tracking
  faults,
  fate      \* history: pull request -> what became of the record of it

vars == <<pr, task, record, run, faults, fate>>

Runs == 1 .. MaxRuns
\* A pull request is told by its environment and by the Task that made it.
PRs == [env: Envs, by: 1 .. MaxTasks]
NoPr == [env |-> "none", by |-> 0]
Links == PRs \union {NoPr}

Tasks == [pc: {"idle", "post", "apply", "done", "failed"}, n: 0 .. MaxTasks, link: Links]
NotifyRuns == [pc: {"none", "get", "url", "date", "delete", "done", "failed"},
               own: Links, url: Links, date: Links]
NoRun == [pc |-> "none", own |-> NoPr, url |-> NoPr, date |-> NoPr]

\* Never applied, still there, replaced by another one, or deleted by a run.
Fate(st, i) == [st |-> st, by |-> i]
Fates == [st: {"never", "kept", "replaced", "deleted"}, by: 0 .. MaxRuns]

Fault == faults < MaxFaults /\ faults' = faults + 1
NoFault == UNCHANGED faults

-----------------------------------------------------------------------------
Init ==
  /\ pr = [p \in PRs |-> "none"]
  /\ task = [e \in Envs |-> [pc |-> "idle", n |-> 0, link |-> NoPr]]
  /\ record = NoPr
  /\ run = [i \in Runs |-> NoRun]
  /\ faults = 0
  /\ fate = [p \in PRs |-> Fate("never", 0)]

(***************************************************************************)
(* open-release-pr.                                                        *)
(***************************************************************************)
\* Mutant, and what the code did once: environments share a branch.
MutNoEnv(e, n) == "release"

\* Mutant, and what the code did once: a branch for every Task.
MutTimestamped(e, n) == <<e, n>>

\* The branch of the n-th Task; the revision is the chain's.
Branch(e, n) == e

OpenOn(branch) == {p \in PRs : pr[p] = "open" /\ Branch(p.env, p.by) = branch}

\* Mutant: a Task is triggered once too often, and looks for no pull request.
MutOneMoreTask(e) ==
  /\ task[e].pc \in {"idle", "done", "failed"}
  /\ task' = [task EXCEPT ![e] = [pc |-> "post", n |-> task[e].n + 1, link |-> NoPr]]
  /\ UNCHANGED <<pr, record, run, faults, fate>>

\* Is there an open pull request of the branch?  A Task may run for a release that has one.
FindPr(e) ==
  LET n == task[e].n + 1
      To(pc, p) == task' = [task EXCEPT ![e] = [pc |-> pc, n |-> n, link |-> p]]
  IN  /\ task[e].pc \in {"idle", "done", "failed"}
      /\ n <= MaxTasks
      /\ \/ \E p \in OpenOn(Branch(e, n)) : To("apply", p) /\ NoFault
         \/ OpenOn(Branch(e, n)) = {} /\ To("post", NoPr) /\ NoFault
         \/ To("failed", NoPr) /\ Fault
      /\ UNCHANGED <<pr, record, run, fate>>

\* The commit, the push and the POST; one of them may fail, the POST after it was obeyed.
\* After a merge of the same change there may be nothing to commit, which fails the Task.
PostPr(e) ==
  LET p == [env |-> e, by |-> task[e].n]
      Made == pr' = [pr EXCEPT ![p] = "open"]
      Fail == task' = [task EXCEPT ![e].pc = "failed"]
  IN  /\ task[e].pc = "post"
      /\ \/ Made /\ task' = [task EXCEPT ![e].pc = "apply", ![e].link = p] /\ NoFault
         \/ (Made \/ UNCHANGED pr) /\ Fail /\ Fault
         \/ (\E q \in PRs : q.env = e /\ pr[q] = "ended") /\ UNCHANGED pr /\ Fail /\ NoFault
      /\ UNCHANGED <<record, run, fate>>

\* kubectl apply makes the ConfigMap or replaces both its fields.
Record(p) ==
  /\ record' = p
  /\ fate' = [q \in PRs |-> IF q = p THEN Fate("kept", 0)
                            ELSE IF fate[q].st = "kept" THEN Fate("replaced", 0) ELSE fate[q]]

\* The apply, or the label after it, may fail.
ApplyRecord(e) ==
  /\ task[e].pc = "apply"
  /\ \/ Record(task[e].link) /\ task' = [task EXCEPT ![e].pc = "done"] /\ NoFault
     \/ /\ Record(task[e].link) \/ UNCHANGED <<record, fate>>
        /\ task' = [task EXCEPT ![e].pc = "failed"]
        /\ Fault
  /\ UNCHANGED <<pr, run>>

(***************************************************************************)
(* People end the review; the notify runs of what was merged start.        *)
(***************************************************************************)
\* A pull request that is closed unmerged differs only in that no sync follows.
EndReview(p) ==
  /\ pr[p] = "open"
  /\ pr' = [pr EXCEPT ![p] = "ended"]
  /\ UNCHANGED <<task, record, run, faults, fate>>

\* After any sync of the merged change, the first or a later one, whatever open-release-pr does.
StartRun(i, p) ==
  /\ pr[p] = "ended"
  /\ run[i].pc = "none"
  /\ i > 1 => run[i - 1].pc # "none"
  /\ run' = [run EXCEPT ![i].pc = "get", ![i].own = p]
  /\ UNCHANGED <<pr, task, record, faults, fate>>

(***************************************************************************)
(* resolve-release-tracking: four calls.                                   *)
(***************************************************************************)
Delete(i) ==
  /\ record' = NoPr
  /\ fate' = [p \in PRs |-> IF fate[p].st = "kept" THEN Fate("deleted", i) ELSE fate[p]]

\* Mutant: the ConfigMap is deleted as soon as it is known to be there.
MutDeleteFirst(i) ==
  /\ run[i].pc = "get"
  /\ IF record # NoPr
     THEN run' = [run EXCEPT ![i].pc = "url"] /\ Delete(i)
     ELSE run' = [run EXCEPT ![i].pc = "done"] /\ UNCHANGED <<record, fate>>
  /\ UNCHANGED <<pr, task, faults>>

\* Is there a ConfigMap?  A failed call is taken for none.
GetTracking(i) ==
  /\ run[i].pc = "get"
  /\ \/ record # NoPr /\ run' = [run EXCEPT ![i].pc = "url"] /\ NoFault
     \/ record = NoPr /\ run' = [run EXCEPT ![i].pc = "done"] /\ NoFault
     \/ run' = [run EXCEPT ![i].pc = "done"] /\ Fault
  /\ UNCHANGED <<pr, task, record, fate>>

\* Each field by a call of its own; a failed call, or no ConfigMap any more, leaves it empty.
ReadPrUrl(i) ==
  /\ run[i].pc = "url"
  /\ \/ run' = [run EXCEPT ![i].pc = "date", ![i].url = record] /\ NoFault
     \/ run' = [run EXCEPT ![i].pc = "date"] /\ Fault
  /\ UNCHANGED <<pr, task, record, fate>>

ReadPrCreatedAt(i) ==
  /\ run[i].pc = "date"
  /\ \/ run' = [run EXCEPT ![i].pc = "delete", ![i].date = record] /\ NoFault
     \/ run' = [run EXCEPT ![i].pc = "delete"] /\ Fault
  /\ UNCHANGED <<pr, task, record, fate>>

\* A delete that fails fails the Task.
DeleteTracking(i) ==
  /\ run[i].pc = "delete"
  /\ \/ Delete(i) /\ run' = [run EXCEPT ![i].pc = "done"] /\ NoFault
     \/ /\ Delete(i) \/ UNCHANGED <<record, fate>>
        /\ run' = [run EXCEPT ![i].pc = "failed"]
        /\ Fault
  /\ UNCHANGED <<pr, task>>

-----------------------------------------------------------------------------
OpenReleasePr(e) == FindPr(e) \/ PostPr(e) \/ ApplyRecord(e)
Resolve(i) == GetTracking(i) \/ ReadPrUrl(i) \/ ReadPrCreatedAt(i) \/ DeleteTracking(i)

Next ==
  \/ \E e \in Envs : OpenReleasePr(e)
  \/ \E p \in PRs : EndReview(p)
  \/ \E i \in Runs, p \in PRs : StartRun(i, p)
  \/ \E i \in Runs : Resolve(i)

Spec == Init /\ [][Next]_vars

-----------------------------------------------------------------------------
(***************************************************************************)
(* Properties                                                              *)
(***************************************************************************)

\* Every Task and every run is at a call of its script.
TypeOK ==
  /\ pr \in [PRs -> {"none", "open", "ended"}]
  /\ task \in [Envs -> Tasks]
  /\ record \in Links
  /\ run \in [Runs -> NotifyRuns]
  /\ faults \in 0 .. MaxFaults
  /\ fate \in [PRs -> Fates]

\* "A retried run (Tekton task retry, or a re-triggered PipelineRun after a transient GitHub
\* error) must compute the same branch name" (open-release-pr.yaml): whatever failed, and
\* after what, a release never has two open pull requests.
OnePrPerRelease ==
  \A p, q \in PRs : pr[p] = "open" /\ pr[q] = "open" /\ p.env = q.env => p = q

\* No environment's promotion is taken for another's and swallowed with it: a Task that ended
\* well has handed on a pull request of its own environment.
NoPromotionSwallowed ==
  \A e \in Envs : task[e].pc = "done" => task[e].link.env = e /\ pr[task[e].link] # "none"

\* Run i has just been told the field, or that there is none.
Told(i, pc) == run[i].pc \in {"get", pc} /\ run'[i].pc # run[i].pc /\ run'[i].pc # "url"

\* A run is told the link of its own pull request and then its date, unless one of these is
\* so when it asks: the record of that pull request was not applied, another release's or
\* another pull request's record has replaced it, another run has deleted it; or the call
\* failed.
PrLinkNotLost ==
  [][\A i \in Runs : LET own == run[i].own
                         Lost == \/ fate[own].st \in {"never", "replaced"}
                                 \/ fate[own].st = "deleted" /\ fate[own].by # i
                                 \/ faults' # faults
                     IN  /\ Told(i, "url") => run'[i].url = own \/ Lost
                         /\ Told(i, "date") => run'[i].date = own \/ Lost]_vars

\* "The release PR's URL, or empty if not found" (resolve-release-tracking.yaml).
OwnLinkOrNone ==
  \A i \in Runs : run[i].url \in {NoPr, run[i].own}
=============================================================================
