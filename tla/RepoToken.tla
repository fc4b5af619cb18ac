------------------------------ MODULE RepoToken ------------------------------
(***************************************************************************)
(* The /github-installation-token endpoint of token-review-interceptor: a  *)
(* Task proves with its ServiceAccount token which Application it is of,   *)
(* and gets a GitHub token for one repository that Application owns.       *)
(*                                                                         *)
(* Each call out of the handler (TokenReview, the list of Repository CRs,  *)
(* GitHub's two endpoints) is a step: in between, Applications come and    *)
(* go, namespaces are deleted and the App is uninstalled.  The handler     *)
(* does not notice that its caller has given up: it passes no request      *)
(* context on.                                                             *)
(***************************************************************************)
EXTENDS Naturals, Sequences

CONSTANTS
  Apps,         \* Applications; no app has the name of another's GitOps repository
  Callers,      \* namespaces [app, kind] whose Tasks call
  Calls,        \* one per github_app_installation_token a Task runs
  Retries,      \* curl --retry of that function
  MaxFaults,    \* bound: API and GitHub calls that fail, pods that restart
  MaxChanges    \* bound: Applications, namespaces and installations that come or go

ASSUME CallersAssumption == Callers \subseteq [app: Apps, kind: {"cicd", "pr", "dev"}]
ASSUME RetriesAssumption == Retries \in Nat
ASSUME FaultsAssumption == MaxFaults \in Nat /\ MaxChanges \in Nat

VARIABLES
  onboarded,  \* apps whose chart is installed: app a's Repository CR, named a, is in its cicd namespace
  live,       \* callers' namespaces whose ServiceAccount tokens still authenticate
  installed,  \* repositories the GitHub App is installed on
  call,       \* the callers
  req,        \* the handlers: request id -> state
  minted,     \* tokens GitHub gave out: [id, repo]
  faults, changes,
  owned,      \* history: the request's repo was its caller's own at some time since it arrived
  gap,        \* history: something the call needs was not set up at some time since it began
  hit         \* history: a fault hit one of the call's requests

env == <<onboarded, live, installed, changes>>
hist == <<owned, gap, hit>>
vars == <<onboarded, live, installed, call, req, minted, faults, changes, owned, gap, hit>>

Repos == [app: Apps, kind: {"app", "gitops"}]
Ids == Calls \X (0 .. Retries)

\* form: a body without a repository, a request without a token, or a good one.
\* out: the bodies curl has printed.
CallState == [ns: Callers, repo: Repos, form: {"good", "noRepo", "noBearer"},
              st: {"idle", "waiting", "ok", "failed"}, try: 0 .. Retries,
              out: Seq({"error", "token"})]

\* cred: the App JWT has expired or the installation looked up is gone.
ReqState == [pc: {"none", "review", "list", "listPr", "sign", "lookup", "mint", "done", "gone"},
             cred: {"ok", "stale"},
             code: {0, 200, 400, 401, 403, 500, 502}]

NoReq == [pc |-> "none", cred |-> "ok", code |-> 0]
NewReq == [pc |-> "review", cred |-> "ok", code |-> 0]

Current(c) == <<c, call[c].try>>
CallOf(id) == call[id[1]]

\* The namespace the pattern ^(.+)-pr-\d+$ leads to.
CicdOf(ns) == [ns EXCEPT !.kind = "cicd"]

\* Mutant: the list is not limited to the namespace.
MutListAll(ns) == onboarded

\* Names of the Repository CRs in a namespace.
RepositoryCRs(ns) == {a \in onboarded : ns = [app |-> a, kind |-> "cicd"]}

\* A CR named a maps to the repositories a and gitops-a, of whatever owner.
MapsTo(a, repo) == repo \in {[app |-> a, kind |-> "app"], [app |-> a, kind |-> "gitops"]}

NamespaceOwnsRepo(ns, repo) == \E a \in RepositoryCRs(ns) : MapsTo(a, repo)

\* Mutant: an environment of a pull request is refused like any other namespace.
MutNoPr(ns) == FALSE

IsPrEnv(ns) == ns.kind = "pr"

\* What owning a repository means, whatever the handler looks at.
Owns(ns, repo) ==
  /\ ns.app = repo.app
  /\ ns.kind \in {"cicd", "pr"}
  /\ ns.app \in onboarded

\* Everything a call needs is set up.
SetUp(c) ==
  /\ call[c].form = "good"
  /\ call[c].ns \in live
  /\ Owns(call[c].ns, call[c].repo)
  /\ call[c].repo \in installed

Active(id) == req[id].pc \notin {"none", "done", "gone"}

Reply(id, code) == req' = [req EXCEPT ![id].pc = "done", ![id].code = code]
Goto(id, pc) == req' = [req EXCEPT ![id].pc = pc]

Fault(id) ==
  /\ faults < MaxFaults
  /\ faults' = faults + 1
  /\ hit' = hit \union {id[1]}

NoFault == UNCHANGED <<faults, hit>>

-----------------------------------------------------------------------------
\* A request of c arrives.
Arrive(c, try, out) ==
  /\ call' = [call EXCEPT ![c].st = "waiting", ![c].try = try, ![c].out = out]
  /\ req' = [req EXCEPT ![<<c, try>>] = NewReq]
  /\ owned' = owned \union {id \in {<<c, try>>} : Owns(call[c].ns, call[c].repo)}
  /\ gap' = gap \union {d \in {c} : ~SetUp(c)}
  /\ UNCHANGED <<env, minted, faults>>

End(c, st, out) ==
  /\ call' = [call EXCEPT ![c].st = st, ![c].out = out]
  /\ UNCHANGED <<env, req, minted, faults, owned, gap>>

Init ==
  /\ onboarded = Apps
  /\ live = Callers
  /\ installed \in {Repos, {}}
  /\ \E ns \in [Calls -> Callers], repo \in [Calls -> Repos],
        form \in [Calls -> {"good", "noRepo", "noBearer"}] :
       call = [c \in Calls |-> [ns |-> ns[c], repo |-> repo[c], form |-> form[c],
                                st |-> "idle", try |-> 0, out |-> << >>]]
  /\ req = [id \in Ids |-> NoReq]
  /\ minted = {}
  /\ faults = 0
  /\ changes = 0
  /\ owned = {}
  /\ gap = {}
  /\ hit = {}

(***************************************************************************)
(* The caller: curl with --max-time and --retry, the Task's script after   *)
(* it.                                                                     *)
(***************************************************************************)
Post(c) ==
  /\ call[c].st = "idle"
  /\ Arrive(c, 0, << >>)
  /\ UNCHANGED hit

\* Mutant: the script takes whatever curl printed for the token.
MutAnyBody(c) ==
  /\ call[c].st = "waiting"
  /\ req[Current(c)].pc = "done"
  /\ End(c, "ok", Append(call[c].out, IF req[Current(c)].code = 200 THEN "token" ELSE "error"))
  /\ UNCHANGED hit

\* 200 ends the call; curl repeats the request after 500 and 502 and has by then printed
\* their bodies; after any other status, or with no retry left, the script fails.
Receive(c) ==
  LET code == req[Current(c)].code
      printed == Append(call[c].out, IF code = 200 THEN "token" ELSE "error")
      again == code \in {500, 502} /\ call[c].try < Retries
  IN  /\ call[c].st = "waiting"
      /\ req[Current(c)].pc = "done"
      /\ \/ again /\ Arrive(c, call[c].try + 1, printed)
         \/ code = 200 /\ End(c, "ok", printed)
         \/ code # 200 /\ ~again /\ End(c, "failed", printed)
      /\ UNCHANGED hit

\* Mutant: no --max-time, so a call that GitHub does not answer is waited for.
MutNoMaxTime(c) ==
  /\ call[c].st = "waiting"
  /\ req[Current(c)].pc \in {"review", "list", "listPr", "sign"}
  /\ hit' = hit \union {c}
  /\ \/ call[c].try < Retries /\ Arrive(c, call[c].try + 1, call[c].out)
     \/ call[c].try = Retries /\ End(c, "failed", call[c].out)

\* Mutant: one retry too many is asked for.
MutTimeOut(c) ==
  /\ call[c].st = "waiting"
  /\ Active(Current(c))
  /\ hit' = hit \union {c}
  /\ \/ call[c].try <= Retries /\ Arrive(c, call[c].try + 1, call[c].out)
     \/ call[c].try > Retries /\ End(c, "failed", call[c].out)

\* Fifteen seconds without an answer: curl goes on to its next attempt, the handler goes on too.
TimeOut(c) ==
  /\ call[c].st = "waiting"
  /\ Active(Current(c))
  /\ hit' = hit \union {c}
  /\ \/ call[c].try < Retries /\ Arrive(c, call[c].try + 1, call[c].out)
     \/ call[c].try = Retries /\ End(c, "failed", call[c].out)

\* The pod went away: a refused connection is tried again, a broken one is not.
LostConnection(c) ==
  /\ call[c].st = "waiting"
  /\ req[Current(c)].pc = "gone"
  /\ \/ call[c].try < Retries /\ Arrive(c, call[c].try + 1, call[c].out)
     \/ End(c, "failed", call[c].out)
  /\ UNCHANGED hit

(***************************************************************************)
(* The handler.                                                            *)
(***************************************************************************)
\* bearerToken, the TokenReview, then the body.  A TokenReview that fails is an answer of 401.
VerifyCaller(id) ==
  /\ req[id].pc = "review"
  /\ \/ CallOf(id).form = "noBearer" /\ Reply(id, 401) /\ NoFault
     \/ CallOf(id).form # "noBearer" /\ Reply(id, 401) /\ Fault(id)
     \/ /\ CallOf(id).form # "noBearer"
        /\ \/ CallOf(id).ns \notin live /\ Reply(id, 401)
           \/ CallOf(id).ns \in live /\ CallOf(id).form = "noRepo" /\ Reply(id, 400)
           \/ CallOf(id).ns \in live /\ CallOf(id).form = "good" /\ Goto(id, "list")
        /\ NoFault
  /\ UNCHANGED <<env, call, minted, owned, gap>>

\* verifyAppOwnsRepo: the caller's own namespace.  A list that fails counts as one without
\* the repository.
VerifyAppOwnsRepo(id) ==
  LET notOwned == IF IsPrEnv(CallOf(id).ns) THEN Goto(id, "listPr") ELSE Reply(id, 403)
  IN  /\ req[id].pc = "list"
      /\ \/ /\ IF NamespaceOwnsRepo(CallOf(id).ns, CallOf(id).repo)
               THEN Goto(id, "sign") ELSE notOwned
            /\ NoFault
         \/ notOwned /\ Fault(id)
      /\ UNCHANGED <<env, call, minted, owned, gap>>

\* verifyAppOwnsRepo: for an environment of a pull request, the app's cicd namespace.
VerifyPrOwnsRepo(id) ==
  /\ req[id].pc = "listPr"
  /\ \/ /\ IF NamespaceOwnsRepo(CicdOf(CallOf(id).ns), CallOf(id).repo)
           THEN Goto(id, "sign") ELSE Reply(id, 403)
        /\ NoFault
     \/ Reply(id, 403) /\ Fault(id)
  /\ UNCHANGED <<env, call, minted, owned, gap>>

SignAppJWT(id) ==
  /\ req[id].pc = "sign"
  /\ \/ Goto(id, "lookup") /\ NoFault
     \/ Reply(id, 500) /\ Fault(id)
  /\ UNCHANGED <<env, call, minted, owned, gap>>

\* GitHub knows the App and its installation.
Accepted(id) == req[id].cred = "ok" /\ CallOf(id).repo \in installed

InstallationIDForRepo(id) ==
  /\ req[id].pc = "lookup"
  /\ \/ Accepted(id) /\ Goto(id, "mint") /\ NoFault
     \/ ~Accepted(id) /\ Reply(id, 502) /\ NoFault
     \/ Reply(id, 502) /\ Fault(id)
  /\ UNCHANGED <<env, call, minted, owned, gap>>

\* Mutant: GitHub's 201 is not the status expected, so the token made is not passed on.
MutExpects200(id) ==
  /\ req[id].pc = "mint"
  /\ minted' = IF Accepted(id) THEN minted \union {[id |-> id, repo |-> CallOf(id).repo]} ELSE minted
  /\ Reply(id, 502)
  /\ NoFault
  /\ UNCHANGED <<env, call, owned, gap>>

\* The exchange fails before or after GitHub made the token.
MintInstallationToken(id) ==
  /\ req[id].pc = "mint"
  /\ \/ /\ Accepted(id)
        /\ minted' = minted \union {[id |-> id, repo |-> CallOf(id).repo]}
        /\ \/ Reply(id, 200) /\ NoFault
           \/ Reply(id, 502) /\ Fault(id)
     \/ /\ Reply(id, 502)
        /\ \/ ~Accepted(id) /\ NoFault
           \/ Fault(id)
        /\ UNCHANGED minted
  /\ UNCHANGED <<env, call, owned, gap>>

\* Nine minutes after SignAppJWT GitHub takes the JWT no more; the caller's fifteen seconds
\* are long over.
JwtExpires(id) ==
  /\ req[id].pc \in {"lookup", "mint"}
  /\ call[id[1]].st = "waiting" => Current(id[1]) # id
  /\ req' = [req EXCEPT ![id].cred = "stale"]
  /\ UNCHANGED <<env, call, minted, faults, hist>>

\* The pod of a request restarts.
PodRestarts(id) ==
  /\ Active(id)
  /\ Goto(id, "gone")
  /\ Fault(id)
  /\ UNCHANGED <<env, call, minted, owned, gap>>

(***************************************************************************)
(* Around them.                                                            *)
(***************************************************************************)
\* Histories after a change of the environment.
Note ==
  /\ changes < MaxChanges
  /\ changes' = changes + 1
  /\ UNCHANGED <<call, minted, faults, hit>>
  /\ owned' = owned \union {id \in Ids : Active(id) /\ Owns(CallOf(id).ns, CallOf(id).repo)'}
  /\ gap' = gap \union {c \in Calls : call[c].st = "waiting" /\ SetUp(c)' = FALSE}

\* An Application's chart is installed or removed, its Repository CR with it.
AppComesOrGoes(a) ==
  /\ onboarded' = IF a \in onboarded THEN onboarded \ {a} ELSE onboarded \union {a}
  /\ UNCHANGED <<live, installed, req>>
  /\ Note

\* A namespace is deleted: the sweep of PR environments, an app that is removed.
NamespaceGoes(ns) ==
  /\ ns \in live
  /\ live' = live \ {ns}
  /\ UNCHANGED <<onboarded, installed, req>>
  /\ Note

\* The App is installed on a repository or removed from it; an id looked up before is void.
InstallationChanges(repo) ==
  /\ installed' = IF repo \in installed THEN installed \ {repo} ELSE installed \union {repo}
  /\ req' = [id \in Ids |-> IF req[id].pc = "mint" /\ CallOf(id).repo = repo
                            THEN [req[id] EXCEPT !.cred = "stale"] ELSE req[id]]
  /\ UNCHANGED <<onboarded, live>>
  /\ Note

CallerStep(c) == Post(c) \/ Receive(c) \/ TimeOut(c) \/ LostConnection(c)

HandlerStep(id) ==
  \/ VerifyCaller(id) \/ VerifyAppOwnsRepo(id) \/ VerifyPrOwnsRepo(id) \/ SignAppJWT(id)
  \/ InstallationIDForRepo(id) \/ MintInstallationToken(id) \/ JwtExpires(id) \/ PodRestarts(id)

Change ==
  \/ \E a \in Apps : AppComesOrGoes(a)
  \/ \E ns \in Callers : NamespaceGoes(ns)
  \/ \E repo \in Repos : InstallationChanges(repo)

Next ==
  \/ \E c \in Calls : CallerStep(c)
  \/ \E id \in Ids : HandlerStep(id)
  \/ Change

Spec == Init /\ [][Next]_vars

\* curl's clock runs and it reads what arrives; neither GitHub nor the handler need answer.
Fairness == \A c \in Calls : WF_vars(Receive(c) \/ TimeOut(c) \/ LostConnection(c))

FairSpec == Spec /\ Fairness

-----------------------------------------------------------------------------
(***************************************************************************)
(* Properties                                                              *)
(***************************************************************************)

\* Every caller and handler is in a state of its script, and no attempt follows the last retry.
TypeOK ==
  /\ onboarded \subseteq Apps
  /\ live \subseteq Callers
  /\ installed \subseteq Repos
  /\ call \in [Calls -> CallState]
  /\ req \in [Ids -> ReqState]
  /\ minted \subseteq [id: Ids, repo: Repos]
  /\ faults \in 0 .. MaxFaults
  /\ changes \in 0 .. MaxChanges
  /\ owned \subseteq Ids
  /\ gap \subseteq Calls
  /\ hit \subseteq Calls

\* A token is made only for the repository asked for, and only if at some moment since the
\* request arrived the caller's own Application owned it (handleGitHubInstallationToken's
\* promise), whatever was onboarded, removed or retried meanwhile.
MintedForOwner ==
  \A t \in minted : t.repo = CallOf(t.id).repo /\ t.id \in owned

\* No Task is refused for nothing: when github_app_installation_token fails, something it needs
\* was missing during the call, a call failed, or an attempt took too long.
FailedHasCause ==
  \A c \in Calls : call[c].st = "failed" => c \in gap \union hit

\* GitHub tokens are not made for nobody: without a fault or a timeout a call's only token is the
\* one its Task is about to read or has read, whatever was retried before it.
UnusedTokenHasCause ==
  \A t \in minted :
    t.id[1] \in hit \/ (t.id = Current(t.id[1]) /\ CallOf(t.id).st \in {"waiting", "ok"})

\* A script that goes on has a token: one made for its last attempt and its own repository, which
\* curl printed after the error bodies of earlier attempts; a script that fails printed none.
OkHasToken ==
  \A c \in Calls :
    LET out == call[c].out
    IN  /\ \A i \in 1 .. Len(out) : out[i] = "token" <=> call[c].st = "ok" /\ i = Len(out)
        /\ Len(out) <= call[c].try + 1
        /\ call[c].st = "ok" =>
             Len(out) # 0 /\ [id |-> Current(c), repo |-> call[c].repo] \in minted

\* A Task never hangs on its token, though a handler may hang on GitHub for ever.
EveryCallEnds ==
  \A c \in Calls : call[c].st = "waiting" ~> call[c].st \in {"ok", "failed"}

\* "Prints the installation token (and nothing else) on stdout" (github-app.sh).
PrintsTokenOnly ==
  \A c \in Calls : call[c].st = "ok" => call[c].out = <<"token">>
=============================================================================
