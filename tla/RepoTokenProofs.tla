--------------------------- MODULE RepoTokenProofs ---------------------------
(***************************************************************************)
(* Theorems about RepoToken, for every set of Applications, namespaces and *)
(* calls and any number of retries, faults and changes.                    *)
(***************************************************************************)
EXTENDS RepoToken, TLAPS

-----------------------------------------------------------------------------
(***************************************************************************)
(* The inductive invariant.                                                *)
(***************************************************************************)

\* A request goes on past the check of ownership only if it was its caller's own repository at
\* some time since it arrived; the second list is read for environments of pull requests only.
OwnerInv ==
  /\ \A id \in Ids : Active(id) /\ Owns(CallOf(id).ns, CallOf(id).repo) => id \in owned
  /\ \A id \in Ids : req[id].pc \in {"sign", "lookup", "mint"} => id \in owned
  /\ \A id \in Ids : req[id].pc = "listPr" => CallOf(id).ns.kind = "pr"
  /\ MintedForOwner

\* While everything is set up and no fault has hit, the attempt at hand can only succeed.
CauseInv ==
  /\ FailedHasCause
  /\ \A c \in Calls : call[c].st = "waiting" /\ c \notin gap =>
                        SetUp(c) /\ req[Current(c)].cred = "ok"
  /\ \A c \in Calls : call[c].st = "waiting" /\ c \notin gap \union hit =>
                        /\ req[Current(c)].pc # "gone"
                        /\ req[Current(c)].pc = "done" => req[Current(c)].code = 200

IInv == TypeOK /\ OwnerInv /\ CauseInv

-----------------------------------------------------------------------------
(***************************************************************************)
(* Names and repositories.                                                 *)
(***************************************************************************)

\* What a namespace's list of Repository CRs grants: the repositories of its own Application, to
\* the cicd namespace.
LEMMA ListGrants ==
  ASSUME NEW ns \in [app: Apps, kind: {"cicd", "pr", "dev"}], NEW repo \in Repos
  PROVE  NamespaceOwnsRepo(ns, repo) <=>
           ns.kind = "cicd" /\ ns.app = repo.app /\ ns.app \in onboarded
<1>1. ASSUME NamespaceOwnsRepo(ns, repo)
      PROVE  ns.kind = "cicd" /\ ns.app = repo.app /\ ns.app \in onboarded
  <2>1. PICK a \in onboarded : ns = [app |-> a, kind |-> "cicd"] /\ MapsTo(a, repo)
    BY <1>1 DEF NamespaceOwnsRepo, RepositoryCRs
  <2> QED BY <2>1 DEF MapsTo
<1>2. ASSUME ns.kind = "cicd", ns.app = repo.app, ns.app \in onboarded
      PROVE  NamespaceOwnsRepo(ns, repo)
  <2>1. ns = [app |-> ns.app, kind |-> "cicd"]
    BY <1>2
  <2>2. ns.app \in RepositoryCRs(ns)
    BY <1>2, <2>1 DEF RepositoryCRs
  <2>3. MapsTo(ns.app, repo)
    BY <1>2 DEF MapsTo, Repos
  <2> QED BY <2>2, <2>3 DEF NamespaceOwnsRepo
<1> QED BY <1>1, <1>2

\* The detour of an environment of a pull request grants its own Application's repositories.
LEMMA PrListGrants ==
  ASSUME NEW ns \in [app: Apps, kind: {"cicd", "pr", "dev"}], NEW repo \in Repos
  PROVE  NamespaceOwnsRepo(CicdOf(ns), repo) <=> ns.app = repo.app /\ ns.app \in onboarded
<1>1. /\ CicdOf(ns) \in [app: Apps, kind: {"cicd", "pr", "dev"}]
      /\ CicdOf(ns).kind = "cicd" /\ CicdOf(ns).app = ns.app
  BY DEF CicdOf
<1> QED BY <1>1, ListGrants

LEMMA Types ==
  ASSUME TypeOK, NEW id \in Ids
  PROVE  /\ id[1] \in Calls /\ id[2] \in 0 .. Retries /\ id = <<id[1], id[2]>>
         /\ req[id] \in ReqState
         /\ call[id[1]] \in CallState
         /\ CallOf(id).ns \in [app: Apps, kind: {"cicd", "pr", "dev"}]
         /\ CallOf(id).repo \in Repos
<1>1. id[1] \in Calls /\ id[2] \in 0 .. Retries /\ id = <<id[1], id[2]>>
  BY DEF Ids
<1>2. call[id[1]] \in CallState
  BY <1>1 DEF TypeOK
<1> QED BY <1>1, <1>2, CallersAssumption DEF TypeOK, CallState, CallOf

LEMMA CurrentIsId ==
  ASSUME TypeOK, NEW c \in Calls
  PROVE  Current(c) \in Ids /\ Current(c)[1] = c /\ Current(c)[2] = call[c].try
         /\ call[c] \in CallState
<1>1. call[c] \in CallState
  BY DEF TypeOK
<1> QED BY <1>1 DEF Current, Ids, CallState

-----------------------------------------------------------------------------
LEMMA InitIInv == Init => IInv
<1> SUFFICES ASSUME Init PROVE IInv
  OBVIOUS
<1>1. PICK ns \in [Calls -> Callers], repo \in [Calls -> Repos],
           form \in [Calls -> {"good", "noRepo", "noBearer"}] :
        call = [c \in Calls |-> [ns |-> ns[c], repo |-> repo[c], form |-> form[c],
                                 st |-> "idle", try |-> 0, out |-> << >>]]
  BY DEF Init
<1>2. call \in [Calls -> CallState]
  <2> SUFFICES ASSUME NEW c \in Calls PROVE call[c] \in CallState
    BY <1>1
  <2>1. 0 \in 0 .. Retries
    BY RetriesAssumption
  <2>2. << >> \in Seq({"error", "token"})
    OBVIOUS
  <2> QED BY <1>1, <2>1, <2>2 DEF CallState
<1>3. \A c \in Calls : call[c].st = "idle"
  BY <1>1
<1>4. NoReq \in ReqState
  BY DEF NoReq, ReqState
<1>5. TypeOK
  BY <1>2, <1>4, FaultsAssumption DEF Init, TypeOK
<1>6. OwnerInv
  BY DEF Init, OwnerInv, Active, NoReq, MintedForOwner
<1>7. CauseInv
  BY <1>3 DEF CauseInv, FailedHasCause
<1> QED BY <1>5, <1>6, <1>7 DEF IInv

-----------------------------------------------------------------------------
(***************************************************************************)
(* A step of the caller: a request arrives, or the call ends.              *)
(***************************************************************************)

\* Arrive, with what its three users have in common.
LEMMA ArriveStep ==
  ASSUME IInv, NEW c \in Calls, NEW try \in 0 .. Retries, NEW out \in Seq({"error", "token"}),
         Arrive(c, try, out), hit' = hit \/ hit' = hit \union {c}
  PROVE  IInv'
<1> USE DEF IInv
<1>1. /\ call[c] \in CallState
      /\ <<c, try>> \in Ids
      /\ NewReq \in ReqState
  BY DEF TypeOK, Ids, NewReq, ReqState
<1>2. call' \in [Calls -> CallState]
  <2>1. PICK x : x = [call[c] EXCEPT !.st = "waiting", !.try = try, !.out = out]
    OBVIOUS
  <2>2. x \in CallState
    BY <1>1, <2>1 DEF CallState
  <2>3. call' = [call EXCEPT ![c] = x]
    BY <2>1 DEF Arrive
  <2> QED BY <2>2, <2>3 DEF TypeOK
<1>3. req' = [req EXCEPT ![<<c, try>>] = NewReq]
  BY DEF Arrive
<1>4. TypeOK'
  BY <1>1, <1>2, <1>3 DEF TypeOK, Arrive, env
<1>5. /\ \A d \in Calls : /\ call'[d].ns = call[d].ns /\ call'[d].repo = call[d].repo
                          /\ call'[d].form = call[d].form
      /\ \A d \in Calls : d # c => call'[d] = call[d]
      /\ call'[c].st = "waiting" /\ call'[c].try = try
  BY <1>1 DEF Arrive, TypeOK, CallState
<1>6. /\ \A id \in Ids : CallOf(id)'.ns = CallOf(id).ns /\ CallOf(id)'.repo = CallOf(id).repo
      /\ \A id \in Ids : id # <<c, try>> => req'[id] = req[id]
      /\ req'[<<c, try>>] = NewReq
      /\ \A id \in Ids : id[1] \in Calls
  BY <1>1, <1>3, <1>5 DEF TypeOK, CallOf, Ids
<1>7. UNCHANGED <<onboarded, live, installed, minted>> /\ owned \subseteq owned'
      /\ gap' = gap \union {d \in {c} : ~SetUp(c)}
      /\ owned' = owned \union {id \in {<<c, try>>} : Owns(call[c].ns, call[c].repo)}
  BY DEF Arrive, env
<1>8. OwnerInv'
  <2>1. ASSUME NEW id \in Ids, Active(id)', Owns(CallOf(id).ns, CallOf(id).repo)' PROVE id \in owned'
    <3>1. CASE id = <<c, try>>
      <4>1. Owns(call[c].ns, call[c].repo)
        BY <1>5, <1>7, <2>1, <3>1 DEF Owns, CallOf
      <4> QED BY <1>7, <3>1, <4>1
    <3>2. CASE id # <<c, try>>
      <4>1. Active(id) /\ Owns(CallOf(id).ns, CallOf(id).repo)
        BY <1>6, <1>7, <2>1, <3>2 DEF Active, Owns
      <4> QED BY <1>7, <4>1 DEF OwnerInv
    <3> QED BY <3>1, <3>2
  <2>2. \A id \in Ids : req'[id].pc \in {"sign", "lookup", "mint"} => id \in owned'
    BY <1>6, <1>7 DEF OwnerInv, NewReq
  <2>3. \A id \in Ids : req'[id].pc = "listPr" => CallOf(id)'.ns.kind = "pr"
    BY <1>6 DEF OwnerInv, NewReq
  <2>4. MintedForOwner'
    BY <1>6, <1>7 DEF OwnerInv, MintedForOwner, TypeOK
  <2> QED BY <2>1, <2>2, <2>3, <2>4 DEF OwnerInv
<1>9. CauseInv'
  <2>1. Current(c)' = <<c, try>>
    BY <1>5 DEF Current
  <2>2. ASSUME NEW d \in Calls, d # c
        PROVE  Current(d)' = Current(d) /\ req'[Current(d)] = req[Current(d)]
    BY <1>3, <1>5, <2>2, CurrentIsId DEF Current, TypeOK
  <2>3. \A d \in Calls : SetUp(d)' <=> SetUp(d)
    BY <1>5, <1>7 DEF SetUp, Owns
  <2>4. FailedHasCause'
    BY <1>5, <1>7 DEF CauseInv, FailedHasCause
  <2>5. ASSUME NEW d \in Calls, call'[d].st = "waiting", d \notin gap'
        PROVE  SetUp(d)' /\ req'[Current(d)'].cred = "ok"
    <3>1. CASE d = c
      BY <1>6, <1>7, <2>1, <2>3, <2>5, <3>1 DEF NewReq
    <3>2. CASE d # c
      BY <1>5, <1>7, <2>2, <2>3, <2>5, <3>2 DEF CauseInv
    <3> QED BY <3>1, <3>2
  <2>6. ASSUME NEW d \in Calls, call'[d].st = "waiting", d \notin gap' \union hit'
        PROVE  /\ req'[Current(d)'].pc # "gone"
               /\ req'[Current(d)'].pc = "done" => req'[Current(d)'].code = 200
    <3>1. CASE d = c
      BY <1>6, <2>1, <3>1 DEF NewReq
    <3>2. CASE d # c
      BY <1>5, <1>7, <2>2, <2>6, <3>2 DEF CauseInv
    <3> QED BY <3>1, <3>2
  <2> QED BY <2>4, <2>5, <2>6 DEF CauseInv
<1> QED BY <1>4, <1>8, <1>9

\* End: a failure needs a cause.
LEMMA EndStep ==
  ASSUME IInv, NEW c \in Calls, NEW st \in {"ok", "failed"}, NEW out \in Seq({"error", "token"}),
         End(c, st, out), hit' = hit \/ hit' = hit \union {c},
         st = "failed" => c \in gap \union hit'
  PROVE  IInv'
<1> USE DEF IInv
<1>1. call[c] \in CallState
  BY DEF TypeOK
<1>2. call' \in [Calls -> CallState]
  <2>1. PICK x : x = [call[c] EXCEPT !.st = st, !.out = out]
    OBVIOUS
  <2>2. x \in CallState
    BY <1>1, <2>1 DEF CallState
  <2>3. call' = [call EXCEPT ![c] = x]
    BY <2>1 DEF End
  <2> QED BY <2>2, <2>3 DEF TypeOK
<1>3. UNCHANGED <<onboarded, live, installed, changes, req, minted, faults, owned, gap>>
  BY DEF End, env
<1>4. TypeOK'
  BY <1>2, <1>3 DEF TypeOK
<1>5. /\ \A d \in Calls : /\ call'[d].ns = call[d].ns /\ call'[d].repo = call[d].repo
                          /\ call'[d].form = call[d].form /\ call'[d].try = call[d].try
      /\ \A d \in Calls : d # c => call'[d] = call[d]
      /\ call'[c].st = st
  BY <1>1 DEF End, TypeOK, CallState
<1>6. \A id \in Ids : CallOf(id)'.ns = CallOf(id).ns /\ CallOf(id)'.repo = CallOf(id).repo
  BY <1>5 DEF CallOf, Ids
<1>7. OwnerInv'
  <2>1. \A id \in Ids : Active(id)' /\ Owns(CallOf(id).ns, CallOf(id).repo)' => id \in owned'
    BY <1>3, <1>6 DEF OwnerInv, Active, Owns
  <2>2. MintedForOwner'
    BY <1>3, <1>6 DEF OwnerInv, MintedForOwner, TypeOK
  <2> QED BY <1>3, <1>6, <2>1, <2>2 DEF OwnerInv
<1>8. CauseInv'
  <2>1. \A d \in Calls : Current(d)' = Current(d) /\ (SetUp(d)' <=> SetUp(d))
    BY <1>3, <1>5 DEF Current, SetUp, Owns
  <2> QED BY <1>3, <1>5, <2>1 DEF CauseInv, FailedHasCause
<1> QED BY <1>4, <1>7, <1>8

LEMMA CallerSteps ==
  ASSUME IInv, NEW c \in Calls, CallerStep(c)
  PROVE  IInv'
<1> USE DEF IInv
<1>1. /\ call[c] \in CallState
      /\ call[c].try \in 0 .. Retries /\ call[c].out \in Seq({"error", "token"})
      /\ Current(c) \in Ids
      /\ Retries \in Nat
  BY CurrentIsId, RetriesAssumption DEF CallState
<1>2. call[c].st = "waiting" =>
        /\ req[Current(c)].pc = "gone" => c \in gap \union hit
        /\ req[Current(c)].pc = "done" => req[Current(c)].code = 200 \/ c \in gap \union hit
  BY DEF CauseInv
<1>3. CASE Post(c)
  <2>1. 0 \in 0 .. Retries /\ << >> \in Seq({"error", "token"})
    BY <1>1
  <2> QED BY <1>3, <2>1, ArriveStep DEF Post
<1>4. CASE Receive(c)
  <2> DEFINE code == req[Current(c)].code
             printed == Append(call[c].out, IF code = 200 THEN "token" ELSE "error")
  <2>1. printed \in Seq({"error", "token"})
    BY <1>1
  <2>2. call[c].try < Retries => call[c].try + 1 \in 0 .. Retries
    BY <1>1
  <2>3. call[c].st = "waiting" /\ req[Current(c)].pc = "done" /\ hit' = hit
    BY <1>4 DEF Receive
  <2>4. \/ call[c].try < Retries /\ Arrive(c, call[c].try + 1, printed)
        \/ code = 200 /\ End(c, "ok", printed)
        \/ code # 200 /\ End(c, "failed", printed)
    BY <1>4 DEF Receive
  <2> HIDE DEF printed
  <2>5. CASE call[c].try < Retries /\ Arrive(c, call[c].try + 1, printed)
    BY <2>1, <2>2, <2>3, <2>5, ArriveStep
  <2>6. CASE code = 200 /\ End(c, "ok", printed)
    BY <2>1, <2>3, <2>6, EndStep
  <2>7. CASE code # 200 /\ End(c, "failed", printed)
    BY <1>2, <2>1, <2>3, <2>7, EndStep
  <2> QED BY <2>4, <2>5, <2>6, <2>7
<1>5. CASE TimeOut(c)
  <2>1. call[c].try < Retries => call[c].try + 1 \in 0 .. Retries
    BY <1>1
  <2>2. CASE call[c].try < Retries /\ Arrive(c, call[c].try + 1, call[c].out)
    BY <1>1, <1>5, <2>1, <2>2, ArriveStep DEF TimeOut
  <2>3. CASE End(c, "failed", call[c].out)
    BY <1>1, <1>5, <2>3, EndStep DEF TimeOut
  <2> QED BY <1>5, <2>2, <2>3 DEF TimeOut
<1>6. CASE LostConnection(c)
  <2>1. call[c].try < Retries => call[c].try + 1 \in 0 .. Retries
    BY <1>1
  <2>2. CASE call[c].try < Retries /\ Arrive(c, call[c].try + 1, call[c].out)
    BY <1>1, <1>6, <2>1, <2>2, ArriveStep DEF LostConnection
  <2>3. CASE End(c, "failed", call[c].out)
    BY <1>1, <1>2, <1>6, <2>3, EndStep DEF LostConnection
  <2> QED BY <1>6, <2>2, <2>3 DEF LostConnection
<1> QED BY <1>3, <1>4, <1>5, <1>6 DEF CallerStep

-----------------------------------------------------------------------------
(***************************************************************************)
(* A step of a handler.                                                    *)
(***************************************************************************)

\* What the steps of request id have in common: it goes from one state to r, some faults and
\* tokens are added, nothing else changes.
LEMMA HandlerStepKeeps ==
  ASSUME IInv, NEW id \in Ids, NEW r \in ReqState,
         req' = [req EXCEPT ![id] = r], UNCHANGED <<env, call, owned, gap>>,
         Active(id),
         r.pc \in {"sign", "lookup", "mint"} => id \in owned,
         r.pc = "listPr" => CallOf(id).ns.kind = "pr",
         minted' = minted \/ (minted' = minted \union {[id |-> id, repo |-> CallOf(id).repo]}
                              /\ id \in owned),
         (faults' = faults /\ hit' = hit) \/ Fault(id),
         SetUp(id[1]) => r.cred = req[id].cred \/ call[id[1]].st # "waiting" \/ Current(id[1]) # id,
         SetUp(id[1]) /\ req[id].cred = "ok" /\ id[1] \notin hit' =>
            r.pc # "gone" /\ (r.pc = "done" => r.code = 200)
  PROVE  IInv'
<1> USE DEF IInv
<1>1. /\ id[1] \in Calls /\ CallOf(id).repo \in Repos
      /\ UNCHANGED <<onboarded, live, installed, changes>>
  BY Types DEF env
<1>2. faults' \in 0 .. MaxFaults /\ hit \subseteq hit' /\ hit' \subseteq Calls
  BY <1>1, FaultsAssumption DEF TypeOK, Fault
<1>3. minted' \subseteq [id: Ids, repo: Repos] /\ req' \in [Ids -> ReqState]
  BY <1>1 DEF TypeOK
<1>4. TypeOK'
  BY <1>1, <1>2, <1>3 DEF TypeOK
<1>5. req'[id] = r /\ \A j \in Ids : j # id => req'[j] = req[j]
  BY DEF TypeOK
<1>6. OwnerInv'
  <2>1. \A j \in Ids : CallOf(j)' = CallOf(j)
    BY DEF CallOf
  <2>2. \A j \in Ids : Active(j)' /\ Owns(CallOf(j).ns, CallOf(j).repo)' => j \in owned'
    BY <1>1, <1>5, <2>1 DEF OwnerInv, Active, Owns
  <2>3. \A j \in Ids : req'[j].pc \in {"sign", "lookup", "mint"} => j \in owned'
    BY <1>5 DEF OwnerInv
  <2>4. \A j \in Ids : req'[j].pc = "listPr" => CallOf(j)'.ns.kind = "pr"
    BY <1>5, <2>1 DEF OwnerInv
  <2>5. MintedForOwner'
    BY <2>1 DEF OwnerInv, MintedForOwner, TypeOK
  <2> QED BY <2>2, <2>3, <2>4, <2>5 DEF OwnerInv
<1>7. CauseInv'
  <2>1. \A c \in Calls : Current(c)' = Current(c) /\ (SetUp(c)' <=> SetUp(c))
    BY <1>1 DEF Current, SetUp, Owns
  <2>2. FailedHasCause'
    BY <1>2 DEF CauseInv, FailedHasCause
  <2>3. ASSUME NEW c \in Calls, call[c].st = "waiting", c \notin gap
        PROVE  SetUp(c)' /\ req'[Current(c)].cred = "ok"
    <3>1. SetUp(c) /\ req[Current(c)].cred = "ok" /\ Current(c) \in Ids
      BY <2>3, CurrentIsId DEF CauseInv
    <3>2. CASE Current(c) = id
      BY <1>5, <2>1, <2>3, <3>1, <3>2, CurrentIsId
    <3>3. CASE Current(c) # id
      BY <1>5, <2>1, <3>1, <3>3
    <3> QED BY <3>2, <3>3
  <2>4. ASSUME NEW c \in Calls, call[c].st = "waiting", c \notin gap \union hit'
        PROVE  /\ req'[Current(c)].pc # "gone"
               /\ req'[Current(c)].pc = "done" => req'[Current(c)].code = 200
    <3>1. SetUp(c) /\ req[Current(c)].cred = "ok" /\ Current(c) \in Ids /\ Current(c)[1] = c
      BY <2>4, CurrentIsId DEF CauseInv
    <3>2. CASE Current(c) = id
      BY <1>5, <2>4, <3>1, <3>2
    <3>3. CASE Current(c) # id
      BY <1>2, <1>5, <2>4, <3>1, <3>3 DEF CauseInv
    <3> QED BY <3>2, <3>3
  <2> QED BY <2>1, <2>2, <2>3, <2>4 DEF CauseInv
<1> QED BY <1>4, <1>6, <1>7

\* A reply or a move, as one record.
LEMMA ReplyOrGoto ==
  ASSUME TypeOK, NEW id \in Ids
  PROVE  /\ \A code \in {0, 200, 400, 401, 403, 500, 502} : Reply(id, code) =>
              \E r \in ReqState : /\ req' = [req EXCEPT ![id] = r]
                                  /\ r.pc = "done" /\ r.code = code /\ r.cred = req[id].cred
         /\ \A pc \in {"review", "list", "listPr", "sign", "lookup", "mint", "gone"} : Goto(id, pc) =>
              \E r \in ReqState : /\ req' = [req EXCEPT ![id] = r]
                                  /\ r.pc = pc /\ r.cred = req[id].cred
<1>1. req[id] \in ReqState
  BY DEF TypeOK
<1>2. ASSUME NEW code \in {0, 200, 400, 401, 403, 500, 502}, Reply(id, code)
      PROVE  \E r \in ReqState : /\ req' = [req EXCEPT ![id] = r]
                                 /\ r.pc = "done" /\ r.code = code /\ r.cred = req[id].cred
  <2>1. PICK q : q = [req[id] EXCEPT !.pc = "done"]
    OBVIOUS
  <2>2. q \in ReqState /\ q.pc = "done" /\ q.cred = req[id].cred
    BY <1>1, <2>1 DEF ReqState
  <2>3. PICK r : r = [q EXCEPT !.code = code]
    OBVIOUS
  <2>4. r \in ReqState /\ r.pc = "done" /\ r.code = code /\ r.cred = req[id].cred
    BY <2>2, <2>3 DEF ReqState
  <2>5. req' = [req EXCEPT ![id] = r]
    <3>1. [req EXCEPT ![id].pc = "done"] = [req EXCEPT ![id] = q]
      BY <2>1
    <3>2. PICK f : f = [req EXCEPT ![id] = q]
      OBVIOUS
    <3>3. req' = [f EXCEPT ![id].code = code]
      BY <1>2, <3>1, <3>2 DEF Reply
    <3>4. f \in [Ids -> ReqState] /\ f[id] = q /\ \A j \in Ids : j # id => f[j] = req[j]
      BY <2>2, <3>2 DEF TypeOK
    <3>5. req' = [f EXCEPT ![id] = r]
      BY <2>3, <3>3, <3>4
    <3>6. \A j \in Ids : req'[j] = [req EXCEPT ![id] = r][j]
      BY <2>4, <3>4, <3>5 DEF TypeOK
    <3> QED BY <3>4, <3>5, <3>6 DEF TypeOK
  <2> QED BY <2>4, <2>5
<1>3. ASSUME NEW pc \in {"review", "list", "listPr", "sign", "lookup", "mint", "gone"}, Goto(id, pc)
      PROVE  \E r \in ReqState : /\ req' = [req EXCEPT ![id] = r]
                                 /\ r.pc = pc /\ r.cred = req[id].cred
  <2>1. PICK r : r = [req[id] EXCEPT !.pc = pc]
    OBVIOUS
  <2>2. r \in ReqState /\ r.pc = pc /\ r.cred = req[id].cred
    BY <1>1, <2>1 DEF ReqState
  <2>3. req' = [req EXCEPT ![id] = r]
    BY <1>3, <2>1 DEF Goto
  <2> QED BY <2>2, <2>3
<1> QED BY <1>2, <1>3

\* HandlerStepKeeps for a reply: one other than 200 has a reason.
LEMMA ReplyKeeps ==
  ASSUME IInv, NEW id \in Ids, NEW code \in {0, 200, 400, 401, 403, 500, 502}, Reply(id, code),
         UNCHANGED <<env, call, owned, gap>>, Active(id),
         minted' = minted \/ (minted' = minted \union {[id |-> id, repo |-> CallOf(id).repo]}
                              /\ id \in owned),
         NoFault \/ Fault(id),
         SetUp(id[1]) /\ req[id].cred = "ok" /\ code # 200 => Fault(id)
  PROVE  IInv'
<1>1. PICK r \in ReqState : /\ req' = [req EXCEPT ![id] = r]
                            /\ r.pc = "done" /\ r.code = code /\ r.cred = req[id].cred
  BY ReplyOrGoto DEF IInv
<1>2. Fault(id) => id[1] \in hit'
  BY DEF Fault
<1>3. (faults' = faults /\ hit' = hit) \/ Fault(id)
  BY DEF NoFault
<1>4. SetUp(id[1]) /\ req[id].cred = "ok" /\ id[1] \notin hit' =>
            r.pc # "gone" /\ (r.pc = "done" => r.code = 200)
  BY <1>1, <1>2
<1>5. r.pc \notin {"sign", "lookup", "mint"} /\ r.pc # "listPr"
  BY <1>1
<1>6. req' = [req EXCEPT ![id] = r] /\ r.cred = req[id].cred
  BY <1>1
<1> QED BY <1>3, <1>4, <1>5, <1>6, HandlerStepKeeps, Zenon

\* HandlerStepKeeps for a move to the handler's next call.
LEMMA GotoKeeps ==
  ASSUME IInv, NEW id \in Ids, NEW pc \in {"list", "listPr", "sign", "lookup", "mint"}, Goto(id, pc),
         UNCHANGED <<env, call, owned, gap, minted>>, Active(id), NoFault \/ Fault(id),
         pc \in {"sign", "lookup", "mint"} => id \in owned,
         pc = "listPr" => CallOf(id).ns.kind = "pr"
  PROVE  IInv'
<1>1. PICK r \in ReqState : /\ req' = [req EXCEPT ![id] = r]
                            /\ r.pc = pc /\ r.cred = req[id].cred
  BY ReplyOrGoto DEF IInv
<1>2. (faults' = faults /\ hit' = hit) \/ Fault(id)
  BY DEF NoFault
<1> QED BY <1>1, <1>2, HandlerStepKeeps

LEMMA ListSteps ==
  ASSUME IInv, NEW id \in Ids, VerifyCaller(id) \/ VerifyAppOwnsRepo(id) \/ VerifyPrOwnsRepo(id)
  PROVE  IInv'
<1>0. /\ CallOf(id).ns \in [app: Apps, kind: {"cicd", "pr", "dev"}]
      /\ CallOf(id).repo \in Repos
      /\ CallOf(id) = call[id[1]]
      /\ Active(id) => (Owns(CallOf(id).ns, CallOf(id).repo) => id \in owned)
      /\ req[id].pc = "listPr" => CallOf(id).ns.kind = "pr"
  BY Types DEF IInv, OwnerInv, CallOf
<1>1. CASE VerifyCaller(id)
  <2>1. Active(id) /\ UNCHANGED <<env, call, minted, owned, gap>> /\ (NoFault \/ Fault(id))
    BY <1>1 DEF VerifyCaller, Active
  <2>2. \/ Reply(id, 401) /\ (~SetUp(id[1]) \/ Fault(id))
        \/ Reply(id, 400) /\ ~SetUp(id[1])
        \/ Goto(id, "list")
    BY <1>0, <1>1 DEF VerifyCaller, SetUp
  <2>3. CASE Reply(id, 401) /\ (~SetUp(id[1]) \/ Fault(id))
    BY <2>1, <2>3, ReplyKeeps
  <2>4. CASE Reply(id, 400) /\ ~SetUp(id[1])
    BY <2>1, <2>4, ReplyKeeps
  <2>5. CASE Goto(id, "list")
    BY <2>1, <2>5, GotoKeeps
  <2> QED BY <2>2, <2>3, <2>4, <2>5
<1>2. CASE VerifyAppOwnsRepo(id)
  <2>1. Active(id) /\ UNCHANGED <<env, call, minted, owned, gap>> /\ (NoFault \/ Fault(id))
    BY <1>2 DEF VerifyAppOwnsRepo, Active
  <2>2. \/ Goto(id, "sign") /\ NamespaceOwnsRepo(CallOf(id).ns, CallOf(id).repo)
        \/ Goto(id, "listPr") /\ IsPrEnv(CallOf(id).ns)
        \/ /\ Reply(id, 403) /\ ~IsPrEnv(CallOf(id).ns)
           /\ ~NamespaceOwnsRepo(CallOf(id).ns, CallOf(id).repo) \/ Fault(id)
    BY <1>2 DEF VerifyAppOwnsRepo
  <2>3. CASE Goto(id, "sign") /\ NamespaceOwnsRepo(CallOf(id).ns, CallOf(id).repo)
    <3>1. id \in owned
      BY <1>0, <2>1, <2>3, ListGrants DEF Owns
    <3> QED BY <2>1, <2>3, <3>1, GotoKeeps
  <2>4. CASE Goto(id, "listPr") /\ IsPrEnv(CallOf(id).ns)
    BY <2>1, <2>4, GotoKeeps DEF IsPrEnv
  <2>5. CASE /\ Reply(id, 403) /\ ~IsPrEnv(CallOf(id).ns)
             /\ ~NamespaceOwnsRepo(CallOf(id).ns, CallOf(id).repo) \/ Fault(id)
    <3>1. SetUp(id[1]) => Fault(id)
      BY <1>0, <2>5, ListGrants DEF SetUp, Owns, IsPrEnv
    <3> QED BY <2>1, <2>5, <3>1, ReplyKeeps
  <2> QED BY <2>2, <2>3, <2>4, <2>5
<1>3. CASE VerifyPrOwnsRepo(id)
  <2>1. Active(id) /\ UNCHANGED <<env, call, minted, owned, gap>> /\ (NoFault \/ Fault(id))
    BY <1>3 DEF VerifyPrOwnsRepo, Active
  <2>2. \/ Goto(id, "sign") /\ NamespaceOwnsRepo(CicdOf(CallOf(id).ns), CallOf(id).repo)
        \/ /\ Reply(id, 403)
           /\ ~NamespaceOwnsRepo(CicdOf(CallOf(id).ns), CallOf(id).repo) \/ Fault(id)
    BY <1>3 DEF VerifyPrOwnsRepo
  <2>3. CallOf(id).ns.kind = "pr"
    BY <1>0, <1>3 DEF VerifyPrOwnsRepo
  <2>4. CASE Goto(id, "sign") /\ NamespaceOwnsRepo(CicdOf(CallOf(id).ns), CallOf(id).repo)
    <3>1. id \in owned
      BY <1>0, <2>1, <2>3, <2>4, PrListGrants DEF Owns
    <3> QED BY <2>1, <2>4, <3>1, GotoKeeps
  <2>5. CASE /\ Reply(id, 403)
             /\ ~NamespaceOwnsRepo(CicdOf(CallOf(id).ns), CallOf(id).repo) \/ Fault(id)
    <3>1. SetUp(id[1]) => Fault(id)
      BY <1>0, <2>5, PrListGrants DEF SetUp, Owns
    <3> QED BY <2>1, <2>5, <3>1, ReplyKeeps
  <2> QED BY <2>2, <2>4, <2>5
<1> QED BY <1>1, <1>2, <1>3

LEMMA GitHubSteps ==
  ASSUME IInv, NEW id \in Ids,
         SignAppJWT(id) \/ InstallationIDForRepo(id) \/ MintInstallationToken(id)
  PROVE  IInv'
<1>0. req[id].pc \in {"sign", "lookup", "mint"} => Active(id) /\ id \in owned
  BY DEF IInv, OwnerInv, Active
<1>1. SetUp(id[1]) /\ req[id].cred = "ok" => Accepted(id)
  BY DEF SetUp, Accepted, CallOf
<1>2. CASE SignAppJWT(id)
  BY <1>0, <1>2, ReplyKeeps, GotoKeeps DEF SignAppJWT
<1>3. CASE InstallationIDForRepo(id)
  BY <1>0, <1>1, <1>3, ReplyKeeps, GotoKeeps DEF InstallationIDForRepo
<1>4. CASE MintInstallationToken(id)
  <2>1. /\ Active(id) /\ id \in owned /\ UNCHANGED <<env, call, owned, gap>>
        /\ NoFault \/ Fault(id)
        /\ \/ minted' = minted
           \/ minted' = minted \union {[id |-> id, repo |-> CallOf(id).repo]}
        /\ Reply(id, 200) \/ (Reply(id, 502) /\ (Fault(id) \/ ~Accepted(id)))
    BY <1>0, <1>4 DEF MintInstallationToken
  <2> QED BY <1>1, <2>1, ReplyKeeps
<1> QED BY <1>2, <1>3, <1>4

LEMMA HandlerSteps ==
  ASSUME IInv, NEW id \in Ids, HandlerStep(id)
  PROVE  IInv'
<1>0. req[id] \in ReqState
  BY DEF IInv, TypeOK
<1>1. CASE VerifyCaller(id) \/ VerifyAppOwnsRepo(id) \/ VerifyPrOwnsRepo(id)
  BY <1>1, ListSteps
<1>2. CASE SignAppJWT(id) \/ InstallationIDForRepo(id) \/ MintInstallationToken(id)
  BY <1>2, GitHubSteps
<1>3. CASE JwtExpires(id)
  <2>1. PICK r : r = [req[id] EXCEPT !.cred = "stale"]
    OBVIOUS
  <2>2. r \in ReqState /\ r.pc = req[id].pc
    BY <1>0, <2>1 DEF ReqState
  <2>3. req' = [req EXCEPT ![id] = r]
    BY <1>3, <2>1 DEF JwtExpires
  <2>4. /\ Active(id) /\ id \in owned /\ UNCHANGED <<env, call, minted, owned, gap, faults, hit>>
        /\ req[id].pc \in {"lookup", "mint"}
        /\ call[id[1]].st # "waiting" \/ Current(id[1]) # id
    BY <1>3 DEF JwtExpires, hist, Active, IInv, OwnerInv
  <2> QED BY <2>2, <2>3, <2>4, HandlerStepKeeps
<1>4. CASE PodRestarts(id)
  <2>1. PICK r \in ReqState : /\ req' = [req EXCEPT ![id] = r]
                              /\ r.pc = "gone" /\ r.cred = req[id].cred
    BY <1>4, ReplyOrGoto DEF PodRestarts, IInv
  <2>2. Active(id) /\ UNCHANGED <<env, call, minted, owned, gap>> /\ Fault(id) /\ id[1] \in hit'
    BY <1>4 DEF PodRestarts, Fault
  <2> QED BY <2>1, <2>2, HandlerStepKeeps
<1> QED BY <1>1, <1>2, <1>3, <1>4 DEF HandlerStep

-----------------------------------------------------------------------------
(***************************************************************************)
(* A change around them.                                                   *)
(***************************************************************************)

\* What the three changes have in common: Note, and of the requests at most the credentials of
\* calls for one repository turn stale, whose installation comes or goes.
LEMMA ChangeKeeps ==
  ASSUME IInv, Note, onboarded' \subseteq Apps, live' \subseteq Callers, installed' \subseteq Repos,
         req' \in [Ids -> ReqState],
         \A id \in Ids : /\ req'[id].pc = req[id].pc
                         /\ req'[id].code = req[id].code
                         /\ \/ req'[id].cred = req[id].cred
                            \/ CallOf(id).repo \notin installed
                            \/ CallOf(id).repo \notin installed'
  PROVE  IInv'
<1> USE DEF IInv
<1>1. /\ changes' \in 0 .. MaxChanges
      /\ UNCHANGED <<call, minted, faults, hit>>
      /\ owned' = owned \union {id \in Ids : Active(id) /\ Owns(CallOf(id).ns, CallOf(id).repo)'}
      /\ gap' = gap \union {c \in Calls : call[c].st = "waiting" /\ ~SetUp(c)'}
  BY FaultsAssumption DEF Note, TypeOK
<1>2. TypeOK'
  BY <1>1 DEF TypeOK
<1>3. \A id \in Ids : CallOf(id)' = CallOf(id) /\ (Active(id)' <=> Active(id))
  BY <1>1 DEF CallOf, Active
<1>4. OwnerInv'
  <2>1. ASSUME NEW id \in Ids, Active(id)', Owns(CallOf(id).ns, CallOf(id).repo)' PROVE id \in owned'
    BY <1>1, <1>3, <2>1
  <2>2. MintedForOwner'
    BY <1>1, <1>3 DEF OwnerInv, MintedForOwner, TypeOK
  <2>3. \A id \in Ids : req'[id].pc \in {"sign", "lookup", "mint"} => id \in owned'
    BY <1>1 DEF OwnerInv
  <2>4. \A id \in Ids : req'[id].pc = "listPr" => CallOf(id)'.ns.kind = "pr"
    BY <1>3 DEF OwnerInv
  <2> QED BY <2>1, <2>2, <2>3, <2>4 DEF OwnerInv
<1>5. CauseInv'
  <2>1. \A c \in Calls : Current(c)' = Current(c)
    BY <1>1 DEF Current
  <2>2. FailedHasCause'
    BY <1>1 DEF CauseInv, FailedHasCause
  <2>3. ASSUME NEW c \in Calls, call[c].st = "waiting", c \notin gap'
        PROVE  SetUp(c)' /\ req'[Current(c)].cred = "ok"
    <3>1. SetUp(c)' /\ SetUp(c) /\ req[Current(c)].cred = "ok"
      BY <1>1, <2>3 DEF CauseInv
    <3>2. call[c].repo \in installed /\ call[c].repo \in installed'
      BY <1>1, <3>1 DEF SetUp
    <3>3. Current(c) \in Ids /\ CallOf(Current(c)) = call[c]
      BY CurrentIsId DEF CallOf
    <3> QED BY <3>1, <3>2, <3>3
  <2>4. ASSUME NEW c \in Calls, call[c].st = "waiting", c \notin gap' \union hit'
        PROVE  /\ req'[Current(c)].pc # "gone"
               /\ req'[Current(c)].pc = "done" => req'[Current(c)].code = 200
    BY <1>1, <2>4, CurrentIsId DEF CauseInv
  <2> QED BY <1>1, <2>1, <2>2, <2>3, <2>4 DEF CauseInv
<1> QED BY <1>2, <1>4, <1>5

LEMMA ChangeSteps ==
  ASSUME IInv, Change
  PROVE  IInv'
<1>1. ASSUME NEW a \in Apps, AppComesOrGoes(a) PROVE IInv'
  BY <1>1, ChangeKeeps DEF AppComesOrGoes, IInv, TypeOK
<1>2. ASSUME NEW ns \in Callers, NamespaceGoes(ns) PROVE IInv'
  BY <1>2, ChangeKeeps DEF NamespaceGoes, IInv, TypeOK
<1>3. ASSUME NEW repo \in Repos, InstallationChanges(repo) PROVE IInv'
  <2>1. /\ req' = [id \in Ids |-> IF req[id].pc = "mint" /\ CallOf(id).repo = repo
                                  THEN [req[id] EXCEPT !.cred = "stale"] ELSE req[id]]
        /\ installed' = IF repo \in installed THEN installed \ {repo} ELSE installed \union {repo}
        /\ Note /\ UNCHANGED <<onboarded, live>>
    BY <1>3 DEF InstallationChanges
  <2>2. ASSUME NEW id \in Ids
        PROVE  /\ req'[id] \in ReqState
               /\ req'[id].pc = req[id].pc /\ req'[id].code = req[id].code
               /\ \/ req'[id].cred = req[id].cred
                  \/ CallOf(id).repo \notin installed
                  \/ CallOf(id).repo \notin installed'
    <3>1. req[id] \in ReqState
      BY DEF IInv, TypeOK
    <3>2. CASE req[id].pc = "mint" /\ CallOf(id).repo = repo
      <4>1. PICK r : r = [req[id] EXCEPT !.cred = "stale"]
        OBVIOUS
      <4>2. req'[id] = r
        BY <2>1, <3>2, <4>1
      <4>3. r \in ReqState /\ r.pc = req[id].pc /\ r.code = req[id].code
        BY <3>1, <4>1 DEF ReqState
      <4>4. repo \notin installed \/ repo \notin installed'
        BY <2>1
      <4> QED BY <3>2, <4>2, <4>3, <4>4
    <3>3. CASE ~(req[id].pc = "mint" /\ CallOf(id).repo = repo)
      <4>1. req'[id] = req[id]
        BY <2>1, <3>3
      <4> QED BY <3>1, <4>1
    <3> QED BY <3>2, <3>3
  <2>3. req' \in [Ids -> ReqState]
    BY <2>1, <2>2
  <2>4. onboarded' \subseteq Apps /\ live' \subseteq Callers /\ installed' \subseteq Repos
    BY <2>1 DEF IInv, TypeOK
  <2> QED BY <2>1, <2>2, <2>3, <2>4, ChangeKeeps
<1> QED BY <1>1, <1>2, <1>3 DEF Change

LEMMA Stuttering == ASSUME IInv, UNCHANGED vars PROVE IInv'
<1>1. UNCHANGED <<onboarded, live, installed, call, req, minted, faults, changes, owned, gap, hit>>
  BY DEF vars
<1>2. TypeOK'
  BY <1>1 DEF IInv, TypeOK
<1>3. OwnerInv'
  BY <1>1 DEF IInv, OwnerInv, Active, Owns, CallOf, MintedForOwner
<1>4. CauseInv'
  BY <1>1 DEF IInv, CauseInv, FailedHasCause, SetUp, Owns, Current
<1> QED BY <1>2, <1>3, <1>4 DEF IInv

LEMMA NextIInv == IInv /\ [Next]_vars => IInv'
<1> SUFFICES ASSUME IInv, [Next]_vars PROVE IInv'
  OBVIOUS
<1>1. ASSUME NEW c \in Calls, CallerStep(c) PROVE IInv'
  BY <1>1, CallerSteps
<1>2. ASSUME NEW id \in Ids, HandlerStep(id) PROVE IInv'
  BY <1>2, HandlerSteps
<1>3. CASE Change
  BY <1>3, ChangeSteps
<1>4. CASE UNCHANGED vars
  BY <1>4, Stuttering
<1> QED BY <1>1, <1>2, <1>3, <1>4 DEF Next

LEMMA Invariance == Spec => []IInv
<1> QED BY InitIInv, NextIInv, PTL DEF Spec

-----------------------------------------------------------------------------
(***************************************************************************)
(* Which tokens there are, and who has them.                               *)
(***************************************************************************)

\* Which tokens there are.  A request that no fault or timeout has cut off its caller from is the
\* caller's current one while it is worked on, and ends in the token it minted.
Asked(id) == CallOf(id).st # "idle" /\ id[2] <= CallOf(id).try

Answered(id) == req[id].pc = "done" /\ req[id].code = 200

RequestInv ==
  /\ \A id \in Ids : req[id].pc # "none" => Asked(id)
  /\ \A c \in Calls : call[c].st = "waiting" => req[Current(c)].pc # "none"
  /\ \A id \in Ids : Active(id) => id[1] \in hit \/ (id = Current(id[1]) /\ CallOf(id).st = "waiting")

MintInv ==
  /\ \A id \in Ids : Answered(id) => [id |-> id, repo |-> CallOf(id).repo] \in minted
  /\ \A t \in minted : t.id[1] \in hit \/ Answered(t.id)
  /\ UnusedTokenHasCause

PrintInv ==
  \A c \in Calls :
    /\ \A i \in 1 .. Len(call[c].out) :
         call[c].out[i] = "token" <=> call[c].st = "ok" /\ i = Len(call[c].out)
    /\ call[c].st = "ok" => Answered(Current(c)) /\ Len(call[c].out) # 0
    /\ Len(call[c].out) <= IF call[c].st \in {"idle", "waiting"} THEN call[c].try ELSE call[c].try + 1

TokenInv == RequestInv /\ MintInv /\ PrintInv

LEMMA InitTokenInv == Init => TokenInv
<1> SUFFICES ASSUME Init PROVE TokenInv
  OBVIOUS
<1>1. PICK ns \in [Calls -> Callers], repo \in [Calls -> Repos],
           form \in [Calls -> {"good", "noRepo", "noBearer"}] :
        call = [c \in Calls |-> [ns |-> ns[c], repo |-> repo[c], form |-> form[c],
                                 st |-> "idle", try |-> 0, out |-> << >>]]
  BY DEF Init
<1>2. \A c \in Calls : call[c].st = "idle" /\ call[c].try = 0 /\ call[c].out = << >>
  BY <1>1
<1>3. RequestInv
  BY <1>2 DEF Init, RequestInv, NoReq, Active
<1>4. MintInv
  BY DEF Init, MintInv, UnusedTokenHasCause, Answered, NoReq
<1>5. PrintInv
  BY <1>2 DEF PrintInv
<1> QED BY <1>3, <1>4, <1>5 DEF TokenInv

\* A request arrives after an attempt that leaves nothing behind, or that a fault or a timeout hit.
LEMMA ArriveToken ==
  ASSUME TypeOK, TypeOK', TokenInv, NEW c \in Calls, NEW try \in 0 .. Retries,
         NEW out \in Seq({"error", "token"}),
         Arrive(c, try, out), hit' = hit \/ hit' = hit \union {c},
         (call[c].st = "idle" /\ try = 0) \/ (call[c].st = "waiting" /\ try = call[c].try + 1),
         \/ c \in hit'
         \/ \A id \in Ids : id[1] = c => ~Active(id) /\ ~Answered(id),
         \A i \in 1 .. Len(out) : out[i] # "token",
         Len(out) <= try
  PROVE  TokenInv'
<1> DEFINE new == <<c, try>>
<1>1. /\ call[c] \in CallState
      /\ new \in Ids /\ new[1] = c /\ new[2] = try
      /\ \A id \in Ids : id[1] \in Calls /\ id[2] \in Nat
      /\ \A id \in Ids : id[1] = c /\ id # new => id[2] # try
      /\ try \in Nat /\ call[c].try \in Nat
  BY RetriesAssumption DEF TypeOK, Ids, CallState
<1>2. /\ \A d \in Calls : d # c => call'[d] = call[d]
      /\ \A d \in Calls : call'[d].repo = call[d].repo
      /\ call'[c].st = "waiting" /\ call'[c].try = try /\ call'[c].out = out
  BY <1>1 DEF Arrive, TypeOK, CallState
<1>3. /\ req' = [req EXCEPT ![new] = NewReq]
      /\ minted' = minted /\ hit \subseteq hit'
  BY DEF Arrive
<1> HIDE DEF new
<1>4. /\ \A id \in Ids : id # new => req'[id] = req[id]
      /\ req'[new] = NewReq
  BY <1>1, <1>3 DEF TypeOK
<1>5. /\ Current(c)' = new
      /\ \A d \in Calls : d # c => Current(d)' = Current(d) /\ Current(d) # new
  BY <1>1, <1>2 DEF Current, new
<1>6. ~Answered(new)' /\ \A id \in Ids : id # new => (Answered(id)' <=> Answered(id))
  BY <1>4 DEF Answered, NewReq
<1>7. Active(new)' /\ \A id \in Ids : id # new => (Active(id)' <=> Active(id))
  BY <1>4 DEF Active, NewReq
<1>8. ~Answered(new) /\ \A id \in Ids : id[1] # c => CallOf(id)' = CallOf(id) /\ id # new
  <2>1. req[new].pc = "none"
    <3>1. ~Asked(new)
      BY <1>1 DEF Asked, CallOf
    <3> QED BY <1>1, <3>1 DEF TokenInv, RequestInv
  <2> QED BY <1>1, <1>2, <2>1 DEF Answered, CallOf
<1>9. RequestInv'
  <2>1. ASSUME NEW id \in Ids, req'[id].pc # "none" PROVE Asked(id)'
    <3>1. CASE id = new
      BY <1>1, <1>2, <3>1 DEF Asked, CallOf
    <3>2. CASE id # new /\ id[1] = c
      <4>1. Asked(id)
        BY <1>4, <2>1, <3>2 DEF TokenInv, RequestInv
      <4> QED BY <1>1, <1>2, <3>2, <4>1 DEF Asked, CallOf
    <3>3. CASE id[1] # c
      <4>1. Asked(id)
        BY <1>4, <1>8, <2>1, <3>3 DEF TokenInv, RequestInv
      <4> QED BY <1>8, <3>3, <4>1 DEF Asked
    <3> QED BY <3>1, <3>2, <3>3
  <2>2. ASSUME NEW d \in Calls, call'[d].st = "waiting" PROVE req'[Current(d)'].pc # "none"
    <3>1. CASE d = c
      BY <1>4, <1>5, <3>1 DEF NewReq
    <3>2. CASE d # c
      BY <1>2, <1>4, <1>5, <2>2, <3>2, CurrentIsId DEF TokenInv, RequestInv
    <3> QED BY <3>1, <3>2
  <2>3. ASSUME NEW id \in Ids, Active(id)'
        PROVE  id[1] \in hit' \/ (id = Current(id[1])' /\ CallOf(id)'.st = "waiting")
    <3>1. CASE id = new
      BY <1>1, <1>2, <1>5, <3>1 DEF CallOf
    <3>2. CASE id # new /\ id[1] = c
      BY <1>7, <2>3, <3>2
    <3>3. CASE id[1] # c
      <4>1. id[1] \in hit \/ (id = Current(id[1]) /\ CallOf(id).st = "waiting")
        BY <1>7, <1>8, <2>3, <3>3 DEF TokenInv, RequestInv
      <4> QED BY <1>1, <1>3, <1>5, <1>8, <3>3, <4>1
    <3> QED BY <3>1, <3>2, <3>3
  <2> QED BY <2>1, <2>2, <2>3 DEF RequestInv
<1>10. MintInv'
  <2>1. \A id \in Ids : CallOf(id)'.repo = CallOf(id).repo
    BY <1>1, <1>2 DEF CallOf
  <2>2. \A id \in Ids : Answered(id)' => [id |-> id, repo |-> CallOf(id)'.repo] \in minted'
    BY <1>3, <1>6, <2>1 DEF TokenInv, MintInv
  <2>3. ASSUME NEW t \in minted
        PROVE  /\ t.id[1] \in hit' \/ Answered(t.id)'
               /\ t.id[1] \in hit' \/ (t.id = Current(t.id[1])' /\ CallOf(t.id)'.st \in {"waiting", "ok"})
    <3>1. t.id \in Ids
      BY DEF TypeOK
    <3>2. /\ t.id[1] \in hit \/ Answered(t.id)
          /\ t.id[1] \in hit \/ (t.id = Current(t.id[1]) /\ CallOf(t.id).st \in {"waiting", "ok"})
      BY DEF TokenInv, MintInv, UnusedTokenHasCause
    <3>3. CASE t.id[1] = c
      BY <1>3, <3>1, <3>2, <3>3
    <3>4. CASE t.id[1] # c
      BY <1>1, <1>3, <1>5, <1>6, <1>8, <3>1, <3>2, <3>4
    <3> QED BY <3>3, <3>4
  <2> QED BY <1>3, <2>2, <2>3 DEF MintInv, UnusedTokenHasCause
<1>11. PrintInv'
  <2> SUFFICES ASSUME NEW d \in Calls
               PROVE  /\ \A i \in 1 .. Len(call'[d].out) :
                           call'[d].out[i] = "token" <=> call'[d].st = "ok" /\ i = Len(call'[d].out)
                      /\ call'[d].st = "ok" => Answered(Current(d))' /\ Len(call'[d].out) # 0
                      /\ Len(call'[d].out) <= IF call'[d].st \in {"idle", "waiting"}
                                              THEN call'[d].try ELSE call'[d].try + 1
    BY DEF PrintInv
  <2>1. CASE d = c
    BY <1>2, <2>1
  <2>2. CASE d # c
    <3>1. Answered(Current(d)) => Answered(Current(d))'
      BY <1>5, <1>6, <2>2, CurrentIsId DEF Answered
    <3> QED BY <1>2, <2>2, <3>1 DEF TokenInv, PrintInv
  <2> QED BY <2>1, <2>2
<1> QED BY <1>9, <1>10, <1>11 DEF TokenInv

\* A call ends well with the token of its current attempt, or badly with none.
LEMMA EndToken ==
  ASSUME TypeOK, TypeOK', TokenInv, NEW c \in Calls, NEW st \in {"ok", "failed"},
         NEW out \in Seq({"error", "token"}),
         End(c, st, out), call[c].st = "waiting", hit' = hit \/ hit' = hit \union {c},
         st = "ok" => Answered(Current(c)) /\ Len(out) # 0,
         st = "failed" => c \in hit' \/ (~Active(Current(c)) /\ ~Answered(Current(c))),
         \A i \in 1 .. Len(out) : out[i] = "token" <=> st = "ok" /\ i = Len(out),
         Len(out) <= call[c].try + 1
  PROVE  TokenInv'
<1>1. /\ call[c] \in CallState
      /\ Current(c) \in Ids
      /\ \A id \in Ids : id[1] \in Calls
  BY CurrentIsId DEF Ids
<1>2. /\ \A d \in Calls : d # c => call'[d] = call[d]
      /\ \A d \in Calls : call'[d].repo = call[d].repo /\ call'[d].try = call[d].try
      /\ call'[c].st = st /\ call'[c].out = out
  BY <1>1 DEF End, TypeOK, CallState
<1>3. req' = req /\ minted' = minted /\ hit \subseteq hit'
  BY DEF End
<1>4. /\ \A d \in Calls : Current(d)' = Current(d)
      /\ \A id \in Ids : (Active(id)' <=> Active(id)) /\ (Answered(id)' <=> Answered(id))
      /\ \A id \in Ids : id[1] # c => CallOf(id)' = CallOf(id)
      /\ \A id \in Ids : CallOf(id)'.repo = CallOf(id).repo /\ CallOf(id)'.try = CallOf(id).try
      /\ \A id \in Ids : id[1] = c => CallOf(id).st = "waiting" /\ CallOf(id)'.st = st
  BY <1>1, <1>2, <1>3 DEF Current, Active, Answered, CallOf
<1>5. \A id \in Ids : Answered(id) => ~Active(id)
  BY DEF Answered, Active
<1>6. RequestInv'
  <2>1. \A id \in Ids : req'[id].pc # "none" => Asked(id)'
    BY <1>2, <1>3, <1>4 DEF TokenInv, RequestInv, Asked
  <2>2. \A d \in Calls : call'[d].st = "waiting" => req'[Current(d)'].pc # "none"
    BY <1>2, <1>3, <1>4 DEF TokenInv, RequestInv
  <2>3. ASSUME NEW id \in Ids, Active(id)'
        PROVE  id[1] \in hit' \/ (id = Current(id[1])' /\ CallOf(id)'.st = "waiting")
    <3>1. Active(id) /\ (id[1] \in hit \/ (id = Current(id[1]) /\ CallOf(id).st = "waiting"))
      BY <1>4, <2>3 DEF TokenInv, RequestInv
    <3>2. CASE id[1] = c
      BY <1>3, <1>5, <3>1, <3>2
    <3>3. CASE id[1] # c
      BY <1>1, <1>3, <1>4, <3>1, <3>3
    <3> QED BY <3>2, <3>3
  <2> QED BY <2>1, <2>2, <2>3 DEF RequestInv
<1>7. MintInv'
  <2>1. \A id \in Ids : Answered(id)' => [id |-> id, repo |-> CallOf(id)'.repo] \in minted'
    BY <1>3, <1>4 DEF TokenInv, MintInv
  <2>2. ASSUME NEW t \in minted
        PROVE  /\ t.id[1] \in hit' \/ Answered(t.id)'
               /\ t.id[1] \in hit' \/ (t.id = Current(t.id[1])' /\ CallOf(t.id)'.st \in {"waiting", "ok"})
    <3>1. t.id \in Ids
      BY DEF TypeOK
    <3>2. /\ t.id[1] \in hit \/ Answered(t.id)
          /\ t.id[1] \in hit \/ (t.id = Current(t.id[1]) /\ CallOf(t.id).st \in {"waiting", "ok"})
      BY DEF TokenInv, MintInv, UnusedTokenHasCause
    <3>3. CASE t.id[1] = c
      BY <1>3, <1>4, <3>1, <3>2, <3>3
    <3>4. CASE t.id[1] # c
      BY <1>1, <1>3, <1>4, <3>1, <3>2, <3>4
    <3> QED BY <3>3, <3>4
  <2> QED BY <1>3, <2>1, <2>2 DEF MintInv, UnusedTokenHasCause
<1>8. PrintInv'
  <2> SUFFICES ASSUME NEW d \in Calls
               PROVE  /\ \A i \in 1 .. Len(call'[d].out) :
                           call'[d].out[i] = "token" <=> call'[d].st = "ok" /\ i = Len(call'[d].out)
                      /\ call'[d].st = "ok" => Answered(Current(d))' /\ Len(call'[d].out) # 0
                      /\ Len(call'[d].out) <= IF call'[d].st \in {"idle", "waiting"}
                                              THEN call'[d].try ELSE call'[d].try + 1
    BY DEF PrintInv
  <2>1. Answered(Current(d))' <=> Answered(Current(d))
    BY <1>3, <1>4 DEF Answered
  <2>2. CASE d = c
    BY <1>2, <2>1, <2>2
  <2>3. CASE d # c
    BY <1>2, <2>1, <2>3 DEF TokenInv, PrintInv
  <2> QED BY <2>2, <2>3
<1> QED BY <1>6, <1>7, <1>8 DEF TokenInv

LEMMA CallerToken ==
  ASSUME TypeOK, TypeOK', TokenInv, NEW c \in Calls, CallerStep(c)
  PROVE  TokenInv'
<1>1. /\ call[c] \in CallState
      /\ call[c].try \in 0 .. Retries /\ call[c].out \in Seq({"error", "token"})
      /\ Current(c) \in Ids /\ Current(c)[1] = c
      /\ Retries \in Nat
  BY CurrentIsId, RetriesAssumption DEF CallState
<1>2. call[c].st = "waiting" =>
        /\ \A i \in 1 .. Len(call[c].out) : call[c].out[i] # "token"
        /\ Len(call[c].out) <= call[c].try
  BY DEF TokenInv, PrintInv
<1>3. call[c].try < Retries => call[c].try + 1 \in 0 .. Retries
  BY <1>1
\* While no fault has hit, the requests of a call but its current one minted nothing and are over.
<1>4. ASSUME c \notin hit, call[c].st = "idle" \/ (~Active(Current(c)) /\ ~Answered(Current(c))),
             NEW id \in Ids, id[1] = c
      PROVE  ~Active(id) /\ ~Answered(id)
  <2>1. CallOf(id) = call[c]
    BY <1>4 DEF CallOf
  <2>2. Active(id) => id = Current(c) /\ call[c].st = "waiting"
    BY <1>4, <2>1 DEF TokenInv, RequestInv
  <2>3. Answered(id) => id = Current(c) /\ call[c].st \in {"waiting", "ok"}
    <3> SUFFICES ASSUME Answered(id) PROVE id = Current(c) /\ call[c].st \in {"waiting", "ok"}
      OBVIOUS
    <3> DEFINE t == [id |-> id, repo |-> CallOf(id).repo]
    <3>1. t \in minted /\ t.id = id
      BY DEF TokenInv, MintInv
    <3> QED BY <1>4, <2>1, <3>1 DEF TokenInv, MintInv, UnusedTokenHasCause
  <2> QED BY <1>4, <2>2, <2>3
<1>5. CASE Post(c)
  <2>1. << >> \in Seq({"error", "token"}) /\ Len(<< >>) = 0
    OBVIOUS
  <2> PICK out \in Seq({"error", "token"}) : out = << >> /\ Len(out) = 0
    BY <2>1
  <2>2. Len(out) <= 0 /\ \A i \in 1 .. Len(out) : out[i] # "token"
    OBVIOUS
  <2>3. call[c].st = "idle" /\ Arrive(c, 0, out) /\ hit' = hit /\ 0 \in 0 .. Retries
    BY <1>1, <1>5 DEF Post
  <2>4. \A id \in Ids : id[1] = c => ~Active(id) /\ ~Answered(id)
    <3>1. \A id \in Ids : id[1] = c => req[id].pc = "none"
      BY <2>3 DEF TokenInv, RequestInv, Asked, CallOf
    <3> QED BY <3>1 DEF Active, Answered
  <2> QED BY <2>3, <2>4, <2>2, ArriveToken
<1>6. CASE Receive(c)
  <2> DEFINE code == req[Current(c)].code
             printed == Append(call[c].out, IF code = 200 THEN "token" ELSE "error")
  <2>1. /\ printed \in Seq({"error", "token"})
        /\ Len(printed) = Len(call[c].out) + 1
        /\ \A i \in 1 .. Len(call[c].out) : printed[i] = call[c].out[i]
        /\ printed[Len(printed)] = IF code = 200 THEN "token" ELSE "error"
    BY <1>1
  <2>2. call[c].st = "waiting" /\ req[Current(c)].pc = "done" /\ hit' = hit
    BY <1>6 DEF Receive
  <2>3. \/ code # 200 /\ call[c].try < Retries /\ Arrive(c, call[c].try + 1, printed)
        \/ code = 200 /\ End(c, "ok", printed)
        \/ code # 200 /\ End(c, "failed", printed)
    BY <1>6 DEF Receive
  <2>4. ~Active(Current(c)) /\ (Answered(Current(c)) <=> code = 200)
    BY <2>2 DEF Active, Answered
  <2>5. \A i \in 1 .. Len(printed) : printed[i] = "token" <=> code = 200 /\ i = Len(printed)
    <3> SUFFICES ASSUME NEW i \in 1 .. Len(printed)
                 PROVE  printed[i] = "token" <=> code = 200 /\ i = Len(printed)
      OBVIOUS
    <3>1. CASE i = Len(printed)
      BY <2>1, <3>1
    <3>2. CASE i # Len(printed)
      <4>1. i \in 1 .. Len(call[c].out)
        BY <1>1, <2>1, <3>2
      <4> QED BY <1>2, <2>1, <2>2, <3>2, <4>1
    <3> QED BY <3>1, <3>2
  <2>6. Len(printed) <= call[c].try + 1 /\ Len(printed) # 0
    BY <1>1, <1>2, <2>1, <2>2
  <2> HIDE DEF printed
  <2>7. CASE code # 200 /\ call[c].try < Retries /\ Arrive(c, call[c].try + 1, printed)
    <3>1. c \in hit' \/ \A id \in Ids : id[1] = c => ~Active(id) /\ ~Answered(id)
      BY <1>4, <2>2, <2>4, <2>7
    <3>2. \A i \in 1 .. Len(printed) : printed[i] # "token"
      BY <2>5, <2>7
    <3> QED BY <1>3, <2>1, <2>2, <2>6, <2>7, <3>1, <3>2, ArriveToken
  <2>8. CASE code = 200 /\ End(c, "ok", printed)
    BY <2>1, <2>2, <2>4, <2>5, <2>6, <2>8, EndToken
  <2>9. CASE code # 200 /\ End(c, "failed", printed)
    BY <2>1, <2>2, <2>4, <2>5, <2>6, <2>9, EndToken
  <2> QED BY <2>3, <2>7, <2>8, <2>9
<1>7. CASE TimeOut(c)
  <2>1. call[c].st = "waiting" /\ hit' = hit \union {c} /\ c \in hit'
    BY <1>7 DEF TimeOut
  <2>2. Len(call[c].out) <= call[c].try + 1
    BY <1>1, <1>2, <2>1
  <2>3. CASE call[c].try < Retries /\ Arrive(c, call[c].try + 1, call[c].out)
    BY <1>1, <1>2, <1>3, <2>1, <2>2, <2>3, ArriveToken
  <2>4. CASE End(c, "failed", call[c].out)
    BY <1>1, <1>2, <2>1, <2>2, <2>4, EndToken
  <2> QED BY <1>7, <2>3, <2>4 DEF TimeOut
<1>8. CASE LostConnection(c)
  <2>1. call[c].st = "waiting" /\ req[Current(c)].pc = "gone" /\ hit' = hit
    BY <1>8 DEF LostConnection
  <2>2. ~Active(Current(c)) /\ ~Answered(Current(c))
    BY <2>1 DEF Active, Answered
  <2>3. Len(call[c].out) <= call[c].try + 1
    BY <1>1, <1>2, <2>1
  <2>4. CASE call[c].try < Retries /\ Arrive(c, call[c].try + 1, call[c].out)
    <3>1. c \in hit' \/ \A id \in Ids : id[1] = c => ~Active(id) /\ ~Answered(id)
      BY <1>4, <2>1, <2>2
    <3> QED BY <1>1, <1>2, <1>3, <2>1, <2>3, <2>4, <3>1, ArriveToken
  <2>5. CASE End(c, "failed", call[c].out)
    BY <1>1, <1>2, <2>1, <2>2, <2>3, <2>5, EndToken
  <2> QED BY <1>8, <2>4, <2>5 DEF LostConnection
<1> QED BY <1>5, <1>6, <1>7, <1>8 DEF CallerStep

\* What a handler's step has to do with tokens: an answer of 200 is one it minted, and a token whose
\* answer is another was hit by a fault.
LEMMA HandlerFrame ==
  ASSUME TypeOK, NEW id \in Ids, HandlerStep(id)
  PROVE  /\ call' = call /\ hit \subseteq hit'
         /\ \A j \in Ids : j # id => req'[j] = req[j]
         /\ Active(id) /\ req'[id].pc # "none"
         /\ minted \subseteq minted'
         /\ minted' \subseteq minted \union {[id |-> id, repo |-> CallOf(id).repo]}
         /\ Answered(id)' => [id |-> id, repo |-> CallOf(id).repo] \in minted'
         /\ minted' = minted \/ Answered(id)' \/ id[1] \in hit'
<1>1. req[id] \in ReqState /\ id \in DOMAIN req
  BY DEF TypeOK
<1>2. ASSUME NEW code, Reply(id, code)
      PROVE  /\ \A j \in Ids : j # id => req'[j] = req[j]
             /\ req'[id].pc = "done" /\ req'[id].code = code
  <2>1. PICK q : q = [req[id] EXCEPT !.pc = "done", !.code = code]
    OBVIOUS
  <2>2. q.pc = "done" /\ q.code = code
    BY <1>1, <2>1 DEF ReqState
  <2>3. req'[id] = q /\ \A j \in Ids : j # id => req'[j] = req[j]
    BY <1>1, <1>2, <2>1 DEF Reply, TypeOK, ReqState
  <2> QED BY <2>2, <2>3
<1>3. ASSUME NEW pc, Goto(id, pc)
      PROVE  /\ \A j \in Ids : j # id => req'[j] = req[j]
             /\ req'[id].pc = pc
  BY <1>1, <1>3 DEF Goto, TypeOK, ReqState
<1>4. /\ NoFault => hit' = hit
      /\ Fault(id) => hit' = hit \union {id[1]}
  BY DEF NoFault, Fault
<1>5. CASE VerifyCaller(id)
  BY <1>2, <1>3, <1>4, <1>5 DEF VerifyCaller, Active, Answered
<1>6. CASE VerifyAppOwnsRepo(id)
  BY <1>2, <1>3, <1>4, <1>6 DEF VerifyAppOwnsRepo, Active, Answered
<1>7. CASE VerifyPrOwnsRepo(id)
  BY <1>2, <1>3, <1>4, <1>7 DEF VerifyPrOwnsRepo, Active, Answered
<1>8. CASE SignAppJWT(id)
  BY <1>2, <1>3, <1>4, <1>8 DEF SignAppJWT, Active, Answered
<1>9. CASE InstallationIDForRepo(id)
  BY <1>2, <1>3, <1>4, <1>9 DEF InstallationIDForRepo, Active, Answered
<1>10. CASE MintInstallationToken(id)
  BY <1>2, <1>3, <1>4, <1>10 DEF MintInstallationToken, Active, Answered
<1>11. CASE JwtExpires(id)
  BY <1>1, <1>11 DEF JwtExpires, TypeOK, ReqState, Active, Answered, hist
<1>12. CASE PodRestarts(id)
  BY <1>2, <1>3, <1>4, <1>12 DEF PodRestarts, Answered
<1> QED BY <1>5, <1>6, <1>7, <1>8, <1>9, <1>10, <1>11, <1>12 DEF HandlerStep

LEMMA HandlerToken ==
  ASSUME TypeOK, TypeOK', TokenInv, NEW id \in Ids, HandlerStep(id)
  PROVE  TokenInv'
<1> DEFINE tok == [id |-> id, repo |-> CallOf(id).repo]
<1>1. /\ call' = call /\ hit \subseteq hit'
      /\ \A j \in Ids : j # id => req'[j] = req[j]
      /\ Active(id) /\ req'[id].pc # "none"
      /\ minted \subseteq minted'
      /\ minted' \subseteq minted \union {tok}
      /\ Answered(id)' => tok \in minted'
      /\ minted' = minted \/ Answered(id)' \/ id[1] \in hit'
  BY HandlerFrame
<1>2. tok.id = id
  OBVIOUS
<1> HIDE DEF tok
<1>3. /\ \A j \in Ids : CallOf(j)' = CallOf(j) /\ (Asked(j)' <=> Asked(j))
      /\ \A c \in Calls : Current(c)' = Current(c)
      /\ \A j \in Ids : j # id => (Active(j)' <=> Active(j)) /\ (Answered(j)' <=> Answered(j))
  BY <1>1 DEF CallOf, Asked, Current, Active, Answered
<1>4. /\ ~Answered(id)
      /\ id[1] \in hit \/ (id = Current(id[1]) /\ CallOf(id).st = "waiting")
      /\ Asked(id)
      /\ \A j \in Ids : j[1] \in Calls
  BY <1>1 DEF Active, Answered, TokenInv, RequestInv, Ids
<1>5. RequestInv'
  <2>1. \A j \in Ids : req'[j].pc # "none" => Asked(j)'
    BY <1>1, <1>3, <1>4 DEF TokenInv, RequestInv
  <2>2. \A c \in Calls : call'[c].st = "waiting" => req'[Current(c)'].pc # "none"
    BY <1>1, <1>3, CurrentIsId DEF TokenInv, RequestInv
  <2>3. \A j \in Ids : Active(j)' =>
          j[1] \in hit' \/ (j = Current(j[1])' /\ CallOf(j)'.st = "waiting")
    BY <1>1, <1>3, <1>4 DEF TokenInv, RequestInv
  <2> QED BY <2>1, <2>2, <2>3 DEF RequestInv
<1>6. MintInv'
  <2>1. \A j \in Ids : Answered(j)' => [id |-> j, repo |-> CallOf(j)'.repo] \in minted'
    BY <1>1, <1>3 DEF TokenInv, MintInv, tok
  <2>2. ASSUME NEW t \in minted'
        PROVE  /\ t.id[1] \in hit' \/ Answered(t.id)'
               /\ t.id[1] \in hit' \/ (t.id = Current(t.id[1])' /\ CallOf(t.id)'.st \in {"waiting", "ok"})
    <3>1. t.id \in Ids /\ t.id[1] \in Calls
      BY <1>4 DEF TypeOK
    <3>2. CASE t \in minted
      <4>1. /\ t.id[1] \in hit \/ Answered(t.id)
            /\ t.id[1] \in hit \/ (t.id = Current(t.id[1]) /\ CallOf(t.id).st \in {"waiting", "ok"})
        BY <3>2 DEF TokenInv, MintInv, UnusedTokenHasCause
      <4> QED BY <1>1, <1>3, <1>4, <3>1, <4>1
    <3>3. CASE t \notin minted
      <4>1. t = tok /\ (Answered(id)' \/ id[1] \in hit')
        BY <1>1, <2>2, <3>3
      <4> QED BY <1>1, <1>2, <1>3, <1>4, <3>1, <4>1
    <3> QED BY <3>2, <3>3
  <2> QED BY <2>1, <2>2 DEF MintInv, UnusedTokenHasCause
<1>7. PrintInv'
  <2>1. \A c \in Calls : Answered(Current(c)) => Answered(Current(c))'
    <3> SUFFICES ASSUME NEW c \in Calls, Answered(Current(c)) PROVE Answered(Current(c))'
      OBVIOUS
    <3>1. Current(c) \in Ids /\ Current(c) # id /\ Current(c)' = Current(c)
      BY <1>3, <1>4, CurrentIsId
    <3> QED BY <1>1, <3>1 DEF Answered
  <2> QED BY <1>1, <2>1 DEF TokenInv, PrintInv
<1> QED BY <1>5, <1>6, <1>7 DEF TokenInv

\* Around them nothing touches a call, a token or how far a request has got.
LEMMA ChangeToken ==
  ASSUME TypeOK, TokenInv, Change \/ UNCHANGED vars
  PROVE  TokenInv'
<1>1. /\ call' = call /\ minted' = minted /\ hit' = hit
      /\ \A id \in Ids : req'[id].pc = req[id].pc /\ req'[id].code = req[id].code
  <2>1. ASSUME NEW a \in Apps, AppComesOrGoes(a)
        PROVE  UNCHANGED <<call, minted, hit, req>>
    BY <2>1 DEF AppComesOrGoes, Note
  <2>2. ASSUME NEW ns \in Callers, NamespaceGoes(ns)
        PROVE  UNCHANGED <<call, minted, hit, req>>
    BY <2>2 DEF NamespaceGoes, Note
  <2>3. ASSUME NEW repo \in Repos, InstallationChanges(repo)
        PROVE  /\ UNCHANGED <<call, minted, hit>>
               /\ \A id \in Ids : req'[id].pc = req[id].pc /\ req'[id].code = req[id].code
    BY <2>3 DEF InstallationChanges, Note, TypeOK, ReqState
  <2>4. CASE UNCHANGED vars
    BY <2>4 DEF vars
  <2> QED BY <2>1, <2>2, <2>3, <2>4 DEF Change
<1>2. /\ \A j \in Ids : CallOf(j)' = CallOf(j) /\ (Asked(j)' <=> Asked(j))
      /\ \A c \in Calls : Current(c)' = Current(c) /\ Current(c) \in Ids
      /\ \A j \in Ids : (Active(j)' <=> Active(j)) /\ (Answered(j)' <=> Answered(j))
      /\ \A j \in Ids : j[1] \in Calls
  BY <1>1, CurrentIsId DEF CallOf, Asked, Current, Active, Answered, Ids
<1>3. RequestInv'
  BY <1>1, <1>2 DEF TokenInv, RequestInv
<1>4. MintInv'
  <2>1. \A t \in minted : t.id \in Ids
    BY DEF TypeOK
  <2> QED BY <1>1, <1>2, <2>1 DEF TokenInv, MintInv, UnusedTokenHasCause
<1>5. PrintInv'
  <2>1. \A c \in Calls : Answered(Current(c)) => Answered(Current(c))'
    BY <1>1, <1>2 DEF Answered
  <2> QED BY <1>1, <2>1 DEF TokenInv, PrintInv
<1> QED BY <1>3, <1>4, <1>5 DEF TokenInv

LEMMA TokenInvariance == Spec => [](TypeOK /\ TokenInv)
<1>1. TypeOK /\ TypeOK' /\ TokenInv /\ [Next]_vars => TokenInv'
  BY CallerToken, HandlerToken, ChangeToken DEF Next
<1>2. IInv => TypeOK
  BY DEF IInv
<1> QED BY InitTokenInv, Invariance, <1>1, <1>2, PTL DEF Spec

-----------------------------------------------------------------------------
(***************************************************************************)
(* Theorems.                                                               *)
(***************************************************************************)

\* Callers and handlers are always in a state of their script.
THEOREM TypeCorrect == Spec => []TypeOK
<1>1. IInv => TypeOK
  BY DEF IInv
<1> QED BY Invariance, <1>1, PTL

\* However requests of however many callers interleave with one another and with Applications,
\* namespaces and installations that come and go, a token is of a repository that its caller's
\* Application owned since the request came.
THEOREM TokensAreOwners == Spec => []MintedForOwner
<1>1. IInv => MintedForOwner
  BY DEF IInv, OwnerInv
<1> QED BY Invariance, <1>1, PTL

\* Whatever the number of retries, github_app_installation_token never fails without a cause.
THEOREM FailuresHaveCause == Spec => []FailedHasCause
<1>1. IInv => FailedHasCause
  BY DEF IInv, CauseInv
<1> QED BY Invariance, <1>1, PTL

\* For any number of retries, faults and changes: a call that no fault and no timeout hit has one
\* token at most, and its Task holds it or is about to.
THEOREM UnusedTokensHaveCause == Spec => []UnusedTokenHasCause
<1>1. TokenInv => UnusedTokenHasCause
  BY DEF TokenInv, MintInv
<1> QED BY TokenInvariance, <1>1, PTL

\* A script goes on only with a token minted for its last attempt, printed last; one that fails
\* printed none.
THEOREM SuccessHoldsToken == Spec => []OkHasToken
<1>1. TypeOK /\ TokenInv => OkHasToken
  <2> SUFFICES ASSUME TypeOK, TokenInv, NEW c \in Calls
               PROVE  /\ \A i \in 1 .. Len(call[c].out) :
                           call[c].out[i] = "token" <=> call[c].st = "ok" /\ i = Len(call[c].out)
                      /\ Len(call[c].out) <= call[c].try + 1
                      /\ call[c].st = "ok" =>
                           /\ Len(call[c].out) # 0
                           /\ [id |-> Current(c), repo |-> call[c].repo] \in minted
    BY DEF OkHasToken
  <2>1. Current(c) \in Ids /\ CallOf(Current(c)) = call[c]
    BY CurrentIsId DEF CallOf
  <2>2. Len(call[c].out) <= call[c].try + 1
    <3>1. call[c].try \in Nat /\ call[c].out \in Seq({"error", "token"})
      BY CurrentIsId, RetriesAssumption DEF CallState
    <3> QED BY <3>1 DEF TokenInv, PrintInv
  <2> QED BY <2>1, <2>2 DEF TokenInv, PrintInv, MintInv
<1> QED BY TokenInvariance, <1>1, PTL

\* The safety half of EveryCallEnds: a call that waits waits for a request that was really made, so
\* one of Receive, TimeOut and LostConnection can always end the wait.
THEOREM WaitingCanEnd ==
  Spec => [](\A c \in Calls : call[c].st = "waiting" =>
               Active(Current(c)) \/ req[Current(c)].pc \in {"done", "gone"})
<1>1. TokenInv => \A c \in Calls : call[c].st = "waiting" =>
                    Active(Current(c)) \/ req[Current(c)].pc \in {"done", "gone"}
  BY DEF TokenInv, RequestInv, Active
<1> QED BY TokenInvariance, <1>1, PTL
=============================================================================
