--------------------------- MODULE DurableCounter ---------------------------
(***************************************************************************)
(* What dora-metrics-state promises of an app's counters: an outcome adds  *)
(* to what is shown, a save adds one outcome to what is stored and undoes  *)
(* none, and a restart shows what was stored.                              *)
(***************************************************************************)
EXTENDS Naturals

VARIABLES
  up,       \* the process is running
  shown,    \* counters a scrape of /metrics sees
  stored    \* counters a restart will start from

vars == <<up, shown, stored>>

Counters == [ok: Nat, bad: Nat, mttr: Nat]

Zero == [ok |-> 0, bad |-> 0, mttr |-> 0]

\* What one release outcome adds: a success, with or without a restore time, or a failure.
Outcomes == {[ok |-> 1, bad |-> 0, mttr |-> 0],
             [ok |-> 1, bad |-> 0, mttr |-> 1],
             [ok |-> 0, bad |-> 1, mttr |-> 0]}

Plus(c, o) == [ok |-> c.ok + o.ok, bad |-> c.bad + o.bad, mttr |-> c.mttr + o.mttr]

Init ==
  /\ up = FALSE
  /\ shown = Zero
  /\ stored = Zero

Observe ==
  /\ up
  /\ \E o \in Outcomes : shown' = Plus(shown, o)
  /\ UNCHANGED <<up, stored>>

Save ==
  /\ up
  /\ \E o \in Outcomes : stored' = Plus(stored, o)
  /\ UNCHANGED <<up, shown>>

Stop ==
  /\ up
  /\ up' = FALSE
  /\ shown' = Zero
  /\ UNCHANGED stored

\* A failed read of the stored counters starts from zero and leaves them alone.
Boot ==
  /\ ~up
  /\ up' = TRUE
  /\ shown' \in {stored, Zero}
  /\ UNCHANGED stored

Next == Observe \/ Save \/ Stop \/ Boot

Spec == Init /\ [][Next]_vars
=============================================================================
