------------------------------ MODULE StepRuns -------------------------------
(***************************************************************************)
(* What chaining lets anybody count on who looks at PipelineRuns: the runs *)
(* of a chain come one step after another, each started by its             *)
(* predecessor's event; an event is acted on or lost; and a run ends well  *)
(* only after its event was accepted, unless it has none to send.  Nothing *)
(* is said of filters, POSTs or names.                                     *)
(*                                                                         *)
(* FlowChain implements this module, and PipelineRuns is built on it.      *)
(***************************************************************************)
EXTENDS Naturals

VARIABLES
  started,    \* the steps [chain, idx] that have a run
  silent,     \* those that start nothing: the last of a flow, or without a `finally`
  succeeded, failed, \* those whose run ended, and how
  pending,    \* those whose event was accepted and not acted on yet
  fired,      \* those whose event started the next step
  missed      \* those whose event was accepted and lost

stepVars == <<started, silent, succeeded, failed, pending, fired, missed>>

NextStep(k) == [chain |-> k.chain, idx |-> k.idx + 1]

Ended == succeeded \union failed

\* A run of step k is created.  Whether it is a silent one is the configuration's matter.
Create(k) ==
  /\ started' = started \union {k}
  /\ silent' \in {silent, silent \union {k}}

\* Git events may have started some chains.
StepInit ==
  /\ \A k \in started : k = [chain |-> k.chain, idx |-> 0]
  /\ silent \subseteq started
  /\ succeeded = {} /\ failed = {}
  /\ pending = {} /\ fired = {} /\ missed = {}

\* A git event starts a chain.
Begin(k) ==
  /\ k.idx = 0
  /\ \A q \in started : q.chain # k.chain
  /\ Create(k)
  /\ UNCHANGED <<succeeded, failed, pending, fired, missed>>

\* The run's `finally` posts its event and the listener accepts it, not always for the first
\* time: one that was lost may be posted again.
Announce(k) ==
  /\ k \in started \ (Ended \union silent \union pending \union fired)
  /\ pending' = pending \union {k}
  /\ missed' = missed \ {k}
  /\ UNCHANGED <<started, silent, succeeded, failed, fired>>

Succeed(k) ==
  /\ k \in started \ Ended
  /\ k \in silent \union pending \union fired \union missed
  /\ succeeded' = succeeded \union {k}
  /\ UNCHANGED <<started, silent, failed, pending, fired, missed>>

\* Whatever became of its event: a task of its own failed, or a later one of `finally`.
Fail(k) ==
  /\ k \in started \ Ended
  /\ failed' = failed \union {k}
  /\ UNCHANGED <<started, silent, succeeded, pending, fired, missed>>

\* The listener acts on the event, which the run need not have ended for.
Deliver(k) ==
  /\ k \in pending
  /\ Create(NextStep(k))
  /\ pending' = pending \ {k}
  /\ fired' = fired \union {k}
  /\ UNCHANGED <<succeeded, failed, missed>>

Lose(k) ==
  /\ k \in pending
  /\ pending' = pending \ {k}
  /\ missed' = missed \union {k}
  /\ UNCHANGED <<started, silent, succeeded, failed, fired>>

StepNext ==
  \/ \E k \in started' \ started : Begin(k)
  \/ \E k \in started : Announce(k) \/ Succeed(k) \/ Fail(k) \/ Deliver(k) \/ Lose(k)

StepSpec == StepInit /\ [][StepNext]_stepVars
=============================================================================
