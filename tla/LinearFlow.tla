----------------------------- MODULE LinearFlow -----------------------------
(***************************************************************************)
(* What chaining promises an app team: the steps of a flow run one after   *)
(* another.  A chain begins at step 0; step i+1 starts only once step i    *)
(* passed; no step of a chain runs twice; a failed step ends its chain.    *)
(* Nothing is said of events, deliveries or retries.                       *)
(***************************************************************************)
EXTENDS Naturals

CONSTANTS
  ChainOf(_),   \* the chain a run belongs to
  FlowOf(_),    \* the flow it is a run of
  IdxOf(_)      \* the 0-based step it is a run of

VARIABLES
  started,      \* runs that exist
  passed,       \* runs whose stage succeeded
  failed        \* runs whose stage failed

vars == <<started, passed, failed>>

Init ==
  /\ started = {}
  /\ passed = {}
  /\ failed = {}

\* A git event starts a new chain.
Begin ==
  \E r \in started' \ started :
    /\ IdxOf(r) = 0
    /\ \A q \in started : ChainOf(q) # ChainOf(r)
    /\ started' = started \union {r}
    /\ UNCHANGED <<passed, failed>>

\* The furthest step of a chain passed, and the next step of that flow starts.
Advance ==
  \E r \in started' \ started, p \in passed :
    /\ ChainOf(r) = ChainOf(p)
    /\ FlowOf(r) = FlowOf(p)
    /\ IdxOf(r) = IdxOf(p) + 1
    /\ \A q \in started : ChainOf(q) = ChainOf(r) => IdxOf(q) <= IdxOf(p)
    /\ started' = started \union {r}
    /\ UNCHANGED <<passed, failed>>

\* A running stage reaches its verdict, once.
Settle ==
  \E r \in started \ (passed \union failed) :
    /\ \/ passed' = passed \union {r} /\ UNCHANGED failed
       \/ failed' = failed \union {r} /\ UNCHANGED passed
    /\ UNCHANGED started

Next == Begin \/ Advance \/ Settle

Spec == Init /\ [][Next]_vars
=============================================================================
