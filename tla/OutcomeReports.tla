--------------------------- MODULE OutcomeReports ---------------------------
(***************************************************************************)
(* What the way back from another cluster promises of the outcome of each  *)
(* sync of an Application: events are said one after another, none of a    *)
(* sync whose outcome is settled, only what was said last can be heard,    *)
(* each event heard is noted once at most, and an outcome settles only     *)
(* when it was heard or is known lost.  The next sync of the same release  *)
(* is another sync: of a release as a whole there may be several words.    *)
(* Nothing is said of hooks, retries, secrets or answers.                  *)
(***************************************************************************)
EXTENDS Naturals

CONSTANT Syncs    \* the syncs that have an outcome; several may be of one release

VARIABLES
  said,      \* events [sync, at, status] that some attempt set out to report
  waiting,   \* events that arrived and wait for a note to be made
  noted,     \* events that have one
  lost,      \* syncs with an arrived event whose note was not made or not finished
  verdict    \* sync -> the outcome it settled with

vars == <<said, waiting, noted, lost, verdict>>

Init ==
  /\ said = {}
  /\ waiting = {}
  /\ noted = {}
  /\ lost = {}
  /\ verdict = [s \in Syncs |-> "none"]

\* The word on a sync is ev: nothing was said after it, and the outcome is open.
Current(ev) ==
  /\ \A e \in said : e.at <= ev.at
  /\ verdict[ev.sync] = "none"

Say ==
  \E ev \in said' \ said :
    /\ \A e \in said : e.at < ev.at
    /\ verdict[ev.sync] = "none"
    /\ said' = said \union {ev}
    /\ UNCHANGED <<waiting, noted, lost, verdict>>

\* It may arrive again, waiting or noted.
Hear ==
  \E ev \in said :
    /\ Current(ev)
    /\ waiting' = waiting \union {ev}
    /\ UNCHANGED <<said, noted, lost, verdict>>

\* What arrived twice may go on waiting.
Leave(ev) == waiting' \in {waiting, waiting \ {ev}}

Note ==
  \E ev \in waiting :
    /\ Leave(ev)
    /\ noted' = noted \union {ev}
    /\ UNCHANGED <<said, lost, verdict>>

Lose ==
  \E ev \in waiting :
    /\ Leave(ev)
    /\ lost' = lost \union {ev.sync}
    /\ UNCHANGED <<said, noted, verdict>>

\* The note was made and did not get to its end.
Break ==
  \E ev \in noted :
    /\ lost' = lost \union {ev.sync}
    /\ UNCHANGED <<said, waiting, noted, verdict>>

Settle ==
  \E ev \in said :
    /\ Current(ev)
    /\ \/ ev.sync \in lost
       \/ \E e \in waiting \union noted : e.sync = ev.sync /\ e.status = ev.status
    /\ verdict' = [verdict EXCEPT ![ev.sync] = ev.status]
    /\ UNCHANGED <<said, waiting, noted, lost>>

Next == Say \/ Hear \/ Note \/ Lose \/ Break \/ Settle

Spec == Init /\ [][Next]_vars
=============================================================================
