--------------------------- MODULE MCDoraExporter ---------------------------
(***************************************************************************)
(* Small instances of DoraExporter.                                        *)
(***************************************************************************)
EXTENDS DoraExporter

\* Bound: one fault, of either kind.  No fault is ever due, so none that liveness needs is cut.
OneFault == fails + crashes <= 1
=============================================================================
