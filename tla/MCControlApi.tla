---------------------------- MODULE MCControlApi ----------------------------
(* Small instances of ControlApi. *)
EXTENDS ControlApi, TLC

CONSTANTS t1, t2

TwoThreads == {t1, t2}

\* One step that sets running, the gate that accepts or waits, the one that closes.
ShortFlow == <<Execute, Acceptance, Finalize>>

=============================================================================
