--------------------------- MODULE MCLeaseWorker ---------------------------
(* Small instances of LeaseWorker. *)
EXTENDS LeaseWorker, TLC

CONSTANTS w1, w2, a, b

TwoWorkers == {w1, w2}
OwnNames   == (w1 :> a) @@ (w2 :> b)

=============================================================================
