----------------------------- MODULE MCNetProxy -----------------------------
(***************************************************************************)
(* Instances of NetProxy for TLC: one client that works, and one that      *)
(* waits for the proxy to be free.                                         *)
(***************************************************************************)
EXTENDS NetProxy, TLC

CONSTANTS Worker, Second

Both == {Worker, Second}
Alone == {Worker}
WorkerCalls == (Worker :> 2) @@ (Second :> 1)
AloneCalls == Worker :> 2
=============================================================================
