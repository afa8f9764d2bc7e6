------------------------- MODULE MCWorkerLifecycle -------------------------
(***************************************************************************)
(* WorkerLifecycle with its four loops and short pages.                    *)
(***************************************************************************)
EXTENDS WorkerLifecycle

=============================================================================
