---------------------------- MODULE MCWorkerGateway ----------------------------
(* TLC instances of WorkerGateway. *)
EXTENDS WorkerGateway
CONSTANTS j1, j2
===============================================================================
