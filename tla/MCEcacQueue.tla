----------------------------- MODULE MCEcacQueue -----------------------------
(***************************************************************************)
(* Small instances of EcacQueue.                                           *)
(***************************************************************************)
EXTENDS EcacQueue, TLC

CONSTANTS j1, j2, b1

(* The jobs of one request. *)
MCBatchOf == [j \in Jobs |-> b1]

(* Every processor is a scheduled worker: it claims across tenants. *)
MCReach == [p \in Processors |-> Jobs]
==============================================================================
