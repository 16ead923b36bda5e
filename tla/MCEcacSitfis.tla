----------------------------- MODULE MCEcacSitfis -----------------------------
(***************************************************************************)
(* Small instances of EcacSitfis.                                          *)
(***************************************************************************)
EXTENDS EcacSitfis, TLC

(* One deployment: every process seals under the target of the rotation. *)
MCSealKey == [p \in Processors |-> TargetKey]

MCSymmetry == Permutations(Processors) \union Permutations(Rotators)
==============================================================================
