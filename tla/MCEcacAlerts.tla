----------------------------- MODULE MCEcacAlerts -----------------------------
(***************************************************************************)
(* Small instances of EcacAlerts.                                          *)
(***************************************************************************)
EXTENDS EcacAlerts, TLC

CONSTANTS warning, critical, u1, u2

(* Two contents that differ in severity (WARNING = 1, CRITICAL = 2). *)
MCSeverity == [c \in Contents |-> IF c = critical THEN 2 ELSE 1]

(* u1 wants everything, u2 only critical alerts and no resolutions. *)
MCMinimumSeverity == [u \in Users |-> IF u = u1 THEN 0 ELSE 2]
MCIncludeResolved == [u \in Users |-> u = u1]

MCSymmetry == Permutations(Keys)
==============================================================================
