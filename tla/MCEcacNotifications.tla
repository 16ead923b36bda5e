-------------------------- MODULE MCEcacNotifications --------------------------
(***************************************************************************)
(* Small instances of EcacNotifications.                                   *)
(***************************************************************************)
EXTENDS EcacNotifications

CONSTANTS mail, inApp

MCChannel == [e \in Events |-> IF e = inApp THEN "IN_APP" ELSE "EMAIL"]
================================================================================
