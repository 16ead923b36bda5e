---------------------------- MODULE MCSerproTokens ----------------------------
(***************************************************************************)
(* Small instances of SerproTokens.                                        *)
(***************************************************************************)
EXTENDS SerproTokens
================================================================================
