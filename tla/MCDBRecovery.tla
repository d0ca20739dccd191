---------------------------- MODULE MCDBRecovery ----------------------------
(* Instances of DBRecovery for TLC.                                        *)
EXTENDS DBRecovery
=============================================================================
