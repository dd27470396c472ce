------------------------------ MODULE MCE2Node ------------------------------
(* Instances of E2Node for TLC.                                             *)
EXTENDS E2Node
============================================================================
