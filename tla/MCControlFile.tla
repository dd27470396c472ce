--------------------------- MODULE MCControlFile ---------------------------
(* Instances of ControlFile for TLC.                                        *)
EXTENDS ControlFile
============================================================================
