--------------------------- MODULE MCControlLoop ---------------------------
(* Instances of ControlLoop for TLC.                                        *)
EXTENDS ControlLoop

CONSTANTS c1, c2, w1, w2, a1, k1
============================================================================
