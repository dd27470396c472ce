----------------------------- MODULE MCXappRmr -----------------------------
(* Instances of XappRmr for TLC.                                            *)
EXTENDS XappRmr

CONSTANTS t1, t2
=============================================================================
