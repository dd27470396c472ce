---------------------------- MODULE MCXappCore ----------------------------
(* Instances of XappCore for TLC.                                          *)
EXTENDS XappCore

CONSTANTS h1, h2, g1, g2

\* No gNB, or two.
Lists == {<<>>, <<g1, g2>>}
===========================================================================
