----------------------- MODULE MCSubscriptionHandler -----------------------
(* Instances of SubscriptionHandler for TLC.                                *)
EXTENDS SubscriptionHandler

CONSTANTS r1, r2, s1, s2, h1, h2, g1, g2
=============================================================================
