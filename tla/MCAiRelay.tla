----------------------------- MODULE MCAiRelay -----------------------------
(* Instances of AiRelay for TLC.                                            *)
EXTENDS AiRelay, TLC

CONSTANTS c1, c2, a1, a2, k1, k2

\* The connections of the xApps are interchangeable, and so are those to the AI.
RelaySymmetry == Permutations({c1, c2}) \cup Permutations({a1, a2})
=============================================================================
