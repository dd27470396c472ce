--------------------------- MODULE MCAiTcpClient ---------------------------
(* Instances of AiTcpClient for TLC.                                        *)
EXTENDS AiTcpClient, TLC

CONSTANTS c1, c2, w1, w2

\* Connections are interchangeable in the safety runs.
ConnSymmetry == Permutations({c1, c2})
============================================================================
