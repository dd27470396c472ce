------------------------------ MODULE TcpLink ------------------------------
(***************************************************************************)
(* The TCP connections between the xApp (AiTcpClient, the connecting end)  *)
(* and the AI relay (ai_relay_server.py, the accepting end).  The kernel   *)
(* is not part of the repository: this module says what both programs rely *)
(* on.  A connection is named once and never again, so a reused file       *)
(* descriptor number is a new member of Conns.                             *)
(*                                                                         *)
(* xApp -> relay: sendFramed makes two send() calls, so the stream is a    *)
(* sequence of units, the length prefix and the body of each frame.        *)
(* relay -> xApp: send_framed is one sendall(), so the stream is a         *)
(* sequence of whole frames.                                               *)
(***************************************************************************)
EXTENDS Naturals, Sequences

CONSTANTS
  Conns,     \* the connections that may ever be made (bounds reconnections)
  UpCap,     \* units the xApp -> relay socket buffers hold
  DownCap    \* frames the relay -> xApp socket buffers hold

ASSUME LinkAssumption == UpCap \in Nat \ {0} /\ DownCap \in Nat \ {0}

VARIABLES
  cend,      \* cend[c]: the xApp's end of c, "none", "open" or "closed"
  rend,      \* rend[c]: the relay's end; "backlog" until accept() returns it
  up,        \* up[c]: units on their way to the relay
  down       \* down[c]: frames on their way to the xApp

link == <<cend, rend, up, down>>

LinkInit ==
  /\ cend = [c \in Conns |-> "none"]
  /\ rend = [c \in Conns |-> "none"]
  /\ up   = [c \in Conns |-> <<>>]
  /\ down = [c \in Conns |-> <<>>]

Unused == {c \in Conns : cend[c] = "none"}

\* connect() returns as soon as the listening socket has queued the connection.
Connect(c) ==
  /\ c \in Unused
  /\ cend' = [cend EXCEPT ![c] = "open"]
  /\ rend' = [rend EXCEPT ![c] = "backlog"]
  /\ UNCHANGED <<up, down>>

UpRoom(c)   == Len(up[c]) < UpCap
DownRoom(c) == Len(down[c]) < DownCap

\* recv() at an end whose peer has closed returns 0 once the stream is drained.
UpEof(c)   == up[c] = <<>> /\ cend[c] = "closed"
DownEof(c) == down[c] = <<>> /\ rend[c] = "closed"
============================================================================
