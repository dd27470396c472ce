--------------------------- MODULE ControlChannel ---------------------------
(***************************************************************************)
(* What the two ends of the control loop are promised, with nothing in     *)
(* between: the AI reads only KPIs that calls have taken, each at most     *)
(* once; the xApp's handler hears only what the AI has said, in the AI's   *)
(* order and each message at most once, and commands anywhere among them.  *)
(***************************************************************************)
EXTENDS Naturals, Sequences

VARIABLES
  asked,   \* how many KPIs calls have taken
  read,    \* the numbers of the KPIs that the AI has read
  made,    \* how many control messages the AI has made
  heard    \* the numbers that the handler has heard, 0 for a command

vars == <<asked, read, made, heard>>

Init == asked = 0 /\ read = <<>> /\ made = 0 /\ heard = <<>>

Ask == asked' = asked + 1 /\ UNCHANGED <<read, made, heard>>

Read(n) ==
  /\ \A i \in DOMAIN read : read[i] # n
  /\ read' = Append(read, n)
  /\ UNCHANGED <<asked, made, heard>>

Make == made' = made + 1 /\ UNCHANGED <<asked, read, heard>>

Hear(n) ==
  /\ \A i \in DOMAIN heard : heard[i] < n
  /\ heard' = Append(heard, n)
  /\ UNCHANGED <<asked, read, made>>

HearCommand == heard' = Append(heard, 0) /\ UNCHANGED <<asked, read, made>>

Next ==
  \/ Ask \/ Make \/ HearCommand
  \/ \E n \in 1..asked : Read(n)
  \/ \E n \in 1..made : Hear(n)

Spec == Init /\ [][Next]_vars
=============================================================================
