---------------------------- MODULE ReportCycle ----------------------------
(***************************************************************************)
(* What a gNB promises to its RIC: after the first report, one report every*)
(* Period of simulated time, none early, none late, as long as nothing     *)
(* disturbs the simulator's event list.                                    *)
(***************************************************************************)
EXTENDS Integers

CONSTANTS Gnbs, Period

VARIABLES
  phase,      \* "off", "first" (sent, the next one not scheduled yet), "on"
  due,        \* when the next report is due, 0 unless "on"
  clock,
  disturbed

vars == <<phase, due, clock, disturbed>>

Init ==
  /\ phase = [g \in Gnbs |-> "off"]
  /\ due = [g \in Gnbs |-> 0]
  /\ clock = 0
  /\ ~disturbed

First(g) ==
  /\ phase[g] = "off"
  /\ phase' = [phase EXCEPT ![g] = "first"]
  /\ UNCHANGED <<due, clock>>

\* The simulator learns of the cycle at the time it has then.
Learn(g) ==
  /\ phase[g] = "first"
  /\ phase' = [phase EXCEPT ![g] = "on"]
  /\ due' = [due EXCEPT ![g] = clock + Period]
  /\ UNCHANGED clock

Report(g) ==
  /\ phase[g] = "on"
  /\ due[g] = clock
  /\ due' = [due EXCEPT ![g] = clock + Period]
  /\ UNCHANGED <<phase, clock>>

\* Time passes up to the first report that is due.
Advance ==
  /\ clock' > clock
  /\ \A g \in Gnbs : phase[g] = "on" => clock' <= due[g]
  /\ UNCHANGED <<phase, due>>

Next ==
  \/ disturbed'
  \/ ~disturbed' /\ (Advance \/ \E g \in Gnbs : First(g) \/ Learn(g) \/ Report(g))

Spec == Init /\ [][Next]_vars
============================================================================
