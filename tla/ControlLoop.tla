---------------------------- MODULE ControlLoop ----------------------------
(***************************************************************************)
(* The control loop between the xApp and the external AI: AiTcpClient and  *)
(* AiRelay joined by the TCP connections that both declare.  KPIs go from  *)
(* the RMR receiver threads through the relay to the AI, control messages  *)
(* from the AI through the relay to the xApp's handler.  Each module's     *)
(* environment (Peer there, Xapps here) is replaced by the other module.   *)
(***************************************************************************)
EXTENDS AiTcpClient, AiRelay

\* frames, sends and cut belong to the two environments and stay as they start.
xappVars  == <<client, frames>>
relayVars == <<relay, aiSide, sends, cut>>
vars      == <<link, xappVars, relayVars>>

LoopInit == ClientInit /\ Init

\* Each program's step leaves the other one's memory alone.
XappStep(A)  == A /\ UNCHANGED <<frames, relayVars>>
RelayStep(A) == A /\ UNCHANGED <<sends, cut, xappVars>>

LoopNext == XappStep(Client) \/ RelayStep(Relay \/ Ai)

\* Every thread of the xApp and of the relay runs, and the AI reads.
LoopFairness ==
  /\ \A w \in Workers : WF_vars(XappStep(InCall(w)))
  /\ WF_vars(XappStep(StarterStep)) /\ WF_vars(XappStep(ListenerStep))
  /\ \A c \in Conns : WF_vars(RelayStep(Accept(c))) /\ WF_vars(RelayStep(Handler(c)))
  /\ \A a \in AiConns : WF_vars(RelayStep(Receiver(a))) /\ WF_vars(RelayStep(AiReads(a)))
  /\ \A k \in Cmds : WF_vars(RelayStep(Commander(k)))
  /\ WF_vars(RelayStep(ConnectAi \/ SpawnReceiver))

LoopSpec     == LoopInit /\ [][LoopNext]_vars
LoopFairSpec == LoopSpec /\ LoopFairness

-----------------------------------------------------------------------------
\* The relay is there from the start, poll() does not fail, and no call comes before
\* the listener is started.  What the relay and the AI do is left open.
Steady == Faults \cap {"refuse", "pollerr", "early"} = {}

\* The workers only send KPIs.
KpiOnly == "reco" \notin Ops

\* From one end of the loop to the other: the AI reads no KPI twice, and the
\* handler gets the control messages of a connection (a command's frames have
\* no number) in the AI's order and each once, although broadcasts of the AI's
\* messages, broadcasts of commands and the client's reads interleave.
LoopInOrder ==
  /\ \A i, j \in DOMAIN delivered : i # j => delivered[i].m.id # delivered[j].m.id
  /\ \A i, j \in DOMAIN handled :
       /\ i < j /\ handled[i].conn = handled[j].conn
       /\ handled[i].frame.id # 0 /\ handled[j].frame.id # 0
       => handled[i].frame.id < handled[j].frame.id

\* Client and relay, with all their threads and sockets, implement ControlChannel: the AI
\* reads no KPI that was not asked for or twice, and the handler hears no control message
\* that the AI did not make, none twice and none behind a later one, whatever connections
\* it comes over.
Channel == INSTANCE ControlChannel WITH
  asked <- calls,
  read  <- [i \in DOMAIN delivered |-> delivered[i].m.id],
  made  <- controls,
  heard <- [i \in DOMAIN handled |-> handled[i].frame.id]

IsControlChannel == Channel!Spec

\* A control message that the relay starts to pass on while the xApp is registered
\* and stays reaches the xApp's handler.
ControlReachesHandler ==
  \A n \in 1..MaxControls :
    (\E a \in AiConns : at[a] = "broadcast" /\ msg[a].id = n /\ todo[a] # {})
      ~> \E i \in DOMAIN handled : handled[i].frame.id = n

\* A KPI whose length prefix SendKpi has written while the AI is connected reaches
\* the AI.
KpiReachesAi ==
  \A n \in 1..MaxCalls :
    (\E w \in Workers : pc[w] = "body" /\ call[w].id = n /\ ai_connection # NoAi)
      ~> \E i \in DOMAIN delivered : delivered[i].m.id = n

\* Every command typed into the relay is answered: neither lock is kept for ever.
CommandAnswered == \A k \in Cmds : at[k] = "wait" ~> at[k] = "done"
============================================================================
