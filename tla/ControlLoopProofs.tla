------------------------- MODULE ControlLoopProofs -------------------------
(***************************************************************************)
(* Theorems about ControlLoop while the relay is there (Steady), for any   *)
(* number of workers, calls, connections, AI connections, commands and     *)
(* control messages, any buffer sizes, and an AI that comes and goes.      *)
(***************************************************************************)
EXTENDS ControlLoop, AiTcpClientProofs, AiRelayProofs

-----------------------------------------------------------------------------
\* Frames are what the relay sends to an xApp.
FramesOK ==
  /\ \A c \in Conns : reply[c] \in Frame
  /\ \A t \in AiConns \cup Cmds : msg[t] \in Frame

LoopTyped == ClientTypeOK /\ MutexDiscipline /\ CoreInv /\ FramesOK

\* A step is one of the client's or one of the relay and the AI; each is a step of
\* its own module, so that what the other two proof modules say of a step applies.
LEMMA LoopSteps ==
  ASSUME [LoopNext]_vars
  PROVE  \/ Client /\ [ClientNext]_cvars /\ UNCHANGED <<frames, relay, aiSide, sends, cut>>
         \/ (Relay \/ Ai) /\ [Next]_rvars /\ UNCHANGED <<client, frames, sends, cut>>
         \/ UNCHANGED vars
BY DEF LoopNext, XappStep, RelayStep, ClientNext, ClientOwn, Next, Own, xappVars, relayVars

\* The steps of the relay by thread.
LEMMA RelaySteps ==
  ASSUME Relay \/ Ai
  PROVE  \/ \E c \in Conns : XappThread(c)
         \/ \E a \in AiConns : Receiver(a)
         \/ ConnectAi \/ SpawnReceiver
         \/ \E k \in Cmds : CommandThread(k)
         \/ \E a \in AiConns : AiReads(a) \/ AiControls(a) \/ AiCloses(a)
BY DEF Relay, Ai, XappThread, CommandThread

\* What the AI connection carries to the relay are frames.
LEMMA BodyIsFrame == \A u \in DownUnit : Body(u) \in Frame
BY DEF DownUnit, Body, Frame

LEMMA FramesKept ==
  ASSUME CoreInv, FramesOK, Relay \/ Ai
  PROVE  FramesOK'
<1>0. AtOK /\ SharedOK /\ AiOK /\ DataOK /\ WaitInv
  BY DEF CoreInv, TypeInv
<1>1. NoAction \in Frame
  BY DEF NoAction, Frame
<1>2. ASSUME NEW c \in Conns, XappThread(c) PROVE FramesOK'
  <2>1. \A t \in AiConns \cup Cmds : msg'[t] = msg[t]
    <3>1. UNCHANGED msg \/ \E m : msg' = [msg EXCEPT ![c] = m]
      BY <1>2 DEF XappThread, Accept, Handler, Register, RecvLen, RecvBody, LockKpi,
                  ForwardKpi, LockRequest, ForwardRequest, ReplyLen, ReplyBody, Answer,
                  Deregister, CloseXapp
    <3> QED BY <1>0, <3>1, KindsDisjoint DEF DataOK
  <2>2. UNCHANGED reply \/ \E f \in Frame : reply' = [reply EXCEPT ![c] = f]
    <3>1. CASE ForwardRequest(c) \/ ReplyLen(c)
      BY <1>1, <3>1 DEF ForwardRequest, ReplyLen
    <3>2. CASE ReplyBody(c)
      <4>1. ai_connection \in AiConns
        BY <1>0, <3>2 DEF WaitInv, ReplyBody, Move
      <4>2. adown[ai_connection] # <<>> => Body(Head(adown[ai_connection])) \in Frame
        BY <1>0, <4>1, SeqTypes, BodyIsFrame DEF AiOK
      <4> QED BY <1>1, <3>2, <4>2 DEF ReplyBody
    <3>3. CASE ~(ForwardRequest(c) \/ ReplyLen(c) \/ ReplyBody(c))
      BY <1>2, <3>3
         DEF XappThread, Accept, Handler, Register, RecvLen, RecvBody, LockKpi, ForwardKpi,
             LockRequest, Answer, Deregister, CloseXapp
    <3> QED BY <3>1, <3>2, <3>3
  <2>3. \A d \in Conns : reply'[d] \in Frame
    BY <1>0, <2>2 DEF FramesOK, DataOK
  <2> QED BY <2>1, <2>3 DEF FramesOK
<1>3. ASSUME NEW a \in AiConns, Receiver(a) PROVE FramesOK'
  <2>1. CASE AiRecvBody(a)
    <3>1. \/ adown[a] # <<>> /\ msg' = [msg EXCEPT ![a] = Body(Head(adown[a]))]
          \/ UNCHANGED msg
      BY <2>1 DEF AiRecvBody
    <3>2. adown[a] # <<>> => Body(Head(adown[a])) \in Frame
      BY <1>0, SeqTypes, BodyIsFrame DEF AiOK
    <3>3. UNCHANGED reply
      BY <2>1 DEF AiRecvBody
    <3>4. \A t \in AiConns \cup Cmds : t # a => msg'[t] = msg[t]
      BY <1>0, <3>1, KindsDisjoint DEF DataOK
    <3>5. msg'[a] \in Frame
      BY <1>0, <3>1, <3>2, KindsDisjoint DEF DataOK, FramesOK
    <3> QED BY <3>3, <3>4, <3>5 DEF FramesOK
  <2>2. CASE AiRecvLen(a) \/ StartBroadcast(a) \/ Broadcast(a) \/ ForgetAi(a) \/ CloseAi(a)
    BY <2>2 DEF AiRecvLen, StartBroadcast, Broadcast, ForgetAi, CloseAi, FramesOK
  <2> QED BY <1>3, <2>1, <2>2 DEF Receiver
<1>4. ASSUME NEW k \in Cmds, CommandThread(k) PROVE FramesOK'
  <2>1. CASE Command(k)
    <3>1. [id |-> 0, kind |-> "control"] \in Frame
      BY DEF Frame
    <3> QED BY <1>0, <2>1, <3>1 DEF Command, FramesOK, DataOK
  <2>2. CASE Commander(k)
    BY <2>2 DEF Commander, StartBroadcast, Broadcast, FramesOK
  <2> QED BY <1>4, <2>1, <2>2 DEF CommandThread
<1>5. ASSUME ConnectAi \/ SpawnReceiver PROVE FramesOK'
  BY <1>5 DEF ConnectAi, SpawnReceiver, FramesOK
<1>6. ASSUME NEW a \in AiConns, AiReads(a) \/ AiControls(a) \/ AiCloses(a) PROVE FramesOK'
  BY <1>6 DEF AiReads, AiControls, AiCloses, FramesOK
<1> QED BY <1>2, <1>3, <1>4, <1>5, <1>6, RelaySteps

\* What the relay's steps do to the streams to the xApp: nothing, or one more frame.
LEMMA DownGrows ==
  ASSUME CoreInv, FramesOK, Relay \/ Ai
  PROVE  UNCHANGED down \/ \E c \in Conns, f \in Frame : down' = [down EXCEPT ![c] = Append(@, f)]
<1>0. AtOK /\ SharedOK /\ DataOK
  BY DEF CoreInv, TypeInv
<1> DEFINE Grows == \E c \in Conns, f \in Frame : down' = [down EXCEPT ![c] = Append(@, f)]
<1>1. ASSUME NEW c \in Conns, XappThread(c) PROVE UNCHANGED down \/ Grows
  <2>1. CASE Answer(c)
    BY <2>1 DEF Answer, SendToXapp, FramesOK
  <2>2. CASE ~Answer(c)
    BY <1>1, <2>2
       DEF XappThread, Accept, Handler, Register, RecvLen, RecvBody, LockKpi, ForwardKpi,
           LockRequest, ForwardRequest, ReplyLen, ReplyBody, Deregister, CloseXapp, link
  <2> QED BY <2>1, <2>2
<1>2. ASSUME NEW t \in AiConns \cup Cmds, Broadcast(t) PROVE UNCHANGED down \/ Grows
  <2>1. PICK c \in todo[t] : SendToXapp(c, msg[t])
    BY <1>2 DEF Broadcast
  <2>2. c \in Conns /\ msg[t] \in Frame
    BY <1>0 DEF DataOK, FramesOK, Threads
  <2> QED BY <2>1, <2>2 DEF SendToXapp
<1>3. ASSUME NEW t \in AiConns \cup Cmds, StartBroadcast(t) PROVE UNCHANGED down
  BY <1>3 DEF StartBroadcast, link
<1>4. ASSUME NEW a \in AiConns, AiRecvLen(a) \/ AiRecvBody(a) \/ ForgetAi(a) \/ CloseAi(a)
      PROVE  UNCHANGED down
  BY <1>4 DEF AiRecvLen, AiRecvBody, ForgetAi, CloseAi, link
<1>5. ASSUME NEW k \in Cmds, Command(k) PROVE UNCHANGED down
  BY <1>5 DEF Command, link
<1>6. ASSUME ConnectAi \/ SpawnReceiver PROVE UNCHANGED down
  BY <1>6 DEF ConnectAi, SpawnReceiver, link
<1>7. ASSUME NEW a \in AiConns, AiReads(a) \/ AiControls(a) \/ AiCloses(a) PROVE UNCHANGED down
  BY <1>7 DEF AiReads, AiControls, AiCloses, link
<1> QED
  BY <1>1, <1>2, <1>3, <1>4, <1>5, <1>6, <1>7, RelaySteps DEF Receiver, CommandThread, Commander

\* Each program keeps its types and its lock whatever the other one does.
LEMMA LoopTypedKept == ASSUME LoopTyped, [LoopNext]_vars PROVE LoopTyped'
<1>0. ClientTypeOK /\ MutexDiscipline /\ CoreInv /\ FramesOK
  BY DEF LoopTyped
<1>1. CASE Client /\ [ClientNext]_cvars /\ UNCHANGED <<frames, relay, aiSide, sends, cut>>
  <2>1. ClientTypeOK' /\ MutexDiscipline'
    BY <1>0, <1>1, TypeKept, MutexKept
  <2>2. LinkOK'
    BY <2>1 DEF ClientTypeOK, LinkOK, Unit, UpUnit
  <2>3. AtOK' /\ SharedOK' /\ AiOK' /\ DataOK' /\ CountOK'
    BY <1>0, <1>1
       DEF CoreInv, TypeInv, relay, shared, aiLink, aiSide, AtOK, SharedOK, AiOK, DataOK, CountOK
  <2>4. LockDiscipline' /\ WaitInv' /\ ConnInv' /\ FramesOK'
    BY <1>0, <1>1
       DEF CoreInv, relay, shared, aiLink, LockDiscipline, WaitInv, ConnInv, LiveAt, FramesOK
  <2> QED BY <2>1, <2>2, <2>3, <2>4 DEF LoopTyped, CoreInv, TypeInv
<1>2. CASE (Relay \/ Ai) /\ [Next]_rvars /\ UNCHANGED <<client, frames, sends, cut>>
  <2>1. CoreInv'
    BY <1>0, <1>2, CoreInvKept
  <2>2. FramesOK'
    BY <1>0, <1>2, FramesKept
  <2>3. down' \in [Conns -> Seq(Frame)]
    <3>1. \A q \in Seq(Frame), f \in Frame : Append(q, f) \in Seq(Frame)
      BY SeqTypes
    <3>2. down \in [Conns -> Seq(Frame)]
      BY <1>0 DEF ClientTypeOK
    <3>3. CASE UNCHANGED down
      BY <3>2, <3>3
    <3>4. ASSUME NEW c \in Conns, NEW f \in Frame, down' = [down EXCEPT ![c] = Append(@, f)]
          PROVE  down' \in [Conns -> Seq(Frame)]
      <4>1. Append(down[c], f) \in Seq(Frame)
        BY <3>1, <3>2
      <4> QED BY <3>2, <3>4, <4>1
    <3> QED BY <1>0, <1>2, <3>3, <3>4, DownGrows
  <2>4. LinkOK'
    BY <2>1 DEF CoreInv, TypeInv
  <2>5. ClientTypeOK'
    BY <1>0, <1>2, <2>3, <2>4 DEF ClientTypeOK, client, LinkOK, Unit, UpUnit
  <2>6. MutexDiscipline'
    BY <1>0, <1>2 DEF MutexDiscipline, HoldsLock, client
  <2> QED BY <2>1, <2>2, <2>5, <2>6 DEF LoopTyped
<1>3. CASE UNCHANGED vars
  <2>1. ClientTypeOK' /\ MutexDiscipline'
    BY <1>0, <1>3 DEF vars, link, xappVars, client, ClientTypeOK, MutexDiscipline, HoldsLock
  <2>2. CoreInv' /\ FramesOK'
    <3>1. UNCHANGED rvars
      BY <1>3 DEF vars, link, relayVars, rvars
    <3>2. CoreInv'
      BY <1>0, <3>1, CoreInvKept
    <3> QED BY <1>0, <3>1, <3>2 DEF rvars, relay, FramesOK
  <2> QED BY <2>1, <2>2 DEF LoopTyped
<1> QED BY <1>1, <1>2, <1>3, LoopSteps

LEMMA LoopTypedInit == ASSUME LoopInit PROVE LoopTyped
<1>1. ClientTypeOK
  BY TypeInit DEF LoopInit
<1>2. MutexDiscipline
  BY ClientAssumption DEF LoopInit, ClientInit, MutexDiscipline, HoldsLock, ClientThreads
<1>3. CoreInv
  BY CoreInvInit DEF LoopInit
<1>4. FramesOK
  BY KindsDisjoint DEF LoopInit, Init, RelayInit, FramesOK, NoAction, Frame
<1> QED BY <1>1, <1>2, <1>3, <1>4 DEF LoopTyped

-----------------------------------------------------------------------------
\* main connects before any other thread of the xApp runs.
StartFirst ==
  /\ pc[Starter] # "done" => pc[Listener] = "off" /\ \A w \in Workers : pc[w] = "idle"
  /\ pc[Starter] \in {"install", "check", "connect"} => sock = NoConn

\* There is one connection at most, at the end of ensureConnected() in main there is
\* one, and nobody ever closes it.
OnlyConn ==
  /\ \A c \in Conns : cend[c] = IF c = sock THEN "open" ELSE "none"
  /\ \A c \in Conns : rend[c] # "closed"
  /\ pc[Starter] \in {"spawn", "done"} => sock # NoConn \/ Conns = {}

\* No path leads to reset(), and what a thread remembers of sock_ is still true.
ResetLabels == Resetting \cup {"reset_return", "clear_return", "reset_poll", "clear_poll"}
SockRemembered ==
  /\ \A t \in ClientThreads : pc[t] \notin ResetLabels
  /\ \A t \in ClientThreads : pc[t] = "connect" => sock = NoConn
  /\ \A w \in Workers : pc[w] \in {"len", "body", "reply"} => sock # NoConn
  /\ \A w \in Workers : pc[w] = "body" => wrote[w] = sock
  /\ pc[Listener] \in {"poll", "relock", "recv"} => sock # NoConn /\ current_sock = sock

\* The stream to the relay alternates prefixes and bodies; its first unit is what the
\* handler reads next, its last one is a prefix when a worker has still to send a body.
BodyDue(c) == sock = c /\ \E w \in Workers : pc[w] = "body"
Alternates(q) == \A i, j \in DOMAIN q : j = i + 1 => q[i].part # q[j].part
WholeFrames(c) ==
  /\ Alternates(up[c])
  /\ up[c] # <<>> => /\ Head(up[c]).part = "body" <=> at[c] = "body"
                     /\ up[c][Len(up[c])].part = "len" <=> BodyDue(c)
  /\ up[c] = <<>> => (at[c] = "body" <=> BodyDue(c))

\* So no handler ends.
HandlersStay ==
  \A c \in Conns : WholeFrames(c) /\ at[c] \notin {"final", "close", "done"}

SteadyInv == StartFirst /\ OnlyConn /\ SockRemembered /\ HandlersStay

-----------------------------------------------------------------------------
LEMMA AppendAlternates ==
  ASSUME NEW q \in Seq(Unit), NEW u \in Unit, Alternates(q),
         q # <<>> => q[Len(q)].part # u.part
  PROVE  LET p == Append(q, u) IN
         /\ Alternates(p) /\ p # <<>> /\ p[Len(p)] = u
         /\ Head(p) = IF q = <<>> THEN u ELSE Head(q)
<1> DEFINE p == Append(q, u)
<1>1. /\ p \in Seq(Unit) /\ Len(p) = Len(q) + 1 /\ Len(q) \in Nat
      /\ \A i \in 1..Len(q) : p[i] = q[i]
      /\ p[Len(q) + 1] = u
  OBVIOUS
<1> HIDE DEF p
<1>2. p # <<>> /\ Head(p) = p[1]
  BY <1>1
<1>3. q # <<>> => Head(q) = q[1] /\ Len(q) >= 1
  OBVIOUS
<1>4. q = <<>> => Len(q) = 0
  OBVIOUS
<1>5. Alternates(p)
  <2> SUFFICES ASSUME NEW i \in 1..Len(p), NEW j \in 1..Len(p), j = i + 1
               PROVE  p[i].part # p[j].part
    BY <1>1 DEF Alternates
  <2>1. CASE j = Len(q) + 1
    BY <1>1, <1>4, <2>1
  <2>2. CASE j # Len(q) + 1
    <3>1. i \in DOMAIN q /\ j \in DOMAIN q /\ p[i] = q[i] /\ p[j] = q[j]
      BY <1>1, <2>2
    <3> QED BY <3>1 DEF Alternates
  <2> QED BY <2>1, <2>2
<1> QED BY <1>1, <1>2, <1>3, <1>4, <1>5 DEF p

LEMMA TailAlternates ==
  ASSUME NEW q \in Seq(Unit), q # <<>>, Alternates(q)
  PROVE  LET p == Tail(q) IN
         /\ Alternates(p)
         /\ p # <<>> => Head(p).part # Head(q).part /\ p[Len(p)] = q[Len(q)]
         /\ p = <<>> => q[Len(q)] = Head(q)
<1> DEFINE p == Tail(q)
<1>1. /\ p \in Seq(Unit) /\ Len(p) = Len(q) - 1 /\ Len(q) \in Nat /\ Len(q) >= 1
      /\ \A i \in 1..Len(p) : p[i] = q[i + 1]
      /\ Head(q) = q[1]
  OBVIOUS
<1> HIDE DEF p
<1>2. Alternates(p)
  <2> SUFFICES ASSUME NEW i \in 1..Len(p), NEW j \in 1..Len(p), j = i + 1
               PROVE  p[i].part # p[j].part
    BY <1>1 DEF Alternates
  <2>1. i + 1 \in DOMAIN q /\ j + 1 \in DOMAIN q /\ p[i] = q[i + 1] /\ p[j] = q[j + 1]
    BY <1>1
  <2> QED BY <2>1 DEF Alternates
<1>3. p # <<>> => Head(p) = p[1] /\ Len(p) >= 1
  BY <1>1
<1>4. p = <<>> => Len(q) = 1
  BY <1>1
<1>5. ASSUME p # <<>>
      PROVE  1 \in DOMAIN q /\ 2 \in DOMAIN q /\ p[1] = q[2] /\ p[Len(p)] = q[Len(q)]
  <2>1. Len(p) \in Nat /\ Len(p) >= 1
    BY <1>1, <1>3, <1>5
  <2>2. p[1] = q[1 + 1] /\ p[Len(p)] = q[Len(p) + 1]
    BY <1>1, <2>1
  <2> QED BY <1>1, <2>1, <2>2
<1>6. ASSUME p # <<>> PROVE Head(p).part # Head(q).part
  <2>1. 1 \in DOMAIN q /\ 2 \in DOMAIN q /\ 2 = 1 + 1
    BY <1>5, <1>6
  <2>2. q[1].part # q[2].part
    BY <2>1 DEF Alternates
  <2> QED BY <1>1, <1>3, <1>5, <1>6, <2>2
<1> QED BY <1>1, <1>2, <1>4, <1>5, <1>6 DEF p

-----------------------------------------------------------------------------
\* The client's steps by thread; while SteadyInv holds no thread resets.
LEMMA ClientSteps ==
  ASSUME Client
  PROVE  \/ \E w \in Workers : WorkerStep(w)
         \/ \E t \in ClientThreads : EnsureStep(t) \/ Reset(t)
         \/ Install \/ Spawn \/ LoopStep
BY DEF Client, InCall, StarterStep, ListenerStep, WorkerStep, EnsureStep, LoopStep,
       ClientThreads

LEMMA SockIsGood ==
  ASSUME LoopTyped, SteadyInv
  PROVE  sock # NoConn => sock \in Conns /\ cend[sock] = "open" /\ rend[sock] # "closed"
BY DEF LoopTyped, ClientTypeOK, SteadyInv, OnlyConn

LEMMA NothingFails ==
  ASSUME LoopTyped, SteadyInv
  PROVE  /\ \A t \in ClientThreads : ~Reset(t)
         /\ \A w \in Workers : ~CallFails(w)
         /\ pc[Listener] = "recv" => sock \notin RecvFails
<1>1. ASSUME NEW t \in ClientThreads PROVE ~Reset(t)
  BY DEF Reset, ResetClose, ResetClear, Goto, ResetLabel, ClearLabel, SteadyInv,
         SockRemembered, ResetLabels, Resetting
<1>2. sock # NoConn => sock \notin SendFails /\ sock \notin RecvFails
  BY SockIsGood, ClientAssumption DEF SendFails, RecvFails, DownEof
<1>3. ASSUME NEW w \in Workers PROVE ~CallFails(w)
  BY <1>2 DEF CallFails, SteadyInv, SockRemembered
<1> QED BY <1>1, <1>2, <1>3 DEF SteadyInv, SockRemembered

\* A worker's step when nothing fails: all but the two sends leave the streams to the
\* relay and the connection alone, and stay away from "body" and from ensureConnected.
LEMMA WorkerSteady ==
  ASSUME Steady, LoopTyped, SteadyInv, NEW w \in Workers, WorkerStep(w)
  PROVE  /\ pc[Starter] = "done"
         /\ UNCHANGED <<cend, rend, sock, current_sock>>
         /\ \A t \in ClientThreads \ {w} : pc'[t] = pc[t]
         /\ \A v \in Workers \ {w} : wrote'[v] = wrote[v]
         /\ \/ /\ UNCHANGED up
               /\ pc[w] # "body" /\ pc'[w] \in {"lock", "check", "idle"}
            \/ SendPart(w, "len") \/ SendPart(w, "body")
<1>0. w \in ClientThreads /\ w # Starter /\ w # Listener
  BY ClientAssumption DEF ClientThreads
<1>1. CASE Begin(w)
  BY <1>0, <1>1 DEF Begin, Goto, link, Steady, LoopTyped, ClientTypeOK
<1>2. CASE LockCall(w) \/ RecvReply(w)
  BY <1>0, <1>2
     DEF LockCall, RecvReply, Goto, link, LoopTyped, ClientTypeOK, SteadyInv, StartFirst
<1>3. ASSUME NEW part \in {"len", "body"}, SendPart(w, part)
      PROVE  /\ pc[Starter] = "done"
             /\ UNCHANGED <<cend, rend, sock, current_sock>>
             /\ \A t \in ClientThreads \ {w} : pc'[t] = pc[t]
             /\ \A v \in Workers \ {w} : wrote'[v] = wrote[v]
  BY <1>0, <1>3 DEF SendPart, Goto, LoopTyped, ClientTypeOK, SteadyInv, StartFirst
<1>4. ~CallFails(w)
  BY NothingFails
<1> QED BY <1>1, <1>2, <1>3, <1>4 DEF WorkerStep

\* A step that leaves the streams to the relay and the due body alone.
LEMMA QuietStream ==
  ASSUME HandlersStay, UNCHANGED up, \A c \in Conns : BodyDue(c)' <=> BodyDue(c),
         \A c \in Conns : /\ at'[c] = "body" <=> at[c] = "body"
                          /\ at'[c] \notin {"final", "close", "done"}
  PROVE  HandlersStay'
BY DEF HandlersStay, WholeFrames, Alternates

\* One of the two sends of a frame: the mutex keeps any other worker from having a
\* body to send.
LEMMA SendKeepsFrames ==
  ASSUME LoopTyped, SteadyInv, NEW w \in Workers, NEW part \in {"len", "body"},
         SendPart(w, part), UNCHANGED at
  PROVE  HandlersStay'
<1>0. /\ w \in ClientThreads /\ w # Listener /\ w # Starter
      /\ ClientTypeOK /\ MutexDiscipline /\ HandlersStay
  BY ClientAssumption DEF ClientThreads, LoopTyped, SteadyInv
<1>1. pc[w] = part /\ pc'[w] \in {"body", "reply", "idle"} /\ (pc'[w] = "body" <=> part = "len")
  BY <1>0 DEF SendPart, Goto, AfterSend, ClientTypeOK
<1>2. sock \in Conns /\ rend[sock] # "closed" /\ UNCHANGED sock
  BY <1>0, SockIsGood DEF SendPart
<1>3. ASSUME NEW v \in Workers, v # w PROVE pc[v] # "body" /\ pc'[v] # "body"
  <2>1. HoldsLock(w)
    BY <1>1 DEF HoldsLock
  <2>2. ~HoldsLock(v)
    BY <1>0, <1>3, <2>1 DEF MutexDiscipline, ClientThreads
  <2> QED BY <1>0, <1>3, <2>2 DEF HoldsLock, SendPart, Goto, ClientTypeOK, ClientThreads
<1>4. BodyDue(sock) <=> part = "body"
  BY <1>1, <1>3 DEF BodyDue
<1>5. BodyDue(sock)' <=> part = "len"
  BY <1>1, <1>2, <1>3 DEF BodyDue
<1>6. PICK u \in Unit : u.part = part /\ up' = [up EXCEPT ![sock] = Append(@, u)]
  <2> DEFINE u == [part |-> part, id |-> call[w].id, kind |-> call[w].kind]
  <2>1. u \in Unit /\ u.part = part
    BY <1>0 DEF ClientTypeOK, Request, Unit
  <2>2. up' = [up EXCEPT ![sock] = Append(@, u)]
    BY <1>2 DEF SendPart
  <2> QED BY <2>1, <2>2
<1>7. /\ up[sock] \in Seq(Unit)
      /\ up'[sock] = Append(up[sock], u)
      /\ \A c \in Conns : c # sock => up'[c] = up[c]
  BY <1>0, <1>2, <1>6 DEF ClientTypeOK
<1>8. ASSUME NEW c \in Conns, c # sock PROVE WholeFrames(c)'
  <2>1. ~BodyDue(c) /\ ~BodyDue(c)'
    BY <1>2, <1>8 DEF BodyDue
  <2> QED BY <1>0, <1>7, <1>8, <2>1 DEF HandlersStay, WholeFrames, Alternates
<1>9. WholeFrames(sock)'
  <2> DEFINE q == up[sock]
             p == Append(q, u)
  <2>1. /\ Alternates(q)
        /\ q # <<>> => /\ Head(q).part = "body" <=> at[sock] = "body"
                       /\ q[Len(q)].part = "len" <=> part = "body"
        /\ q = <<>> => (at[sock] = "body" <=> part = "body")
    BY <1>0, <1>2, <1>4 DEF HandlersStay, WholeFrames
  <2>2. q # <<>> => q[Len(q)].part # u.part
    <3>1. ASSUME q # <<>> PROVE q[Len(q)].part \in {"len", "body"}
      <4>1. q \in Seq(Unit) /\ Len(q) \in 1..Len(q)
        BY <1>7, <3>1
      <4>2. q[Len(q)] \in Unit
        BY <4>1
      <4> QED BY <4>2 DEF Unit
    <3> QED BY <1>6, <2>1, <3>1
  <2>3. /\ Alternates(p) /\ p # <<>> /\ p[Len(p)] = u
        /\ Head(p) = IF q = <<>> THEN u ELSE Head(q)
    BY <1>7, <2>1, <2>2, AppendAlternates
  <2>4. Head(p).part = "body" <=> at[sock] = "body"
    BY <1>6, <2>1, <2>3
  <2>5. up'[sock'] = p /\ at'[sock'] = at[sock] /\ sock' = sock
    BY <1>2, <1>7
  <2> HIDE DEF p
  <2>6. Alternates(up[sock])' <=> Alternates(p)
    BY <2>5 DEF Alternates
  <2> QED BY <1>2, <1>5, <1>6, <2>3, <2>4, <2>5, <2>6 DEF WholeFrames
<1> QED BY <1>0, <1>2, <1>8, <1>9 DEF HandlersStay

LEMMA WorkerKeepsSteady ==
  ASSUME Steady, LoopTyped, SteadyInv, NEW w \in Workers, WorkerStep(w), UNCHANGED at
  PROVE  SteadyInv'
<1>0. /\ w \in ClientThreads /\ w # Listener /\ w # Starter /\ Starter \in ClientThreads
      /\ Listener \in ClientThreads
      /\ ClientTypeOK /\ StartFirst /\ OnlyConn /\ SockRemembered /\ HandlersStay
  BY ClientAssumption DEF ClientThreads, LoopTyped, SteadyInv
<1>1. /\ pc[Starter] = "done"
      /\ UNCHANGED <<cend, rend, sock, current_sock>>
      /\ \A t \in ClientThreads \ {w} : pc'[t] = pc[t]
      /\ \A v \in Workers \ {w} : wrote'[v] = wrote[v]
  BY WorkerSteady
<1>2. pc'[Starter] = "done" /\ pc'[Listener] = pc[Listener]
  BY <1>0, <1>1
<1>3. StartFirst' /\ OnlyConn'
  BY <1>0, <1>1, <1>2 DEF StartFirst, OnlyConn
<1>4. CASE SendPart(w, "len") \/ SendPart(w, "body")
  <2>1. HandlersStay'
    BY <1>4, SendKeepsFrames
  <2>2. sock # NoConn /\ pc'[w] \in {"body", "reply", "idle"} /\ (pc'[w] = "body" => wrote'[w] = sock)
    <3>1. CASE SendPart(w, "len")
      BY <1>0, <3>1 DEF SendPart, Goto, AfterSend, ClientTypeOK
    <3>2. CASE SendPart(w, "body")
      BY <1>0, <3>2 DEF SendPart, Goto, AfterSend, ClientTypeOK
    <3> QED BY <1>4, <3>1, <3>2
  <2>3. SockRemembered'
    BY <1>0, <1>1, <1>2, <2>2 DEF SockRemembered, ResetLabels, Resetting, ClientThreads
  <2> QED BY <1>3, <2>1, <2>3 DEF SteadyInv
<1>5. CASE UNCHANGED up /\ pc[w] # "body" /\ pc'[w] \in {"lock", "check", "idle"}
  <2>1. \A c \in Conns : BodyDue(c)' <=> BodyDue(c)
    BY <1>0, <1>1, <1>5 DEF BodyDue, ClientThreads
  <2>2. HandlersStay'
    BY <1>0, <1>5, <2>1, QuietStream DEF HandlersStay
  <2>3. SockRemembered'
    BY <1>0, <1>1, <1>2, <1>5 DEF SockRemembered, ResetLabels, Resetting, ClientThreads
  <2> QED BY <1>3, <2>2, <2>3 DEF SteadyInv
<1> QED BY <1>4, <1>5, WorkerSteady

\* A step of main or of the listener does not change what the workers have to send.
LEMMA WorkersStay ==
  ASSUME HandlersStay, UNCHANGED <<up, at>>, \A w \in Workers : pc'[w] = pc[w],
         \/ UNCHANGED sock
         \/ \A w \in Workers : pc[w] # "body"
  PROVE  HandlersStay'
BY QuietStream DEF HandlersStay, BodyDue

\* ensureConnected() finds the connection; only main makes it.
LEMMA EnsureKeepsSteady ==
  ASSUME Steady, LoopTyped, SteadyInv, NEW t \in ClientThreads, EnsureStep(t), UNCHANGED at
  PROVE  SteadyInv'
<1>0. /\ Starter \in ClientThreads /\ Listener \in ClientThreads /\ Starter # Listener
      /\ Starter \notin Workers /\ Listener \notin Workers
      /\ \A w \in Workers : w \in ClientThreads /\ w # Starter /\ w # Listener
      /\ ClientTypeOK /\ StartFirst /\ OnlyConn /\ SockRemembered /\ HandlersStay
  BY ClientAssumption DEF ClientThreads, LoopTyped, SteadyInv
<1>1. t = Starter \/ pc[Starter] = "done"
  <2>1. pc[t] \in {"check", "connect"}
    BY DEF EnsureStep, EnsureCheck, EnsureConnect, Goto
  <2> QED BY <1>0, <2>1 DEF StartFirst, ClientThreads
<1>2. /\ AfterEnsure(t, TRUE) \in {"spawn", "copy", "len"}
      /\ t = Starter => AfterEnsure(t, TRUE) = "spawn" /\ AfterEnsure(t, FALSE) = "spawn"
      /\ t \in Workers => AfterEnsure(t, TRUE) = "len" /\ AfterEnsure(t, FALSE) = "idle"
      /\ t = Listener => AfterEnsure(t, TRUE) = "copy" /\ AfterEnsure(t, FALSE) = "copy"
      /\ t \in Workers \/ t = Starter \/ t = Listener
  BY <1>0 DEF AfterEnsure, ClientThreads
<1>3. CASE EnsureCheck(t)
  <2>1. UNCHANGED <<cend, rend, up, sock, current_sock, wrote>> /\ pc[t] = "check"
    BY <1>3 DEF EnsureCheck, Goto, link
  <2>2. PICK to : /\ pc' = [pc EXCEPT ![t] = to]
                  /\ \/ sock # NoConn /\ to = AfterEnsure(t, TRUE)
                     \/ sock = NoConn /\ to = "connect"
    <3>1. sock # NoConn => cend[sock] # "closed" /\ rend[sock] # "closed"
      BY SockIsGood
    <3> QED BY <1>3, <3>1 DEF EnsureCheck, Goto
  <2>3. pc'[t] = to /\ \A u \in ClientThreads : u # t => pc'[u] = pc[u]
    BY <1>0, <2>2 DEF ClientTypeOK
  <2>4. t = Starter => to = "connect"
    BY <2>1, <2>2, <1>0 DEF StartFirst
  <2>5. StartFirst'
    BY <1>0, <1>1, <2>1, <2>3, <2>4 DEF StartFirst
  <2>6. OnlyConn'
    BY <1>0, <1>1, <2>1, <2>3, <2>4 DEF OnlyConn
  <2>7. SockRemembered'
    BY <1>0, <1>2, <2>1, <2>2, <2>3 DEF SockRemembered, ResetLabels, Resetting
  <2>8. \A c \in Conns : BodyDue(c)' <=> BodyDue(c)
    BY <1>0, <1>2, <2>1, <2>2, <2>3 DEF BodyDue
  <2>9. HandlersStay'
    BY <1>0, <2>1, <2>8, QuietStream DEF HandlersStay
  <2> QED BY <2>5, <2>6, <2>7, <2>9 DEF SteadyInv
<1>4. CASE EnsureConnect(t)
  <2>1. UNCHANGED <<up, current_sock, wrote>> /\ pc[t] = "connect" /\ sock = NoConn
    BY <1>0, <1>4 DEF EnsureConnect, Connect, Goto, link, SockRemembered
  <2>2. Unused = Conns
    BY <1>0, <2>1, ClientAssumption DEF Unused, OnlyConn
  <2>3. CASE t = Starter
    <3>1. /\ pc[Listener] = "off" /\ \A w \in Workers : pc[w] = "idle"
      BY <1>0, <2>1, <2>3 DEF StartFirst
    <3>2. pc' = [pc EXCEPT ![Starter] = "spawn"]
      BY <1>2, <1>4, <2>3 DEF EnsureConnect, Goto
    <3>3. /\ pc'[Starter] = "spawn" /\ pc'[Listener] = "off"
          /\ \A w \in Workers : pc'[w] = "idle"
      BY <1>0, <3>1, <3>2 DEF ClientTypeOK
    <3>4. CASE UNCHANGED <<sock, link>>
      <4>1. Conns = {}
        BY <1>4, <2>1, <2>2, <3>4, ClientAssumption DEF EnsureConnect, Steady
      <4> QED BY <1>0, <2>1, <3>1, <3>3, <3>4, <4>1
              DEF SteadyInv, StartFirst, OnlyConn, SockRemembered, HandlersStay, ResetLabels,
                  Resetting, ClientThreads
    <3>5. ASSUME NEW c \in Conns, Connect(c), sock' = c PROVE SteadyInv'
      <4>1. cend' = [cend EXCEPT ![c] = "open"] /\ rend' = [rend EXCEPT ![c] = "backlog"]
        BY <3>5 DEF Connect
      <4>2. OnlyConn'
        BY <1>0, <2>1, <3>3, <3>5, <4>1, ClientAssumption DEF OnlyConn, ClientTypeOK
      <4>3. StartFirst' /\ SockRemembered'
        BY <1>0, <3>3 DEF StartFirst, SockRemembered, ResetLabels, Resetting, ClientThreads
      <4>4. HandlersStay'
        BY <1>0, <2>1, <3>1, <3>3, WorkersStay
      <4> QED BY <4>2, <4>3, <4>4 DEF SteadyInv
    <3> QED BY <1>4, <3>4, <3>5 DEF EnsureConnect
  <2>4. CASE t # Starter
    <3>1. Conns = {} /\ pc[Starter] = "done"
      BY <1>0, <1>1, <2>1, <2>4 DEF OnlyConn
    <3>2. UNCHANGED <<sock, link>> /\ pc' = [pc EXCEPT ![t] = AfterEnsure(t, FALSE)]
      BY <1>4, <3>1 DEF EnsureConnect, Goto
    <3>3. /\ pc'[t] = AfterEnsure(t, FALSE)
          /\ \A u \in ClientThreads : u # t => pc'[u] = pc[u]
      BY <1>0, <3>2 DEF ClientTypeOK
    <3>4. SockRemembered'
      BY <1>0, <1>2, <2>1, <2>4, <3>2, <3>3 DEF SockRemembered, ResetLabels, Resetting
    <3>5. StartFirst' /\ OnlyConn' /\ HandlersStay'
      BY <1>0, <2>4, <3>1, <3>3 DEF StartFirst, OnlyConn, HandlersStay
    <3> QED BY <3>4, <3>5 DEF SteadyInv
  <2> QED BY <2>3, <2>4
<1> QED BY <1>3, <1>4 DEF EnsureStep

LEMMA StartKeepsSteady ==
  ASSUME LoopTyped, SteadyInv, Install \/ Spawn, UNCHANGED at
  PROVE  SteadyInv'
<1>0. /\ Starter \in ClientThreads /\ Listener \in ClientThreads /\ Starter # Listener
      /\ \A w \in Workers : w \in ClientThreads /\ w # Starter /\ w # Listener
      /\ \A t \in ClientThreads : t \in Workers \/ t = Starter \/ t = Listener
      /\ ClientTypeOK /\ StartFirst /\ OnlyConn /\ SockRemembered /\ HandlersStay
  BY ClientAssumption DEF ClientThreads, LoopTyped, SteadyInv
<1>1. UNCHANGED <<cend, rend, up, sock, current_sock, wrote>>
  BY DEF Install, Spawn, link
<1>2. pc[Listener] = "off" /\ \A w \in Workers : pc[w] = "idle"
  BY <1>0 DEF Install, Spawn, Goto, StartFirst
<1>3. \A w \in Workers : pc'[w] = "idle"
  BY <1>0, <1>2 DEF Install, Spawn, Goto, ClientTypeOK
<1>4. \/ pc[Starter] = "install" /\ pc'[Starter] = "check" /\ pc'[Listener] = "off"
      \/ pc[Starter] = "spawn" /\ pc'[Starter] = "done" /\ pc'[Listener] = "copy"
  <2>1. CASE Install
    <3>1. sock = NoConn
      BY <1>0, <2>1 DEF Install, Goto, StartFirst
    <3> QED BY <1>0, <1>2, <2>1, <3>1 DEF Install, Goto, ClientTypeOK
  <2>2. CASE Spawn
    BY <1>0, <2>2 DEF Spawn, ClientTypeOK
  <2> QED BY <2>1, <2>2
<1>5. StartFirst' /\ OnlyConn'
  BY <1>0, <1>1, <1>3, <1>4 DEF StartFirst, OnlyConn
<1>6. SockRemembered'
  BY <1>0, <1>3, <1>4 DEF SockRemembered, ResetLabels, Resetting
<1>7. HandlersStay'
  BY <1>0, <1>1, <1>2, <1>3, WorkersStay
<1> QED BY <1>5, <1>6, <1>7 DEF SteadyInv

LEMMA ListenerKeepsSteady ==
  ASSUME Steady, LoopTyped, SteadyInv, LoopStep, UNCHANGED at
  PROVE  SteadyInv'
<1>0. /\ Starter \in ClientThreads /\ Listener \in ClientThreads /\ Starter # Listener
      /\ \A w \in Workers : w \in ClientThreads /\ w # Starter /\ w # Listener
      /\ \A t \in ClientThreads : t \in Workers \/ t = Starter \/ t = Listener
      /\ ClientTypeOK /\ StartFirst /\ OnlyConn /\ SockRemembered /\ HandlersStay
  BY ClientAssumption DEF ClientThreads, LoopTyped, SteadyInv
<1>1. UNCHANGED <<cend, rend, up, sock, wrote>>
  BY DEF LoopStep, CopySock, Recheck, Poll, Relock, Recv, Handle, link
<1>2. /\ \A t \in ClientThreads : t # Listener => pc'[t] = pc[t]
      /\ pc[Listener] # "off"
  BY <1>0 DEF LoopStep, CopySock, Recheck, Poll, Relock, Recv, Handle, Goto, ClientTypeOK
<1>3. /\ pc'[Listener] \in {"copy", "recheck", "check", "poll", "relock", "recv", "handle"}
      /\ pc'[Listener] \in {"poll", "relock", "recv"} => sock # NoConn /\ current_sock' = sock
  <2>1. CASE CopySock
    BY <1>0, <2>1 DEF CopySock, Goto, ClientTypeOK
  <2>2. CASE Recheck \/ Relock \/ Handle
    BY <1>0, <2>2 DEF Recheck, Relock, Handle, Goto, ClientTypeOK, SockRemembered
  <2>3. CASE Poll
    BY <1>0, <2>3 DEF Poll, Goto, ClientTypeOK, SockRemembered, Steady
  <2>4. CASE Recv
    <3>1. sock \notin RecvFails
      BY <2>4, NothingFails DEF Recv
    <3>2. pc' \in {[pc EXCEPT ![Listener] = "handle"], [pc EXCEPT ![Listener] = "copy"]}
      BY <2>4, <3>1 DEF Recv, Goto
    <3> QED BY <1>0, <3>2 DEF ClientTypeOK
  <2> QED BY <2>1, <2>2, <2>3, <2>4 DEF LoopStep
<1>4. StartFirst' /\ OnlyConn'
  BY <1>0, <1>1, <1>2, <1>3 DEF StartFirst, OnlyConn
<1>5. SockRemembered'
  BY <1>0, <1>1, <1>2, <1>3 DEF SockRemembered, ResetLabels, Resetting
<1>6. HandlersStay'
  BY <1>0, <1>1, <1>2, WorkersStay
<1> QED BY <1>4, <1>5, <1>6 DEF SteadyInv

-----------------------------------------------------------------------------
\* Only a connection's handler reads its stream, accepts it or closes it.
OtherThread ==
  \/ \E a \in AiConns : Receiver(a) \/ AiReads(a) \/ AiControls(a) \/ AiCloses(a)
  \/ ConnectAi \/ SpawnReceiver
  \/ \E k \in Cmds : CommandThread(k)

LEMMA OthersLeaveStreams ==
  ASSUME CoreInv, OtherThread
  PROVE  UNCHANGED <<cend, rend, up>> /\ \A c \in Conns : at'[c] = at[c]
<1>0. AtOK /\ SharedOK
  BY DEF CoreInv, TypeInv
<1>1. ASSUME NEW a \in AiConns, Receiver(a)
      PROVE  UNCHANGED <<cend, rend, up>> /\ \A c \in Conns : at'[c] = at[c]
  <2>1. \A c \in Conns : at'[c] = at[c]
    BY <1>0, <1>1, ReceiverGoes, KindsDisjoint
  <2> QED BY <1>1, <2>1 DEF Receiver, AiRecvLen, AiRecvBody, StartBroadcast, Broadcast,
                            ForgetAi, CloseAi, link
<1>2. ASSUME NEW a \in AiConns, AiReads(a) \/ AiControls(a) \/ AiCloses(a)
      PROVE  UNCHANGED <<cend, rend, up>> /\ \A c \in Conns : at'[c] = at[c]
  BY <1>2 DEF AiReads, AiControls, AiCloses, link
<1>3. ASSUME NEW k \in Cmds, CommandThread(k)
      PROVE  UNCHANGED <<cend, rend, up>> /\ \A c \in Conns : at'[c] = at[c]
  <2>1. \A c \in Conns : at'[c] = at[c]
    BY <1>0, <1>3, CommandGoes, KindsDisjoint
  <2> QED BY <1>3, <2>1 DEF CommandThread, Command, Commander, StartBroadcast, Broadcast, link
<1>4. ASSUME ConnectAi \/ SpawnReceiver
      PROVE  UNCHANGED <<cend, rend, up>> /\ \A c \in Conns : at'[c] = at[c]
  <2>1. \A c \in Conns : c # ai_connection /\ c \in Threads
    BY <1>0, KindsDisjoint DEF SharedOK
  <2>2. UNCHANGED at \/ at' = [at EXCEPT ![ai_connection] = "len"]
    BY <1>4 DEF ConnectAi, SpawnReceiver
  <2>3. \A c \in Conns : at'[c] = at[c]
    BY <1>0, <2>1, <2>2 DEF AtOK
  <2> QED BY <1>4, <2>3 DEF ConnectAi, SpawnReceiver, link
<1> QED BY <1>1, <1>2, <1>3, <1>4 DEF OtherThread

\* A handler that reads its stream in whole frames goes on reading.
LEMMA HandlerKeepsFrames ==
  ASSUME LoopTyped, SteadyInv, NEW c \in Conns, XappThread(c), UNCHANGED client
  PROVE  HandlersStay'
<1>0. AtOK /\ LinkOK /\ HandlersStay /\ OnlyConn /\ c \in Threads
  BY KindsDisjoint DEF LoopTyped, CoreInv, TypeInv, SteadyInv
<1>1. \A d \in Conns : BodyDue(d)' <=> BodyDue(d)
  BY DEF BodyDue, client
<1>2. \A d \in Conns : d # c => at'[d] = at[d]
  BY <1>0, HandlerGoes, KindsDisjoint
<1>3. ~UpEof(c)
  BY <1>0 DEF UpEof, OnlyConn
<1>4. up[c] \in Seq(Unit) /\ WholeFrames(c) /\ at[c] \notin {"final", "close", "done"}
  BY <1>0 DEF LinkOK, UpUnit, Unit, HandlersStay
<1>5. CASE RecvLen(c) \/ RecvBody(c)
  <2> DEFINE q == up[c]
             p == Tail(q)
  <2>1. q # <<>> /\ up' = [up EXCEPT ![c] = p]
    BY <1>3, <1>5 DEF RecvLen, RecvBody
  <2>2. Head(q).part = "body" <=> at[c] = "body"
    BY <1>4, <2>1 DEF WholeFrames
  <2>3. at'[c] = "body" <=> at[c] # "body"
    <3>1. CASE RecvLen(c)
      <4>1. at[c] = "len"
        BY <3>1 DEF RecvLen
      <4>2. Head(q) \in Unit
        BY <1>4, <2>1
      <4>3. Head(q).part = "len"
        BY <2>2, <4>1, <4>2 DEF Unit
      <4>4. Move(c, "len", "body")
        BY <2>1, <3>1, <4>3, <1>3 DEF RecvLen
      <4> QED BY <1>0, <4>1, <4>4 DEF Move, AtOK
    <3>2. CASE RecvBody(c)
      <4>1. at[c] = "body"
        BY <3>2 DEF RecvBody
      <4>2. PICK to \in {"lock_kpi", "lock_req"} : Move(c, "body", to)
        BY <1>3, <3>2 DEF RecvBody
      <4> QED BY <1>0, <4>1, <4>2 DEF Move, AtOK
    <3> QED BY <1>5, <3>1, <3>2
  <2>4. at'[c] \notin {"final", "close", "done"}
    <3>1. CASE RecvLen(c)
      <4>1. at[c] = "len" /\ Head(q) \in Unit
        BY <1>4, <2>1, <3>1 DEF RecvLen
      <4>2. Head(q).part = "len"
        BY <2>2, <4>1 DEF Unit
      <4> QED BY <1>0, <1>3, <3>1, <4>2 DEF RecvLen, Move, AtOK
    <3>2. CASE RecvBody(c)
      <4>1. PICK to \in {"lock_kpi", "lock_req"} : Move(c, "body", to)
        BY <1>3, <3>2 DEF RecvBody
      <4> QED BY <1>0, <4>1 DEF Move, AtOK
    <3> QED BY <1>5, <3>1, <3>2
  <2>5. /\ Alternates(p)
        /\ p # <<>> => Head(p).part # Head(q).part /\ p[Len(p)] = q[Len(q)]
        /\ p = <<>> => q[Len(q)] = Head(q)
    BY <1>4, <2>1, TailAlternates DEF WholeFrames
  <2>6. q[Len(q)].part = "len" <=> BodyDue(c)
    BY <1>4, <2>1 DEF WholeFrames
  <2>7. /\ up'[c] = p
        /\ \A d \in Conns : d # c => up'[d] = up[d]
    BY <1>0, <2>1 DEF LinkOK
  <2>8. p # <<>> => (Head(p).part = "body" <=> Head(q).part # "body")
    <3>1. p # <<>> => Head(p) \in Unit
      BY <1>4, <2>1
    <3>2. Head(q) \in Unit
      BY <1>4, <2>1
    <3> QED BY <2>5, <3>1, <3>2 DEF Unit
  <2>9. p = <<>> => (Head(q).part = "len" <=> Head(q).part # "body")
    <3>1. Head(q) \in Unit
      BY <1>4, <2>1
    <3> QED BY <3>1 DEF Unit
  <2>10. Alternates(up[c])' <=> Alternates(p)
    BY <2>7 DEF Alternates
  <2> HIDE DEF p
  <2>11. WholeFrames(c)'
    BY <1>1, <2>2, <2>3, <2>5, <2>6, <2>7, <2>8, <2>9, <2>10 DEF WholeFrames
  <2>12. ASSUME NEW d \in Conns, d # c PROVE WholeFrames(d)'
    BY <1>0, <1>1, <1>2, <2>7, <2>12 DEF HandlersStay, WholeFrames, Alternates
  <2> QED BY <1>0, <1>2, <2>4, <2>11, <2>12 DEF HandlersStay
<1>6. CASE ~(RecvLen(c) \/ RecvBody(c))
  <2>1. UNCHANGED up
    BY <1>6 DEF XappThread, Accept, Handler, Register, LockKpi, ForwardKpi, LockRequest,
                ForwardRequest, ReplyLen, ReplyBody, Answer, Deregister, CloseXapp, link
  <2>2. at[c] # "body" /\ at'[c] \notin {"body", "final", "close", "done"}
    <3>1. CASE Accept(c) \/ Register(c) \/ LockKpi(c) \/ ForwardKpi(c) \/ LockRequest(c)
               \/ ReplyBody(c) \/ Answer(c)
      BY <1>0, <3>1 DEF Accept, Register, LockKpi, ForwardKpi, LockRequest, ReplyBody, Answer,
                        Move, AtOK
    <3>2. CASE ForwardRequest(c)
      BY <1>0, <3>2 DEF ForwardRequest, Move, AtOK
    <3>3. CASE ReplyLen(c)
      BY <1>0, <3>3 DEF ReplyLen, Move, AtOK
    <3>4. CASE Deregister(c) \/ CloseXapp(c)
      BY <1>4, <3>4 DEF Deregister, CloseXapp, Move
    <3> QED BY <1>6, <3>1, <3>2, <3>3, <3>4 DEF XappThread, Handler
  <2> QED BY <1>0, <1>1, <1>2, <2>1, <2>2, QuietStream DEF HandlersStay
<1> QED BY <1>5, <1>6

LEMMA RelayKeepsSteady ==
  ASSUME LoopTyped, SteadyInv, Relay \/ Ai, UNCHANGED client
  PROVE  SteadyInv'
<1>0. CoreInv /\ LinkOK /\ StartFirst /\ OnlyConn /\ SockRemembered /\ HandlersStay
  BY DEF LoopTyped, CoreInv, TypeInv, SteadyInv
<1>1. StartFirst' /\ SockRemembered'
  BY <1>0 DEF StartFirst, SockRemembered, client
<1>2. ASSUME NEW c \in Conns, XappThread(c) PROVE OnlyConn' /\ HandlersStay'
  <2>1. HandlersStay'
    BY <1>2, HandlerKeepsFrames
  <2>2. ~CloseXapp(c)
    BY <1>0 DEF CloseXapp, Move, HandlersStay
  <2>3. UNCHANGED cend /\ (UNCHANGED rend \/ rend' = [rend EXCEPT ![c] = "open"])
    BY <1>2, <2>2
       DEF XappThread, Accept, Handler, Register, RecvLen, RecvBody, LockKpi, ForwardKpi,
           LockRequest, ForwardRequest, ReplyLen, ReplyBody, Answer, Deregister, link
  <2>4. OnlyConn'
    BY <1>0, <2>3 DEF OnlyConn, client, LinkOK
  <2> QED BY <2>1, <2>4
<1>3. CASE OtherThread
  <2>1. UNCHANGED <<cend, rend, up>> /\ \A c \in Conns : at'[c] = at[c]
    BY <1>0, <1>3, OthersLeaveStreams
  <2>2. \A c \in Conns : BodyDue(c)' <=> BodyDue(c)
    BY DEF BodyDue, client
  <2>3. HandlersStay'
    BY <1>0, <2>1, <2>2, QuietStream DEF HandlersStay
  <2>4. OnlyConn'
    BY <1>0, <2>1 DEF OnlyConn, client
  <2> QED BY <1>1, <2>3, <2>4 DEF SteadyInv
<1> QED BY <1>1, <1>2, <1>3, RelaySteps DEF OtherThread, SteadyInv

-----------------------------------------------------------------------------
LEMMA SteadyKept == ASSUME Steady, LoopTyped, SteadyInv, [LoopNext]_vars PROVE SteadyInv'
<1>1. CASE Client /\ UNCHANGED <<frames, relay, aiSide, sends, cut>>
  <2>1. UNCHANGED at
    BY <1>1 DEF relay
  <2> QED BY <1>1, <2>1, ClientSteps, NothingFails, WorkerKeepsSteady, EnsureKeepsSteady,
             StartKeepsSteady, ListenerKeepsSteady
<1>2. CASE (Relay \/ Ai) /\ UNCHANGED <<client, frames, sends, cut>>
  BY <1>2, RelayKeepsSteady
<1>3. CASE UNCHANGED vars
  <2>1. UNCHANGED <<link, client, at>>
    BY <1>3 DEF vars, xappVars, relayVars, relay
  <2> QED BY <2>1
     DEF link, client, SteadyInv, StartFirst, OnlyConn, SockRemembered, HandlersStay,
         WholeFrames, Alternates, BodyDue
<1> QED BY <1>1, <1>2, <1>3, LoopSteps

LEMMA SteadyInit == ASSUME LoopInit PROVE SteadyInv
<1>1. /\ Starter # Listener /\ Starter \notin Workers /\ Listener \notin Workers
      /\ \A w \in Workers : w \in ClientThreads /\ pc[w] = "idle"
      /\ pc[Starter] = "install" /\ pc[Listener] = "off"
      /\ \A t \in ClientThreads : t \in Workers \/ t = Starter \/ t = Listener
  BY ClientAssumption DEF LoopInit, ClientInit, ClientThreads
<1>2. sock = NoConn /\ \A c \in Conns : c # sock
  BY ClientAssumption DEF LoopInit, ClientInit
<1>3. \A c \in Conns : /\ cend[c] = "none" /\ rend[c] = "none" /\ up[c] = <<>>
                       /\ at[c] = "none"
  BY KindsDisjoint DEF LoopInit, Init, LinkInit, RelayInit
<1>4. StartFirst /\ OnlyConn
  BY <1>1, <1>2, <1>3 DEF StartFirst, OnlyConn
<1>5. SockRemembered
  BY <1>1 DEF SockRemembered, ResetLabels, Resetting
<1>6. HandlersStay
  <2>1. \A c \in Conns : ~BodyDue(c)
    BY <1>1 DEF BodyDue
  <2>2. Alternates(<<>>)
    BY DEF Alternates
  <2> QED BY <1>3, <2>1, <2>2 DEF HandlersStay, WholeFrames
<1> QED BY <1>4, <1>5, <1>6 DEF SteadyInv

\* The invariants of each program alone, and what they come to together.
LEMMA LoopTypedHolds == LoopSpec => []LoopTyped
<1>1. LoopInit => LoopTyped
  BY LoopTypedInit
<1>2. LoopTyped /\ [LoopNext]_vars => LoopTyped'
  BY LoopTypedKept
<1> QED BY <1>1, <1>2, PTL DEF LoopSpec

LEMMA SteadyHolds == ASSUME Steady PROVE LoopSpec => []SteadyInv
<1>1. LoopInit => SteadyInv
  BY SteadyInit
<1>2. LoopTyped /\ SteadyInv /\ [LoopNext]_vars => SteadyInv'
  BY SteadyKept
<1> QED BY <1>1, <1>2, LoopTypedHolds, PTL DEF LoopSpec

\* While the relay is there, sock_ does not change between the two sends of a frame,
\* for any number of workers, calls, commands and control messages, and whatever the AI does.
THEOREM FrameOnOneSocketCorrect == ASSUME Steady PROVE LoopSpec => []FrameOnOneSocket
<1>1. SteadyInv => FrameOnOneSocket
  BY DEF SteadyInv, SockRemembered, FrameOnOneSocket
<1> QED BY <1>1, SteadyHolds, PTL

\* Calls and listener, which all may connect, share one connection.
THEOREM NoLeakedConnectionCorrect == ASSUME Steady PROVE LoopSpec => []NoLeakedConnection
<1>1. SteadyInv => NoLeakedConnection
  BY DEF SteadyInv, OnlyConn, NoLeakedConnection
<1> QED BY <1>1, SteadyHolds, PTL

-----------------------------------------------------------------------------
(* With KPIs only nothing goes back to a call: frames to the xApp are the    *)
(* listener's, and handlers ask the AI for nothing.                          *)

Requesting == {"lock_req", "fwd_req", "reply_len", "reply_body", "reply"}
KpiInv ==
  /\ \A w \in Workers : call[w].kind = "kpi" /\ pc[w] # "reply"
  /\ \A c \in Conns : \A i \in DOMAIN up[c] : up[c][i].kind = "kpi"
  /\ \A c \in Conns : at[c] \notin Requesting
  /\ pc[Listener] \in {"relock", "recv"} => down[sock] # <<>>

LEMMA KpiInit == ASSUME LoopInit PROVE KpiInv
<1>1. \A w \in Workers : call[w].kind = "kpi" /\ pc[w] = "idle"
  BY ClientAssumption DEF LoopInit, ClientInit, ClientThreads, NoRequest
<1>2. pc[Listener] = "off"
  BY ClientAssumption DEF LoopInit, ClientInit, ClientThreads
<1>3. \A c \in Conns : up[c] = <<>> /\ at[c] = "none"
  BY KindsDisjoint DEF LoopInit, Init, LinkInit, RelayInit
<1> QED BY <1>1, <1>2, <1>3 DEF KpiInv, Requesting

\* The client sends only KPIs, and nobody but the listener takes a frame.
LEMMA ClientKeepsKpi ==
  ASSUME Steady, KpiOnly, LoopTyped, SteadyInv, KpiInv, Client, UNCHANGED at
  PROVE  KpiInv'
<1>0. /\ Starter \in ClientThreads /\ Listener \in ClientThreads /\ Starter # Listener
      /\ \A w \in Workers : w \in ClientThreads /\ w # Starter /\ w # Listener
      /\ \A t \in ClientThreads : t \in Workers \/ t = Starter \/ t = Listener
      /\ ClientTypeOK /\ SockRemembered /\ StartFirst /\ OnlyConn
  BY ClientAssumption DEF ClientThreads, LoopTyped, SteadyInv
<1>1. ASSUME UNCHANGED <<call, up>>, \A w \in Workers : pc'[w] # "reply",
             pc'[Listener] \in {"relock", "recv"} => down'[sock'] # <<>>
      PROVE  KpiInv'
  BY <1>1 DEF KpiInv
<1>2. ASSUME NEW w \in Workers, WorkerStep(w) PROVE KpiInv'
  <2>1. UNCHANGED sock /\ \A t \in ClientThreads : t # w => pc'[t] = pc[t]
    BY <1>2, WorkerSteady
  <2>2. ~RecvReply(w) /\ ~CallFails(w)
    BY NothingFails DEF RecvReply, Goto, KpiInv
  <2>3. UNCHANGED down
    BY <1>2, <2>2 DEF WorkerStep, Begin, LockCall, SendPart, link
  <2>4. pc'[Listener] \in {"relock", "recv"} => down'[sock'] # <<>>
    BY <1>0, <2>1, <2>3 DEF KpiInv
  <2>5. CASE Begin(w)
    <3>1. PICK k \in Ops : call' = [call EXCEPT ![w] = [id |-> calls + 1, kind |-> k]]
      BY <2>5 DEF Begin
    <3>2. k = "kpi"
      BY ClientAssumption DEF KpiOnly
    <3>3. \A v \in Workers : call'[v].kind = "kpi"
      BY <1>0, <3>1, <3>2 DEF KpiInv, ClientTypeOK
    <3>4. \A v \in Workers : pc'[v] # "reply"
      BY <1>0, <2>5 DEF Begin, Goto, KpiInv, ClientTypeOK
    <3>5. UNCHANGED up
      BY <2>5 DEF Begin, link
    <3> QED BY <2>4, <3>3, <3>4, <3>5 DEF KpiInv
  <2>6. CASE LockCall(w)
    <3>1. \A v \in Workers : pc'[v] # "reply"
      BY <1>0, <2>6 DEF LockCall, Goto, KpiInv, ClientTypeOK
    <3> QED BY <1>1, <2>4, <2>6, <3>1 DEF LockCall, link
  <2>7. ASSUME NEW part \in {"len", "body"}, SendPart(w, part) PROVE KpiInv'
    <3>1. call[w].kind = "kpi" /\ UNCHANGED call
      BY <2>7 DEF KpiInv, SendPart
    <3>2. \A v \in Workers : pc'[v] # "reply"
      BY <1>0, <2>7, <3>1 DEF SendPart, Goto, AfterSend, KpiInv, ClientTypeOK
    <3>3. \A c \in Conns : up'[c] = up[c] \/ \E u \in Unit : u.kind = "kpi"
                                                            /\ up'[c] = Append(up[c], u)
      <4> DEFINE u == [part |-> part, id |-> call[w].id, kind |-> call[w].kind]
      <4>1. u \in Unit /\ u.kind = "kpi"
        BY <1>0, <3>1 DEF ClientTypeOK, Request, Unit
      <4>2. up' = [up EXCEPT ![sock] = Append(@, u)] \/ UNCHANGED up
        BY <2>7 DEF SendPart
      <4> QED BY <1>0, <4>1, <4>2 DEF ClientTypeOK
    <3>4. ASSUME NEW c \in Conns, NEW i \in DOMAIN up'[c] PROVE up'[c][i].kind = "kpi"
      <4>1. up[c] \in Seq(Unit)
        BY <1>0 DEF ClientTypeOK
      <4>2. CASE up'[c] = up[c]
        BY <3>4, <4>2 DEF KpiInv
      <4>3. ASSUME NEW u \in Unit, u.kind = "kpi", up'[c] = Append(up[c], u)
            PROVE  up'[c][i].kind = "kpi"
        <5>1. \/ i \in DOMAIN up[c] /\ up'[c][i] = up[c][i]
              \/ up'[c][i] = u
          BY <3>4, <4>1, <4>3, AppendElements
        <5> QED BY <4>3, <5>1 DEF KpiInv
      <4> QED BY <3>3, <4>2, <4>3
    <3> QED BY <2>4, <3>1, <3>2, <3>4 DEF KpiInv
  <2> QED BY <1>2, <2>2, <2>5, <2>6, <2>7 DEF WorkerStep
<1>3. ASSUME NEW t \in ClientThreads, EnsureStep(t) PROVE KpiInv'
  <2>1. UNCHANGED <<call, up, down>>
    BY <1>3 DEF EnsureStep, EnsureCheck, EnsureConnect, Connect, link
  <2>2. PICK to : /\ pc' = [pc EXCEPT ![t] = to]
                  /\ to \notin {"reply", "relock", "recv"}
    <3>1. \A b \in {TRUE, FALSE} : AfterEnsure(t, b) \in {"spawn", "copy", "len", "idle"}
      BY <1>0 DEF AfterEnsure
    <3> QED BY <1>3, <3>1 DEF EnsureStep, EnsureCheck, EnsureConnect, Goto
  <2>3. \A u \in ClientThreads : pc'[u] = IF u = t THEN to ELSE pc[u]
    BY <1>0, <2>2 DEF ClientTypeOK
  <2>4. \A w \in Workers : pc'[w] # "reply"
    BY <1>0, <2>2, <2>3 DEF KpiInv
  <2>5. pc'[Listener] \in {"relock", "recv"} => down'[sock'] # <<>>
    <3>1. SUFFICES ASSUME pc'[Listener] \in {"relock", "recv"} PROVE down'[sock'] # <<>>
      OBVIOUS
    <3>2. pc[Listener] \in {"relock", "recv"}
      BY <1>0, <2>2, <2>3, <3>1
    <3>3. UNCHANGED sock
      <4>1. sock # NoConn
        BY <1>0, <3>2 DEF SockRemembered
      <4> QED BY <1>0, <1>3, <4>1 DEF EnsureStep, EnsureCheck, EnsureConnect, Goto,
                                      SockRemembered
    <3> QED BY <2>1, <3>2, <3>3 DEF KpiInv
  <2> QED BY <1>1, <2>1, <2>4, <2>5
<1>4. CASE Install \/ Spawn
  <2>1. UNCHANGED <<call, up>>
    BY <1>4 DEF Install, Spawn, link
  <2>2. /\ \A w \in Workers : pc'[w] = pc[w]
        /\ pc'[Listener] \in {pc[Listener], "copy"}
    BY <1>0, <1>4 DEF Install, Spawn, Goto, ClientTypeOK
  <2>3. pc[Listener] = "off"
    BY <1>0, <1>4 DEF Install, Spawn, Goto, StartFirst
  <2> QED BY <1>1, <2>1, <2>2, <2>3 DEF KpiInv
<1>5. CASE LoopStep
  <2>1. UNCHANGED <<call, up, sock>>
    BY <1>5 DEF LoopStep, CopySock, Recheck, Poll, Relock, Recv, Handle, link
  <2>2. \A w \in Workers : pc'[w] = pc[w]
    BY <1>0, <1>5
       DEF LoopStep, CopySock, Recheck, Poll, Relock, Recv, Handle, Goto, ClientTypeOK
  <2>3. pc'[Listener] \in {"relock", "recv"} => down'[sock] # <<>>
    <3>1. CASE CopySock \/ Recheck \/ Handle
      BY <1>0, <3>1 DEF CopySock, Recheck, Handle, Goto, ClientTypeOK
    <3>2. CASE Poll
      <4>1. sock # NoConn /\ current_sock = sock /\ UNCHANGED down
        BY <1>0, <3>2 DEF Poll, SockRemembered, link
      <4>2. Readable(current_sock) => down[sock] # <<>>
        BY <4>1, SockIsGood DEF Readable
      <4> QED BY <1>0, <3>2, <4>1, <4>2 DEF Poll, Goto, ClientTypeOK
    <3>3. CASE Relock
      BY <3>3 DEF Relock, Goto, KpiInv, link
    <3>4. CASE Recv
      <4>1. pc[Listener] = "recv" /\ sock \notin RecvFails
        BY <3>4, NothingFails DEF Recv
      <4>2. pc' \in {[pc EXCEPT ![Listener] = "handle"], [pc EXCEPT ![Listener] = "copy"]}
        BY <3>4, <4>1 DEF Recv, Goto
      <4> QED BY <1>0, <4>2 DEF ClientTypeOK
    <3> QED BY <1>5, <3>1, <3>2, <3>3, <3>4 DEF LoopStep
  <2> QED BY <1>1, <2>1, <2>2, <2>3 DEF KpiInv
<1> QED BY <1>2, <1>3, <1>4, <1>5, ClientSteps, NothingFails

\* A handler that reads KPIs asks the AI for nothing; the relay only adds frames.
LEMMA RelayKeepsKpi ==
  ASSUME LoopTyped, SteadyInv, KpiInv, Relay \/ Ai, UNCHANGED client
  PROVE  KpiInv'
<1>0. CoreInv /\ FramesOK /\ LinkOK /\ AtOK /\ OnlyConn /\ ClientTypeOK
  BY DEF LoopTyped, CoreInv, TypeInv, SteadyInv
<1>1. pc'[Listener] \in {"relock", "recv"} => down'[sock'] # <<>>
  <2>1. ASSUME NEW q \in Seq(Frame), NEW f \in Frame PROVE Append(q, f) # <<>>
    <3>1. Len(Append(q, f)) = Len(q) + 1 /\ Len(q) \in Nat /\ Len(<<>>) = 0
      OBVIOUS
    <3> QED BY <3>1
  <2>2. down \in [Conns -> Seq(Frame)]
    BY <1>0 DEF ClientTypeOK
  <2>3. \A c \in Conns : down[c] # <<>> => down'[c] # <<>>
    BY <1>0, <2>1, <2>2, DownGrows
  <2>4. pc[Listener] \in {"relock", "recv"} => sock \in Conns
    BY SockIsGood DEF SteadyInv, SockRemembered
  <2> QED BY <2>3, <2>4 DEF KpiInv, client
<1>2. ASSUME NEW c \in Conns, XappThread(c)
      PROVE  /\ \A d \in Conns : \A i \in DOMAIN up'[d] : up'[d][i].kind = "kpi"
             /\ \A d \in Conns : at'[d] \notin Requesting
  <2>0. c \in Threads /\ \A d \in Conns : d # c => at'[d] = at[d]
    BY <1>0, <1>2, HandlerGoes, KindsDisjoint
  <2>1. up[c] # <<>> => /\ Head(up[c]).kind = "kpi"
                        /\ \A i \in DOMAIN Tail(up[c]) : Tail(up[c])[i].kind = "kpi"
    <3>1. ASSUME up[c] # <<>> PROVE /\ Head(up[c]).kind = "kpi"
                                    /\ \A i \in DOMAIN Tail(up[c]) : Tail(up[c])[i].kind = "kpi"
      <4>1. up[c] \in Seq(Unit)
        BY <1>0 DEF ClientTypeOK
      <4>2. /\ Head(up[c]) = up[c][1] /\ 1 \in DOMAIN up[c]
            /\ \A i \in DOMAIN Tail(up[c]) : i + 1 \in DOMAIN up[c]
                                             /\ Tail(up[c])[i] = up[c][i + 1]
        BY <3>1, <4>1, TailElements
      <4> QED BY <4>2 DEF KpiInv
    <3> QED BY <3>1
  <2>2. UNCHANGED up \/ (up[c] # <<>> /\ up' = [up EXCEPT ![c] = Tail(@)])
    BY <1>2
       DEF XappThread, Accept, Handler, Register, RecvLen, RecvBody, LockKpi, ForwardKpi,
           LockRequest, ForwardRequest, ReplyLen, ReplyBody, Answer, Deregister, CloseXapp, link
  <2>3. \A d \in Conns : \A i \in DOMAIN up'[d] : up'[d][i].kind = "kpi"
    <3>1. CASE UNCHANGED up
      BY <3>1 DEF KpiInv
    <3>2. CASE up[c] # <<>> /\ up' = [up EXCEPT ![c] = Tail(@)]
      <4>1. up'[c] = Tail(up[c]) /\ \A d \in Conns : d # c => up'[d] = up[d]
        BY <1>0, <3>2 DEF LinkOK
      <4> QED BY <2>1, <3>2, <4>1 DEF KpiInv
    <3> QED BY <2>2, <3>1, <3>2
  <2>4. at'[c] \notin Requesting
    <3>1. CASE RecvBody(c)
      <4>1. PICK to \in {"lock_kpi", "final"} : Move(c, "body", to)
        BY <2>1, <3>1 DEF RecvBody
      <4> QED BY <1>0, <2>0, <4>1 DEF Move, AtOK, Requesting
    <3>2. CASE RecvLen(c)
      <4>1. PICK to \in {"body", "final"} : Move(c, "len", to)
        BY <3>2 DEF RecvLen
      <4> QED BY <1>0, <2>0, <4>1 DEF Move, AtOK, Requesting
    <3>3. CASE Accept(c) \/ Register(c) \/ LockKpi(c) \/ ForwardKpi(c) \/ Deregister(c)
               \/ CloseXapp(c)
      BY <1>0, <2>0, <3>3
         DEF Accept, Register, LockKpi, ForwardKpi, Deregister, CloseXapp, Move, AtOK, Requesting
    <3>4. ~(LockRequest(c) \/ ForwardRequest(c) \/ ReplyLen(c) \/ ReplyBody(c) \/ Answer(c))
      BY DEF LockRequest, ForwardRequest, ReplyLen, ReplyBody, Answer, Move, KpiInv, Requesting
    <3> QED BY <1>2, <3>1, <3>2, <3>3, <3>4 DEF XappThread, Handler
  <2> QED BY <2>0, <2>3, <2>4 DEF KpiInv
<1>3. CASE OtherThread
  BY <1>0, <1>1, <1>3, OthersLeaveStreams DEF KpiInv, client
<1> QED BY <1>1, <1>2, <1>3, RelaySteps DEF KpiInv, client, OtherThread

LEMMA KpiHolds == ASSUME Steady, KpiOnly PROVE LoopSpec => []KpiInv
<1>1. LoopInit => KpiInv
  BY KpiInit
<1>2. LoopTyped /\ SteadyInv /\ KpiInv /\ [LoopNext]_vars => KpiInv'
  <2> SUFFICES ASSUME LoopTyped, SteadyInv, KpiInv, [LoopNext]_vars PROVE KpiInv'
    OBVIOUS
  <2>1. CASE Client /\ UNCHANGED <<frames, relay, aiSide, sends, cut>>
    BY <2>1, ClientKeepsKpi DEF relay
  <2>2. CASE (Relay \/ Ai) /\ UNCHANGED <<client, frames, sends, cut>>
    BY <2>2, RelayKeepsKpi
  <2>3. CASE UNCHANGED vars
    <3>1. UNCHANGED <<link, client, at>>
      BY <2>3 DEF vars, xappVars, relayVars, relay
    <3> QED BY <3>1 DEF link, client, KpiInv
  <2> QED BY <2>1, <2>2, <2>3, LoopSteps
<1> QED BY <1>1, <1>2, LoopTypedHolds, SteadyHolds, PTL DEF LoopSpec

\* What poll() saw is still there when the listener has taken the mutex: no call
\* reads, and the relay only adds.  With recommendation requests it is not so.
THEOREM RecvFindsDataCorrect == ASSUME Steady, KpiOnly PROVE LoopSpec => []RecvFindsData
<1>1. KpiInv => RecvFindsData
  BY DEF KpiInv, RecvFindsData
<1> QED BY <1>1, KpiHolds, PTL

-----------------------------------------------------------------------------
(* A call's frame is in one place at a time: with the worker until its body  *)
(* is sent, in the socket, in the handler's hand, on its way to the AI, or   *)
(* read.                                                                     *)

Unsent(w)   == pc[w] \in {"lock", "check", "connect", "len", "body"}
InWorker(n) == \E w \in Workers : Unsent(w) /\ call[w].id = n
InUp(n)     == \E c \in Conns : \E i \in DOMAIN up[c] : up[c][i].part = "body" /\ up[c][i].id = n
InHandler(n) == \E c \in Conns : at[c] \in FrameInHand /\ msg[c].id = n
InAup(n)    == \E a \in AiConns : \E i \in DOMAIN aup[a] : aup[a][i].m.id = n
InAi(n)     == \E i \in DOMAIN delivered : delivered[i].m.id = n

Places == {"worker", "up", "handler", "aup", "ai"}
In(place, n) ==
  \/ place = "worker"  /\ InWorker(n)
  \/ place = "up"      /\ InUp(n)
  \/ place = "handler" /\ InHandler(n)
  \/ place = "aup"     /\ InAup(n)
  \/ place = "ai"      /\ InAi(n)

InOnePlace ==
  /\ \A n \in Nat, p, q \in Places : In(p, n) /\ In(q, n) => p = q
  /\ \A n \in Nat, p \in Places : In(p, n) => 0 < n /\ n <= calls

WorkerOnce == \A v, w \in Workers : Unsent(v) /\ Unsent(w) /\ call[v].id = call[w].id => v = w
UpOnce ==
  \A c, d \in Conns : \A i \in DOMAIN up[c], j \in DOMAIN up[d] :
    up[c][i].part = "body" /\ up[d][j].part = "body" /\ up[c][i].id = up[d][j].id
      => c = d /\ i = j
HandlerOnce ==
  \A c, d \in Conns : at[c] \in FrameInHand /\ at[d] \in FrameInHand /\ msg[c].id = msg[d].id
                        => c = d
AupOnce ==
  \A a, b \in AiConns : \A i \in DOMAIN aup[a], j \in DOMAIN aup[b] :
    aup[a][i].m.id = aup[b][j].m.id => a = b /\ i = j
ReadOnce ==
  \A i, j \in DOMAIN delivered : delivered[i].m.id = delivered[j].m.id => i = j

FrameOnce == InOnePlace /\ WorkerOnce /\ UpOnce /\ HandlerOnce /\ AupOnce /\ ReadOnce /\ HistoryOK

-----------------------------------------------------------------------------
\* A frame that goes to a place where it was not, from the only place where it was.
LEMMA FrameMoves ==
  ASSUME InOnePlace, calls \in Nat, calls' \in Nat, calls <= calls',
         NEW m \in Nat, NEW to \in Places, 0 < m, m <= calls',
         \A n \in Nat, p \in Places : In(p, n)' => In(p, n) \/ (p = to /\ n = m),
         \A p \in Places : In(p, m) => ~In(p, m)'
  PROVE  InOnePlace'
BY DEF InOnePlace

\* Frames may also be lost.
LEMMA FramesShrink ==
  ASSUME InOnePlace, calls \in Nat, calls' \in Nat, calls <= calls',
         \A n \in Nat, p \in Places : In(p, n)' => In(p, n)
  PROVE  InOnePlace'
BY DEF InOnePlace

\* A unit is read from the stream to the relay.
LEMMA UpRead ==
  ASSUME up \in [Conns -> Seq(Unit)], UpOnce, NEW c \in Conns, up[c] # <<>>,
         up' = [up EXCEPT ![c] = Tail(@)]
  PROVE  /\ UpOnce'
         /\ \A n : InUp(n)' => InUp(n)
         /\ \A n : Head(up[c]).part = "body" /\ n = Head(up[c]).id => InUp(n) /\ ~InUp(n)'
<1>1. /\ \A d \in Conns : d # c => up'[d] = up[d]
      /\ up'[c] = Tail(up[c])
  OBVIOUS
<1>2. /\ Head(up[c]) = up[c][1] /\ 1 \in DOMAIN up[c]
      /\ \A i \in DOMAIN up'[c] : /\ i \in Nat \ {0} /\ i + 1 \in DOMAIN up[c]
                                  /\ up'[c][i] = up[c][i + 1]
  <2>1. up[c] \in Seq(Unit)
    OBVIOUS
  <2> QED BY <1>1, <2>1, TailElements
<1>3. ASSUME NEW d \in Conns, NEW i \in DOMAIN up'[d]
      PROVE  \E j \in DOMAIN up[d] : /\ up'[d][i] = up[d][j]
                                     /\ j = IF d = c THEN i + 1 ELSE i
                                     /\ d = c => j # 1 /\ i \in Nat
  BY <1>1, <1>2
<1>4. UpOnce'
  <2> SUFFICES ASSUME NEW d \in Conns, NEW e \in Conns,
                      NEW i \in DOMAIN up'[d], NEW j \in DOMAIN up'[e],
                      up'[d][i].part = "body", up'[e][j].part = "body",
                      up'[d][i].id = up'[e][j].id
               PROVE  d = e /\ i = j
    BY DEF UpOnce
  <2>1. PICK k \in DOMAIN up[d] : /\ up'[d][i] = up[d][k]
                                  /\ k = IF d = c THEN i + 1 ELSE i
                                  /\ d = c => i \in Nat
    BY <1>3
  <2>2. PICK l \in DOMAIN up[e] : /\ up'[e][j] = up[e][l]
                                  /\ l = IF e = c THEN j + 1 ELSE j
                                  /\ e = c => j \in Nat
    BY <1>3
  <2>3. d = e /\ k = l
    BY <2>1, <2>2 DEF UpOnce
  <2> QED BY <2>1, <2>2, <2>3
<1>5. \A n : InUp(n)' => InUp(n)
  BY <1>3 DEF InUp
<1>6. ASSUME NEW n, up[c][1].part = "body", n = up[c][1].id PROVE InUp(n) /\ ~InUp(n)'
  <2>1. InUp(n)
    BY <1>2, <1>6 DEF InUp
  <2>2. ASSUME NEW d \in Conns, NEW i \in DOMAIN up'[d], up'[d][i].part = "body",
               up'[d][i].id = n
        PROVE  FALSE
    <3>1. PICK k \in DOMAIN up[d] : up'[d][i] = up[d][k] /\ (d = c => k # 1)
      BY <1>3
    <3> QED BY <1>2, <1>6, <2>2, <3>1 DEF UpOnce
  <2>3. ~InUp(n)'
    BY <2>2 DEF InUp
  <2> QED BY <2>1, <2>3
<1> QED BY <1>2, <1>4, <1>5, <1>6

\* A unit is appended to it.
LEMMA UpSent ==
  ASSUME up \in [Conns -> Seq(Unit)], UpOnce, NEW c \in Conns, NEW u \in Unit,
         up' = [up EXCEPT ![c] = Append(@, u)], u.part = "body" => ~InUp(u.id)
  PROVE  /\ UpOnce'
         /\ \A n : InUp(n)' => InUp(n) \/ (u.part = "body" /\ n = u.id)
<1>1. /\ \A d \in Conns : d # c => up'[d] = up[d]
      /\ up'[c] = Append(up[c], u)
      /\ up[c] \in Seq(Unit)
  OBVIOUS
<1>2. /\ \A i \in DOMAIN up'[c] : \/ i \in DOMAIN up[c] /\ up'[c][i] = up[c][i]
                                  \/ i = Len(up[c]) + 1 /\ up'[c][i] = u
  BY <1>1, AppendElements
<1>3. ASSUME NEW d \in Conns, NEW i \in DOMAIN up'[d]
      PROVE  \/ i \in DOMAIN up[d] /\ up'[d][i] = up[d][i]
             \/ d = c /\ i = Len(up[c]) + 1 /\ up'[d][i] = u
  BY <1>1, <1>2
<1>4. UpOnce'
  <2> SUFFICES ASSUME NEW d \in Conns, NEW e \in Conns,
                      NEW i \in DOMAIN up'[d], NEW j \in DOMAIN up'[e],
                      up'[d][i].part = "body", up'[e][j].part = "body",
                      up'[d][i].id = up'[e][j].id
               PROVE  d = e /\ i = j
    BY DEF UpOnce
  <2>1. CASE i \in DOMAIN up[d] /\ up'[d][i] = up[d][i] /\ j \in DOMAIN up[e]
             /\ up'[e][j] = up[e][j]
    BY <2>1 DEF UpOnce
  <2>2. CASE up'[d][i] = u /\ j \in DOMAIN up[e] /\ up'[e][j] = up[e][j]
    BY <2>2 DEF InUp
  <2>3. CASE up'[e][j] = u /\ i \in DOMAIN up[d] /\ up'[d][i] = up[d][i]
    BY <2>3 DEF InUp
  <2>4. CASE d = c /\ e = c /\ i = Len(up[c]) + 1 /\ j = Len(up[c]) + 1
    BY <2>4
  <2> QED BY <1>3, <2>1, <2>2, <2>3, <2>4
<1>5. \A n : InUp(n)' => InUp(n) \/ (u.part = "body" /\ n = u.id)
  BY <1>3 DEF InUp
<1> QED BY <1>4, <1>5

\* The same for the streams to the AI.
LEMMA AupRead ==
  ASSUME aup \in [AiConns -> Seq(AiFrame)], AupOnce, NEW a \in AiConns, aup[a] # <<>>,
         aup' = [aup EXCEPT ![a] = Tail(@)]
  PROVE  /\ AupOnce'
         /\ \A n : InAup(n)' => InAup(n)
         /\ \A n : n = Head(aup[a]).m.id => InAup(n) /\ ~InAup(n)'
<1>1. /\ \A b \in AiConns : b # a => aup'[b] = aup[b]
      /\ aup'[a] = Tail(aup[a])
  OBVIOUS
<1>2. /\ Head(aup[a]) = aup[a][1] /\ 1 \in DOMAIN aup[a]
      /\ \A i \in DOMAIN aup'[a] : /\ i \in Nat \ {0} /\ i + 1 \in DOMAIN aup[a]
                                   /\ aup'[a][i] = aup[a][i + 1]
  <2>1. aup[a] \in Seq(AiFrame)
    OBVIOUS
  <2> QED BY <1>1, <2>1, TailElements
<1>3. ASSUME NEW b \in AiConns, NEW i \in DOMAIN aup'[b]
      PROVE  \E j \in DOMAIN aup[b] : /\ aup'[b][i] = aup[b][j]
                                      /\ j = IF b = a THEN i + 1 ELSE i
                                      /\ b = a => j # 1 /\ i \in Nat
  BY <1>1, <1>2
<1>4. AupOnce'
  <2> SUFFICES ASSUME NEW b \in AiConns, NEW e \in AiConns,
                      NEW i \in DOMAIN aup'[b], NEW j \in DOMAIN aup'[e],
                      aup'[b][i].m.id = aup'[e][j].m.id
               PROVE  b = e /\ i = j
    BY DEF AupOnce
  <2>1. PICK k \in DOMAIN aup[b] : /\ aup'[b][i] = aup[b][k]
                                   /\ k = IF b = a THEN i + 1 ELSE i
                                   /\ b = a => i \in Nat
    BY <1>3
  <2>2. PICK l \in DOMAIN aup[e] : /\ aup'[e][j] = aup[e][l]
                                   /\ l = IF e = a THEN j + 1 ELSE j
                                   /\ e = a => j \in Nat
    BY <1>3
  <2>3. b = e /\ k = l
    BY <2>1, <2>2 DEF AupOnce
  <2> QED BY <2>1, <2>2, <2>3
<1>5. \A n : InAup(n)' => InAup(n)
  BY <1>3 DEF InAup
<1>6. ASSUME NEW n, n = aup[a][1].m.id PROVE InAup(n) /\ ~InAup(n)'
  <2>1. InAup(n)
    BY <1>2, <1>6 DEF InAup
  <2>2. ASSUME NEW b \in AiConns, NEW i \in DOMAIN aup'[b], aup'[b][i].m.id = n PROVE FALSE
    <3>1. PICK k \in DOMAIN aup[b] : aup'[b][i] = aup[b][k] /\ (b = a => k # 1)
      BY <1>3
    <3> QED BY <1>2, <1>6, <2>2, <3>1 DEF AupOnce
  <2>3. ~InAup(n)'
    BY <2>2 DEF InAup
  <2> QED BY <2>1, <2>3
<1> QED BY <1>2, <1>4, <1>5, <1>6

LEMMA AupSent ==
  ASSUME aup \in [AiConns -> Seq(AiFrame)], AupOnce, NEW a \in AiConns, NEW f \in AiFrame,
         aup' = [aup EXCEPT ![a] = Append(@, f)], ~InAup(f.m.id)
  PROVE  AupOnce' /\ \A n : InAup(n)' => InAup(n) \/ n = f.m.id
<1>1. /\ \A b \in AiConns : b # a => aup'[b] = aup[b]
      /\ aup'[a] = Append(aup[a], f)
      /\ aup[a] \in Seq(AiFrame)
  OBVIOUS
<1>2. \A i \in DOMAIN aup'[a] : \/ i \in DOMAIN aup[a] /\ aup'[a][i] = aup[a][i]
                                \/ i = Len(aup[a]) + 1 /\ aup'[a][i] = f
  BY <1>1, AppendElements
<1>3. ASSUME NEW b \in AiConns, NEW i \in DOMAIN aup'[b]
      PROVE  \/ i \in DOMAIN aup[b] /\ aup'[b][i] = aup[b][i]
             \/ b = a /\ i = Len(aup[a]) + 1 /\ aup'[b][i] = f
  BY <1>1, <1>2
<1>4. AupOnce'
  <2> SUFFICES ASSUME NEW b \in AiConns, NEW e \in AiConns,
                      NEW i \in DOMAIN aup'[b], NEW j \in DOMAIN aup'[e],
                      aup'[b][i].m.id = aup'[e][j].m.id
               PROVE  b = e /\ i = j
    BY DEF AupOnce
  <2>1. CASE i \in DOMAIN aup[b] /\ aup'[b][i] = aup[b][i] /\ j \in DOMAIN aup[e]
             /\ aup'[e][j] = aup[e][j]
    BY <2>1 DEF AupOnce
  <2>2. CASE aup'[b][i] = f /\ j \in DOMAIN aup[e] /\ aup'[e][j] = aup[e][j]
    BY <2>2 DEF InAup
  <2>3. CASE aup'[e][j] = f /\ i \in DOMAIN aup[b] /\ aup'[b][i] = aup[b][i]
    BY <2>3 DEF InAup
  <2>4. CASE b = a /\ e = a /\ i = Len(aup[a]) + 1 /\ j = Len(aup[a]) + 1
    BY <2>4
  <2> QED BY <1>3, <2>1, <2>2, <2>3, <2>4
<1>5. \A n : InAup(n)' => InAup(n) \/ n = f.m.id
  BY <1>3 DEF InAup
<1> QED BY <1>4, <1>5

\* A worker's call has its frame until the body is sent.
LEMMA ClientKeepsOnce ==
  ASSUME Steady, LoopTyped, SteadyInv, FrameOnce, Client,
         UNCHANGED <<at, msg, aup, delivered>>
  PROVE  FrameOnce'
<1>0. /\ Starter \in ClientThreads /\ Listener \in ClientThreads /\ Starter # Listener
      /\ \A w \in Workers : w \in ClientThreads /\ w # Starter /\ w # Listener
      /\ \A t \in ClientThreads : t \in Workers \/ t = Starter \/ t = Listener
      /\ ClientTypeOK /\ MutexDiscipline /\ SockRemembered
  BY ClientAssumption DEF ClientThreads, LoopTyped, SteadyInv
<1>1. /\ HandlerOnce' /\ AupOnce' /\ ReadOnce' /\ HistoryOK'
      /\ \A n \in Nat : /\ InHandler(n)' <=> InHandler(n)
                        /\ InAup(n)' <=> InAup(n)
                        /\ InAi(n)' <=> InAi(n)
  BY DEF FrameOnce, HandlerOnce, AupOnce, ReadOnce, HistoryOK, InHandler, InAup, InAi
<1>2. calls \in Nat
  BY <1>0 DEF ClientTypeOK
<1>3. ASSUME UNCHANGED <<up, calls>>,
             \A w \in Workers : Unsent(w)' => Unsent(w) /\ call'[w] = call[w]
      PROVE  FrameOnce'
  <2>1. \A n \in Nat : InWorker(n)' => InWorker(n)
    BY <1>3 DEF InWorker
  <2>2. UpOnce' /\ \A n \in Nat : InUp(n)' <=> InUp(n)
    BY <1>3 DEF FrameOnce, UpOnce, InUp
  <2>3. WorkerOnce'
    BY <1>3 DEF FrameOnce, WorkerOnce
  <2>4. \A n \in Nat, p \in Places : In(p, n)' => In(p, n)
    BY <1>1, <2>1, <2>2 DEF In, Places
  <2>5. InOnePlace'
    BY <1>2, <1>3, <2>4, FramesShrink DEF FrameOnce
  <2> QED BY <1>1, <2>2, <2>3, <2>5 DEF FrameOnce
<1>4. ASSUME NEW w \in Workers, WorkerStep(w) PROVE FrameOnce'
  <2>0. \A v \in Workers : v # w => pc'[v] = pc[v]
    BY <1>0, <1>4, WorkerSteady
  <2>1. CASE Begin(w)
    <3>1. PICK k \in Ops : call' = [call EXCEPT ![w] = [id |-> calls + 1, kind |-> k]]
      BY <2>1 DEF Begin
    <3>2. /\ call'[w].id = calls + 1 /\ calls' = calls + 1 /\ UNCHANGED up
          /\ \A v \in Workers : v # w => call'[v] = call[v]
      BY <1>0, <2>1, <3>1 DEF Begin, ClientTypeOK, link
    <3>3. \A v \in Workers : v # w => (Unsent(v)' <=> Unsent(v))
      BY <2>0 DEF Unsent
    <3>4. \A n \in Nat : InWorker(n)' => InWorker(n) \/ n = calls + 1
      BY <3>2, <3>3 DEF InWorker
    <3>5. UpOnce' /\ \A n \in Nat : InUp(n)' <=> InUp(n)
      BY <3>2 DEF FrameOnce, UpOnce, InUp
    <3>6. PICK m \in Nat : m = calls + 1
      BY <1>2
    <3>7. \A p \in Places : ~In(p, m)
      BY <1>2, <3>6 DEF FrameOnce, InOnePlace
    <3>8. \A n \in Nat, p \in Places : In(p, n)' => In(p, n) \/ (p = "worker" /\ n = m)
      BY <1>1, <3>4, <3>5, <3>6 DEF In, Places
    <3>9. InOnePlace'
      <4>1. calls' \in Nat /\ calls <= calls' /\ 0 < m /\ m <= calls' /\ "worker" \in Places
        BY <1>2, <3>2, <3>6 DEF Places
      <4> QED BY <1>2, <3>7, <3>8, <4>1, FrameMoves DEF FrameOnce
    <3>10. WorkerOnce'
      <4>1. \A v \in Workers : Unsent(v) => call[v].id # m
        <5>1. ~InWorker(m)
          BY <3>7 DEF In, Places
        <5> QED BY <5>1 DEF InWorker
      <4>2. \A v \in Workers : v # w /\ Unsent(v)' => Unsent(v) /\ call'[v].id # call'[w].id
        BY <3>2, <3>3, <3>6, <4>1
      <4> QED BY <3>2, <3>3, <4>2 DEF FrameOnce, WorkerOnce
    <3> QED BY <1>1, <3>5, <3>9, <3>10 DEF FrameOnce
  <2>2. CASE LockCall(w)
    <3>1. pc[w] = "lock" /\ UNCHANGED <<call, up, calls>>
      BY <2>2 DEF LockCall, Goto, link
    <3> QED BY <1>3, <2>0, <3>1 DEF Unsent
  <2>3. CASE RecvReply(w)
    <3>1. pc'[w] = "idle" /\ UNCHANGED <<call, up, calls>>
      BY <1>0, <2>3 DEF RecvReply, Goto, ClientTypeOK
    <3> QED BY <1>3, <2>0, <3>1 DEF Unsent
  <2>4. ASSUME NEW part \in {"len", "body"}, SendPart(w, part) PROVE FrameOnce'
    <3>1. /\ pc[w] = part /\ UNCHANGED <<call, calls>> /\ Unsent(w)
          /\ Unsent(w)' <=> part = "len"
      BY <1>0, <2>4 DEF SendPart, Goto, AfterSend, ClientTypeOK, Unsent
    <3>2. sock \in Conns /\ rend[sock] # "closed"
      BY <1>0, <2>4, SockIsGood DEF SendPart
    <3>3. PICK u \in Unit : /\ u.part = part /\ u.id = call[w].id
                            /\ up' = [up EXCEPT ![sock] = Append(@, u)]
      <4> DEFINE u == [part |-> part, id |-> call[w].id, kind |-> call[w].kind]
      <4>1. u \in Unit /\ u.part = part /\ u.id = call[w].id
        BY <1>0 DEF ClientTypeOK, Request, Unit
      <4>2. up' = [up EXCEPT ![sock] = Append(@, u)]
        BY <2>4, <3>2 DEF SendPart
      <4> QED BY <4>1, <4>2
    <3>4. PICK m \in Nat : m = call[w].id
      BY <1>0 DEF ClientTypeOK, Request
    <3>5. In("worker", m) /\ "worker" \in Places /\ "up" \in Places
      BY <3>1, <3>4 DEF In, InWorker, Places
    <3>6. 0 < m /\ m <= calls /\ \A p \in Places : In(p, m) => p = "worker"
      BY <3>5 DEF FrameOnce, InOnePlace
    <3>7. UpOnce' /\ \A n \in Nat : InUp(n)' => InUp(n) \/ (part = "body" /\ n = m)
      <4>1. ~InUp(m)
        BY <3>5, <3>6 DEF In
      <4>2. up \in [Conns -> Seq(Unit)] /\ UpOnce
        BY <1>0 DEF ClientTypeOK, FrameOnce
      <4> QED BY <3>2, <3>3, <3>4, <4>1, <4>2, UpSent
    <3>8. \A v \in Workers : v # w => (Unsent(v)' <=> Unsent(v))
      BY <2>0 DEF Unsent
    <3>9. \A n \in Nat : InWorker(n)' => InWorker(n)
      BY <3>1, <3>8 DEF InWorker
    <3>10. WorkerOnce'
      BY <3>1, <3>8 DEF FrameOnce, WorkerOnce
    <3>11. \A n \in Nat, p \in Places : In(p, n)' => In(p, n) \/ (p = "up" /\ n = m /\ part = "body")
      BY <1>1, <3>7, <3>9 DEF In, Places
    <3>12. InOnePlace'
      <4>1. CASE part = "len"
        BY <1>2, <3>1, <3>11, <4>1, FramesShrink DEF FrameOnce
      <4>2. CASE part = "body"
        <5>1. ~InWorker(m)'
          BY <3>1, <3>4, <3>8, <4>2 DEF FrameOnce, WorkerOnce, InWorker
        <5>2. \A p \in Places : In(p, m) => ~In(p, m)'
          BY <3>6, <5>1 DEF In
        <5>3. \A n \in Nat, p \in Places : In(p, n)' => In(p, n) \/ (p = "up" /\ n = m)
          BY <3>11
        <5> QED BY <1>2, <3>1, <3>5, <3>6, <5>2, <5>3, FrameMoves DEF FrameOnce
      <4> QED BY <4>1, <4>2
    <3> QED BY <1>1, <3>7, <3>10, <3>12 DEF FrameOnce
  <2> QED BY <1>4, <2>1, <2>2, <2>3, <2>4, NothingFails DEF WorkerStep
<1>5. ASSUME NEW t \in ClientThreads, EnsureStep(t) PROVE FrameOnce'
  <2>1. UNCHANGED <<call, up, calls>>
    BY <1>5 DEF EnsureStep, EnsureCheck, EnsureConnect, Connect, link
  <2>2. pc[t] \in {"check", "connect"} /\ \E to : pc' = [pc EXCEPT ![t] = to]
    BY <1>5 DEF EnsureStep, EnsureCheck, EnsureConnect, Goto
  <2>3. \A w \in Workers : w # t => pc'[w] = pc[w]
    BY <1>0, <2>2 DEF ClientTypeOK
  <2> QED BY <1>3, <2>1, <2>2, <2>3 DEF Unsent
<1>6. CASE Install \/ Spawn
  <2>1. UNCHANGED <<call, up, calls>> /\ \A w \in Workers : pc'[w] = pc[w]
    BY <1>0, <1>6 DEF Install, Spawn, Goto, ClientTypeOK, link
  <2> QED BY <1>3, <2>1 DEF Unsent
<1>7. CASE LoopStep
  <2>1. UNCHANGED <<call, up, calls>>
    BY <1>7 DEF LoopStep, CopySock, Recheck, Poll, Relock, Recv, Handle, link
  <2>2. \A w \in Workers : pc'[w] = pc[w]
    BY <1>0, <1>7
       DEF LoopStep, CopySock, Recheck, Poll, Relock, Recv, Handle, Goto, ClientTypeOK
  <2> QED BY <1>3, <2>1, <2>2 DEF Unsent
<1> QED BY <1>4, <1>5, <1>6, <1>7, ClientSteps, NothingFails

\* A handler reads a frame's body.
LEMMA BodyIsRead ==
  ASSUME LoopTyped, SteadyInv, FrameOnce, NEW c \in Conns, RecvLen(c) \/ RecvBody(c),
         UNCHANGED client
  PROVE  FrameOnce'
<1>0. /\ AtOK /\ LinkOK /\ DataOK /\ ClientTypeOK /\ OnlyConn /\ WholeFrames(c)
      /\ c \in Threads /\ UpOnce /\ InOnePlace
  BY KindsDisjoint DEF LoopTyped, CoreInv, TypeInv, SteadyInv, HandlersStay, FrameOnce
<1>1. /\ up[c] # <<>> /\ up' = [up EXCEPT ![c] = Tail(@)]
      /\ UNCHANGED <<aup, delivered, calls, pc, call>>
  <2>1. ~UpEof(c)
    BY <1>0 DEF UpEof, OnlyConn
  <2> QED BY <2>1 DEF RecvLen, RecvBody, client, aiLink, aiSide
<1>2. up \in [Conns -> Seq(Unit)]
  BY <1>0 DEF ClientTypeOK
<1>3. /\ UpOnce'
      /\ \A n : InUp(n)' => InUp(n)
      /\ \A n : Head(up[c]).part = "body" /\ n = Head(up[c]).id => InUp(n) /\ ~InUp(n)'
  BY <1>0, <1>1, <1>2, UpRead
<1>4. /\ WorkerOnce' /\ AupOnce' /\ ReadOnce' /\ HistoryOK'
      /\ \A n \in Nat : /\ InWorker(n)' <=> InWorker(n)
                        /\ InAup(n)' <=> InAup(n)
                        /\ InAi(n)' <=> InAi(n)
  BY <1>1 DEF FrameOnce, WorkerOnce, AupOnce, ReadOnce, HistoryOK, InWorker, Unsent, InAup, InAi
<1>5. calls \in Nat /\ calls' = calls
  BY <1>0, <1>1 DEF ClientTypeOK
<1>6. \A d \in Conns : d # c => at'[d] = at[d] /\ msg'[d] = msg[d]
  <2>1. \A d \in Conns : d # c => at'[d] = at[d]
    BY <1>0, HandlerGoes, KindsDisjoint DEF XappThread, Handler
  <2> QED BY <1>0, <2>1, KindsDisjoint DEF RecvLen, RecvBody, DataOK
<1>7. CASE RecvLen(c)
  <2>1. UNCHANGED msg /\ at[c] = "len" /\ at'[c] \in {"body", "final"}
    BY <1>0, <1>7 DEF RecvLen, Move, AtOK
  <2>2. HandlerOnce' /\ \A n \in Nat : InHandler(n)' => InHandler(n)
    BY <1>6, <2>1 DEF FrameOnce, HandlerOnce, InHandler, FrameInHand
  <2>3. \A n \in Nat, p \in Places : In(p, n)' => In(p, n)
    BY <1>3, <1>4, <2>2 DEF In, Places
  <2>4. InOnePlace'
    BY <1>0, <1>5, <2>3, FramesShrink
  <2> QED BY <1>3, <1>4, <2>2, <2>4 DEF FrameOnce
<1>8. CASE RecvBody(c)
  <2>1. at[c] = "body"
    BY <1>8 DEF RecvBody
  <2>2. Head(up[c]).part = "body" /\ Head(up[c]).id \in Nat
    <3>1. up[c] \in Seq(Unit)
      BY <1>2
    <3>2. Head(up[c]) \in Unit
      BY <1>1, <3>1
    <3> QED BY <1>0, <1>1, <2>1, <3>2 DEF WholeFrames, Unit
  <2>3. PICK m \in Nat : m = Head(up[c]).id
    BY <2>2
  <2>4. at'[c] \in FrameInHand /\ msg'[c].id = m
    <3>1. /\ msg' = [msg EXCEPT ![c] = Body(Head(up[c]))]
          /\ \E to \in {"lock_kpi", "lock_req"} : Move(c, "body", to)
      <4>1. ~UpEof(c)
        BY <1>0 DEF UpEof, OnlyConn
      <4> QED BY <1>8, <4>1 DEF RecvBody
    <3> QED BY <1>0, <2>3, <3>1 DEF Move, AtOK, DataOK, Body, FrameInHand
  <2>5. InUp(m) /\ ~InUp(m)'
    BY <1>3, <2>2, <2>3
  <2>6. /\ 0 < m /\ m <= calls /\ "handler" \in Places
        /\ \A p \in Places : In(p, m) => p = "up"
    BY <1>0, <2>5 DEF InOnePlace, In, Places
  <2>7. ~InHandler(m)
    BY <2>6 DEF In
  <2>8. \A n \in Nat : InHandler(n)' => InHandler(n) \/ n = m
    BY <1>6, <2>4 DEF InHandler
  <2>9. HandlerOnce'
    <3>1. \A d \in Conns : d # c /\ at'[d] \in FrameInHand =>
             at[d] \in FrameInHand /\ msg'[d] = msg[d] /\ msg[d].id # m
      BY <1>6, <2>7 DEF InHandler
    <3> QED BY <2>4, <3>1 DEF FrameOnce, HandlerOnce
  <2>10. \A n \in Nat, p \in Places : In(p, n)' => In(p, n) \/ (p = "handler" /\ n = m)
    BY <1>3, <1>4, <2>8 DEF In, Places
  <2>11. \A p \in Places : In(p, m) => ~In(p, m)'
    BY <2>5, <2>6 DEF In
  <2>12. InOnePlace'
    BY <1>0, <1>5, <2>6, <2>10, <2>11, FrameMoves
  <2> QED BY <1>3, <1>4, <2>9, <2>12 DEF FrameOnce
<1> QED BY <1>7, <1>8

\* It sends the frame on to the AI, or drops it.
LEMMA FrameIsForwarded ==
  ASSUME LoopTyped, FrameOnce, NEW c \in Conns, ForwardKpi(c) \/ ForwardRequest(c),
         UNCHANGED client
  PROVE  FrameOnce'
<1> DEFINE f == [conn |-> c, m |-> msg[c]]
<1>0. /\ AtOK /\ DataOK /\ SharedOK /\ AiOK /\ ClientTypeOK
      /\ c \in Threads /\ AupOnce /\ InOnePlace
  BY KindsDisjoint DEF LoopTyped, CoreInv, TypeInv, FrameOnce
<1>1. /\ at[c] \in FrameInHand /\ at'[c] \notin FrameInHand
      /\ UNCHANGED <<up, msg, delivered, calls, pc, call>>
  BY <1>0 DEF ForwardKpi, ForwardRequest, Move, AtOK, FrameInHand, link, aiSide, client
<1>2. UNCHANGED aup \/ (ai_connection # NoAi /\ SendToAi(f))
  BY DEF ForwardKpi, ForwardRequest
<1>3. f \in AiFrame /\ f.m.id = msg[c].id /\ msg[c].id \in Nat
  BY <1>0 DEF AiFrame, DataOK, Message
<1> HIDE DEF f
<1>4. \A d \in Conns : d # c => at'[d] = at[d]
  BY <1>0, HandlerGoes, KindsDisjoint DEF XappThread, Handler
<1>5. PICK m \in Nat : m = msg[c].id
  BY <1>3
<1>6. InHandler(m)
  BY <1>1, <1>5 DEF InHandler
<1>7. /\ 0 < m /\ m <= calls /\ "aup" \in Places
      /\ \A p \in Places : In(p, m) => p = "handler"
  BY <1>0, <1>6 DEF InOnePlace, In, Places
<1>8. HandlerOnce' /\ ~InHandler(m)' /\ \A n \in Nat : InHandler(n)' => InHandler(n)
  BY <1>1, <1>4, <1>5 DEF FrameOnce, HandlerOnce, InHandler
<1>9. AupOnce' /\ \A n \in Nat : InAup(n)' => InAup(n) \/ n = m
  <2>1. CASE UNCHANGED aup
    BY <2>1 DEF FrameOnce, AupOnce, InAup
  <2>2. CASE aup' = [aup EXCEPT ![ai_connection] = Append(@, f)] /\ ai_connection \in AiConns
    <3>1. ~InAup(m)
      BY <1>7 DEF In
    <3>2. aup \in [AiConns -> Seq(AiFrame)]
      BY <1>0 DEF AiOK
    <3> QED BY <1>0, <1>3, <1>5, <2>2, <3>1, <3>2, AupSent
  <2>3. ai_connection # NoAi => ai_connection \in AiConns
    BY <1>0 DEF SharedOK
  <2> QED BY <1>2, <2>1, <2>2, <2>3 DEF SendToAi
<1>10. /\ WorkerOnce' /\ UpOnce' /\ ReadOnce' /\ HistoryOK'
       /\ \A n \in Nat : /\ InWorker(n)' <=> InWorker(n)
                         /\ InUp(n)' <=> InUp(n)
                         /\ InAi(n)' <=> InAi(n)
  BY <1>1 DEF FrameOnce, WorkerOnce, UpOnce, ReadOnce, HistoryOK, InWorker, Unsent, InUp, InAi
<1>11. InOnePlace'
  <2>1. \A n \in Nat, p \in Places : In(p, n)' => In(p, n) \/ (p = "aup" /\ n = m)
    BY <1>8, <1>9, <1>10 DEF In, Places
  <2>2. \A p \in Places : In(p, m) => ~In(p, m)'
    BY <1>7, <1>8 DEF In
  <2>3. calls \in Nat /\ calls' = calls
    BY <1>0, <1>1 DEF ClientTypeOK
  <2> QED BY <1>0, <1>7, <2>1, <2>2, <2>3, FrameMoves
<1> QED BY <1>8, <1>9, <1>10, <1>11 DEF FrameOnce

\* The AI reads it.
LEMMA FrameReachesAi ==
  ASSUME LoopTyped, FrameOnce, NEW a \in AiConns, AiReads(a), UNCHANGED client
  PROVE  FrameOnce'
<1> DEFINE e  == [conn |-> Head(aup[a]).conn, m |-> Head(aup[a]).m, over |-> a]
           Read == [conn : Conns, m : Message, over : AiConns]
<1>0. AiOK /\ ClientTypeOK /\ AupOnce /\ InOnePlace
  BY DEF LoopTyped, CoreInv, TypeInv, FrameOnce
<1>1. /\ aup[a] # <<>> /\ aup' = [aup EXCEPT ![a] = Tail(@)]
      /\ delivered' = Append(delivered, e)
      /\ UNCHANGED <<up, msg, at, calls, pc, call>>
  BY DEF AiReads, link, client
<1>2. aup \in [AiConns -> Seq(AiFrame)]
  BY <1>0 DEF AiOK
<1>3. e \in Read /\ e.m.id = Head(aup[a]).m.id /\ e.m.id \in Nat
  <2>1. Head(aup[a]) \in AiFrame
    BY <1>1, <1>2, SeqTypes
  <2> QED BY <2>1 DEF AiFrame, Message
<1>4. delivered \in Seq(Read)
  BY DEF FrameOnce, HistoryOK
<1> HIDE DEF e, Read
<1>5. PICK m \in Nat : m = Head(aup[a]).m.id
  BY <1>3
<1>6. /\ AupOnce'
      /\ \A n : InAup(n)' => InAup(n)
      /\ InAup(m) /\ ~InAup(m)'
  BY <1>0, <1>1, <1>2, <1>5, AupRead
<1>7. /\ 0 < m /\ m <= calls /\ "ai" \in Places
      /\ \A p \in Places : In(p, m) => p = "aup"
  BY <1>0, <1>6 DEF InOnePlace, In, Places
<1>8. /\ delivered' \in Seq(Read)
      /\ \A i \in DOMAIN delivered' : \/ i \in DOMAIN delivered /\ delivered'[i] = delivered[i]
                                      \/ i = Len(delivered) + 1 /\ delivered'[i] = e
  BY <1>1, <1>3, <1>4, AppendElements
<1>9. HistoryOK'
  BY <1>8 DEF HistoryOK, Read
<1>10. ReadOnce' /\ \A n \in Nat : InAi(n)' => InAi(n) \/ n = m
  <2>1. \A i \in DOMAIN delivered : delivered[i].m.id # m
    <3>1. ~InAi(m)
      BY <1>7 DEF In
    <3> QED BY <3>1 DEF InAi
  <2>2. ReadOnce'
    BY <1>3, <1>5, <1>8, <2>1 DEF FrameOnce, ReadOnce
  <2> QED BY <1>3, <1>5, <1>8, <2>2 DEF InAi
<1>11. /\ WorkerOnce' /\ UpOnce' /\ HandlerOnce'
       /\ \A n \in Nat : /\ InWorker(n)' <=> InWorker(n)
                         /\ InUp(n)' <=> InUp(n)
                         /\ InHandler(n)' <=> InHandler(n)
  BY <1>1
     DEF FrameOnce, WorkerOnce, UpOnce, HandlerOnce, InWorker, Unsent, InUp, InHandler
<1>12. InOnePlace'
  <2>1. \A n \in Nat, p \in Places : In(p, n)' => In(p, n) \/ (p = "ai" /\ n = m)
    BY <1>6, <1>10, <1>11 DEF In, Places
  <2>2. \A p \in Places : In(p, m) => ~In(p, m)'
    BY <1>6, <1>7 DEF In
  <2>3. calls \in Nat /\ calls' = calls
    BY <1>0, <1>1 DEF ClientTypeOK
  <2> QED BY <1>0, <1>7, <2>1, <2>2, <2>3, FrameMoves
<1> QED BY <1>6, <1>9, <1>10, <1>11, <1>12 DEF FrameOnce

LEMMA RelayKeepsOnce ==
  ASSUME LoopTyped, SteadyInv, FrameOnce, Relay \/ Ai, [Next]_rvars,
         UNCHANGED <<client, sends, cut>>
  PROVE  FrameOnce'
<1>1. ASSUME NEW c \in Conns, RecvLen(c) \/ RecvBody(c) PROVE FrameOnce'
  BY <1>1, BodyIsRead
<1>2. ASSUME NEW c \in Conns, ForwardKpi(c) \/ ForwardRequest(c) PROVE FrameOnce'
  BY <1>2, FrameIsForwarded
<1>3. ASSUME NEW a \in AiConns, AiReads(a) PROVE FrameOnce'
  BY <1>3, FrameReachesAi
<1>4. \A c \in Conns : ~XSend(c)
  <2>1. sends \in Nat
    BY DEF LoopTyped, CoreInv, TypeInv, CountOK
  <2> QED BY <2>1 DEF XSend
<1>5. CASE ~MovesFrame
  <2>1. /\ UNCHANGED <<up, aup, delivered, calls, pc, call>>
        /\ \A c \in Conns : msg'[c] = msg[c] /\ SameStage(c)
    BY <1>5, QuietSteps DEF LoopTyped, CoreInv, client
  <2>2. \A c \in Conns : at'[c] \in FrameInHand => at[c] \in FrameInHand
    BY <2>1 DEF SameStage, FrameInHand, BetweenFrames
  <2>3. HandlerOnce' /\ \A n \in Nat : InHandler(n)' => InHandler(n)
    BY <2>1, <2>2 DEF FrameOnce, HandlerOnce, InHandler
  <2>4. /\ WorkerOnce' /\ UpOnce' /\ AupOnce' /\ ReadOnce' /\ HistoryOK'
        /\ \A n \in Nat : /\ InWorker(n)' <=> InWorker(n)
                          /\ InUp(n)' <=> InUp(n)
                          /\ InAup(n)' <=> InAup(n)
                          /\ InAi(n)' <=> InAi(n)
    BY <2>1 DEF FrameOnce, WorkerOnce, UpOnce, AupOnce, ReadOnce, HistoryOK, InWorker, Unsent,
                InUp, InAup, InAi
  <2>5. \A n \in Nat, p \in Places : In(p, n)' => In(p, n)
    BY <2>3, <2>4 DEF In, Places
  <2>6. InOnePlace'
    BY <2>1, <2>5, FramesShrink DEF FrameOnce, LoopTyped, ClientTypeOK
  <2> QED BY <2>3, <2>4, <2>6 DEF FrameOnce
<1> QED BY <1>1, <1>2, <1>3, <1>4, <1>5 DEF MovesFrame

LEMMA OnceInit == ASSUME LoopInit PROVE FrameOnce
<1>1. \A w \in Workers : ~Unsent(w)
  BY ClientAssumption DEF LoopInit, ClientInit, ClientThreads, Unsent
<1>2. \A c \in Conns : up[c] = <<>> /\ at[c] \notin FrameInHand
  BY KindsDisjoint DEF LoopInit, Init, LinkInit, RelayInit, FrameInHand
<1>3. delivered = <<>> /\ \A a \in AiConns : aup[a] = <<>>
  BY DEF LoopInit, Init, AiInit, RelayInit
<1>4. \A n \in Nat, p \in Places : ~In(p, n)
  BY <1>1, <1>2, <1>3 DEF In, InWorker, InUp, InHandler, InAup, InAi
<1> QED BY <1>1, <1>2, <1>3, <1>4
   DEF FrameOnce, InOnePlace, WorkerOnce, UpOnce, HandlerOnce, AupOnce, ReadOnce, HistoryOK

\* A call's frame is in one place, and once there, whatever the workers call.
LEMMA OnceHolds == ASSUME Steady PROVE LoopSpec => []FrameOnce
<1>1. LoopInit => FrameOnce
  BY OnceInit
<1>2. LoopTyped /\ SteadyInv /\ FrameOnce /\ [LoopNext]_vars => FrameOnce'
  <2> SUFFICES ASSUME LoopTyped, SteadyInv, FrameOnce, [LoopNext]_vars PROVE FrameOnce'
    OBVIOUS
  <2>1. CASE Client /\ UNCHANGED <<frames, relay, aiSide, sends, cut>>
    BY <2>1, ClientKeepsOnce DEF relay, aiLink, aiSide
  <2>2. CASE (Relay \/ Ai) /\ [Next]_rvars /\ UNCHANGED <<client, frames, sends, cut>>
    BY <2>2, RelayKeepsOnce
  <2>3. CASE UNCHANGED vars
    <3>1. UNCHANGED <<up, pc, call, calls, at, msg, aup, delivered>>
      BY <2>3 DEF vars, link, xappVars, client, relayVars, relay, aiLink, aiSide
    <3> QED BY <3>1
       DEF FrameOnce, InOnePlace, In, InWorker, InUp, InHandler, InAup, InAi, Unsent,
           WorkerOnce, UpOnce, HandlerOnce, AupOnce, ReadOnce, HistoryOK
  <2> QED BY <2>1, <2>2, <2>3, LoopSteps
<1> QED BY <1>1, <1>2, LoopTypedHolds, SteadyHolds, PTL DEF LoopSpec

-----------------------------------------------------------------------------
(* The numbers of the control messages on a connection to the xApp: passed   *)
(* to the handler, in the listener's hand, or still in the socket.           *)

Numbered(f)  == f.id # 0
InHand(c)    == pc[Listener] = "handle" /\ hmsg.conn = c /\ Numbered(hmsg.frame)
Heard(c, n)  == \E i \in DOMAIN handled : handled[i].conn = c /\ Numbered(handled[i].frame)
                                          /\ handled[i].frame.id = n
Coming(c, n) == \E i \in DOMAIN down[c] : Numbered(down[c][i]) /\ down[c][i].id = n
Sent(c, n)   == Heard(c, n) \/ (InHand(c) /\ hmsg.frame.id = n) \/ Coming(c, n)

DownInOrder(c) ==
  /\ \A i, j \in DOMAIN down[c] :
       i < j /\ Numbered(down[c][i]) /\ Numbered(down[c][j]) => down[c][i].id < down[c][j].id
  /\ \A m, n \in Nat : Heard(c, m) /\ Coming(c, n) => m < n
  /\ InHand(c) => \A n \in Nat : /\ Heard(c, n) => n < hmsg.frame.id
                                 /\ Coming(c, n) => hmsg.frame.id < n

\* The control messages that the AI has sent over a and that wait to be read.
ControlUnit(u) == u.part = "body" /\ u.kind = "control"
Behind(a, n)   == \E i \in DOMAIN adown[a] : ControlUnit(adown[a][i]) /\ adown[a][i].id = n
AdownInOrder(a) ==
  /\ \A i, j \in DOMAIN adown[a] :
       i < j /\ ControlUnit(adown[a][i]) /\ ControlUnit(adown[a][j])
         => adown[a][i].id < adown[a][j].id
  /\ \A n \in Nat : Behind(a, n) => n # 0 /\ n <= controls
  /\ xend[a] = "none" => adown[a] = <<>>

\* A receiver that reads, or will, has before it only what is newer than all that
\* went to the xApp; what it passes on lies between the two.
Reads(a)   == at[a] \in {"none", "len", "body", "wait", "broadcast"}
Passing(a) == at[a] \in {"wait", "broadcast"}
ReceiverInOrder(a) ==
  /\ Reads(a) => \A c \in Conns, m, n \in Nat : Sent(c, m) /\ Behind(a, n) => m < n
  /\ Passing(a) =>
       /\ msg[a].id # 0 /\ msg[a].id <= controls
       /\ \A n \in Nat : Behind(a, n) => msg[a].id < n
       /\ \A c \in Conns, n \in Nat : Sent(c, n) =>
            /\ n <= msg[a].id
            /\ at[a] = "wait" \/ c \in todo[a] => n < msg[a].id

HandledInOrder ==
  \A i, j \in DOMAIN handled :
    i < j /\ handled[i].conn = handled[j].conn
      /\ Numbered(handled[i].frame) /\ Numbered(handled[j].frame)
    => handled[i].frame.id < handled[j].frame.id
SentInOrder ==
  /\ HandledInOrder
  /\ pc[Listener] = "handle" => hmsg.conn \in Conns
  /\ \A c \in Conns : DownInOrder(c) /\ \A n \in Nat : Sent(c, n) => n <= controls

\* A connection whose receiver has not been started is not yet made, unless the
\* connecting thread is about to start it.
NotMadeYet ==
  \A a \in AiConns :
    /\ aend[a] = "none" => xend[a] = "none"
    /\ at[a] = "none" => aend[a] = "none" \/ (connector = "spawn" /\ ai_connection = a)

ReceiversInOrder == \A a \in AiConns : AdownInOrder(a) /\ ReceiverInOrder(a)
CommandsUnnumbered == \A k \in Cmds : msg[k].id = 0

ControlOrder == SentInOrder /\ NotMadeYet /\ ReceiversInOrder /\ CommandsUnnumbered

\* No frame moves on the way to the xApp.
LEMMA SentQuiet ==
  ASSUME SentInOrder, controls \in Nat, controls' \in Nat, controls <= controls',
         UNCHANGED <<down, handled, hmsg>>,
         pc'[Listener] = "handle" => pc[Listener] = "handle"
  PROVE  SentInOrder' /\ \A c \in Conns, n \in Nat : Sent(c, n)' => Sent(c, n)
<1>1. \A c \in Conns, n \in Nat : /\ Heard(c, n)' <=> Heard(c, n)
                                  /\ Coming(c, n)' <=> Coming(c, n)
  BY DEF Heard, Coming, Numbered
<1>2. \A c \in Conns : InHand(c)' => InHand(c)
  BY DEF InHand, Numbered
<1>3. \A c \in Conns, n \in Nat : Sent(c, n)' => Sent(c, n)
  BY <1>1, <1>2 DEF Sent
<1>4. \A c \in Conns : DownInOrder(c)'
  BY <1>1, <1>2 DEF SentInOrder, DownInOrder, Numbered
<1>5. \A c \in Conns, n \in Nat : Sent(c, n)' => n <= controls'
  BY <1>3 DEF SentInOrder
<1> QED BY <1>3, <1>4, <1>5 DEF SentInOrder, HandledInOrder, Numbered

\* The listener takes the first frame of its connection in hand, or drops it.
LEMMA TakenInOrder ==
  ASSUME ClientTypeOK, SentInOrder, NEW s \in Conns, down[s] # <<>>,
         down' = [down EXCEPT ![s] = Tail(@)], pc[Listener] # "handle",
         hmsg' = [frame |-> Head(down[s]), conn |-> s], UNCHANGED <<handled, controls>>
  PROVE  SentInOrder' /\ \A c \in Conns, n \in Nat : Sent(c, n)' => Sent(c, n)
<1>1. /\ down'[s] = Tail(down[s]) /\ \A c \in Conns : c # s => down'[c] = down[c]
      /\ down[s] \in Seq(Frame)
  BY DEF ClientTypeOK
<1>2. /\ Head(down[s]) = down[s][1] /\ 1 \in DOMAIN down[s] /\ Head(down[s]) \in Frame
      /\ \A i \in DOMAIN down'[s] : /\ i \in Nat \ {0} /\ i + 1 \in DOMAIN down[s]
                                    /\ down'[s][i] = down[s][i + 1]
  <2>1. /\ Head(down[s]) = down[s][1] /\ 1 \in DOMAIN down[s] /\ Head(down[s]) \in Frame
        /\ \A i \in DOMAIN Tail(down[s]) : /\ i \in Nat \ {0} /\ i + 1 \in DOMAIN down[s]
                                           /\ Tail(down[s])[i] = down[s][i + 1]
    <3>1. down[s] \in Seq(Frame) /\ down[s] # <<>>
      BY <1>1
    <3> QED BY ONLY <3>1, TailElements
  <2> QED BY <1>1, <2>1
<1>3. PICK f \in Frame : f = down[s][1]
  BY <1>2
<1>4. hmsg'.frame = f /\ hmsg'.conn = s /\ f.id \in Nat
  BY <1>2, <1>3 DEF Frame
<1>5. \A c \in Conns, n \in Nat : /\ Heard(c, n)' <=> Heard(c, n)
                                  /\ Coming(c, n)' => Coming(c, n)
  <2>1. \A c \in Conns, n \in Nat : Heard(c, n)' <=> Heard(c, n)
    BY DEF Heard, Numbered
  <2>2. ASSUME NEW c \in Conns, NEW n \in Nat, Coming(c, n)' PROVE Coming(c, n)
    BY <1>1, <1>2, <2>2 DEF Coming, Numbered
  <2> QED BY <2>1, <2>2
<1>6. \A c \in Conns : InHand(c)' => c = s /\ Numbered(f)
  BY <1>4 DEF InHand, Numbered
<1>7. Numbered(f) => Coming(s, f.id)
  BY <1>2, <1>3 DEF Coming
<1>8. \A c \in Conns, n \in Nat : Sent(c, n)' => Sent(c, n)
  BY <1>4, <1>5, <1>6, <1>7 DEF Sent
<1>9. ASSUME NEW c \in Conns PROVE DownInOrder(c)'
  <2>1. \A i, j \in DOMAIN down'[c] :
          i < j /\ Numbered(down'[c][i]) /\ Numbered(down'[c][j])
            => down'[c][i].id < down'[c][j].id
    <3>1. CASE c # s
      BY <1>1, <3>1 DEF SentInOrder, DownInOrder
    <3>2. ASSUME NEW i \in DOMAIN down'[s], NEW j \in DOMAIN down'[s], i < j,
                 Numbered(down'[s][i]), Numbered(down'[s][j])
          PROVE  down'[s][i].id < down'[s][j].id
      <4>1. /\ i + 1 \in DOMAIN down[s] /\ j + 1 \in DOMAIN down[s] /\ i + 1 < j + 1
            /\ down'[s][i] = down[s][i + 1] /\ down'[s][j] = down[s][j + 1]
        BY <1>2, <3>2
      <4> QED BY <3>2, <4>1 DEF SentInOrder, DownInOrder
    <3> QED BY <3>1, <3>2
  <2>2. \A m, n \in Nat : Heard(c, m)' /\ Coming(c, n)' => m < n
    BY <1>5 DEF SentInOrder, DownInOrder
  <2>3. ASSUME InHand(c)', NEW n \in Nat
        PROVE  (Heard(c, n)' => n < f.id) /\ (Coming(c, n)' => f.id < n)
    <3>1. c = s /\ Numbered(f)
      BY <1>6, <2>3
    <3>2. Heard(c, n)' => n < f.id
      BY <1>4, <1>5, <1>7, <3>1 DEF SentInOrder, DownInOrder
    <3>3. ASSUME Coming(c, n)' PROVE f.id < n
      <4>1. PICK i \in DOMAIN down'[s] : Numbered(down'[s][i]) /\ down'[s][i].id = n
        BY <3>1, <3>3 DEF Coming, Numbered
      <4>2. i + 1 \in DOMAIN down[s] /\ 1 < i + 1 /\ down[s][i + 1] = down'[s][i]
        BY <1>2
      <4> QED BY <1>2, <1>3, <3>1, <4>1, <4>2 DEF SentInOrder, DownInOrder
    <3> QED BY <3>2, <3>3
  <2> QED BY <1>4, <2>1, <2>2, <2>3 DEF DownInOrder, Numbered
<1>10. HandledInOrder'
  BY DEF SentInOrder, HandledInOrder, Numbered
<1> QED BY <1>4, <1>8, <1>9, <1>10 DEF SentInOrder

\* The listener hands over the frame it has in hand.
LEMMA HandedInOrder ==
  ASSUME ClientTypeOK, SentInOrder, Handle, UNCHANGED controls
  PROVE  SentInOrder' /\ \A c \in Conns, n \in Nat : Sent(c, n)' => Sent(c, n)
<1> DEFINE Given == [frame : Frame, conn : Conns \cup {NoConn}]
<1>1. /\ handled \in Seq(Given) /\ hmsg \in Given /\ handled' = Append(handled, hmsg)
      /\ UNCHANGED <<down, hmsg>>
  BY DEF Handle, ClientTypeOK, link
<1>2. pc[Listener] = "handle" /\ pc'[Listener] = "copy"
  BY DEF Handle, Goto, ClientTypeOK, ClientThreads
<1> HIDE DEF Given
<1>3. /\ \A i \in DOMAIN handled' : \/ i \in DOMAIN handled /\ handled'[i] = handled[i]
                                    \/ i = Len(handled) + 1 /\ handled'[i] = hmsg
      /\ \A i \in DOMAIN handled : i \in Nat /\ i < Len(handled) + 1
      /\ Len(handled) \in Nat
  BY <1>1, AppendElements
<1>4. \A i \in DOMAIN handled : handled[i].frame.id \in Nat
  BY FrameIdsAreNumbers
<1>5. \A c \in Conns, n \in Nat :
        /\ Heard(c, n)' => Heard(c, n) \/ (InHand(c) /\ hmsg.frame.id = n)
        /\ Coming(c, n)' <=> Coming(c, n)
        /\ ~InHand(c)'
  BY <1>1, <1>2, <1>3 DEF Heard, InHand, Coming, Numbered
<1>6. \A c \in Conns, n \in Nat : Sent(c, n)' => Sent(c, n)
  BY <1>5 DEF Sent
<1>7. ASSUME NEW c \in Conns PROVE DownInOrder(c)'
  <2>1. \A m, n \in Nat : Heard(c, m)' /\ Coming(c, n)' => m < n
    BY <1>5 DEF SentInOrder, DownInOrder
  <2> QED BY <1>1, <1>5, <2>1 DEF SentInOrder, DownInOrder, Numbered
<1>8. HandledInOrder'
  <2> SUFFICES ASSUME NEW i \in DOMAIN handled', NEW j \in DOMAIN handled', i < j,
                      handled'[i].conn = handled'[j].conn,
                      Numbered(handled'[i].frame), Numbered(handled'[j].frame)
               PROVE  handled'[i].frame.id < handled'[j].frame.id
    BY DEF HandledInOrder, Numbered
  <2>1. CASE j \in DOMAIN handled /\ handled'[j] = handled[j]
    <3>1. i \in DOMAIN handled /\ handled'[i] = handled[i]
      BY <1>3, <2>1
    <3> QED BY <2>1, <3>1 DEF SentInOrder, HandledInOrder
  <2>2. CASE j = Len(handled) + 1 /\ handled'[j] = hmsg
    <3>1. i \in DOMAIN handled /\ handled'[i] = handled[i]
      BY <1>3, <2>2
    <3>2. hmsg.conn \in Conns /\ InHand(hmsg.conn)
      BY <1>2, <2>2 DEF SentInOrder, InHand
    <3>3. PICK n \in Nat : n = handled[i].frame.id
      BY <1>4, <3>1
    <3>4. Heard(hmsg.conn, n)
      BY <2>2, <3>1, <3>3 DEF Heard
    <3> QED BY <2>2, <3>1, <3>2, <3>3, <3>4 DEF SentInOrder, DownInOrder
  <2> QED BY <1>3, <2>1, <2>2
<1> QED BY <1>2, <1>6, <1>7, <1>8 DEF SentInOrder

\* The relay sends the xApp a frame that is newer than all that it has sent before, or
\* one without a number.
LEMMA SendInOrderToXapp ==
  ASSUME ClientTypeOK, SentInOrder, controls \in Nat, UNCHANGED <<client, controls>>,
         NEW c \in Conns, NEW f \in Frame, down' = [down EXCEPT ![c] = Append(@, f)],
         Numbered(f) => f.id <= controls /\ \A n \in Nat : Sent(c, n) => n < f.id
  PROVE  /\ SentInOrder'
         /\ \A d \in Conns, n \in Nat :
              Sent(d, n)' => Sent(d, n) \/ (Numbered(f) /\ d = c /\ n = f.id)
<1>1. /\ down'[c] = Append(down[c], f) /\ \A d \in Conns : d # c => down'[d] = down[d]
      /\ down[c] \in Seq(Frame) /\ f.id \in Nat
  BY DEF ClientTypeOK, Frame
<1>2. /\ \A i \in DOMAIN down'[c] : \/ i \in DOMAIN down[c] /\ down'[c][i] = down[c][i]
                                    \/ i = Len(down[c]) + 1 /\ down'[c][i] = f
      /\ \A i \in DOMAIN down[c] : i \in Nat /\ i < Len(down[c]) + 1
      /\ Len(down[c]) \in Nat
  BY <1>1, AppendElements
<1>3. \A i \in DOMAIN down[c] : down[c][i].id \in Nat
  BY FrameIdsAreNumbers
<1>4. \A d \in Conns, n \in Nat :
        /\ Heard(d, n)' <=> Heard(d, n)
        /\ InHand(d)' <=> InHand(d)
        /\ Coming(d, n)' => Coming(d, n) \/ (Numbered(f) /\ d = c /\ n = f.id)
  <2>1. \A d \in Conns, n \in Nat : (Heard(d, n)' <=> Heard(d, n)) /\ (InHand(d)' <=> InHand(d))
    BY DEF Heard, InHand, Numbered, client
  <2>2. ASSUME NEW d \in Conns, NEW n \in Nat, Coming(d, n)'
        PROVE  Coming(d, n) \/ (Numbered(f) /\ d = c /\ n = f.id)
    BY <1>1, <1>2, <2>2 DEF Coming, Numbered
  <2> QED BY <2>1, <2>2
<1>5. \A d \in Conns, n \in Nat :
        Sent(d, n)' => Sent(d, n) \/ (Numbered(f) /\ d = c /\ n = f.id)
  BY <1>4 DEF Sent, client
<1>6. ASSUME NEW d \in Conns PROVE DownInOrder(d)'
  <2>1. \A i, j \in DOMAIN down'[d] :
          i < j /\ Numbered(down'[d][i]) /\ Numbered(down'[d][j])
            => down'[d][i].id < down'[d][j].id
    <3>1. CASE d # c
      BY <1>1, <3>1 DEF SentInOrder, DownInOrder
    <3>2. ASSUME NEW i \in DOMAIN down'[c], NEW j \in DOMAIN down'[c], i < j,
                 Numbered(down'[c][i]), Numbered(down'[c][j])
          PROVE  down'[c][i].id < down'[c][j].id
      <4>1. i \in DOMAIN down[c] /\ down'[c][i] = down[c][i]
        <5>1. CASE i = Len(down[c]) + 1
          BY <1>2, <3>2, <5>1
        <5> QED BY <1>2, <5>1
      <4>2. CASE j \in DOMAIN down[c] /\ down'[c][j] = down[c][j]
        BY <3>2, <4>1, <4>2 DEF SentInOrder, DownInOrder
      <4>3. CASE down'[c][j] = f
        <5>1. PICK n \in Nat : n = down[c][i].id
          BY <1>3, <4>1
        <5>2. Sent(c, n)
          BY <3>2, <4>1, <5>1 DEF Sent, Coming
        <5> QED BY <3>2, <4>1, <4>3, <5>1, <5>2
      <4> QED BY <1>2, <4>2, <4>3
    <3> QED BY <3>1, <3>2
  <2>2. \A m, n \in Nat : Heard(d, m)' /\ Coming(d, n)' => m < n
    BY <1>4 DEF SentInOrder, DownInOrder, Sent
  <2>3. InHand(d)' => \A n \in Nat : /\ Heard(d, n)' => n < hmsg.frame.id
                                     /\ Coming(d, n)' => hmsg.frame.id < n
    <3>1. hmsg.frame.id \in Nat
      BY FrameIdsAreNumbers
    <3> QED BY <1>4, <3>1 DEF SentInOrder, DownInOrder, Sent
  <2> QED BY <2>1, <2>2, <2>3 DEF DownInOrder, Numbered, client
<1>7. \A d \in Conns, n \in Nat : Sent(d, n)' => n <= controls'
  BY <1>1, <1>5 DEF SentInOrder
<1>8. HandledInOrder'
  BY DEF SentInOrder, HandledInOrder, Numbered, client
<1> QED BY <1>5, <1>6, <1>7, <1>8 DEF SentInOrder, client


\* A receiver that a step is not about.
SameReceiver(a) ==
  /\ adown'[a] = adown[a] /\ at'[a] = at[a] /\ msg'[a] = msg[a] /\ todo'[a] = todo[a]
  /\ xend'[a] = "none" => xend[a] = "none"

LEMMA ReceiverKept ==
  ASSUME NEW a \in AiConns, AdownInOrder(a), ReceiverInOrder(a), SameReceiver(a),
         msg[a].id \in Nat, controls \in Nat, controls' \in Nat, controls <= controls',
         \A c \in Conns, n \in Nat : Sent(c, n)' => Sent(c, n)
  PROVE  AdownInOrder(a)' /\ ReceiverInOrder(a)'
<1>1. \A n \in Nat : Behind(a, n)' <=> Behind(a, n)
  BY DEF SameReceiver, Behind, ControlUnit
<1>2. AdownInOrder(a)'
  BY <1>1 DEF AdownInOrder, SameReceiver, ControlUnit
<1>3. (Reads(a)' <=> Reads(a)) /\ (Passing(a)' <=> Passing(a))
  BY DEF SameReceiver, Reads, Passing
<1>4. ReceiverInOrder(a)'
  BY <1>1, <1>3 DEF ReceiverInOrder, SameReceiver
<1> QED BY <1>2, <1>4

\* A step of the client alone: the relay's receivers are where they were.
LEMMA RelayRests ==
  ASSUME LoopTyped, ControlOrder, UNCHANGED <<relay, aiSide>>, SentInOrder',
         \A c \in Conns, n \in Nat : Sent(c, n)' => Sent(c, n)
  PROVE  ControlOrder'
<1>1. UNCHANGED <<at, adown, aend, xend, msg, todo, connector, ai_connection, controls>>
  BY DEF relay, shared, aiLink, aiSide
<1>2. controls \in Nat /\ \A t \in Threads : msg[t].id \in Nat
  BY DEF LoopTyped, CoreInv, TypeInv, CountOK, DataOK, Message
<1>3. \A a \in AiConns : AdownInOrder(a)' /\ ReceiverInOrder(a)'
  BY <1>1, <1>2, KindsDisjoint, ReceiverKept DEF SameReceiver, ControlOrder, ReceiversInOrder
<1>4. NotMadeYet' /\ CommandsUnnumbered'
  BY <1>1 DEF ControlOrder, NotMadeYet, CommandsUnnumbered
<1> QED BY <1>3, <1>4 DEF ControlOrder, ReceiversInOrder

LEMMA ClientKeepsControl ==
  ASSUME Steady, LoopTyped, SteadyInv, KpiInv, ControlOrder, Client, UNCHANGED <<relay, aiSide>>
  PROVE  ControlOrder'
<1>0. /\ Starter \in ClientThreads /\ Listener \in ClientThreads /\ Starter # Listener
      /\ \A w \in Workers : w \in ClientThreads /\ w # Starter /\ w # Listener
      /\ ClientTypeOK /\ SentInOrder /\ SockRemembered
      /\ controls \in Nat /\ UNCHANGED controls
  BY ClientAssumption
     DEF ClientThreads, LoopTyped, SteadyInv, ControlOrder, CoreInv, TypeInv, CountOK, aiSide
<1> SUFFICES SentInOrder' /\ \A c \in Conns, n \in Nat : Sent(c, n)' => Sent(c, n)
  BY RelayRests
<1>1. ASSUME UNCHANGED <<down, handled, hmsg>>, pc'[Listener] = "handle" => pc[Listener] = "handle"
      PROVE  SentInOrder' /\ \A c \in Conns, n \in Nat : Sent(c, n)' => Sent(c, n)
  BY <1>0, <1>1, SentQuiet
<1>2. ASSUME NEW w \in Workers, WorkerStep(w)
      PROVE  UNCHANGED <<down, handled, hmsg>> /\ pc'[Listener] = pc[Listener]
  <2>1. pc'[Listener] = pc[Listener]
    BY <1>0, <1>2, WorkerSteady
  <2>2. ~RecvReply(w) /\ ~CallFails(w)
    BY NothingFails DEF RecvReply, Goto, KpiInv
  <2> QED BY <1>2, <2>1, <2>2 DEF WorkerStep, Begin, LockCall, SendPart, link
<1>3. ASSUME NEW t \in ClientThreads, EnsureStep(t)
      PROVE  /\ UNCHANGED <<down, handled, hmsg>>
             /\ pc'[Listener] = "handle" => pc[Listener] = "handle"
  <2>1. UNCHANGED <<down, handled, hmsg>>
    BY <1>3 DEF EnsureStep, EnsureCheck, EnsureConnect, Connect, link
  <2>2. PICK to : pc' = [pc EXCEPT ![t] = to] /\ to # "handle"
    <3>1. \A b \in {TRUE, FALSE} : AfterEnsure(t, b) \in {"spawn", "copy", "len", "idle"}
      BY <1>0 DEF AfterEnsure, ClientThreads
    <3> QED BY <1>3, <3>1 DEF EnsureStep, EnsureCheck, EnsureConnect, Goto
  <2> QED BY <1>0, <2>1, <2>2 DEF ClientTypeOK
<1>4. CASE Install \/ Spawn
  <2>1. pc'[Listener] \in {pc[Listener], "copy"}
    BY <1>0, <1>4 DEF Install, Spawn, Goto, ClientTypeOK
  <2>2. UNCHANGED <<down, handled, hmsg>>
    BY <1>4 DEF Install, Spawn, link
  <2> QED BY <1>1, <2>1, <2>2
<1>5. CASE CopySock \/ Recheck \/ Poll \/ Relock
  <2>1. pc'[Listener] # "handle"
    BY <1>0, <1>5 DEF CopySock, Recheck, Poll, Relock, Goto, ClientTypeOK
  <2>2. UNCHANGED <<down, handled, hmsg>>
    BY <1>5 DEF CopySock, Recheck, Poll, Relock, link
  <2> QED BY <1>1, <2>1, <2>2
<1>6. CASE Recv
  <2>1. pc[Listener] = "recv" /\ sock \notin RecvFails
    BY <1>6, NothingFails DEF Recv
  <2>2. sock # NoConn /\ sock \in Conns
    BY <1>0, <2>1 DEF SockRemembered, ClientTypeOK
  <2>3. /\ down[sock] # <<>> /\ down' = [down EXCEPT ![sock] = Tail(@)]
        /\ hmsg' = [frame |-> Head(down[sock]), conn |-> sock] /\ UNCHANGED handled
    BY <1>6, <2>1 DEF Recv
  <2>4. PICK s \in Conns : s = sock
    BY <2>2
  <2> QED BY <1>0, <2>1, <2>3, <2>4, TakenInOrder
<1>7. CASE Handle
  BY <1>0, <1>7, HandedInOrder
<1> QED BY <1>1, <1>2, <1>3, <1>4, <1>5, <1>6, <1>7, ClientSteps, NothingFails DEF LoopStep

\* The receiver takes a unit from its AI connection.
LEMMA AdownRead ==
  ASSUME AiOK, NEW a \in AiConns, AdownInOrder(a), adown[a] # <<>>,
         adown' = [adown EXCEPT ![a] = Tail(@)], UNCHANGED <<controls, xend>>
  PROVE  /\ AdownInOrder(a)' /\ \A b \in AiConns : b # a => adown'[b] = adown[b]
         /\ \A n \in Nat : Behind(a, n)' => Behind(a, n)
         /\ Head(adown[a]) \in DownUnit
         /\ ControlUnit(Head(adown[a])) =>
              /\ Behind(a, Head(adown[a]).id)
              /\ \A n \in Nat : Behind(a, n)' => Head(adown[a]).id < n
<1>1. /\ adown'[a] = Tail(adown[a]) /\ \A b \in AiConns : b # a => adown'[b] = adown[b]
      /\ adown[a] \in Seq(DownUnit)
  BY DEF AiOK
<1>2. /\ Head(adown[a]) = adown[a][1] /\ 1 \in DOMAIN adown[a] /\ Head(adown[a]) \in DownUnit
      /\ \A i \in DOMAIN adown'[a] : /\ i \in Nat \ {0} /\ i + 1 \in DOMAIN adown[a]
                                     /\ adown'[a][i] = adown[a][i + 1]
  <2>1. /\ Head(adown[a]) = adown[a][1] /\ 1 \in DOMAIN adown[a] /\ Head(adown[a]) \in DownUnit
        /\ \A i \in DOMAIN Tail(adown[a]) : /\ i \in Nat \ {0} /\ i + 1 \in DOMAIN adown[a]
                                            /\ Tail(adown[a])[i] = adown[a][i + 1]
    <3>1. adown[a] \in Seq(DownUnit) /\ adown[a] # <<>>
      BY <1>1
    <3> QED BY ONLY <3>1, TailElements
  <2> QED BY <1>1, <2>1
<1>3. \A n \in Nat : Behind(a, n)' => Behind(a, n)
  BY <1>2 DEF Behind, ControlUnit
<1>4. \A i, j \in DOMAIN adown'[a] :
        i < j /\ ControlUnit(adown'[a][i]) /\ ControlUnit(adown'[a][j])
          => adown'[a][i].id < adown'[a][j].id
  <2> SUFFICES ASSUME NEW i \in DOMAIN adown'[a], NEW j \in DOMAIN adown'[a], i < j,
                      ControlUnit(adown'[a][i]), ControlUnit(adown'[a][j])
               PROVE  adown'[a][i].id < adown'[a][j].id
    OBVIOUS
  <2>1. /\ i + 1 \in DOMAIN adown[a] /\ j + 1 \in DOMAIN adown[a] /\ i + 1 < j + 1
        /\ adown'[a][i] = adown[a][i + 1] /\ adown'[a][j] = adown[a][j + 1]
    BY <1>2
  <2> QED BY <2>1 DEF AdownInOrder
<1>5. AdownInOrder(a)'
  BY <1>3, <1>4 DEF AdownInOrder, ControlUnit
<1>6. ASSUME ControlUnit(adown[a][1])
      PROVE  /\ Behind(a, adown[a][1].id)
             /\ \A n \in Nat : Behind(a, n)' => adown[a][1].id < n
  <2>1. Behind(a, adown[a][1].id)
    BY <1>2, <1>6 DEF Behind
  <2>2. ASSUME NEW n \in Nat, Behind(a, n)' PROVE adown[a][1].id < n
    <3>1. PICK i \in DOMAIN adown'[a] : ControlUnit(adown'[a][i]) /\ adown'[a][i].id = n
      BY <2>2 DEF Behind, ControlUnit
    <3>2. i + 1 \in DOMAIN adown[a] /\ 1 < i + 1 /\ adown[a][i + 1] = adown'[a][i]
      BY <1>2
    <3> QED BY <1>2, <1>6, <3>1, <3>2 DEF AdownInOrder
  <2> QED BY <2>1, <2>2
<1> QED BY <1>1, <1>2, <1>3, <1>5, <1>6

\* The AI sends a message: a control message is newer than all before it.
LEMMA AdownSent ==
  ASSUME AiOK, NEW a \in AiConns, AdownInOrder(a), xend[a] # "none", UNCHANGED xend,
         controls \in Nat, controls' \in Nat, controls <= controls',
         NEW u \in DownUnit, NEW v \in DownUnit, ~ControlUnit(u),
         ControlUnit(v) => v.id = controls + 1 /\ controls' = controls + 1,
         adown' = [adown EXCEPT ![a] = @ \o <<u, v>>]
  PROVE  /\ AdownInOrder(a)' /\ \A b \in AiConns : b # a => adown'[b] = adown[b]
         /\ \A n \in Nat : Behind(a, n)' => Behind(a, n) \/ (ControlUnit(v) /\ n = v.id)
<1>1. /\ adown'[a] = adown[a] \o <<u, v>> /\ \A b \in AiConns : b # a => adown'[b] = adown[b]
      /\ adown[a] \in Seq(DownUnit)
  BY DEF AiOK
<1>2. /\ \A i \in DOMAIN adown'[a] : \/ i \in DOMAIN adown[a] /\ adown'[a][i] = adown[a][i]
                                     \/ i = Len(adown[a]) + 1 /\ adown'[a][i] = u
                                     \/ i = Len(adown[a]) + 2 /\ adown'[a][i] = v
      /\ \A i \in DOMAIN adown[a] : i \in Nat /\ i <= Len(adown[a]) /\ adown[a][i].id \in Nat
      /\ Len(adown[a]) \in Nat
  <2>1. ASSUME NEW q \in Seq(DownUnit), NEW r, r = q \o <<u, v>>
        PROVE  \A i \in DOMAIN r : \/ i \in DOMAIN q /\ r[i] = q[i]
                                   \/ i = Len(q) + 1 /\ r[i] = u
                                   \/ i = Len(q) + 2 /\ r[i] = v
    BY ONLY <2>1
  <2>2. ASSUME NEW q \in Seq(DownUnit)
        PROVE  Len(q) \in Nat /\ \A i \in DOMAIN q : i \in Nat /\ i <= Len(q) /\ q[i].id \in Nat
    <3>1. Len(q) \in Nat /\ \A i \in DOMAIN q : i \in Nat /\ i <= Len(q)
      BY ONLY <2>2
    <3>2. \A i \in DOMAIN q : q[i] \in DownUnit
      BY ONLY <2>2, SeqElements
    <3> QED BY ONLY <3>1, <3>2 DEF DownUnit
  <2> QED BY <1>1, <2>1, <2>2
<1>3. \A n \in Nat : Behind(a, n)' => Behind(a, n) \/ (ControlUnit(v) /\ n = v.id)
  BY <1>2 DEF Behind, ControlUnit
<1>4. \A i, j \in DOMAIN adown'[a] :
        i < j /\ ControlUnit(adown'[a][i]) /\ ControlUnit(adown'[a][j])
          => adown'[a][i].id < adown'[a][j].id
  <2> SUFFICES ASSUME NEW i \in DOMAIN adown'[a], NEW j \in DOMAIN adown'[a], i < j,
                      ControlUnit(adown'[a][i]), ControlUnit(adown'[a][j])
               PROVE  adown'[a][i].id < adown'[a][j].id
    OBVIOUS
  <2>1. i \in DOMAIN adown[a] /\ adown'[a][i] = adown[a][i]
    BY <1>2
  <2>2. CASE j \in DOMAIN adown[a] /\ adown'[a][j] = adown[a][j]
    BY <2>1, <2>2 DEF AdownInOrder
  <2>3. CASE adown'[a][j] = v
    <3>1. PICK n \in Nat : n = adown[a][i].id
      BY <1>2, <2>1
    <3>2. n <= controls
      BY <2>1, <3>1 DEF AdownInOrder, Behind
    <3>3. adown'[a][j].id = controls + 1
      BY <2>3
    <3> QED BY <2>1, <3>1, <3>2, <3>3
  <2>4. \/ j \in DOMAIN adown[a] /\ adown'[a][j] = adown[a][j]
        \/ adown'[a][j] = v
    BY <1>2
  <2> QED BY <2>2, <2>3, <2>4
<1>5. AdownInOrder(a)'
  <2>1. ASSUME NEW n \in Nat, Behind(a, n)' PROVE n # 0 /\ n <= controls'
    <3>1. CASE Behind(a, n)
      BY <3>1 DEF AdownInOrder
    <3>2. CASE ControlUnit(v) /\ n = v.id
      BY <3>2
    <3> QED BY <1>3, <2>1, <3>1, <3>2
  <2>2. xend'[a] # "none"
    OBVIOUS
  <2> QED BY <1>4, <2>1, <2>2 DEF AdownInOrder, ControlUnit
<1> QED BY <1>1, <1>3, <1>5

\* Every receiver is left alone, or is still in order.
LEMMA RestInOrder ==
  ASSUME LoopTyped, ControlOrder, controls' \in Nat, controls <= controls',
         SentInOrder', NotMadeYet', CommandsUnnumbered',
         \A c \in Conns, n \in Nat : Sent(c, n)' => Sent(c, n),
         \A a \in AiConns : SameReceiver(a) \/ (AdownInOrder(a)' /\ ReceiverInOrder(a)')
  PROVE  ControlOrder'
<1>1. controls \in Nat /\ \A a \in AiConns : msg[a].id \in Nat
  BY KindsDisjoint DEF LoopTyped, CoreInv, TypeInv, CountOK, DataOK, Message
<1>2. \A a \in AiConns : AdownInOrder(a)' /\ ReceiverInOrder(a)'
  BY <1>1, ReceiverKept DEF ControlOrder, ReceiversInOrder
<1> QED BY <1>2 DEF ControlOrder, ReceiversInOrder

LEMMA NotMadeKept ==
  ASSUME LoopTyped, NotMadeYet, Relay \/ Ai, [Next]_rvars
  PROVE  NotMadeYet'
<1>0. /\ AtOK /\ SharedOK /\ AiOK /\ TypeInv /\ ConnInv
      /\ \A a \in AiConns : a \in Threads /\ a # NoAi
  BY KindsDisjoint DEF LoopTyped, CoreInv, TypeInv
<1>1. \/ ConnectAi \/ UNCHANGED xend
      \/ \E a \in AiConns : xend[a] = "open" /\ xend' = [xend EXCEPT ![a] = "closed"]
  BY RelaySteps
     DEF XappThread, Accept, Handler, Register, RecvLen, RecvBody, LockKpi, ForwardKpi,
         LockRequest, ForwardRequest, ReplyLen, ReplyBody, Answer, Deregister, CloseXapp,
         Receiver, AiRecvLen, AiRecvBody, StartBroadcast, Broadcast, ForgetAi, CloseAi,
         SpawnReceiver, CommandThread, Command, Commander, AiReads, AiControls, AiCloses,
         aiLink
<1>2. CASE ConnectAi
  <2>1. PICK a \in AiConns : /\ aend[a] = "none" /\ aend' = [aend EXCEPT ![a] = "open"]
                             /\ xend' = [xend EXCEPT ![a] = "open"]
                             /\ ai_connection' = a /\ connector = "connect"
                             /\ connector' = "spawn" /\ UNCHANGED at
    BY <1>2 DEF ConnectAi
  <2> QED BY <1>0, <2>1 DEF NotMadeYet, AiOK
<1>3. ASSUME ~ConnectAi, \A a \in AiConns : aend'[a] = "none" => aend[a] = "none"
      PROVE  \A a \in AiConns : aend'[a] = "none" => xend'[a] = "none"
  BY <1>0, <1>1, <1>3 DEF NotMadeYet, AiOK
<1>4. CASE ConnUntouched /\ ~ConnectAi
  BY <1>0, <1>3, <1>4 DEF NotMadeYet, ConnUntouched
<1>5. CASE SpawnReceiver /\ ~ConnectAi
  <2>1. /\ connector = "spawn" /\ connector' = "off" /\ ai_connection \in AiConns
        /\ at' = [at EXCEPT ![ai_connection] = "len"] /\ UNCHANGED <<aend, ai_connection>>
    BY <1>0, <1>5 DEF SpawnReceiver, ConnInv, SharedOK, shared, aiLink
  <2>2. at'[ai_connection] = "len" /\ \A a \in AiConns : a # ai_connection => at'[a] = at[a]
    BY <1>0, <2>1 DEF AtOK
  <2> QED BY <1>3, <1>5, <2>1, <2>2 DEF NotMadeYet
<1>6. ASSUME NEW a \in AiConns, ForgetAi(a) \/ CloseAi(a), ~ConnectAi PROVE NotMadeYet'
  <2>1. connector = "off"
    BY <1>0, <1>6 DEF ForgetAi, CloseAi, Move, ConnInv, LiveAt
  <2>2. \A b \in AiConns : at'[b] = "none" => at[b] = "none" /\ b # a
    BY <1>0, <1>6 DEF ForgetAi, CloseAi, Move, AtOK
  <2>3. \A b \in AiConns : /\ aend'[b] = "none" => aend[b] = "none"
                           /\ b # a => aend'[b] = aend[b]
    BY <1>0, <1>6 DEF ForgetAi, CloseAi, aiLink, AiOK
  <2> QED BY <1>3, <1>6, <2>1, <2>2, <2>3 DEF NotMadeYet
<1> QED BY <1>0, <1>2, <1>4, <1>5, <1>6, MostLeaveConns

LEMMA UnnumberedKept ==
  ASSUME LoopTyped, CommandsUnnumbered, Relay \/ Ai PROVE CommandsUnnumbered'
<1>0. DataOK
  BY DEF LoopTyped, CoreInv, TypeInv
<1>1. \/ UNCHANGED msg
      \/ \E t \in Threads : \E m : t \notin Cmds /\ msg' = [msg EXCEPT ![t] = m]
      \/ \E k \in Cmds : msg' = [msg EXCEPT ![k] = [id |-> 0, kind |-> "control"]]
  BY RelaySteps, KindsDisjoint
     DEF XappThread, Accept, Handler, Register, RecvLen, RecvBody, LockKpi, ForwardKpi,
         LockRequest, ForwardRequest, ReplyLen, ReplyBody, Answer, Deregister, CloseXapp,
         Receiver, AiRecvLen, AiRecvBody, StartBroadcast, Broadcast, ForgetAi, CloseAi,
         ConnectAi, SpawnReceiver, CommandThread, Command, Commander, AiReads, AiControls,
         AiCloses
<1> QED BY <1>0, <1>1, KindsDisjoint DEF CommandsUnnumbered, DataOK

\* Nothing goes to the xApp.
LEMMA NothingSent ==
  ASSUME LoopTyped, ControlOrder, UNCHANGED <<client, down>>,
         controls' \in Nat, controls <= controls'
  PROVE  SentInOrder' /\ \A c \in Conns, n \in Nat : Sent(c, n)' => Sent(c, n)
<1>1. controls \in Nat
  BY DEF LoopTyped, CoreInv, TypeInv, CountOK
<1>2. UNCHANGED <<down, handled, hmsg, pc>>
  BY DEF client
<1> QED BY <1>1, <1>2, SentQuiet DEF ControlOrder

\* A receiver reads its connection: it takes a control message in hand, or drops what
\* it reads.
LEMMA ReceiverReads ==
  ASSUME LoopTyped, ControlOrder, NEW a \in AiConns, AiRecvLen(a) \/ AiRecvBody(a),
         SentInOrder', NotMadeYet', CommandsUnnumbered',
         \A c \in Conns, n \in Nat : Sent(c, n)' => Sent(c, n)
  PROVE  ControlOrder'
<1>0. /\ AtOK /\ AiOK /\ DataOK /\ controls \in Nat /\ a \in Threads
      /\ AdownInOrder(a) /\ ReceiverInOrder(a)
  BY KindsDisjoint
     DEF LoopTyped, CoreInv, TypeInv, CountOK, ControlOrder, ReceiversInOrder
<1>1. UNCHANGED <<xend, todo, controls>>
  BY DEF AiRecvLen, AiRecvBody, aiSide
<1>2. Reads(a)
  BY DEF AiRecvLen, AiRecvBody, Move, Reads
<1>3. \A b \in AiConns : b # a => at'[b] = at[b] /\ msg'[b] = msg[b]
  <2>1. \A b \in AiConns : b # a => at'[b] = at[b]
    BY <1>0, ReceiverGoes, KindsDisjoint DEF Receiver
  <2>2. UNCHANGED msg \/ \E m : msg' = [msg EXCEPT ![a] = m]
    BY DEF AiRecvLen, AiRecvBody
  <2> QED BY <1>0, <2>1, <2>2, KindsDisjoint DEF DataOK
<1>4. CASE adown[a] # <<>> /\ adown' = [adown EXCEPT ![a] = Tail(@)]
  <2> DEFINE u == Head(adown[a])
  <2>1. /\ AdownInOrder(a)' /\ \A b \in AiConns : b # a => adown'[b] = adown[b]
        /\ \A n \in Nat : Behind(a, n)' => Behind(a, n)
        /\ u \in DownUnit
        /\ ControlUnit(u) => /\ Behind(a, u.id)
                             /\ \A n \in Nat : Behind(a, n)' => u.id < n
    BY <1>0, <1>1, <1>4, AdownRead
  <2>2. \A c \in Conns, m, n \in Nat : Sent(c, m)' /\ Behind(a, n)' => m < n
    BY <1>0, <1>2, <2>1 DEF ReceiverInOrder
  <2>3. ASSUME Passing(a)'
        PROVE  at'[a] = "wait" /\ msg'[a].id = u.id /\ ControlUnit(u)
    <3>1. CASE AiRecvLen(a)
      <4>1. at'[a] \in {"body", "final"}
        BY <1>0, <3>1 DEF AiRecvLen, Move, AtOK
      <4> QED BY <2>3, <4>1 DEF Passing
    <3>2. CASE AiRecvBody(a)
      <4>0. \/ adown[a] # <<>> /\ msg' = [msg EXCEPT ![a] = Body(u)]
               /\ Move(a, "body", IF ControlUnit(u) THEN "wait" ELSE "len")
            \/ Move(a, "body", "final")
        BY <3>2 DEF AiRecvBody, ControlUnit
      <4> HIDE DEF u
      <4>1. at'[a] # "final" /\ at'[a] # "len"
        BY <2>3 DEF Passing
      <4>2. \/ msg' = [msg EXCEPT ![a] = Body(u)]
               /\ at'[a] = IF ControlUnit(u) THEN "wait" ELSE "len"
            \/ at'[a] = "final"
        BY <1>0, <4>0 DEF Move, AtOK
      <4>3. msg' = [msg EXCEPT ![a] = Body(u)] /\ at'[a] = "wait" /\ ControlUnit(u)
        BY <4>1, <4>2
      <4>4. msg'[a] = Body(u)
        BY <1>0, <4>3 DEF DataOK
      <4> QED BY <4>3, <4>4 DEF Body
    <3> QED BY <3>1, <3>2
  <2> HIDE DEF u
  <2>4. ReceiverInOrder(a)'
    <3>1. ASSUME Passing(a)'
          PROVE  /\ msg'[a].id # 0 /\ msg'[a].id <= controls'
                 /\ \A n \in Nat : Behind(a, n)' => msg'[a].id < n
                 /\ \A c \in Conns, n \in Nat : Sent(c, n)' => n < msg'[a].id
      <4>1. PICK m \in Nat : m = u.id
        BY <2>1 DEF DownUnit
      <4>2. msg'[a].id = m /\ Behind(a, m) /\ \A n \in Nat : Behind(a, n)' => m < n
        BY <2>1, <2>3, <3>1, <4>1
      <4>3. m # 0 /\ m <= controls /\ controls' = controls
        BY <1>0, <1>1, <4>2 DEF AdownInOrder
      <4>4. \A c \in Conns, n \in Nat : Sent(c, n)' => n < m
        BY <1>0, <1>2, <4>2 DEF ReceiverInOrder
      <4> QED BY <4>2, <4>3, <4>4
    <3>2. ASSUME Passing(a)', NEW c \in Conns, NEW n \in Nat, Sent(c, n)'
          PROVE  n <= msg'[a].id /\ n < msg'[a].id
      <4>1. msg'[a].id \in Nat
        BY <2>1, <2>3, <3>2 DEF DownUnit
      <4>2. n < msg'[a].id
        BY <3>1, <3>2
      <4> QED BY <4>1, <4>2
    <3> QED BY <2>2, <3>1, <3>2 DEF ReceiverInOrder
  <2>5. \A b \in AiConns : b # a => SameReceiver(b)
    BY <1>1, <1>3, <2>1 DEF SameReceiver
  <2>6. controls' \in Nat /\ controls <= controls'
    BY <1>0, <1>1
  <2> QED BY <2>1, <2>4, <2>5, <2>6, RestInOrder
<1>5. CASE UNCHANGED adown /\ Move(a, at[a], "final")
  <2>1. at'[a] = "final"
    BY <1>0, <1>5 DEF Move, AtOK
  <2>2. AdownInOrder(a)'
    BY <1>0, <1>1, <1>5 DEF AdownInOrder, Behind, ControlUnit
  <2>3. ReceiverInOrder(a)'
    BY <2>1 DEF ReceiverInOrder, Reads, Passing
  <2>4. \A b \in AiConns : b # a => SameReceiver(b)
    BY <1>1, <1>3, <1>5 DEF SameReceiver
  <2>5. controls' \in Nat /\ controls <= controls'
    BY <1>0, <1>1
  <2> QED BY <2>2, <2>3, <2>4, <2>5, RestInOrder
<1> QED BY <1>4, <1>5 DEF AiRecvLen, AiRecvBody, Move

\* What a step of a receiver does to the others.
LEMMA OthersAreSame ==
  ASSUME LoopTyped, NEW a \in AiConns,
         StartBroadcast(a) \/ Broadcast(a) \/ ForgetAi(a) \/ CloseAi(a)
  PROVE  /\ UNCHANGED <<adown, msg, xend, controls>>
         /\ \A b \in AiConns : b # a => SameReceiver(b)
<1>0. AtOK /\ DataOK /\ \A b \in AiConns : b \in Threads
  BY KindsDisjoint DEF LoopTyped, CoreInv, TypeInv
<1>1. UNCHANGED <<adown, msg, xend, controls>>
  BY DEF StartBroadcast, Broadcast, ForgetAi, CloseAi, aiLink, aiSide
<1>2. \A b \in AiConns : b # a => at'[b] = at[b]
  BY <1>0, ReceiverGoes DEF Receiver
<1>3. UNCHANGED todo \/ \E s : todo' = [todo EXCEPT ![a] = s]
  BY DEF StartBroadcast, Broadcast, ForgetAi, CloseAi
<1>4. \A b \in AiConns : b # a => todo'[b] = todo[b]
  BY <1>0, <1>3 DEF DataOK
<1> QED BY <1>1, <1>2, <1>4 DEF SameReceiver

\* A receiver starts to pass its message on, finds nobody there, or ends.
LEMMA ReceiverGoesOn ==
  ASSUME LoopTyped, ControlOrder, NEW a \in AiConns, StartBroadcast(a) \/ ForgetAi(a) \/ CloseAi(a),
         SentInOrder', NotMadeYet', CommandsUnnumbered',
         \A c \in Conns, n \in Nat : Sent(c, n)' => Sent(c, n)
  PROVE  ControlOrder'
<1>0. /\ AtOK /\ controls \in Nat /\ a \in Threads /\ AdownInOrder(a) /\ ReceiverInOrder(a)
      /\ AfterBroadcast(a) = "len"
  BY KindsDisjoint
     DEF LoopTyped, CoreInv, TypeInv, CountOK, ControlOrder, ReceiversInOrder, AfterBroadcast
<1>1. UNCHANGED <<adown, msg, xend, controls>> /\ \A b \in AiConns : b # a => SameReceiver(b)
  BY OthersAreSame
<1>2. AdownInOrder(a)' /\ \A n \in Nat : Behind(a, n)' <=> Behind(a, n)
  BY <1>0, <1>1 DEF AdownInOrder, Behind, ControlUnit
<1>3. Passing(a)' => at[a] = "wait"
  BY <1>0 DEF Passing, StartBroadcast, ForgetAi, CloseAi, Move, AtOK
<1>4. Reads(a)' => Reads(a)
  BY <1>0 DEF Reads, StartBroadcast, ForgetAi, CloseAi, Move, AtOK
<1>5. ReceiverInOrder(a)'
  <2>1. \A c \in Conns, m, n \in Nat : Reads(a)' /\ Sent(c, m)' /\ Behind(a, n)' => m < n
    BY <1>0, <1>2, <1>4 DEF ReceiverInOrder
  <2>2. ASSUME Passing(a)'
        PROVE  /\ msg'[a].id # 0 /\ msg'[a].id <= controls'
               /\ \A n \in Nat : Behind(a, n)' => msg'[a].id < n
               /\ \A c \in Conns, n \in Nat : Sent(c, n)' => n <= msg'[a].id /\ n < msg'[a].id
    <3>1. at[a] = "wait" /\ Passing(a)
      BY <1>3, <2>2 DEF Passing
    <3> QED BY <1>0, <1>1, <1>2, <3>1 DEF ReceiverInOrder
  <2> QED BY <2>1, <2>2 DEF ReceiverInOrder
<1>6. controls' \in Nat /\ controls <= controls'
  BY <1>0, <1>1
<1> QED BY <1>1, <1>2, <1>5, <1>6, RestInOrder

\* A receiver that is not live, once another is, has nothing before it.
LEMMA OneReceiver ==
  ASSUME LoopTyped, ControlOrder, NEW a \in AiConns, NEW b \in AiConns, LiveAt(a), b # a
  PROVE  ~Passing(b) /\ (Reads(b) => \A n \in Nat : ~Behind(b, n))
<1>1. ~LiveAt(b) /\ connector = "off"
  BY DEF LoopTyped, CoreInv, ConnInv
<1>2. Reads(b) => adown[b] = <<>>
  BY <1>1 DEF LiveAt, Reads, ControlOrder, NotMadeYet, ReceiversInOrder, AdownInOrder
<1> QED BY <1>1, <1>2 DEF Passing, LiveAt, Behind

\* One send of a broadcast of the AI's message.
LEMMA ReceiverSends ==
  ASSUME LoopTyped, ControlOrder, NEW a \in AiConns, Broadcast(a), UNCHANGED client,
         NotMadeYet', CommandsUnnumbered'
  PROVE  ControlOrder'
<1>0. /\ AtOK /\ DataOK /\ controls \in Nat /\ a \in Threads /\ at[a] = "broadcast"
      /\ AdownInOrder(a) /\ ReceiverInOrder(a) /\ AfterBroadcast(a) = "len"
      /\ ClientTypeOK /\ SentInOrder /\ msg[a] \in Frame
  BY KindsDisjoint
     DEF LoopTyped, CoreInv, TypeInv, CountOK, ControlOrder, ReceiversInOrder, AfterBroadcast,
         Broadcast, FramesOK
<1>1. /\ UNCHANGED <<adown, msg, xend, controls>>
      /\ \A b \in AiConns : b # a => SameReceiver(b)
  BY OthersAreSame
<1>2. PICK c \in todo[a] : SendToXapp(c, msg[a]) /\ todo' = [todo EXCEPT ![a] = @ \ {c}]
  BY DEF Broadcast
<1>3. c \in Conns /\ todo'[a] = todo[a] \ {c}
  BY <1>0, <1>2 DEF DataOK
<1>4. PICK f \in Frame : f = msg[a]
  BY <1>0
<1>5. f.id \in Nat /\ Numbered(f) /\ f.id <= controls
      /\ (\A n \in Nat : Behind(a, n) => f.id < n)
      /\ \A d \in Conns, n \in Nat : Sent(d, n) => n <= f.id /\ (d \in todo[a] => n < f.id)
  BY <1>0, <1>4 DEF ReceiverInOrder, Passing, Numbered, Frame
<1>6. /\ SentInOrder'
      /\ \A d \in Conns, n \in Nat : Sent(d, n)' => Sent(d, n) \/ (d = c /\ n = f.id)
  <2>1. CASE down' = [down EXCEPT ![c] = Append(@, f)]
    <3>1. \A n \in Nat : Sent(c, n) => n < f.id
      BY <1>2, <1>3, <1>5
    <3>2. c \in Conns /\ f \in Frame /\ f.id <= controls
      BY <1>3, <1>5
    <3> QED BY <1>0, <1>1, <2>1, <3>1, <3>2, SendInOrderToXapp
  <2>2. CASE UNCHANGED down
    <3>1. controls' \in Nat /\ controls <= controls'
      BY <1>0, <1>1
    <3> QED BY <2>2, <3>1, NothingSent
  <2> QED BY <1>2, <1>4, <2>1, <2>2 DEF SendToXapp
<1>7. AdownInOrder(a)' /\ \A b \in AiConns, n \in Nat : Behind(b, n)' <=> Behind(b, n)
  BY <1>0, <1>1 DEF AdownInOrder, Behind, ControlUnit
<1>8. ReceiverInOrder(a)'
  <2>1. \A d \in Conns, m, n \in Nat : Sent(d, m)' /\ Behind(a, n)' => m < n
    BY <1>5, <1>6, <1>7
  <2>2. \A d \in Conns, n \in Nat : Sent(d, n)' => n <= f.id /\ (d \in todo'[a] => n < f.id)
    BY <1>3, <1>5, <1>6
  <2>3. at'[a] # "wait"
    BY <1>0 DEF Broadcast, Move, AtOK
  <2>4. msg'[a] = f /\ controls' = controls
    BY <1>1, <1>4
  <2>5. msg'[a].id # 0 /\ msg'[a].id <= controls' /\ \A n \in Nat : Behind(a, n)' => msg'[a].id < n
    BY <1>5, <1>7, <2>4 DEF Numbered
  <2> QED BY <2>1, <2>2, <2>3, <2>4, <2>5 DEF ReceiverInOrder
<1>9. ASSUME NEW b \in AiConns, b # a PROVE AdownInOrder(b)' /\ ReceiverInOrder(b)'
  <2>1. SameReceiver(b) /\ AdownInOrder(b) /\ xend'[b] = xend[b]
    BY <1>1, <1>9 DEF ControlOrder, ReceiversInOrder
  <2>2. AdownInOrder(b)'
    BY <1>1, <1>7, <2>1 DEF AdownInOrder, ControlUnit, SameReceiver
  <2>3. LiveAt(a)
    BY <1>0 DEF LiveAt
  <2>4. ~Passing(b) /\ (Reads(b) => \A n \in Nat : ~Behind(b, n))
    BY <1>9, <2>3, OneReceiver
  <2>5. (Reads(b)' <=> Reads(b)) /\ (Passing(b)' <=> Passing(b))
    BY <2>1 DEF Reads, Passing, SameReceiver
  <2> QED BY <1>7, <2>2, <2>4, <2>5 DEF ReceiverInOrder
<1> QED BY <1>6, <1>7, <1>8, <1>9 DEF ControlOrder, ReceiversInOrder

\* A connection to the AI starts with nothing in it, and its receiver with nothing in hand.
LEMMA ConnectsInOrder ==
  ASSUME LoopTyped, ControlOrder, ConnectAi \/ SpawnReceiver, SentInOrder', NotMadeYet',
         CommandsUnnumbered', \A c \in Conns, n \in Nat : Sent(c, n)' => Sent(c, n)
  PROVE  ControlOrder'
<1>0. /\ AtOK /\ AiOK /\ SharedOK /\ ConnInv /\ controls \in Nat
      /\ \A a \in AiConns : a \in Threads /\ AdownInOrder(a) /\ ReceiverInOrder(a)
  BY KindsDisjoint
     DEF LoopTyped, CoreInv, TypeInv, CountOK, ControlOrder, ReceiversInOrder
<1>1. UNCHANGED <<adown, msg, todo, controls>>
  BY DEF ConnectAi, SpawnReceiver, aiLink, aiSide
<1>2. \A a \in AiConns : \A n \in Nat : Behind(a, n)' <=> Behind(a, n)
  BY <1>1 DEF Behind, ControlUnit
<1>3. CASE ConnectAi
  <2>1. PICK a \in AiConns : aend[a] = "none" /\ xend' = [xend EXCEPT ![a] = "open"]
    BY <1>3 DEF ConnectAi
  <2>2. UNCHANGED at /\ at[a] = "none" /\ xend'[a] = "open"
        /\ \A b \in AiConns : b # a => xend'[b] = xend[b]
    BY <1>0, <1>3, <2>1 DEF ConnectAi, ConnInv, AiOK
  <2>3. adown[a] = <<>>
    BY <1>0, <2>1 DEF ControlOrder, NotMadeYet, AdownInOrder
  <2>4. \A n \in Nat : ~Behind(a, n)
    BY <2>3 DEF Behind
  <2>5. AdownInOrder(a)'
    BY <1>0, <1>1, <1>2, <2>2, <2>4 DEF AdownInOrder, ControlUnit
  <2>6. ReceiverInOrder(a)'
    BY <1>2, <2>2, <2>4 DEF ReceiverInOrder, Passing
  <2>7. \A b \in AiConns : b # a => SameReceiver(b)
    BY <1>1, <2>2 DEF SameReceiver
  <2>8. controls' \in Nat /\ controls <= controls'
    BY <1>0, <1>1
  <2> QED BY <2>5, <2>6, <2>7, <2>8, RestInOrder
<1>4. CASE SpawnReceiver
  <2>1. PICK a \in AiConns : a = ai_connection
    BY <1>0, <1>4 DEF SpawnReceiver, ConnInv, SharedOK
  <2>2. at[a] = "none" /\ at'[a] = "len" /\ UNCHANGED xend
        /\ \A b \in AiConns : b # a => at'[b] = at[b]
    BY <1>0, <1>4, <2>1 DEF SpawnReceiver, ConnInv, AtOK, aiLink
  <2>3. AdownInOrder(a)'
    BY <1>0, <1>1, <1>2, <2>2 DEF AdownInOrder, ControlUnit
  <2>4. ReceiverInOrder(a)'
    BY <1>0, <1>2, <2>2 DEF ReceiverInOrder, Passing, Reads
  <2>5. \A b \in AiConns : b # a => SameReceiver(b)
    BY <1>1, <2>2 DEF SameReceiver
  <2>6. controls' \in Nat /\ controls <= controls'
    BY <1>0, <1>1
  <2> QED BY <2>3, <2>4, <2>5, <2>6, RestInOrder
<1> QED BY <1>3, <1>4

\* The AI sends an answer or a control message, or goes away.
LEMMA AiInControl ==
  ASSUME LoopTyped, ControlOrder, NEW a \in AiConns, AiReads(a) \/ AiControls(a) \/ AiCloses(a),
         UNCHANGED client, NotMadeYet', CommandsUnnumbered'
  PROVE  ControlOrder'
<1>0. /\ AiOK /\ controls \in Nat /\ xend[a] = "open" /\ AdownInOrder(a) /\ ReceiverInOrder(a)
      /\ msg[a].id \in Nat /\ SentInOrder
  BY KindsDisjoint
     DEF LoopTyped, CoreInv, TypeInv, CountOK, ControlOrder, ReceiversInOrder, DataOK, Message,
         AiReads, AiControls, AiCloses
<1>1. UNCHANGED <<down, at, msg, todo>>
  BY DEF AiReads, AiControls, AiCloses, link
<1>2. controls' \in Nat /\ controls <= controls'
  BY <1>0 DEF AiReads, AiControls, AiCloses, aiSide
<1>3. SentInOrder' /\ \A c \in Conns, n \in Nat : Sent(c, n)' => Sent(c, n)
  BY <1>1, <1>2, NothingSent
<1>4. ASSUME UNCHANGED adown, \A b \in AiConns : xend'[b] = "none" => xend[b] = "none"
      PROVE  ControlOrder'
  <2>1. \A b \in AiConns : SameReceiver(b)
    BY <1>1, <1>4 DEF SameReceiver
  <2> QED BY <1>2, <1>3, <2>1, RestInOrder
<1>5. ASSUME NEW id \in Nat, NEW kind \in {"control", "other"},
             AiSends(a, [id |-> id, kind |-> kind]), UNCHANGED xend,
             kind = "control" => id = controls + 1 /\ controls' = controls + 1
      PROVE  ControlOrder'
  <2> DEFINE m == [id |-> id, kind |-> kind]
             u == AiUnit("len", m)
             v == AiUnit("body", m)
  <2>1. /\ u \in DownUnit /\ v \in DownUnit /\ ~ControlUnit(u) /\ v.id = id
        /\ ControlUnit(v) => kind = "control"
    BY DEF AiUnit, DownUnit, ControlUnit
  <2>2. adown' = [adown EXCEPT ![a] = @ \o <<u, v>>]
    BY <1>5 DEF AiSends
  <2> HIDE DEF u, v
  <2>3. /\ AdownInOrder(a)' /\ \A b \in AiConns : b # a => adown'[b] = adown[b]
        /\ \A n \in Nat : Behind(a, n)' => Behind(a, n) \/ (ControlUnit(v) /\ n = v.id)
    BY <1>0, <1>2, <1>5, <2>1, <2>2, AdownSent
  <2>4. \A n \in Nat : Behind(a, n)' => Behind(a, n) \/ n = controls + 1
    BY <1>5, <2>1, <2>3
  <2>5. (Reads(a)' <=> Reads(a)) /\ (Passing(a)' <=> Passing(a))
    BY <1>1 DEF Reads, Passing
  <2>6. ReceiverInOrder(a)'
    <3>1. ASSUME Reads(a), NEW c \in Conns, NEW l \in Nat, NEW n \in Nat, Sent(c, l)',
                 Behind(a, n)'
          PROVE  l < n
      <4>1. Sent(c, l) /\ l <= controls
        BY <1>0, <1>3, <3>1 DEF SentInOrder
      <4>2. CASE Behind(a, n)
        BY <1>0, <3>1, <4>1, <4>2 DEF ReceiverInOrder
      <4>3. CASE n = controls + 1
        BY <1>0, <4>1, <4>3
      <4> QED BY <2>4, <3>1, <4>2, <4>3
    <3>2. ASSUME Passing(a)
          PROVE  /\ msg[a].id # 0 /\ msg[a].id <= controls'
                 /\ \A n \in Nat : Behind(a, n)' => msg[a].id < n
                 /\ \A c \in Conns, n \in Nat : Sent(c, n)' =>
                      /\ n <= msg[a].id
                      /\ at[a] = "wait" \/ c \in todo[a] => n < msg[a].id
      <4>1. msg[a].id # 0 /\ msg[a].id <= controls
        BY <1>0, <3>2 DEF ReceiverInOrder
      <4>2. \A n \in Nat : Behind(a, n)' => msg[a].id < n
        BY <1>0, <2>4, <3>2, <4>1 DEF ReceiverInOrder
      <4>3. msg[a].id <= controls'
        BY <1>0, <1>2, <4>1
      <4> QED BY <1>0, <1>3, <3>2, <4>1, <4>2, <4>3 DEF ReceiverInOrder
    <3> QED BY <1>1, <2>5, <3>1, <3>2 DEF ReceiverInOrder
  <2>7. \A b \in AiConns : b # a => SameReceiver(b)
    BY <1>1, <1>5, <2>3 DEF SameReceiver
  <2> QED BY <1>2, <1>3, <2>3, <2>6, <2>7, RestInOrder
<1>6. CASE AiReads(a)
  <2>1. aup[a] # <<>> /\ UNCHANGED xend
    BY <1>6 DEF AiReads
  <2>2. Head(aup[a]) \in AiFrame
    BY <1>0, <2>1, SeqTypes DEF AiOK
  <2>3. PICK id \in Nat : id = Head(aup[a]).m.id
    BY <2>2 DEF AiFrame, Message
  <2> QED BY <1>4, <1>5, <1>6, <2>1, <2>3 DEF AiReads
<1>7. CASE AiControls(a)
  <2>1. PICK id \in Nat : id = controls + 1
    BY <1>0
  <2> QED BY <1>5, <1>7, <2>1 DEF AiControls
<1>8. CASE AiCloses(a)
  BY <1>0, <1>4, <1>8 DEF AiCloses, AiOK
<1> QED BY <1>6, <1>7, <1>8

\* A handler or a command takes nothing from the receivers, and numbers nothing it sends.
LEMMA ThreadInControl ==
  ASSUME LoopTyped, KpiInv, ControlOrder, UNCHANGED client, NotMadeYet', CommandsUnnumbered',
         \/ \E c \in Conns : XappThread(c)
         \/ \E k \in Cmds : CommandThread(k)
  PROVE  ControlOrder'
<1>0. /\ AtOK /\ DataOK /\ controls \in Nat /\ UNCHANGED controls /\ ClientTypeOK
      /\ SentInOrder /\ \A k \in Cmds : msg[k] \in Frame /\ ~Numbered(msg[k])
  BY DEF LoopTyped, CoreInv, TypeInv, CountOK, ControlOrder, CommandsUnnumbered, Numbered,
         FramesOK, XappThread, Accept, Handler, Register, RecvLen, RecvBody, LockKpi,
         ForwardKpi, LockRequest, ForwardRequest, ReplyLen, ReplyBody, Answer, Deregister,
         CloseXapp, CommandThread, Command, Commander, StartBroadcast, Broadcast, aiSide
<1>1. ASSUME NEW c \in Conns
      PROVE  ~(LockRequest(c) \/ ForwardRequest(c) \/ ReplyLen(c) \/ ReplyBody(c) \/ Answer(c))
  BY DEF LockRequest, ForwardRequest, ReplyLen, ReplyBody, Answer, Move, KpiInv, Requesting
<1>2. /\ UNCHANGED <<adown, xend>>
      /\ UNCHANGED msg \/ \E t \in Conns \cup Cmds : \E m : msg' = [msg EXCEPT ![t] = m]
      /\ UNCHANGED todo \/ \E t \in Conns \cup Cmds : \E s : todo' = [todo EXCEPT ![t] = s]
  BY <1>1 DEF XappThread, Accept, Handler, Register, RecvLen, RecvBody, LockKpi, ForwardKpi,
              Deregister, CloseXapp, CommandThread, Command, Commander, StartBroadcast,
              Broadcast, aiLink
<1>3. \A a \in AiConns : at'[a] = at[a]
  BY <1>0, HandlerGoes, CommandGoes, KindsDisjoint
<1>4. \A a \in AiConns : SameReceiver(a)
  BY <1>0, <1>2, <1>3, KindsDisjoint DEF SameReceiver, DataOK
<1>5. \/ UNCHANGED down
      \/ \E c \in Conns, k \in Cmds : down' = [down EXCEPT ![c] = Append(@, msg[k])]
  <2>1. ASSUME NEW c \in Conns, XappThread(c) PROVE UNCHANGED down
    BY <1>1, <2>1 DEF XappThread, Accept, Handler, Register, RecvLen, RecvBody, LockKpi,
                      ForwardKpi, Deregister, CloseXapp, link
  <2>2. ASSUME NEW k \in Cmds, Broadcast(k)
        PROVE  UNCHANGED down \/ \E c \in Conns : down' = [down EXCEPT ![c] = Append(@, msg[k])]
    <3>1. PICK c \in todo[k] : SendToXapp(c, msg[k])
      BY <2>2 DEF Broadcast
    <3>2. c \in Conns
      BY <1>0, KindsDisjoint DEF DataOK
    <3> QED BY <3>1, <3>2 DEF SendToXapp
  <2>3. ASSUME NEW k \in Cmds, Command(k) \/ StartBroadcast(k) PROVE UNCHANGED down
    BY <2>3 DEF Command, StartBroadcast, link
  <2> QED BY <2>1, <2>2, <2>3 DEF CommandThread, Commander
<1>6. SentInOrder' /\ \A c \in Conns, n \in Nat : Sent(c, n)' => Sent(c, n)
  <2>1. CASE UNCHANGED down
    BY <1>0, <2>1, NothingSent
  <2>2. ASSUME NEW c \in Conns, NEW k \in Cmds, down' = [down EXCEPT ![c] = Append(@, msg[k])]
        PROVE  SentInOrder' /\ \A d \in Conns, n \in Nat : Sent(d, n)' => Sent(d, n)
    <3>1. PICK f \in Frame : f = msg[k] /\ ~Numbered(f)
      BY <1>0
    <3>2. down' = [down EXCEPT ![c] = Append(@, f)]
      BY <2>2, <3>1
    <3> QED BY <1>0, <3>1, <3>2, SendInOrderToXapp
  <2> QED BY <1>5, <2>1, <2>2
<1>7. controls' \in Nat /\ controls <= controls'
  BY <1>0
<1> QED BY <1>4, <1>6, <1>7, RestInOrder

LEMMA RelayKeepsControl ==
  ASSUME LoopTyped, KpiInv, ControlOrder, Relay \/ Ai, [Next]_rvars, UNCHANGED client
  PROVE  ControlOrder'
<1>1. NotMadeYet' /\ CommandsUnnumbered'
  BY NotMadeKept, UnnumberedKept DEF ControlOrder
<1>2. ASSUME UNCHANGED <<down, controls>>
      PROVE  SentInOrder' /\ \A c \in Conns, n \in Nat : Sent(c, n)' => Sent(c, n)
  <2>1. controls' \in Nat /\ controls <= controls'
    BY <1>2 DEF LoopTyped, CoreInv, TypeInv, CountOK
  <2> QED BY <1>2, <2>1, NothingSent
<1>3. ASSUME NEW a \in AiConns, Receiver(a) PROVE ControlOrder'
  <2>1. CASE Broadcast(a)
    BY <1>1, <2>1, ReceiverSends
  <2>2. CASE AiRecvLen(a) \/ AiRecvBody(a)
    <3>1. UNCHANGED <<down, controls>>
      BY <2>2 DEF AiRecvLen, AiRecvBody, link, aiSide
    <3> QED BY <1>1, <1>2, <2>2, <3>1, ReceiverReads
  <2>3. CASE StartBroadcast(a) \/ ForgetAi(a) \/ CloseAi(a)
    <3>1. UNCHANGED <<down, controls>>
      BY <2>3 DEF StartBroadcast, ForgetAi, CloseAi, link, aiSide
    <3> QED BY <1>1, <1>2, <2>3, <3>1, ReceiverGoesOn
  <2> QED BY <1>3, <2>1, <2>2, <2>3 DEF Receiver
<1>4. CASE ConnectAi \/ SpawnReceiver
  <2>1. UNCHANGED <<down, controls>>
    BY <1>4 DEF ConnectAi, SpawnReceiver, link, aiSide
  <2> QED BY <1>1, <1>2, <1>4, <2>1, ConnectsInOrder
<1>5. ASSUME NEW a \in AiConns, AiReads(a) \/ AiControls(a) \/ AiCloses(a) PROVE ControlOrder'
  BY <1>1, <1>5, AiInControl
<1>6. CASE \/ \E c \in Conns : XappThread(c)
           \/ \E k \in Cmds : CommandThread(k)
  BY <1>1, <1>6, ThreadInControl
<1> QED BY <1>3, <1>4, <1>5, <1>6, RelaySteps

LEMMA ControlInit == ASSUME LoopInit PROVE ControlOrder
<1>1. /\ pc[Listener] = "off" /\ handled = <<>> /\ \A c \in Conns : down[c] = <<>>
  BY ClientAssumption DEF LoopInit, ClientInit, ClientThreads, Init, LinkInit
<1>2. \A c \in Conns, n \in Nat : ~Heard(c, n) /\ ~Coming(c, n) /\ ~InHand(c)
  BY <1>1 DEF Heard, Coming, InHand
<1>3. SentInOrder
  BY <1>1, <1>2 DEF SentInOrder, HandledInOrder, DownInOrder, Sent
<1>4. /\ \A a \in AiConns : /\ at[a] = "none" /\ adown[a] = <<>> /\ aend[a] = "none"
                            /\ xend[a] = "none"
      /\ \A k \in Cmds : msg[k].id = 0
  BY KindsDisjoint DEF LoopInit, Init, RelayInit, NoAction
<1>5. \A a \in AiConns : AdownInOrder(a) /\ ReceiverInOrder(a)
  BY <1>4 DEF AdownInOrder, ReceiverInOrder, Behind, Passing
<1> QED BY <1>3, <1>4, <1>5 DEF ControlOrder, NotMadeYet, ReceiversInOrder, CommandsUnnumbered

LEMMA ControlHolds == ASSUME Steady, KpiOnly PROVE LoopSpec => []ControlOrder
<1>1. LoopInit => ControlOrder
  BY ControlInit
<1>2. LoopTyped /\ SteadyInv /\ KpiInv /\ ControlOrder /\ [LoopNext]_vars => ControlOrder'
  <2> SUFFICES ASSUME LoopTyped, SteadyInv, KpiInv, ControlOrder, [LoopNext]_vars
               PROVE  ControlOrder'
    OBVIOUS
  <2>1. CASE Client /\ UNCHANGED <<frames, relay, aiSide, sends, cut>>
    BY <2>1, ClientKeepsControl
  <2>2. CASE (Relay \/ Ai) /\ [Next]_rvars /\ UNCHANGED <<client, frames, sends, cut>>
    BY <2>2, RelayKeepsControl
  <2>3. CASE UNCHANGED vars
    <3>1. UNCHANGED <<relay, aiSide, client, down>>
      BY <2>3 DEF vars, link, xappVars, relayVars
    <3>2. controls' \in Nat /\ controls <= controls'
      BY <3>1 DEF aiSide, LoopTyped, CoreInv, TypeInv, CountOK
    <3>3. SentInOrder' /\ \A c \in Conns, n \in Nat : Sent(c, n)' => Sent(c, n)
      BY <3>1, <3>2, NothingSent
    <3> QED BY <3>1, <3>3, RelayRests
  <2> QED BY <2>1, <2>2, <2>3, LoopSteps
<1> QED BY <1>1, <1>2, LoopTypedHolds, SteadyHolds, KpiHolds, PTL DEF LoopSpec

\* From one end of the loop to the other, while the relay is there and the workers send
\* KPIs only: no KPI is read twice, and the handler gets a connection's control messages
\* in the AI's order and each once.  For any number of workers, calls, connections, AI
\* connections, commands and control messages, any buffers, and an AI that comes and goes.
THEOREM LoopInOrderCorrect == ASSUME Steady, KpiOnly PROVE LoopSpec => []LoopInOrder
<1>1. FrameOnce /\ ControlOrder => LoopInOrder
  BY DEF FrameOnce, ReadOnce, ControlOrder, SentInOrder, HandledInOrder, Numbered, LoopInOrder
<1> QED BY <1>1, OnceHolds, ControlHolds, PTL

-----------------------------------------------------------------------------
(* Client and relay implement ControlChannel.  There is one connection, so   *)
(* the order of its control messages is the order of all.                    *)

HeardOnSock ==
  /\ \A i \in DOMAIN handled : handled[i].conn = sock /\ sock \in Conns
  /\ pc[Listener] = "handle" => hmsg.conn = sock

\* sock_ changes only when it names nothing, and then nothing was heard yet.
LEMMA HeardKept ==
  ASSUME Steady, LoopTyped, SteadyInv, KpiInv, ControlOrder, HeardOnSock, Client
  PROVE  HeardOnSock'
<1> DEFINE Given == [frame : Frame, conn : Conns \cup {NoConn}]
<1>0. /\ Starter \in ClientThreads /\ Listener \in ClientThreads /\ Starter # Listener
      /\ \A w \in Workers : w \in ClientThreads /\ w # Starter /\ w # Listener
      /\ ClientTypeOK /\ SentInOrder /\ SockRemembered
  BY ClientAssumption DEF ClientThreads, LoopTyped, SteadyInv, ControlOrder
<1>1. ASSUME UNCHANGED <<handled, hmsg, sock>>, pc'[Listener] = "handle" => pc[Listener] = "handle"
      PROVE  HeardOnSock'
  BY <1>1 DEF HeardOnSock
<1>2. ASSUME NEW w \in Workers, WorkerStep(w) PROVE HeardOnSock'
  <2>1. pc'[Listener] = pc[Listener] /\ sock' = sock
    BY <1>0, <1>2, WorkerSteady
  <2>2. ~RecvReply(w) /\ ~CallFails(w)
    BY NothingFails DEF RecvReply, Goto, KpiInv
  <2> QED BY <1>1, <1>2, <2>1, <2>2 DEF WorkerStep, Begin, LockCall, SendPart
<1>3. ASSUME NEW t \in ClientThreads, EnsureStep(t) PROVE HeardOnSock'
  <2>1. UNCHANGED <<handled, hmsg>>
    BY <1>3 DEF EnsureStep, EnsureCheck, EnsureConnect
  <2>2. PICK to : pc' = [pc EXCEPT ![t] = to] /\ to # "handle"
    <3>1. \A b \in {TRUE, FALSE} : AfterEnsure(t, b) \in {"spawn", "copy", "len", "idle"}
      BY <1>0 DEF AfterEnsure, ClientThreads
    <3> QED BY <1>3, <3>1 DEF EnsureStep, EnsureCheck, EnsureConnect, Goto
  <2>3. pc'[Listener] = "handle" => pc[Listener] = "handle"
    BY <1>0, <2>2 DEF ClientTypeOK
  <2>4. CASE sock' = sock
    BY <1>1, <2>1, <2>3, <2>4
  <2>5. CASE sock' # sock
    <3>1. pc[t] = "connect"
      BY <1>3, <2>5 DEF EnsureStep, EnsureCheck, EnsureConnect, Goto
    <3>2. sock = NoConn
      BY <1>0, <3>1 DEF SockRemembered
    <3>3. pc[Listener] # "handle"
      BY <1>0, <3>2, ClientAssumption DEF HeardOnSock, SentInOrder
    <3>4. DOMAIN handled = {}
      BY <3>2, ClientAssumption DEF HeardOnSock
    <3> QED BY <2>1, <2>3, <3>3, <3>4 DEF HeardOnSock
  <2> QED BY <2>4, <2>5
<1>4. CASE Install \/ Spawn
  <2>1. pc'[Listener] \in {pc[Listener], "copy"}
    BY <1>0, <1>4 DEF Install, Spawn, Goto, ClientTypeOK
  <2> QED BY <1>1, <1>4, <2>1 DEF Install, Spawn
<1>5. CASE CopySock \/ Recheck \/ Poll \/ Relock
  <2>1. pc'[Listener] # "handle"
    BY <1>0, <1>5 DEF CopySock, Recheck, Poll, Relock, Goto, ClientTypeOK
  <2> QED BY <1>1, <1>5, <2>1 DEF CopySock, Recheck, Poll, Relock
<1>6. CASE Recv
  <2>1. pc[Listener] = "recv" /\ sock \notin RecvFails
    BY <1>6, NothingFails DEF Recv
  <2>2. hmsg' = [frame |-> Head(down[sock]), conn |-> sock] /\ UNCHANGED <<handled, sock>>
    BY <1>6, <2>1 DEF Recv
  <2> QED BY <2>2 DEF HeardOnSock
<1>7. CASE Handle
  <2>1. /\ handled \in Seq(Given) /\ hmsg \in Given /\ handled' = Append(handled, hmsg)
        /\ UNCHANGED <<hmsg, sock>> /\ pc[Listener] = "handle"
    BY <1>0, <1>7 DEF Handle, ClientTypeOK, Goto
  <2>2. pc'[Listener] = "copy"
    BY <1>0, <1>7 DEF Handle, Goto, ClientTypeOK
  <2> HIDE DEF Given
  <2>3. \A i \in DOMAIN handled' : \/ i \in DOMAIN handled /\ handled'[i] = handled[i]
                                   \/ i = Len(handled) + 1 /\ handled'[i] = hmsg
    BY <2>1, AppendElements
  <2>4. hmsg.conn = sock /\ sock \in Conns
    BY <1>0, <2>1 DEF HeardOnSock, SentInOrder
  <2> QED BY <2>1, <2>2, <2>3, <2>4 DEF HeardOnSock
<1> QED BY <1>2, <1>3, <1>4, <1>5, <1>6, <1>7, ClientSteps, NothingFails DEF LoopStep

LEMMA HeardHolds == ASSUME Steady, KpiOnly PROVE LoopSpec => []HeardOnSock
<1>1. LoopInit => HeardOnSock
  <2> SUFFICES ASSUME LoopInit PROVE HeardOnSock
    OBVIOUS
  <2>1. handled = <<>> /\ pc[Listener] = "off"
    BY ClientAssumption DEF LoopInit, ClientInit, ClientThreads
  <2> QED BY <2>1 DEF HeardOnSock
<1>2. LoopTyped /\ SteadyInv /\ KpiInv /\ ControlOrder /\ HeardOnSock /\ [LoopNext]_vars
        => HeardOnSock'
  <2> SUFFICES ASSUME LoopTyped, SteadyInv, KpiInv, ControlOrder, HeardOnSock, [LoopNext]_vars
               PROVE  HeardOnSock'
    OBVIOUS
  <2>1. CASE Client
    BY <2>1, HeardKept
  <2>2. CASE UNCHANGED client
    BY <2>2 DEF client, HeardOnSock
  <2>3. UNCHANGED vars => UNCHANGED client
    BY DEF vars, xappVars
  <2> QED BY <2>1, <2>2, <2>3, LoopSteps
<1> QED BY <1>1, <1>2, LoopTypedHolds, SteadyHolds, KpiHolds, ControlHolds, PTL DEF LoopSpec

\* What the channel shows of the two histories when a step appends to one of them.
LEMMA AppendShows ==
  ASSUME NEW T, NEW q \in Seq(T), NEW e \in T, NEW f \in [T -> Nat]
  PROVE  [i \in DOMAIN Append(q, e) |-> f[Append(q, e)[i]]]
           = Append([i \in DOMAIN q |-> f[q[i]]], f[e])
<1> DEFINE s == [i \in DOMAIN q |-> f[q[i]]]
<1>1. q \in [1..Len(q) -> T] /\ Len(q) \in Nat
  OBVIOUS
<1>2. s \in [1..Len(q) -> Nat] /\ s \in Seq(Nat) /\ Len(s) = Len(q)
  BY <1>1
<1>3. /\ DOMAIN Append(q, e) = 1..(Len(q) + 1)
      /\ \A i \in 1..Len(q) : Append(q, e)[i] = q[i]
      /\ Append(q, e)[Len(q) + 1] = e
  BY <1>1
<1>4. /\ DOMAIN Append(s, f[e]) = 1..(Len(q) + 1)
      /\ \A i \in 1..Len(q) : Append(s, f[e])[i] = f[q[i]]
      /\ Append(s, f[e])[Len(q) + 1] = f[e]
  BY <1>1, <1>2
<1>5. Append(s, f[e]) = [i \in 1..(Len(q) + 1) |-> Append(s, f[e])[i]]
  BY <1>2, <1>4
<1> QED BY <1>1, <1>3, <1>4, <1>5

\* The AI reads a frame that is not read yet.
LEMMA ReadIsRead ==
  ASSUME LoopTyped, FrameOnce, NEW a \in AiConns, AiReads(a), UNCHANGED client
  PROVE  \E n \in 1..calls : Channel!Read(n)
<1> DEFINE e    == [conn |-> Head(aup[a]).conn, m |-> Head(aup[a]).m, over |-> a]
           Read == [conn : Conns, m : Message, over : AiConns]
           num  == [x \in Read |-> x.m.id]
<1>0. AiOK /\ calls \in Nat /\ delivered \in Seq(Read)
  BY DEF LoopTyped, CoreInv, TypeInv, ClientTypeOK, FrameOnce, HistoryOK
<1>1. aup[a] # <<>> /\ delivered' = Append(delivered, e) /\ UNCHANGED <<calls, controls, handled>>
  BY DEF AiReads, client
<1>2. aup[a] \in Seq(AiFrame) /\ 1 \in DOMAIN aup[a] /\ Head(aup[a]) = aup[a][1]
      /\ Head(aup[a]) \in AiFrame
  <2>1. aup[a] \in Seq(AiFrame)
    BY <1>0 DEF AiOK
  <2> QED BY <1>1, <2>1
<1>3. e \in Read /\ num \in [Read -> Nat]
  BY <1>2 DEF AiFrame, Message
<1>4. PICK n \in Nat : n = Head(aup[a]).m.id
  BY <1>2 DEF AiFrame, Message
<1>5. num[e] = n
  BY <1>3, <1>4
<1>6. \A i \in DOMAIN delivered : delivered[i] \in Read
  <2> HIDE DEF Read
  <2> QED BY <1>0
<1>7. [i \in DOMAIN delivered' |-> num[delivered'[i]]]
        = Append([i \in DOMAIN delivered |-> num[delivered[i]]], n)
  <2> HIDE DEF e, num, Read
  <2> QED BY <1>0, <1>1, <1>3, <1>5, AppendShows
<1>8. \A i \in DOMAIN delivered' : delivered'[i] \in Read
  <2> HIDE DEF e, num, Read
  <2> QED BY <1>0, <1>1, <1>3
<1>9. [i \in DOMAIN delivered |-> delivered[i].m.id]'
        = Append([i \in DOMAIN delivered |-> delivered[i].m.id], n)
  BY <1>6, <1>7, <1>8
<1>10. n \in 1..calls /\ ~InAi(n)
  <2>1. In("aup", n) /\ "aup" \in Places /\ "ai" \in Places
    BY <1>2, <1>4 DEF In, InAup, Places
  <2>2. n \in 1..calls /\ ~In("ai", n)
    BY <1>0, <2>1 DEF FrameOnce, InOnePlace
  <2> QED BY <2>2 DEF In
<1>11. \A i \in DOMAIN [j \in DOMAIN delivered |-> delivered[j].m.id] :
         [j \in DOMAIN delivered |-> delivered[j].m.id][i] # n
  BY <1>10 DEF InAi
<1> QED BY <1>1, <1>9, <1>10, <1>11 DEF Channel!Read

\* The listener hands over a command's frame, or a control message that is later than
\* all that were heard.
LEMMA HandleIsHear ==
  ASSUME LoopTyped, ControlOrder, HeardOnSock, Handle, UNCHANGED aiSide
  PROVE  Channel!HearCommand \/ \E n \in 1..controls : Channel!Hear(n)
<1> DEFINE Given == [frame : Frame, conn : Conns \cup {NoConn}]
           num   == [x \in Given |-> x.frame.id]
<1>0. /\ handled \in Seq(Given) /\ hmsg \in Given /\ controls \in Nat
      /\ handled' = Append(handled, hmsg) /\ pc[Listener] = "handle"
      /\ UNCHANGED <<calls, delivered, controls>>
  BY DEF LoopTyped, ClientTypeOK, CoreInv, TypeInv, CountOK, Handle, Goto, aiSide
<1>1. num \in [Given -> Nat] /\ num[hmsg] = hmsg.frame.id
  BY <1>0 DEF Frame
<1>2. PICK n \in Nat : n = hmsg.frame.id
  BY <1>0, <1>1
<1>3. /\ \A i \in DOMAIN handled : handled[i] \in Given
      /\ \A i \in DOMAIN handled' : handled'[i] \in Given
      /\ [i \in DOMAIN handled' |-> num[handled'[i]]]
           = Append([i \in DOMAIN handled |-> num[handled[i]]], n)
  <2> HIDE DEF num, Given
  <2> QED BY <1>0, <1>1, <1>2, AppendShows
<1>4. [i \in DOMAIN handled |-> handled[i].frame.id]'
        = Append([i \in DOMAIN handled |-> handled[i].frame.id], n)
  BY <1>3
<1>5. CASE n = 0
  BY <1>0, <1>4, <1>5 DEF Channel!HearCommand
<1>6. CASE n # 0
  <2>1. hmsg.conn = sock /\ sock \in Conns
    BY <1>0 DEF HeardOnSock, ControlOrder, SentInOrder
  <2>2. PICK c \in Conns : c = sock
    BY <2>1
  <2>3. InHand(c) /\ Sent(c, n) /\ DownInOrder(c)
    BY <1>0, <1>2, <1>6, <2>1, <2>2 DEF InHand, Numbered, Sent, ControlOrder, SentInOrder
  <2>4. n \in 1..controls
    BY <1>0, <1>6, <2>3 DEF ControlOrder, SentInOrder
  <2>5. ASSUME NEW i \in DOMAIN handled PROVE handled[i].frame.id < n
    <3>1. PICK m \in Nat : m = handled[i].frame.id
      BY <1>3 DEF Frame
    <3>2. CASE m # 0
      <4>1. Heard(c, m)
        BY <2>2, <3>1, <3>2 DEF Heard, Numbered, HeardOnSock
      <4> QED BY <1>2, <2>3, <3>1, <4>1 DEF DownInOrder
    <3> QED BY <1>6, <3>1, <3>2
  <2> QED BY <1>0, <1>4, <2>4, <2>5 DEF Channel!Hear
<1> QED BY <1>5, <1>6

\* What the two ends see of every step.
LEMMA StepsShow ==
  ASSUME Steady, LoopTyped, SteadyInv, KpiInv, FrameOnce, ControlOrder, HeardOnSock,
         [LoopNext]_vars
  PROVE  [Channel!Next]_(Channel!vars)
<1>0. controls \in Nat /\ calls \in Nat
  BY DEF LoopTyped, ClientTypeOK, CoreInv, TypeInv, CountOK
<1>1. CASE UNCHANGED <<calls, delivered, controls, handled>>
  BY <1>1 DEF Channel!vars
<1>2. CASE Client /\ UNCHANGED aiSide
  <2>1. CASE Handle
    BY <1>2, <2>1, HandleIsHear DEF Channel!Next
  <2>2. ASSUME NEW w \in Workers, Begin(w) PROVE Channel!Ask
    BY <1>2, <2>2 DEF Begin, aiSide, Channel!Ask
  <2>3. CASE ~Handle /\ \A w \in Workers : ~Begin(w)
    <3>1. UNCHANGED <<calls, handled>>
      BY <1>2, <2>3, ClientSteps, NothingFails
         DEF WorkerStep, LockCall, SendPart, RecvReply, EnsureStep, EnsureCheck, EnsureConnect,
             Install, Spawn, LoopStep, CopySock, Recheck, Poll, Relock, Recv
    <3> QED BY <1>1, <1>2, <3>1 DEF aiSide
  <2> QED BY <2>1, <2>2, <2>3 DEF Channel!Next
<1>3. CASE (Relay \/ Ai) /\ UNCHANGED client
  <2>0. UNCHANGED <<calls, handled>>
    BY <1>3 DEF client
  <2>1. ASSUME NEW a \in AiConns, AiReads(a) PROVE Channel!Next
    BY <1>3, <2>1, ReadIsRead DEF Channel!Next
  <2>2. ASSUME NEW a \in AiConns, AiControls(a) PROVE Channel!Make
    BY <2>0, <2>2 DEF AiControls, Channel!Make
  <2>3. CASE \A a \in AiConns : ~AiReads(a) /\ ~AiControls(a)
    <3>1. UNCHANGED aiSide
      BY <1>3, <2>3, RelaySteps
         DEF XappThread, Accept, Handler, Register, RecvLen, RecvBody, LockKpi, ForwardKpi,
             LockRequest, ForwardRequest, ReplyLen, ReplyBody, Answer, Deregister, CloseXapp,
             Receiver, AiRecvLen, AiRecvBody, StartBroadcast, Broadcast, ForgetAi, CloseAi,
             ConnectAi, SpawnReceiver, CommandThread, Command, Commander, AiCloses
    <3> QED BY <1>1, <2>0, <3>1 DEF aiSide
  <2> QED BY <2>1, <2>2, <2>3 DEF Channel!Next
<1>4. UNCHANGED vars => UNCHANGED <<calls, delivered, controls, handled>>
  BY DEF vars, xappVars, relayVars, client, aiSide
<1> QED BY <1>1, <1>2, <1>3, <1>4, LoopSteps DEF aiSide

\* While the relay is there and the workers send KPIs only, client and relay with all their
\* threads, sockets and locks implement the channel that joins xApp and AI: nothing is
\* invented, nothing comes twice, and control messages are heard in the AI's order.
THEOREM ControlChannelCorrect == ASSUME Steady, KpiOnly PROVE LoopSpec => IsControlChannel
<1>1. LoopInit => Channel!Init
  BY DEF LoopInit, ClientInit, Init, AiInit, Channel!Init
<1>2. LoopTyped /\ SteadyInv /\ KpiInv /\ FrameOnce /\ ControlOrder /\ HeardOnSock
        /\ [LoopNext]_vars => [Channel!Next]_(Channel!vars)
  BY StepsShow
<1> QED BY <1>1, <1>2, LoopTypedHolds, SteadyHolds, KpiHolds, OnceHolds, ControlHolds, HeardHolds,
           PTL DEF LoopSpec, IsControlChannel, Channel!Spec
=============================================================================
