--------------------------- MODULE AiRelayProofs ---------------------------
(***************************************************************************)
(* Theorems about AiRelay, for any sets of connections and commands, any   *)
(* buffer sizes and bounds, and any choice of faults.                      *)
(***************************************************************************)
EXTENDS AiRelay, FiniteSetTheorems, TLAPS

UpUnit   == [part : {"len", "body"}, id : Nat, kind : {"kpi", "reco"}]
DownUnit == [part : {"len", "body"}, id : Nat, kind : {"control", "other"}]
AiFrame  == [conn : Conns, m : Message]

\* The parts of TypeOK; LinkOK and CountOK add what TypeOK does not say.
LinkOK ==
  /\ cend \in [Conns -> {"none", "open", "closed"}]
  /\ rend \in [Conns -> {"none", "backlog", "open", "closed"}]
  /\ up \in [Conns -> Seq(UpUnit)]

LabelsOf(t) == IF t \in Conns THEN HandlerLabels
               ELSE IF t \in AiConns THEN ReceiverLabels ELSE CommanderLabels

AtOK == DOMAIN at = Threads /\ \A t \in Threads : at[t] \in LabelsOf(t)

SharedOK ==
  /\ lock \in Threads \cup {NoOne}
  /\ xapp_connections \in SUBSET Conns
  /\ ai_connection \in AiConns \cup {NoAi}
  /\ connector \in {"off", "connect", "spawn"}

AiOK ==
  /\ aend \in [AiConns -> {"none", "open", "closed"}]
  /\ xend \in [AiConns -> {"none", "open", "closed"}]
  /\ aup \in [AiConns -> Seq(AiFrame)]
  /\ adown \in [AiConns -> Seq(DownUnit)]

DataOK ==
  /\ msg \in [Threads -> Message]
  /\ reply \in [Conns -> Message]
  /\ todo \in [Threads -> SUBSET Conns]
  /\ forwarded \in [Cmds -> BOOLEAN]
  /\ result \in [Cmds -> {"none", "ok", "error"}]

CountOK == sends \in Nat /\ controls \in Nat

TypeInv == LinkOK /\ AtOK /\ SharedOK /\ AiOK /\ DataOK /\ CountOK

LEMMA KindsDisjoint ==
  /\ \A c \in Conns : c \in Threads /\ c \notin AiConns /\ c \notin Cmds
  /\ \A a \in AiConns : a \in Threads /\ a \notin Conns /\ a \notin Cmds /\ a # NoAi
  /\ \A k \in Cmds : k \in Threads /\ k \notin Conns /\ k \notin AiConns
  /\ \A t \in Threads : t # NoOne /\ t # NoAi
BY RelayAssumption DEF Threads

LEMMA TypeInvType == TypeInv => TypeOK
BY KindsDisjoint
   DEF TypeInv, TypeOK, LinkOK, AtOK, SharedOK, AiOK, DataOK, LabelsOf, AiFrame, DownUnit

\* What a message keeps of the unit it came in.
LEMMA BodyType ==
  /\ \A u \in UpUnit : Body(u) \in Message /\ Body(u).kind \in {"kpi", "reco"}
  /\ \A u \in DownUnit : Body(u) \in Message
  /\ NoAction \in Message
BY DEF UpUnit, DownUnit, Body, Message, NoAction

\* Taking the first element, and appending one.
LEMMA SeqTypes ==
  ASSUME NEW S, NEW q \in Seq(S)
  PROVE  /\ q # <<>> => Head(q) \in S /\ Tail(q) \in Seq(S)
         /\ \A e \in S : Append(q, e) \in Seq(S)
         /\ \A e, f \in S : q \o <<e, f>> \in Seq(S)
OBVIOUS

LEMMA MoveType ==
  ASSUME AtOK, NEW t \in Threads, NEW from, NEW to \in LabelsOf(t), Move(t, from, to)
  PROVE  AtOK' /\ at[t] = from /\ at'[t] = to /\ \A u \in Threads \ {t} : at'[u] = at[u]
BY DEF AtOK, Move

-----------------------------------------------------------------------------
\* The steps by the thread that takes them.
XappThread(c)    == Accept(c) \/ Handler(c)
CommandThread(k) == Command(k) \/ Commander(k)

LEMMA NextCases ==
  ASSUME [Next]_rvars
  PROVE  \/ \E c \in Conns : Own(XappThread(c))
         \/ \E a \in AiConns : Own(Receiver(a))
         \/ Own(ConnectAi) \/ Own(SpawnReceiver)
         \/ \E k \in Cmds : Own(CommandThread(k))
         \/ \E a \in AiConns : Own(AiReads(a) \/ AiControls(a) \/ AiCloses(a))
         \/ \E c \in Conns : XConnect(c) \/ XSend(c) \/ XRead(c) \/ XClose(c)
         \/ UNCHANGED rvars
BY DEF Next, Own, Relay, Ai, Xapps, XappThread, CommandThread

\* Where each kind of thread goes, and that it moves no other.
LEMMA HandlerGoes ==
  ASSUME AtOK, NEW c \in Conns, XappThread(c)
  PROVE  AtOK' /\ \A u \in Threads \ {c} : at'[u] = at[u]
<1>1. c \in Threads /\ LabelsOf(c) = HandlerLabels
  BY KindsDisjoint DEF LabelsOf
<1>2. PICK to \in HandlerLabels : at' = [at EXCEPT ![c] = to]
  <2>1. CASE Accept(c) \/ Register(c) \/ LockKpi(c) \/ ForwardKpi(c) \/ LockRequest(c)
    BY <2>1 DEF Accept, Register, LockKpi, ForwardKpi, LockRequest, Move, HandlerLabels
  <2>2. CASE RecvLen(c)
    BY <2>2 DEF RecvLen, Move, HandlerLabels
  <2>3. CASE RecvBody(c)
    BY <2>3 DEF RecvBody, Move, HandlerLabels
  <2>4. CASE ForwardRequest(c)
    BY <2>4 DEF ForwardRequest, Move, HandlerLabels
  <2>5. CASE ReplyLen(c)
    BY <2>5 DEF ReplyLen, Move, HandlerLabels
  <2>6. CASE ReplyBody(c) \/ Answer(c) \/ Deregister(c) \/ CloseXapp(c)
    BY <2>6 DEF ReplyBody, Answer, Deregister, CloseXapp, Move, HandlerLabels
  <2> QED BY <2>1, <2>2, <2>3, <2>4, <2>5, <2>6 DEF XappThread, Handler
<1> QED BY <1>1, <1>2 DEF AtOK

LEMMA ReceiverGoes ==
  ASSUME AtOK, NEW a \in AiConns, Receiver(a)
  PROVE  AtOK' /\ \A u \in Threads \ {a} : at'[u] = at[u]
<1>1. a \in Threads /\ LabelsOf(a) = ReceiverLabels /\ AfterBroadcast(a) = "len"
  BY KindsDisjoint DEF LabelsOf, AfterBroadcast
<1>2. PICK to \in ReceiverLabels : at' = [at EXCEPT ![a] = to] \/ at' = at
  <2>1. CASE AiRecvLen(a)
    BY <2>1 DEF AiRecvLen, Move, ReceiverLabels
  <2>2. CASE AiRecvBody(a)
    BY <2>2 DEF AiRecvBody, Move, ReceiverLabels
  <2>3. CASE StartBroadcast(a)
    BY <1>1, <2>3 DEF StartBroadcast, Move, ReceiverLabels
  <2>4. CASE Broadcast(a)
    BY <1>1, <2>4 DEF Broadcast, Move, ReceiverLabels
  <2>5. CASE ForgetAi(a) \/ CloseAi(a)
    BY <2>5 DEF ForgetAi, CloseAi, Move, ReceiverLabels
  <2> QED BY <2>1, <2>2, <2>3, <2>4, <2>5 DEF Receiver
<1> QED BY <1>1, <1>2 DEF AtOK

LEMMA CommandGoes ==
  ASSUME AtOK, NEW k \in Cmds, CommandThread(k)
  PROVE  AtOK' /\ \A u \in Threads \ {k} : at'[u] = at[u]
<1>1. k \in Threads /\ LabelsOf(k) = CommanderLabels /\ AfterBroadcast(k) = "done"
  BY KindsDisjoint DEF LabelsOf, AfterBroadcast
<1>2. PICK to \in CommanderLabels : at' = [at EXCEPT ![k] = to] \/ at' = at
  <2>1. CASE Command(k)
    BY <2>1 DEF Command, Move, CommanderLabels
  <2>2. CASE StartBroadcast(k)
    BY <1>1, <2>2 DEF StartBroadcast, Move, CommanderLabels
  <2>3. CASE Broadcast(k)
    BY <1>1, <2>3 DEF Broadcast, Move, CommanderLabels
  <2> QED BY <2>1, <2>2, <2>3 DEF CommandThread, Commander
<1> QED BY <1>1, <1>2 DEF AtOK

LEMMA AtTyped == ASSUME TypeInv, [Next]_rvars PROVE AtOK'
<1>0. AtOK /\ SharedOK
  BY DEF TypeInv
<1>1. ASSUME Own(ConnectAi) PROVE AtOK'
  BY <1>0, <1>1 DEF Own, ConnectAi, AtOK
<1>2. ASSUME Own(SpawnReceiver) PROVE AtOK'
  <2>1. ai_connection \notin Threads \/ ai_connection \in AiConns
    BY <1>0, KindsDisjoint DEF SharedOK
  <2> QED
    BY <1>0, <1>2, <2>1, KindsDisjoint DEF Own, SpawnReceiver, AtOK, LabelsOf, ReceiverLabels
<1>3. ASSUME NEW a \in AiConns, Own(AiReads(a) \/ AiControls(a) \/ AiCloses(a)) PROVE AtOK'
  BY <1>0, <1>3 DEF Own, AiReads, AiControls, AiCloses, AtOK
<1>4. ASSUME NEW c \in Conns, XConnect(c) \/ XSend(c) \/ XRead(c) \/ XClose(c) PROVE AtOK'
  BY <1>0, <1>4 DEF XConnect, XSend, XRead, XClose, relay, AtOK
<1>5. CASE UNCHANGED rvars
  BY <1>0, <1>5 DEF rvars, relay, AtOK
<1> QED
  BY <1>0, <1>1, <1>2, <1>3, <1>4, <1>5, NextCases, HandlerGoes, ReceiverGoes, CommandGoes
     DEF Own

-----------------------------------------------------------------------------
\* While a handler waits for the AI's answer there is an AI connection: it holds
\* the lock, without which nothing forgets the connection.
WaitInv ==
  \A c \in Conns : at[c] \in {"reply_len", "reply_body"} => ai_connection \in AiConns

\* Each part of TypeInv, by the steps that touch it.
LEMMA LinkTyped == ASSUME TypeInv, [Next]_rvars PROVE LinkOK'
<1>0. LinkOK /\ CountOK
  BY DEF TypeInv
<1>1. ASSUME NEW c \in Conns, Own(XappThread(c)) PROVE LinkOK'
  <2>1. CASE Accept(c)
    BY <1>0, <2>1 DEF Accept, LinkOK
  <2>2. CASE RecvLen(c) \/ RecvBody(c)
    <3>1. UNCHANGED <<cend, rend>> /\ (UNCHANGED up \/ (up[c] # <<>> /\
                                       up' = [up EXCEPT ![c] = Tail(@)]))
      BY <2>2 DEF RecvLen, RecvBody
    <3>2. up[c] # <<>> => Tail(up[c]) \in Seq(UpUnit)
      BY <1>0, SeqTypes DEF LinkOK
    <3> QED BY <1>0, <3>1, <3>2 DEF LinkOK
  <2>3. CASE CloseXapp(c)
    BY <1>0, <2>3 DEF CloseXapp, LinkOK
  <2>4. CASE Register(c) \/ LockKpi(c) \/ ForwardKpi(c) \/ LockRequest(c)
             \/ ForwardRequest(c) \/ ReplyLen(c) \/ ReplyBody(c) \/ Answer(c)
             \/ Deregister(c)
    BY <1>0, <2>4
       DEF Register, LockKpi, ForwardKpi, LockRequest, ForwardRequest, ReplyLen,
           ReplyBody, Answer, Deregister, link, LinkOK
  <2> QED BY <1>1, <2>1, <2>2, <2>3, <2>4 DEF Own, XappThread, Handler
<1>2. ASSUME NEW c \in Conns, XConnect(c) PROVE LinkOK'
  BY <1>0, <1>2 DEF XConnect, Connect, LinkOK
<1>3. ASSUME NEW c \in Conns, XSend(c) PROVE LinkOK'
  <2>1. sends' \in Nat
    BY <1>0, <1>3 DEF XSend, CountOK
  <2>2. ASSUME NEW k \in XKinds
        PROVE  /\ [part |-> "len", id |-> sends', kind |-> k] \in UpUnit
               /\ [part |-> "body", id |-> sends', kind |-> k] \in UpUnit
    BY <2>1, RelayAssumption DEF UpUnit
  <2>3. PICK u \in UpUnit : \E v \in UpUnit :
            up' = [up EXCEPT ![c] = @ \o <<u, v>>] \/ up' = [up EXCEPT ![c] = Append(@, u)]
    <3>1. PICK k \in XKinds :
            LET units == << [part |-> "len", id |-> sends', kind |-> k],
                            [part |-> "body", id |-> sends', kind |-> k] >>
            IN \/ up' = [up EXCEPT ![c] = @ \o units]
               \/ \E i \in 1..2 : up' = [up EXCEPT ![c] = Append(@, units[i])]
      BY <1>3 DEF XSend
    <3> DEFINE u == [part |-> "len", id |-> sends', kind |-> k]
               v == [part |-> "body", id |-> sends', kind |-> k]
    <3>2. u \in UpUnit /\ v \in UpUnit
      BY <2>2
    <3>3. \/ up' = [up EXCEPT ![c] = @ \o <<u, v>>]
          \/ up' = [up EXCEPT ![c] = Append(@, u)]
          \/ up' = [up EXCEPT ![c] = Append(@, v)]
      BY <3>1
    <3> HIDE DEF u, v
    <3> QED BY <3>2, <3>3
  <2>4. UNCHANGED <<cend, rend>>
    BY <1>3 DEF XSend
  <2>5. \A v \in UpUnit : up[c] \o <<u, v>> \in Seq(UpUnit) /\ Append(up[c], u) \in Seq(UpUnit)
    BY <1>0, SeqTypes DEF LinkOK
  <2> QED BY <1>0, <2>3, <2>4, <2>5 DEF LinkOK
<1>4. ASSUME NEW c \in Conns, XRead(c) \/ XClose(c) PROVE LinkOK'
  BY <1>0, <1>4 DEF XRead, XClose, LinkOK
<1>5. ASSUME UNCHANGED <<cend, rend, up>> PROVE LinkOK'
  BY <1>0, <1>5 DEF LinkOK
<1>6. ASSUME NEW a \in AiConns, Receiver(a) PROVE UNCHANGED <<cend, rend, up>>
  BY <1>6 DEF Receiver, AiRecvLen, AiRecvBody, StartBroadcast, Broadcast, ForgetAi, CloseAi,
              link
<1>7. ASSUME NEW k \in Cmds, CommandThread(k) PROVE UNCHANGED <<cend, rend, up>>
  BY <1>7 DEF CommandThread, Command, Commander, StartBroadcast, Broadcast, link
<1>8. ASSUME NEW a \in AiConns, AiReads(a) \/ AiControls(a) \/ AiCloses(a)
      PROVE  UNCHANGED <<cend, rend, up>>
  BY <1>8 DEF AiReads, AiControls, AiCloses, link
<1>9. ASSUME ConnectAi \/ SpawnReceiver \/ UNCHANGED rvars PROVE UNCHANGED <<cend, rend, up>>
  BY <1>9 DEF ConnectAi, SpawnReceiver, rvars, link
<1> QED BY <1>1, <1>2, <1>3, <1>4, <1>5, <1>6, <1>7, <1>8, <1>9, NextCases DEF Own

LEMMA SharedTyped == ASSUME TypeInv, [Next]_rvars PROVE SharedOK'
<1>0. SharedOK
  BY DEF TypeInv
<1>1. ASSUME NEW c \in Conns, XappThread(c) PROVE SharedOK'
  <2>1. c \in Threads
    BY KindsDisjoint
  <2> QED
    BY <1>0, <1>1, <2>1
       DEF XappThread, Accept, Handler, Register, RecvLen, RecvBody, LockKpi, ForwardKpi,
           LockRequest, ForwardRequest, ReplyLen, ReplyBody, Answer, Deregister, CloseXapp,
           Acquire, Release, shared, SharedOK
<1>2. ASSUME NEW a \in AiConns, Receiver(a) PROVE SharedOK'
  <2>1. a \in Threads
    BY KindsDisjoint
  <2> QED
    BY <1>0, <1>2, <2>1
       DEF Receiver, AiRecvLen, AiRecvBody, StartBroadcast, Broadcast, ForgetAi, CloseAi,
           Release, shared, SharedOK
<1>3. ASSUME NEW k \in Cmds, CommandThread(k) PROVE SharedOK'
  <2>1. k \in Threads
    BY KindsDisjoint
  <2> QED
    BY <1>0, <1>3, <2>1
       DEF CommandThread, Command, Commander, StartBroadcast, Broadcast, Release, shared,
           SharedOK
<1>4. ASSUME ConnectAi \/ SpawnReceiver PROVE SharedOK'
  BY <1>0, <1>4 DEF ConnectAi, SpawnReceiver, shared, SharedOK
<1>5. ASSUME NEW a \in AiConns, AiReads(a) \/ AiControls(a) \/ AiCloses(a) PROVE SharedOK'
  BY <1>0, <1>5 DEF AiReads, AiControls, AiCloses, shared, SharedOK
<1>6. ASSUME NEW c \in Conns, XConnect(c) \/ XSend(c) \/ XRead(c) \/ XClose(c)
      PROVE  SharedOK'
  BY <1>0, <1>6 DEF XConnect, XSend, XRead, XClose, relay, shared, SharedOK
<1>7. ASSUME UNCHANGED rvars PROVE SharedOK'
  BY <1>0, <1>7 DEF rvars, relay, shared, SharedOK
<1> QED BY <1>1, <1>2, <1>3, <1>4, <1>5, <1>6, <1>7, NextCases DEF Own

\* SendToAi appends a frame to the AI's stream, or nothing.
LEMMA SendToAiType ==
  ASSUME AiOK, ai_connection \in AiConns, NEW f \in AiFrame, SendToAi(f)
  PROVE  aup' \in [AiConns -> Seq(AiFrame)]
<1>1. Append(aup[ai_connection], f) \in Seq(AiFrame)
  BY SeqTypes DEF AiOK
<1> QED BY <1>1 DEF AiOK, SendToAi

LEMMA AiSendsType ==
  ASSUME AiOK, NEW a \in AiConns, NEW id \in Nat, NEW kind \in {"control", "other"},
         AiSends(a, [id |-> id, kind |-> kind])
  PROVE  adown' \in [AiConns -> Seq(DownUnit)]
<1> DEFINE m == [id |-> id, kind |-> kind]
           u == AiUnit("len", m)
           v == AiUnit("body", m)
<1>1. u \in DownUnit /\ v \in DownUnit
  BY DEF AiUnit, DownUnit
<1>2. adown' = [adown EXCEPT ![a] = @ \o <<u, v>>]
  BY DEF AiSends
<1> HIDE DEF u, v
<1>3. adown[a] \o <<u, v>> \in Seq(DownUnit)
  BY <1>1, SeqTypes DEF AiOK
<1> QED BY <1>2, <1>3 DEF AiOK

\* Reading a unit from the AI's stream, or nothing.
LEMMA ReadAiType ==
  ASSUME AiOK, NEW a \in AiConns,
         \/ adown[a] # <<>> /\ adown' = [adown EXCEPT ![a] = Tail(@)]
         \/ UNCHANGED adown
  PROVE  adown' \in [AiConns -> Seq(DownUnit)]
<1>1. adown[a] # <<>> => Tail(adown[a]) \in Seq(DownUnit)
  BY SeqTypes DEF AiOK
<1> QED BY <1>1 DEF AiOK

LEMMA AiTyped == ASSUME TypeInv, WaitInv, [Next]_rvars PROVE AiOK'
<1>0. AiOK /\ DataOK /\ SharedOK /\ CountOK
  BY DEF TypeInv
<1>1. ASSUME NEW c \in Conns, XappThread(c) PROVE AiOK'
  <2>1. CASE ForwardKpi(c) \/ ForwardRequest(c)
    <3>1. /\ UNCHANGED <<aend, xend, adown>>
          /\ \/ UNCHANGED aup
             \/ ai_connection # NoAi /\ SendToAi([conn |-> c, m |-> msg[c]])
      BY <2>1 DEF ForwardKpi, ForwardRequest
    <3>2. [conn |-> c, m |-> msg[c]] \in AiFrame
      BY <1>0, KindsDisjoint DEF DataOK, AiFrame
    <3>3. ai_connection # NoAi => ai_connection \in AiConns
      BY <1>0 DEF SharedOK
    <3>4. aup' \in [AiConns -> Seq(AiFrame)]
      BY <1>0, <3>1, <3>2, <3>3, SendToAiType DEF AiOK
    <3> QED BY <1>0, <3>1, <3>4 DEF AiOK
  <2>2. CASE ReplyLen(c) \/ ReplyBody(c)
    <3>1. ai_connection \in AiConns
      BY <2>2 DEF WaitInv, ReplyLen, ReplyBody, Move
    <3>2. /\ UNCHANGED <<aend, xend, aup>>
          /\ \/ /\ adown[ai_connection] # <<>>
                /\ adown' = [adown EXCEPT ![ai_connection] = Tail(@)]
             \/ UNCHANGED adown
      BY <2>2 DEF ReplyLen, ReplyBody
    <3>3. adown' \in [AiConns -> Seq(DownUnit)]
      BY <1>0, <3>1, <3>2, ReadAiType
    <3> QED BY <1>0, <3>2, <3>3 DEF AiOK
  <2>3. CASE Accept(c) \/ Register(c) \/ RecvLen(c) \/ RecvBody(c) \/ LockKpi(c)
             \/ LockRequest(c) \/ Answer(c) \/ Deregister(c) \/ CloseXapp(c)
    BY <1>0, <2>3
       DEF Accept, Register, RecvLen, RecvBody, LockKpi, LockRequest, Answer, Deregister,
           CloseXapp, aiLink, AiOK
  <2> QED BY <1>1, <2>1, <2>2, <2>3 DEF XappThread, Handler
<1>2. ASSUME NEW a \in AiConns, Receiver(a) PROVE AiOK'
  <2>1. CASE AiRecvLen(a) \/ AiRecvBody(a)
    <3>1. /\ UNCHANGED <<aend, xend, aup>>
          /\ \/ adown[a] # <<>> /\ adown' = [adown EXCEPT ![a] = Tail(@)]
             \/ UNCHANGED adown
      BY <2>1 DEF AiRecvLen, AiRecvBody
    <3>2. adown' \in [AiConns -> Seq(DownUnit)]
      BY <1>0, <3>1, ReadAiType
    <3> QED BY <1>0, <3>1, <3>2 DEF AiOK
  <2>2. CASE StartBroadcast(a) \/ Broadcast(a) \/ ForgetAi(a)
    BY <1>0, <2>2 DEF StartBroadcast, Broadcast, ForgetAi, aiLink, AiOK
  <2>3. CASE CloseAi(a)
    BY <1>0, <2>3 DEF CloseAi, AiOK
  <2> QED BY <1>2, <2>1, <2>2, <2>3 DEF Receiver
<1>3. ASSUME NEW k \in Cmds, CommandThread(k) PROVE AiOK'
  BY <1>0, <1>3 DEF CommandThread, Command, Commander, StartBroadcast, Broadcast, aiLink, AiOK
<1>4. ASSUME ConnectAi \/ SpawnReceiver PROVE AiOK'
  BY <1>0, <1>4 DEF ConnectAi, SpawnReceiver, aiLink, AiOK
<1>5. ASSUME NEW a \in AiConns, AiReads(a) PROVE AiOK'
  <2>1. aup[a] # <<>> /\ aup' = [aup EXCEPT ![a] = Tail(@)] /\ UNCHANGED <<aend, xend>>
    BY <1>5 DEF AiReads
  <2>2. Head(aup[a]) \in AiFrame /\ Tail(aup[a]) \in Seq(AiFrame)
    BY <1>0, <2>1, SeqTypes DEF AiOK
  <2>3. Head(aup[a]).m.id \in Nat
    BY <2>2 DEF AiFrame, Message
  <2>4. adown' \in [AiConns -> Seq(DownUnit)]
    <3>1. CASE AiSends(a, [id |-> Head(aup[a]).m.id, kind |-> "other"])
      BY <1>0, <2>3, <3>1, AiSendsType
    <3>2. CASE UNCHANGED adown
      BY <1>0, <3>2 DEF AiOK
    <3> QED BY <1>5, <3>1, <3>2 DEF AiReads
  <2> QED BY <1>0, <2>1, <2>2, <2>4 DEF AiOK
<1>6. ASSUME NEW a \in AiConns, AiControls(a) PROVE AiOK'
  <2>1. controls + 1 \in Nat
    BY <1>0 DEF CountOK
  <2>2. /\ AiSends(a, [id |-> controls + 1, kind |-> "control"])
        /\ UNCHANGED <<aend, xend, aup>>
    BY <1>6 DEF AiControls
  <2>3. adown' \in [AiConns -> Seq(DownUnit)]
    BY <1>0, <2>1, <2>2, AiSendsType
  <2> QED BY <1>0, <2>2, <2>3 DEF AiOK
<1>7. ASSUME NEW a \in AiConns, AiCloses(a) PROVE AiOK'
  BY <1>0, <1>7 DEF AiCloses, AiOK
<1>8. ASSUME NEW c \in Conns, XConnect(c) \/ XSend(c) \/ XRead(c) \/ XClose(c) PROVE AiOK'
  BY <1>0, <1>8 DEF XConnect, XSend, XRead, XClose, relay, aiLink, AiOK
<1>9. ASSUME UNCHANGED rvars PROVE AiOK'
  BY <1>0, <1>9 DEF rvars, relay, aiLink, AiOK
<1> QED BY <1>1, <1>2, <1>3, <1>4, <1>5, <1>6, <1>7, <1>8, <1>9, NextCases DEF Own

LEMMA DataTyped == ASSUME TypeInv, WaitInv, [Next]_rvars PROVE DataOK'
<1>0. DataOK /\ AiOK /\ SharedOK /\ LinkOK
  BY DEF TypeInv
<1>1. ASSUME NEW c \in Conns, XappThread(c) PROVE DataOK'
  <2>1. CASE RecvBody(c)
    <3>1. up[c] # <<>> => Body(Head(up[c])) \in Message
      BY <1>0, SeqTypes, BodyType DEF LinkOK
    <3>2. \/ up[c] # <<>> /\ msg' = [msg EXCEPT ![c] = Body(Head(up[c]))]
          \/ UNCHANGED msg
      BY <2>1 DEF RecvBody
    <3>3. UNCHANGED <<reply, todo, forwarded, result>>
      BY <2>1 DEF RecvBody
    <3> QED BY <1>0, <3>1, <3>2, <3>3 DEF DataOK
  <2>2. CASE ForwardRequest(c) \/ ReplyLen(c)
    <3>1. UNCHANGED reply \/ reply' = [reply EXCEPT ![c] = NoAction]
      BY <2>2 DEF ForwardRequest, ReplyLen
    <3>2. UNCHANGED <<msg, todo, forwarded, result>>
      BY <2>2 DEF ForwardRequest, ReplyLen
    <3> QED BY <1>0, <3>1, <3>2, BodyType DEF DataOK
  <2>3. CASE ReplyBody(c)
    <3>1. ai_connection \in AiConns
      BY <2>3 DEF WaitInv, ReplyBody, Move
    <3>2. adown[ai_connection] # <<>> => Body(Head(adown[ai_connection])) \in Message
      BY <1>0, <3>1, SeqTypes, BodyType DEF AiOK
    <3>3. \/ reply' = [reply EXCEPT ![c] = NoAction]
          \/ /\ adown[ai_connection] # <<>>
             /\ reply' = [reply EXCEPT ![c] = Body(Head(adown[ai_connection]))]
      BY <2>3 DEF ReplyBody
    <3>4. UNCHANGED <<msg, todo, forwarded, result>>
      BY <2>3 DEF ReplyBody
    <3> QED BY <1>0, <3>2, <3>3, <3>4, BodyType DEF DataOK
  <2>4. CASE Accept(c) \/ Register(c) \/ RecvLen(c) \/ LockKpi(c) \/ ForwardKpi(c)
             \/ LockRequest(c) \/ Answer(c) \/ Deregister(c) \/ CloseXapp(c)
    BY <1>0, <2>4
       DEF Accept, Register, RecvLen, LockKpi, ForwardKpi, LockRequest, Answer, Deregister,
           CloseXapp, DataOK
  <2> QED BY <1>1, <2>1, <2>2, <2>3, <2>4 DEF XappThread, Handler
<1>2. ASSUME NEW t \in AiConns \cup Cmds, StartBroadcast(t) \/ Broadcast(t) PROVE DataOK'
  <2>1. CASE StartBroadcast(t)
    BY <1>0, <2>1 DEF StartBroadcast, DataOK, SharedOK
  <2>2. CASE Broadcast(t)
    <3>1. todo' \in [Threads -> SUBSET Conns]
      BY <1>0, <2>2 DEF Broadcast, DataOK
    <3>2. forwarded' \in [Cmds -> BOOLEAN]
      BY <1>0, <2>2 DEF Broadcast, DataOK
    <3>3. result' \in [Cmds -> {"none", "ok", "error"}]
      BY <1>0, <2>2 DEF Broadcast, DataOK
    <3>4. UNCHANGED <<msg, reply>>
      BY <2>2 DEF Broadcast
    <3> QED BY <1>0, <3>1, <3>2, <3>3, <3>4 DEF DataOK
  <2> QED BY <1>2, <2>1, <2>2
<1>3. ASSUME NEW a \in AiConns, Receiver(a) PROVE DataOK'
  <2>1. CASE AiRecvBody(a)
    <3>1. \/ adown[a] # <<>> /\ msg' = [msg EXCEPT ![a] = Body(Head(adown[a]))]
          \/ UNCHANGED msg
      BY <2>1 DEF AiRecvBody
    <3>2. adown[a] # <<>> => Body(Head(adown[a])) \in Message
      BY <1>0, SeqTypes, BodyType DEF AiOK
    <3>3. UNCHANGED <<reply, todo, forwarded, result>>
      BY <2>1 DEF AiRecvBody
    <3> QED BY <1>0, <3>1, <3>2, <3>3 DEF DataOK
  <2>2. CASE AiRecvLen(a) \/ ForgetAi(a) \/ CloseAi(a)
    BY <1>0, <2>2 DEF AiRecvLen, ForgetAi, CloseAi, DataOK
  <2> QED BY <1>2, <1>3, <2>1, <2>2 DEF Receiver
<1>4. ASSUME NEW k \in Cmds, Command(k) PROVE DataOK'
  <2>1. [id |-> 0, kind |-> "control"] \in Message
    BY DEF Message
  <2> QED BY <1>0, <1>4, <2>1 DEF Command, DataOK
<1>5. ASSUME ConnectAi \/ SpawnReceiver PROVE DataOK'
  BY <1>0, <1>5 DEF ConnectAi, SpawnReceiver, DataOK
<1>6. ASSUME NEW a \in AiConns, AiReads(a) \/ AiControls(a) \/ AiCloses(a) PROVE DataOK'
  BY <1>0, <1>6 DEF AiReads, AiControls, AiCloses, DataOK
<1>7. ASSUME NEW c \in Conns, XConnect(c) \/ XSend(c) \/ XRead(c) \/ XClose(c) PROVE DataOK'
  BY <1>0, <1>7 DEF XConnect, XSend, XRead, XClose, relay, DataOK
<1>8. ASSUME UNCHANGED rvars PROVE DataOK'
  BY <1>0, <1>8 DEF rvars, relay, DataOK
<1> QED
  BY <1>1, <1>2, <1>3, <1>4, <1>5, <1>6, <1>7, <1>8, NextCases
     DEF Own, CommandThread, Commander

LEMMA CountTyped == ASSUME TypeInv, [Next]_rvars PROVE CountOK'
<1>0. CountOK
  BY DEF TypeInv
<1>1. ASSUME NEW a \in AiConns, AiReads(a) \/ AiControls(a) \/ AiCloses(a)
      PROVE  UNCHANGED controls \/ controls' = controls + 1
  BY <1>1 DEF AiReads, AiControls, AiCloses, aiSide
<1>2. ASSUME NEW c \in Conns, XConnect(c) \/ XSend(c) \/ XRead(c) \/ XClose(c)
      PROVE  UNCHANGED controls /\ (UNCHANGED sends \/ sends' = sends + 1)
  BY <1>2 DEF XConnect, XSend, XRead, XClose, aiSide
<1>3. ASSUME NEW c \in Conns, XappThread(c) PROVE UNCHANGED controls
  BY <1>3 DEF XappThread, Accept, Handler, Register, RecvLen, RecvBody, LockKpi, ForwardKpi,
              LockRequest, ForwardRequest, ReplyLen, ReplyBody, Answer, Deregister, CloseXapp,
              aiSide
<1>4. ASSUME NEW a \in AiConns, Receiver(a) PROVE UNCHANGED controls
  BY <1>4 DEF Receiver, AiRecvLen, AiRecvBody, StartBroadcast, Broadcast, ForgetAi, CloseAi,
              aiSide
<1>5. ASSUME NEW k \in Cmds, CommandThread(k) PROVE UNCHANGED controls
  BY <1>5 DEF CommandThread, Command, Commander, StartBroadcast, Broadcast, aiSide
<1>6. ASSUME ConnectAi \/ SpawnReceiver PROVE UNCHANGED controls
  BY <1>6 DEF ConnectAi, SpawnReceiver, aiSide
<1>7. ASSUME UNCHANGED rvars PROVE UNCHANGED <<controls, sends>>
  BY <1>7 DEF rvars, aiSide
<1>8. /\ UNCHANGED controls \/ controls' = controls + 1
      /\ UNCHANGED sends \/ sends' = sends + 1
  BY <1>1, <1>2, <1>3, <1>4, <1>5, <1>6, <1>7, NextCases DEF Own
<1> QED BY <1>0, <1>8 DEF CountOK

-----------------------------------------------------------------------------
\* The life of the AI connections: one thread connects or one receives; while a
\* new connection's receiver has not started, its thread is new; ai_connection
\* is the receiver's socket until the receiver forgets it, and is open.
LiveAt(a) == at[a] \notin {"none", "done"}

ConnInv ==
  /\ connector = "spawn" => ai_connection # NoAi /\ at[ai_connection] = "none"
  /\ connector = "connect" => ai_connection = NoAi
  /\ connector # "off" => \A a \in AiConns : ~LiveAt(a)
  /\ \A a, b \in AiConns : LiveAt(a) /\ LiveAt(b) => a = b
  /\ \A a \in AiConns : aend[a] = "none" => at[a] = "none"
  /\ \A a \in AiConns : LiveAt(a) => ai_connection = IF at[a] = "close" THEN NoAi ELSE a
  /\ ai_connection # NoAi => aend[ai_connection] = "open"

\* What one thread's step does to the lock.
LockKeptBy(t) ==
  /\ at'[t] \in Holding <=> lock' = t
  /\ \A u \in Threads \ {t} : lock' = u <=> lock = u

LEMMA LockKept ==
  ASSUME TypeInv, LockDiscipline, ConnInv, [Next]_rvars
  PROVE  LockDiscipline'
<1>0. AtOK /\ SharedOK
  BY DEF TypeInv
<1>1. ASSUME NEW t \in Threads, LockKeptBy(t), \A u \in Threads \ {t} : at'[u] = at[u]
      PROVE  LockDiscipline'
  BY <1>1 DEF LockKeptBy, LockDiscipline
<1>2. ASSUME NEW c \in Conns, XappThread(c) PROVE LockDiscipline'
  <2>0. c \in Threads /\ c # NoOne
    BY KindsDisjoint
  <2>1. CASE Accept(c) \/ Register(c) \/ Deregister(c) \/ CloseXapp(c)
    BY <1>0, <2>0, <2>1, KindsDisjoint
       DEF Accept, Register, Deregister, CloseXapp, Move, shared, LockKeptBy,
           LockDiscipline, Holding, AtOK
  <2>2. CASE RecvLen(c) \/ RecvBody(c)
    <3>1. PICK to \in {"body", "final", "lock_kpi", "lock_req"} : at' = [at EXCEPT ![c] = to]
      BY <2>2 DEF RecvLen, RecvBody, Move
    <3>2. UNCHANGED lock /\ at[c] \in {"len", "body"}
      BY <2>2 DEF RecvLen, RecvBody, shared
    <3> QED BY <1>0, <2>0, <3>1, <3>2 DEF LockKeptBy, LockDiscipline, Holding, AtOK
  <2>3. CASE LockKpi(c) \/ LockRequest(c)
    <3>1. PICK to \in {"fwd_kpi", "fwd_req"} : at' = [at EXCEPT ![c] = to]
      BY <2>3 DEF LockKpi, LockRequest, Move
    <3>2. lock = NoOne /\ lock' = c
      BY <2>3 DEF LockKpi, LockRequest, Acquire
    <3> QED BY <1>0, <2>0, <3>1, <3>2, KindsDisjoint
            DEF LockKeptBy, LockDiscipline, Holding, AtOK
  <2>4. CASE ForwardKpi(c) \/ Answer(c)
    <3>1. at' = [at EXCEPT ![c] = "len"] /\ lock = c /\ lock' = NoOne
      BY <2>4 DEF ForwardKpi, Answer, Move, Release
    <3> QED BY <1>0, <2>0, <3>1, KindsDisjoint DEF LockKeptBy, LockDiscipline, Holding, AtOK
  <2>5. CASE ForwardRequest(c) \/ ReplyLen(c) \/ ReplyBody(c)
    <3>1. PICK to \in {"reply", "reply_len", "reply_body"} : at' = [at EXCEPT ![c] = to]
      <4>1. CASE ForwardRequest(c)
        BY <4>1 DEF ForwardRequest, Move
      <4>2. CASE ReplyLen(c)
        BY <4>2 DEF ReplyLen, Move
      <4>3. CASE ReplyBody(c)
        BY <4>3 DEF ReplyBody, Move
      <4> QED BY <2>5, <4>1, <4>2, <4>3
    <3>2. UNCHANGED lock /\ at[c] \in {"fwd_req", "reply_len", "reply_body"}
      BY <2>5 DEF ForwardRequest, ReplyLen, ReplyBody, Move, shared
    <3> QED BY <1>0, <2>0, <3>1, <3>2 DEF LockKeptBy, LockDiscipline, Holding, AtOK
  <2> QED BY <1>2, <2>1, <2>2, <2>3, <2>4, <2>5 DEF XappThread, Handler
<1>3. ASSUME NEW t \in AiConns \cup Cmds, StartBroadcast(t) \/ Broadcast(t)
      PROVE  LockDiscipline'
  <2>0. t \in Threads /\ t # NoOne /\ AfterBroadcast(t) \in {"len", "done"}
    BY KindsDisjoint DEF AfterBroadcast
  <2>1. CASE StartBroadcast(t)
    <3>1. PICK to \in {"broadcast", "len", "done"} :
            /\ at' = [at EXCEPT ![t] = to] /\ lock = NoOne
            /\ lock' = IF to = "broadcast" THEN t ELSE lock
      BY <2>0, <2>1 DEF StartBroadcast, Move
    <3> QED BY <1>0, <2>0, <3>1, KindsDisjoint DEF LockKeptBy, LockDiscipline, Holding, AtOK
  <2>2. CASE Broadcast(t)
    <3>1. \/ UNCHANGED <<at, lock>>
          \/ /\ \E to \in {"len", "done"} : at' = [at EXCEPT ![t] = to]
             /\ lock = t /\ lock' = NoOne
      BY <2>0, <2>2 DEF Broadcast, Move, Release
    <3> QED BY <1>0, <2>0, <3>1, KindsDisjoint DEF LockKeptBy, LockDiscipline, Holding, AtOK
  <2> QED BY <1>3, <2>1, <2>2
<1>4. ASSUME NEW a \in AiConns, Receiver(a) PROVE LockDiscipline'
  <2>0. a \in Threads /\ a # NoOne
    BY KindsDisjoint
  <2>1. CASE AiRecvLen(a) \/ AiRecvBody(a) \/ ForgetAi(a) \/ CloseAi(a)
    <3>1. PICK to \in {"body", "final", "wait", "len", "close", "done"} :
             at' = [at EXCEPT ![a] = to]
      BY <2>1 DEF AiRecvLen, AiRecvBody, ForgetAi, CloseAi, Move
    <3>2. UNCHANGED lock /\ at[a] \in {"len", "body", "final", "close"}
      BY <2>1 DEF AiRecvLen, AiRecvBody, ForgetAi, CloseAi, Move, shared
    <3> QED BY <1>0, <2>0, <3>1, <3>2 DEF LockKeptBy, LockDiscipline, Holding, AtOK
  <2> QED BY <1>3, <1>4, <2>1 DEF Receiver
<1>5. ASSUME NEW k \in Cmds, Command(k) PROVE LockDiscipline'
  <2>0. k \in Threads /\ k # NoOne
    BY KindsDisjoint
  <2>1. PICK to \in {"wait", "done"} : at' = [at EXCEPT ![k] = to]
    BY <1>5 DEF Command, Move
  <2>2. UNCHANGED lock /\ at[k] = "idle"
    BY <1>5 DEF Command, Move, shared
  <2> QED BY <1>0, <2>0, <2>1, <2>2 DEF LockKeptBy, LockDiscipline, Holding, AtOK
<1>6. ASSUME SpawnReceiver PROVE LockDiscipline'
  <2>1. /\ at' = [at EXCEPT ![ai_connection] = "len"] /\ UNCHANGED lock
        /\ at[ai_connection] = "none"
    BY <1>6 DEF SpawnReceiver, ConnInv, shared
  <2> QED BY <1>0, <2>1 DEF LockDiscipline, Holding, AtOK
<1>7. ASSUME UNCHANGED <<at, lock>> PROVE LockDiscipline'
  BY <1>7 DEF LockDiscipline
<1>8. ASSUME NEW a \in AiConns, AiReads(a) \/ AiControls(a) \/ AiCloses(a)
      PROVE  UNCHANGED <<at, lock>>
  BY <1>8 DEF AiReads, AiControls, AiCloses, shared
<1>9. ASSUME NEW c \in Conns, XConnect(c) \/ XSend(c) \/ XRead(c) \/ XClose(c)
      PROVE  UNCHANGED <<at, lock>>
  BY <1>9 DEF XConnect, XSend, XRead, XClose, relay, shared
<1>10. ASSUME ConnectAi \/ UNCHANGED rvars PROVE UNCHANGED <<at, lock>>
  BY <1>10 DEF ConnectAi, rvars, relay, shared
<1> QED
  BY <1>2, <1>3, <1>4, <1>5, <1>6, <1>7, <1>8, <1>9, <1>10, NextCases
     DEF Own, CommandThread, Commander

\* The steps that neither connect nor disconnect leave the AI connections alone,
\* and start or end no receiver.
ConnUntouched ==
  /\ UNCHANGED <<ai_connection, connector, aend>>
  /\ \A a \in AiConns : /\ LiveAt(a)' <=> LiveAt(a)
                        /\ at'[a] = "none" <=> at[a] = "none"
                        /\ at'[a] = "close" <=> at[a] = "close"

LEMMA MostLeaveConns ==
  ASSUME TypeInv, [Next]_rvars
  PROVE  \/ ConnUntouched
         \/ ConnectAi \/ SpawnReceiver
         \/ \E a \in AiConns : ForgetAi(a) \/ CloseAi(a)
<1>0. AtOK
  BY DEF TypeInv
<1>1. ASSUME NEW c \in Conns, XappThread(c) PROVE ConnUntouched
  <2>1. \A a \in AiConns : at'[a] = at[a]
    BY <1>0, <1>1, HandlerGoes, KindsDisjoint
  <2>2. UNCHANGED <<ai_connection, connector, aend>>
    BY <1>1 DEF XappThread, Accept, Handler, Register, RecvLen, RecvBody, LockKpi,
                ForwardKpi, LockRequest, ForwardRequest, ReplyLen, ReplyBody, Answer,
                Deregister, CloseXapp, shared, aiLink
  <2> QED BY <2>1, <2>2 DEF ConnUntouched, LiveAt
<1>2. ASSUME NEW k \in Cmds, CommandThread(k) PROVE ConnUntouched
  <2>1. \A a \in AiConns : at'[a] = at[a]
    BY <1>0, <1>2, CommandGoes, KindsDisjoint
  <2>2. UNCHANGED <<ai_connection, connector, aend>>
    BY <1>2 DEF CommandThread, Command, Commander, StartBroadcast, Broadcast, shared, aiLink
  <2> QED BY <2>1, <2>2 DEF ConnUntouched, LiveAt
<1>3. ASSUME NEW a \in AiConns, AiRecvLen(a) \/ AiRecvBody(a) \/ StartBroadcast(a)
                                \/ Broadcast(a)
      PROVE  ConnUntouched
  <2>0. AfterBroadcast(a) = "len" /\ a \in Threads
    BY KindsDisjoint DEF AfterBroadcast
  <2>1. \/ UNCHANGED at
        \/ /\ at[a] \in {"len", "body", "wait", "broadcast"}
           /\ \E to \in {"len", "body", "final", "wait", "broadcast"} :
                at' = [at EXCEPT ![a] = to]
    <3>1. CASE AiRecvLen(a)
      BY <3>1 DEF AiRecvLen, Move
    <3>2. CASE AiRecvBody(a)
      BY <3>2 DEF AiRecvBody, Move
    <3>3. CASE StartBroadcast(a)
      BY <2>0, <3>3 DEF StartBroadcast, Move
    <3>4. CASE Broadcast(a)
      BY <2>0, <3>4 DEF Broadcast, Move
    <3> QED BY <1>3, <3>1, <3>2, <3>3, <3>4
  <2>2. UNCHANGED <<ai_connection, connector, aend>>
    BY <1>3 DEF AiRecvLen, AiRecvBody, StartBroadcast, Broadcast, shared, aiLink
  <2>3. \A b \in AiConns : b \in Threads
    BY KindsDisjoint
  <2>4. ASSUME NEW b \in AiConns, at'[b] # at[b]
        PROVE  /\ at[b] \in {"len", "body", "wait", "broadcast"}
               /\ at'[b] \in {"len", "body", "final", "wait", "broadcast"}
    BY <1>0, <2>0, <2>1, <2>3, <2>4 DEF AtOK
  <2> QED BY <2>2, <2>4 DEF ConnUntouched, LiveAt
<1>4. ASSUME UNCHANGED <<at, ai_connection, connector, aend>> PROVE ConnUntouched
  BY <1>4 DEF ConnUntouched, LiveAt
<1>5. ASSUME NEW a \in AiConns, AiReads(a) \/ AiControls(a) \/ AiCloses(a)
      PROVE  UNCHANGED <<at, ai_connection, connector, aend>>
  BY <1>5 DEF AiReads, AiControls, AiCloses, shared
<1>6. ASSUME NEW c \in Conns, XConnect(c) \/ XSend(c) \/ XRead(c) \/ XClose(c)
      PROVE  UNCHANGED <<at, ai_connection, connector, aend>>
  BY <1>6 DEF XConnect, XSend, XRead, XClose, relay, shared, aiLink
<1>7. ASSUME UNCHANGED rvars PROVE UNCHANGED <<at, ai_connection, connector, aend>>
  BY <1>7 DEF rvars, relay, shared, aiLink
<1> QED BY <1>1, <1>2, <1>3, <1>4, <1>5, <1>6, <1>7, NextCases DEF Own, Receiver

LEMMA ConnKept ==
  ASSUME TypeInv, ConnInv, [Next]_rvars
  PROVE  ConnInv'
<1>0. AtOK /\ SharedOK /\ AiOK
  BY DEF TypeInv
<1>1. CASE ConnUntouched
  BY <1>0, <1>1 DEF ConnUntouched, ConnInv, SharedOK
<1>2. CASE ConnectAi
  <2>1. PICK a \in AiConns : /\ aend[a] = "none" /\ aend' = [aend EXCEPT ![a] = "open"]
                             /\ ai_connection' = a /\ connector = "connect"
                             /\ connector' = "spawn" /\ UNCHANGED at
    BY <1>2 DEF ConnectAi
  <2> QED BY <1>0, <2>1, KindsDisjoint DEF ConnInv, LiveAt, AiOK
<1>3. CASE SpawnReceiver
  <2>1. /\ ai_connection \in AiConns /\ aend[ai_connection] = "open"
        /\ at' = [at EXCEPT ![ai_connection] = "len"]
        /\ connector' = "off" /\ UNCHANGED <<ai_connection, aend>>
        /\ \A a \in AiConns : ~LiveAt(a)
    BY <1>0, <1>3 DEF SpawnReceiver, ConnInv, shared, aiLink, SharedOK
  <2>2. /\ at'[ai_connection] = "len"
        /\ \A a \in AiConns \ {ai_connection} : at'[a] = at[a]
    BY <1>0, <2>1, KindsDisjoint DEF AtOK
  <2> QED BY <2>1, <2>2 DEF ConnInv, LiveAt
<1>4. ASSUME NEW a \in AiConns, ForgetAi(a) PROVE ConnInv'
  <2>1. /\ at'[a] = "close" /\ at[a] = "final"
        /\ \A b \in AiConns \ {a} : at'[b] = at[b]
        /\ ai_connection' = NoAi /\ UNCHANGED <<connector, aend>>
    BY <1>0, <1>4, KindsDisjoint DEF ForgetAi, Move, aiLink, AtOK
  <2>2. LiveAt(a) /\ connector = "off" /\ \A b \in AiConns \ {a} : ~LiveAt(b)
    BY <1>0, <2>1 DEF ConnInv, LiveAt
  <2> QED BY <2>1, <2>2 DEF ConnInv, LiveAt
<1>5. ASSUME NEW a \in AiConns, CloseAi(a) PROVE ConnInv'
  <2>1. /\ at'[a] = "done" /\ at[a] = "close"
        /\ \A b \in AiConns \ {a} : at'[b] = at[b]
        /\ connector' = "connect" /\ UNCHANGED ai_connection
        /\ aend'[a] = "closed" /\ \A b \in AiConns \ {a} : aend'[b] = aend[b]
    BY <1>0, <1>5, KindsDisjoint DEF CloseAi, Move, shared, AtOK, AiOK
  <2>2. ai_connection = NoAi /\ \A b \in AiConns \ {a} : ~LiveAt(b)
    BY <2>1 DEF ConnInv, LiveAt
  <2> QED BY <2>1, <2>2 DEF ConnInv, LiveAt
<1> QED BY <1>1, <1>2, <1>3, <1>4, <1>5, MostLeaveConns

LEMMA WaitKept ==
  ASSUME TypeInv, LockDiscipline, WaitInv, [Next]_rvars
  PROVE  WaitInv'
<1>0. AtOK /\ SharedOK
  BY DEF TypeInv
<1>1. ASSUME NEW c \in Conns, XappThread(c) PROVE WaitInv'
  <2>1. UNCHANGED ai_connection /\ \A d \in Conns \ {c} : at'[d] = at[d]
    <3>1. \A u \in Threads \ {c} : at'[u] = at[u]
      BY <1>0, <1>1, HandlerGoes
    <3>2. UNCHANGED ai_connection
      BY <1>1 DEF XappThread, Accept, Handler, Register, RecvLen, RecvBody, LockKpi,
                  ForwardKpi, LockRequest, ForwardRequest, ReplyLen, ReplyBody, Answer,
                  Deregister, CloseXapp, shared
    <3> QED BY <3>1, <3>2, KindsDisjoint
  <2>2. ASSUME at'[c] \in {"reply_len", "reply_body"} PROVE ai_connection \in AiConns
    <3>1. c \in Threads
      BY KindsDisjoint
    <3>2. CASE ForwardRequest(c)
      BY <1>0, <2>2, <3>1, <3>2 DEF ForwardRequest, Move, AtOK, SharedOK
    <3>3. CASE ReplyLen(c) \/ ReplyBody(c)
      BY <3>3 DEF ReplyLen, ReplyBody, Move, WaitInv
    <3>4. CASE RecvLen(c)
      BY <1>0, <2>2, <3>1, <3>4 DEF RecvLen, Move, AtOK
    <3>5. CASE RecvBody(c)
      BY <1>0, <2>2, <3>1, <3>5 DEF RecvBody, Move, AtOK
    <3>6. CASE Accept(c) \/ Register(c) \/ LockKpi(c) \/ ForwardKpi(c) \/ LockRequest(c)
               \/ Answer(c) \/ Deregister(c) \/ CloseXapp(c)
      BY <1>0, <2>2, <3>1, <3>6
         DEF Accept, Register, LockKpi, ForwardKpi, LockRequest, Answer, Deregister,
             CloseXapp, Move, AtOK
    <3> QED BY <1>1, <3>2, <3>3, <3>4, <3>5, <3>6 DEF XappThread, Handler
  <2> QED BY <2>1, <2>2 DEF WaitInv
<1>2. ASSUME \A c \in Conns : at'[c] = at[c],
             UNCHANGED ai_connection \/ ai_connection' \in AiConns
      PROVE  WaitInv'
  BY <1>2 DEF WaitInv
<1>3. ASSUME NEW a \in AiConns, Receiver(a) PROVE WaitInv'
  <2>1. \A c \in Conns : at'[c] = at[c]
    BY <1>0, <1>3, ReceiverGoes, KindsDisjoint
  <2>2. CASE ForgetAi(a)
    <3>1. lock = NoOne
      BY <2>2 DEF ForgetAi
    <3>2. \A c \in Conns : at[c] \notin {"reply_len", "reply_body"}
      BY <3>1, KindsDisjoint DEF LockDiscipline, Holding
    <3> QED BY <2>1, <3>2 DEF WaitInv
  <2>3. CASE AiRecvLen(a) \/ AiRecvBody(a) \/ StartBroadcast(a) \/ Broadcast(a) \/ CloseAi(a)
    <3>1. UNCHANGED ai_connection
      BY <2>3 DEF AiRecvLen, AiRecvBody, StartBroadcast, Broadcast, CloseAi, shared
    <3> QED BY <1>2, <2>1, <3>1
  <2> QED BY <1>3, <2>2, <2>3 DEF Receiver
<1>4. ASSUME NEW k \in Cmds, CommandThread(k) PROVE WaitInv'
  <2>1. \A c \in Conns : at'[c] = at[c]
    BY <1>0, <1>4, CommandGoes, KindsDisjoint
  <2>2. UNCHANGED ai_connection
    BY <1>4 DEF CommandThread, Command, Commander, StartBroadcast, Broadcast, shared
  <2> QED BY <1>2, <2>1, <2>2
<1>5. ASSUME ConnectAi PROVE WaitInv'
  BY <1>2, <1>5 DEF ConnectAi
<1>6. ASSUME SpawnReceiver PROVE WaitInv'
  <2>1. \A c \in Conns : c # ai_connection
    BY <1>0, KindsDisjoint DEF SharedOK
  <2>2. at' = [at EXCEPT ![ai_connection] = "len"] /\ UNCHANGED ai_connection
    BY <1>6 DEF SpawnReceiver, shared
  <2>3. \A c \in Conns : at'[c] = at[c]
    BY <1>0, <2>1, <2>2, KindsDisjoint DEF AtOK
  <2> QED BY <1>2, <2>2, <2>3
<1>7. ASSUME NEW a \in AiConns, AiReads(a) \/ AiControls(a) \/ AiCloses(a) PROVE WaitInv'
  BY <1>2, <1>7 DEF AiReads, AiControls, AiCloses, shared
<1>8. ASSUME NEW c \in Conns, XConnect(c) \/ XSend(c) \/ XRead(c) \/ XClose(c) PROVE WaitInv'
  BY <1>2, <1>8 DEF XConnect, XSend, XRead, XClose, relay, shared
<1>9. ASSUME UNCHANGED rvars PROVE WaitInv'
  BY <1>2, <1>9 DEF rvars, relay, shared
<1> QED BY <1>1, <1>3, <1>4, <1>5, <1>6, <1>7, <1>8, <1>9, NextCases DEF Own

-----------------------------------------------------------------------------
\* Types, the lock, the wait for the AI's answer and the life of the AI
\* connections are inductive together: the reader of an answer is well typed
\* because it holds the lock, and the lock is safe because a receiver is started
\* once for each connection.
CoreInv == TypeInv /\ LockDiscipline /\ WaitInv /\ ConnInv

LEMMA CoreInvInit == ASSUME Init PROVE CoreInv
<1>1. TypeInv
  <2>1. LinkOK /\ CountOK
    BY DEF Init, LinkInit, AiInit, LinkOK, CountOK
  <2>2. AtOK
    <3>1. at = [t \in Threads |-> IF t \in Cmds THEN "idle" ELSE "none"]
      BY DEF Init, RelayInit
    <3>2. \A t \in Threads : t \in Conns \/ t \in AiConns \/ t \in Cmds
      BY DEF Threads
    <3>3. \A c \in Conns : at[c] \in LabelsOf(c)
      BY <3>1, KindsDisjoint DEF LabelsOf, HandlerLabels
    <3>4. \A a \in AiConns : at[a] \in LabelsOf(a)
      BY <3>1, KindsDisjoint DEF LabelsOf, ReceiverLabels
    <3>5. \A k \in Cmds : at[k] \in LabelsOf(k)
      BY <3>1, KindsDisjoint DEF LabelsOf, CommanderLabels
    <3> QED BY <3>1, <3>2, <3>3, <3>4, <3>5 DEF AtOK
  <2>3. SharedOK
    BY DEF Init, RelayInit, SharedOK
  <2>4. AiOK
    BY DEF Init, RelayInit, AiOK
  <2>5. DataOK
    BY BodyType DEF Init, RelayInit, DataOK
  <2> QED BY <2>1, <2>2, <2>3, <2>4, <2>5 DEF TypeInv
<1>2. LockDiscipline
  BY KindsDisjoint DEF Init, RelayInit, LockDiscipline, Holding
<1>3. WaitInv
  BY KindsDisjoint DEF Init, RelayInit, WaitInv
<1>4. ConnInv
  BY KindsDisjoint DEF Init, RelayInit, ConnInv, LiveAt
<1> QED BY <1>1, <1>2, <1>3, <1>4 DEF CoreInv

LEMMA CoreInvKept == ASSUME CoreInv, [Next]_rvars PROVE CoreInv'
<1> SUFFICES ASSUME TypeInv, LockDiscipline, WaitInv, ConnInv, [Next]_rvars
             PROVE  TypeInv' /\ LockDiscipline' /\ WaitInv' /\ ConnInv'
  BY DEF CoreInv
<1>1. TypeInv'
  BY AtTyped, LinkTyped, SharedTyped, AiTyped, DataTyped, CountTyped DEF TypeInv
<1> QED BY <1>1, LockKept, WaitKept, ConnKept

LEMMA CoreInvHolds == Spec => []CoreInv
<1>1. Init => CoreInv
  BY CoreInvInit
<1>2. CoreInv /\ [Next]_rvars => CoreInv'
  BY CoreInvKept
<1> QED BY <1>1, <1>2, PTL DEF Spec

\* Every variable keeps to its type: no thread ever handles what is not a message.
THEOREM RelayTypeCorrect == Spec => []TypeOK
<1>1. CoreInv => TypeOK
  BY TypeInvType DEF CoreInv
<1> QED BY <1>1, CoreInvHolds, PTL

\* connections_lock is held exactly inside the `with` blocks, by one thread.
THEOREM LockCorrect == Spec => []LockDiscipline
<1>1. CoreInv => LockDiscipline
  BY DEF CoreInv
<1> QED BY <1>1, CoreInvHolds, PTL

\* Reconnecting never leaves two AI connections in use.
THEOREM OneAiConnectionCorrect == Spec => []OneAiConnection
<1>1. CoreInv => OneAiConnection
  <2> SUFFICES ASSUME ConnInv, SharedOK PROVE OneAiConnection
    BY DEF CoreInv, TypeInv
  <2>1. \A a \in AiConns : a \in LiveReceivers <=> LiveAt(a)
    BY DEF LiveReceivers, LiveAt
  <2>2. CASE LiveReceivers = {}
    BY <2>2, FS_EmptySet DEF OneAiConnection, SharedOK
  <2>3. ASSUME NEW a \in LiveReceivers PROVE OneAiConnection
    <3>1. LiveReceivers = {a} /\ connector = "off"
      BY <2>1, <2>3 DEF ConnInv, LiveReceivers
    <3>2. Cardinality(LiveReceivers) = 1
      BY <3>1, FS_Singleton
    <3>3. \A b \in LiveReceivers : ai_connection = IF at[b] = "close" THEN NoAi ELSE b
      BY <2>1 DEF ConnInv, LiveReceivers
    <3> QED BY <3>1, <3>2, <3>3 DEF OneAiConnection
  <2> QED BY <2>2, <2>3
<1> QED BY <1>1, CoreInvHolds, PTL

-----------------------------------------------------------------------------
\* A connection's handler starts with accept() and ends with close(); between
\* registering and deregistering it the connection is in the dict; a broadcast
\* goes through connections that are in the dict.
EndsInv ==
  \A c \in Conns : /\ cend[c] = "none" => rend[c] = "none"
                   /\ rend[c] \in {"none", "backlog"} <=> at[c] = "none"
                   /\ rend[c] = "closed" <=> at[c] = "done"

RegisteredInv ==
  /\ \A c \in xapp_connections : at[c] \notin {"none", "register", "close", "done"}
  /\ \A t \in AiConns \cup Cmds : at[t] = "broadcast" => todo[t] \subseteq xapp_connections

\* The steps that leave the xApps' handlers, sockets and dict alone.
HandlersUntouched ==
  /\ \A c \in Conns : at'[c] = at[c]
  /\ UNCHANGED <<rend, xapp_connections>>

LEMMA OthersLeaveHandlers ==
  ASSUME TypeInv, [Next]_rvars
  PROVE  \/ HandlersUntouched /\ UNCHANGED cend
         \/ \E c \in Conns : XappThread(c) \/ XConnect(c) \/ XClose(c)
<1>0. AtOK /\ SharedOK
  BY DEF TypeInv
<1>1. ASSUME NEW a \in AiConns, Receiver(a) PROVE HandlersUntouched /\ UNCHANGED cend
  <2>1. \A c \in Conns : at'[c] = at[c]
    BY <1>0, <1>1, ReceiverGoes, KindsDisjoint
  <2>2. UNCHANGED <<rend, xapp_connections, cend>>
    BY <1>1 DEF Receiver, AiRecvLen, AiRecvBody, StartBroadcast, Broadcast, ForgetAi,
                CloseAi, link, shared
  <2> QED BY <2>1, <2>2 DEF HandlersUntouched
<1>2. ASSUME NEW k \in Cmds, CommandThread(k) PROVE HandlersUntouched /\ UNCHANGED cend
  <2>1. \A c \in Conns : at'[c] = at[c]
    BY <1>0, <1>2, CommandGoes, KindsDisjoint
  <2>2. UNCHANGED <<rend, xapp_connections, cend>>
    BY <1>2 DEF CommandThread, Command, Commander, StartBroadcast, Broadcast, link, shared
  <2> QED BY <2>1, <2>2 DEF HandlersUntouched
<1>3. ASSUME ConnectAi \/ UNCHANGED rvars PROVE HandlersUntouched /\ UNCHANGED cend
  BY <1>3 DEF ConnectAi, rvars, relay, shared, link, HandlersUntouched
<1>4. ASSUME SpawnReceiver PROVE HandlersUntouched /\ UNCHANGED cend
  <2>1. \A c \in Conns : c # ai_connection /\ c \in Threads
    BY <1>0, KindsDisjoint DEF SharedOK
  <2> QED BY <1>0, <1>4, <2>1 DEF SpawnReceiver, AtOK, shared, link, HandlersUntouched
<1>5. ASSUME NEW a \in AiConns, AiReads(a) \/ AiControls(a) \/ AiCloses(a)
      PROVE  HandlersUntouched /\ UNCHANGED cend
  BY <1>5 DEF AiReads, AiControls, AiCloses, shared, link, HandlersUntouched
<1>6. ASSUME NEW c \in Conns, XSend(c) \/ XRead(c)
      PROVE  HandlersUntouched /\ UNCHANGED cend
  BY <1>6 DEF XSend, XRead, relay, shared, HandlersUntouched
<1> QED BY <1>1, <1>2, <1>3, <1>4, <1>5, <1>6, NextCases DEF Own

LEMMA EndsKept ==
  ASSUME TypeInv, EndsInv, [Next]_rvars
  PROVE  EndsInv'
<1>0. LinkOK /\ AtOK
  BY DEF TypeInv
<1>1. CASE HandlersUntouched /\ UNCHANGED cend
  BY <1>1 DEF HandlersUntouched, EndsInv
<1>2. ASSUME NEW c \in Conns, XConnect(c) \/ XClose(c) PROVE EndsInv'
  <2>1. CASE XConnect(c)
    BY <1>0, <2>1 DEF XConnect, Connect, Unused, relay, EndsInv, LinkOK
  <2>2. CASE XClose(c)
    BY <1>0, <2>2 DEF XClose, relay, EndsInv, LinkOK
  <2> QED BY <1>2, <2>1, <2>2
<1>3. ASSUME NEW c \in Conns, XappThread(c) PROVE EndsInv'
  <2>0. c \in Threads /\ UNCHANGED cend
    BY <1>3, KindsDisjoint
       DEF XappThread, Accept, Handler, Register, RecvLen, RecvBody, LockKpi, ForwardKpi,
           LockRequest, ForwardRequest, ReplyLen, ReplyBody, Answer, Deregister, CloseXapp,
           link
  <2>1. \A d \in Conns \ {c} : at'[d] = at[d]
    BY <1>0, <1>3, HandlerGoes, KindsDisjoint
  <2>2. CASE Accept(c)
    <3>1. rend[c] = "backlog" /\ rend' = [rend EXCEPT ![c] = "open"] /\ at'[c] = "register"
      BY <1>0, <2>0, <2>2 DEF Accept, Move, AtOK
    <3> QED BY <1>0, <2>0, <2>1, <3>1 DEF EndsInv, LinkOK
  <2>3. CASE CloseXapp(c)
    <3>1. at[c] = "close" /\ rend' = [rend EXCEPT ![c] = "closed"] /\ at'[c] = "done"
      BY <1>0, <2>0, <2>3 DEF CloseXapp, Move, AtOK
    <3> QED BY <1>0, <2>0, <2>1, <3>1 DEF EndsInv, LinkOK
  <2>4. CASE ~(Accept(c) \/ CloseXapp(c))
    <3>1. UNCHANGED rend
      BY <1>3, <2>4
         DEF XappThread, Handler, Register, RecvLen, RecvBody, LockKpi, ForwardKpi,
             LockRequest, ForwardRequest, ReplyLen, ReplyBody, Answer, Deregister, link
    <3>2. at[c] \notin {"none", "done"} /\ at'[c] \notin {"none", "done"}
      <4>1. CASE Register(c) \/ LockKpi(c) \/ ForwardKpi(c) \/ LockRequest(c)
                 \/ ReplyBody(c) \/ Answer(c) \/ Deregister(c)
        BY <1>0, <2>0, <4>1
           DEF Register, LockKpi, ForwardKpi, LockRequest, ReplyBody, Answer, Deregister,
               Move, AtOK
      <4>2. CASE RecvLen(c)
        BY <1>0, <2>0, <4>2 DEF RecvLen, Move, AtOK
      <4>3. CASE RecvBody(c)
        BY <1>0, <2>0, <4>3 DEF RecvBody, Move, AtOK
      <4>4. CASE ForwardRequest(c)
        BY <1>0, <2>0, <4>4 DEF ForwardRequest, Move, AtOK
      <4>5. CASE ReplyLen(c)
        BY <1>0, <2>0, <4>5 DEF ReplyLen, Move, AtOK
      <4> QED BY <1>3, <2>4, <4>1, <4>2, <4>3, <4>4, <4>5 DEF XappThread, Handler
    <3> QED BY <2>0, <2>1, <3>1, <3>2 DEF EndsInv
  <2> QED BY <2>2, <2>3, <2>4
<1> QED BY <1>1, <1>2, <1>3, OthersLeaveHandlers

\* A broadcast's snapshot stays within the dict while the dict only grows.
LEMMA SnapshotKept ==
  ASSUME TypeInv, RegisteredInv, [Next]_rvars, xapp_connections \subseteq xapp_connections'
  PROVE  \A t \in AiConns \cup Cmds : at'[t] = "broadcast" => todo'[t] \subseteq xapp_connections'
<1>0. AtOK /\ SharedOK /\ DataOK
  BY DEF TypeInv
<1> DEFINE B(t) == at'[t] = "broadcast" => todo'[t] \subseteq xapp_connections'
<1> SUFFICES \A t \in AiConns \cup Cmds : B(t)
  OBVIOUS
<1>1. ASSUME NEW t \in AiConns \cup Cmds, at'[t] = "broadcast" => at[t] = "broadcast",
             todo'[t] \subseteq todo[t]
      PROVE  B(t)
  BY <1>1 DEF RegisteredInv
<1>2. ASSUME UNCHANGED todo,
             \A t \in AiConns \cup Cmds : at'[t] = "broadcast" => at[t] = "broadcast"
      PROVE  \A t \in AiConns \cup Cmds : B(t)
  BY <1>1, <1>2
<1> HIDE DEF B
<1>3. ASSUME NEW c \in Conns, XappThread(c) PROVE \A t \in AiConns \cup Cmds : B(t)
  <2>1. \A t \in AiConns \cup Cmds : at'[t] = at[t]
    BY <1>0, <1>3, HandlerGoes, KindsDisjoint
  <2>2. UNCHANGED todo
    BY <1>3 DEF XappThread, Accept, Handler, Register, RecvLen, RecvBody, LockKpi,
                ForwardKpi, LockRequest, ForwardRequest, ReplyLen, ReplyBody, Answer,
                Deregister, CloseXapp
  <2> QED BY <1>2, <2>1, <2>2
<1>4. ASSUME NEW s \in AiConns \cup Cmds, StartBroadcast(s) \/ Broadcast(s)
      PROVE  \A t \in AiConns \cup Cmds : B(t)
  <2>0. s \in Threads /\ AfterBroadcast(s) \in {"len", "done"}
    BY KindsDisjoint DEF AfterBroadcast
  <2>1. \A t \in (AiConns \cup Cmds) \ {s} : at'[t] = at[t] /\ todo'[t] = todo[t]
    <3>0. \A t \in AiConns \cup Cmds : t \in Threads
      BY KindsDisjoint
    <3>1. UNCHANGED at \/ \E to \in {"broadcast", "len", "done"} : at' = [at EXCEPT ![s] = to]
      <4>1. CASE StartBroadcast(s)
        BY <2>0, <4>1 DEF StartBroadcast, Move
      <4>2. CASE Broadcast(s)
        BY <2>0, <4>2 DEF Broadcast, Move
      <4> QED BY <1>4, <4>1, <4>2
    <3>2. \A t \in (AiConns \cup Cmds) \ {s} : at'[t] = at[t]
      BY <1>0, <3>0, <3>1 DEF AtOK
    <3>3. \A t \in (AiConns \cup Cmds) \ {s} : todo'[t] = todo[t]
      <4>1. CASE StartBroadcast(s)
        BY <1>0, <3>0, <4>1 DEF StartBroadcast, DataOK
      <4>2. CASE Broadcast(s)
        BY <1>0, <3>0, <4>2 DEF Broadcast, DataOK
      <4> QED BY <1>4, <4>1, <4>2
    <3> QED BY <3>2, <3>3
  <2>2. B(s)
    <3>1. CASE StartBroadcast(s)
      <4>1. CASE xapp_connections = {}
        <5>1. at'[s] # "broadcast"
          BY <1>0, <2>0, <3>1, <4>1 DEF StartBroadcast, Move, AtOK
        <5> QED BY <5>1 DEF B
      <4>2. CASE xapp_connections # {}
        <5>1. todo'[s] = xapp_connections
          BY <1>0, <2>0, <3>1, <4>2 DEF StartBroadcast, DataOK
        <5> QED BY <5>1 DEF B
      <4> QED BY <4>1, <4>2
    <3>2. CASE Broadcast(s)
      <4>1. at[s] = "broadcast" /\ todo'[s] \subseteq todo[s]
        BY <1>0, <2>0, <3>2 DEF Broadcast, DataOK
      <4> QED BY <1>1, <4>1
    <3> QED BY <1>4, <3>1, <3>2
  <2>3. ASSUME NEW t \in (AiConns \cup Cmds) \ {s} PROVE B(t)
    <3>1. at'[t] = at[t] /\ todo'[t] = todo[t]
      BY <2>1
    <3> QED BY <1>1, <3>1
  <2> QED BY <2>2, <2>3
<1>5. ASSUME NEW a \in AiConns, AiRecvLen(a) \/ AiRecvBody(a) \/ ForgetAi(a) \/ CloseAi(a)
      PROVE  \A t \in AiConns \cup Cmds : B(t)
  <2>0. a \in Threads
    BY KindsDisjoint
  <2>1. PICK to \in {"body", "final", "wait", "len", "close", "done"} :
          at' = [at EXCEPT ![a] = to]
    BY <1>5 DEF AiRecvLen, AiRecvBody, ForgetAi, CloseAi, Move
  <2>2. UNCHANGED todo
    BY <1>5 DEF AiRecvLen, AiRecvBody, ForgetAi, CloseAi
  <2> QED BY <1>0, <1>2, <2>0, <2>1, <2>2, KindsDisjoint DEF AtOK
<1>6. ASSUME NEW k \in Cmds, Command(k) PROVE \A t \in AiConns \cup Cmds : B(t)
  <2>1. PICK to \in {"wait", "done"} : at' = [at EXCEPT ![k] = to]
    BY <1>6 DEF Command, Move
  <2>2. UNCHANGED todo
    BY <1>6 DEF Command
  <2> QED BY <1>0, <1>2, <2>1, <2>2, KindsDisjoint DEF AtOK
<1>7. ASSUME SpawnReceiver PROVE \A t \in AiConns \cup Cmds : B(t)
  <2>1. at' = [at EXCEPT ![ai_connection] = "len"] /\ UNCHANGED todo
    BY <1>7 DEF SpawnReceiver
  <2> QED BY <1>0, <1>2, <2>1, KindsDisjoint DEF AtOK
<1>8. ASSUME UNCHANGED <<at, todo>> PROVE \A t \in AiConns \cup Cmds : B(t)
  BY <1>2, <1>8
<1>9. ASSUME NEW a \in AiConns, AiReads(a) \/ AiControls(a) \/ AiCloses(a)
      PROVE  UNCHANGED <<at, todo>>
  BY <1>9 DEF AiReads, AiControls, AiCloses
<1>10. ASSUME NEW c \in Conns, XConnect(c) \/ XSend(c) \/ XRead(c) \/ XClose(c)
       PROVE  UNCHANGED <<at, todo>>
  BY <1>10 DEF XConnect, XSend, XRead, XClose, relay
<1>11. ASSUME ConnectAi \/ UNCHANGED rvars PROVE UNCHANGED <<at, todo>>
  BY <1>11 DEF ConnectAi, rvars, relay
<1> QED
  BY <1>3, <1>4, <1>5, <1>6, <1>7, <1>8, <1>9, <1>10, <1>11, NextCases
     DEF Own, Receiver, CommandThread, Commander

LEMMA RegisteredKept ==
  ASSUME TypeInv, LockDiscipline, EndsInv, RegisteredInv, [Next]_rvars
  PROVE  RegisteredInv'
<1>0. AtOK /\ SharedOK
  BY DEF TypeInv
<1>1. CASE HandlersUntouched
  <2>1. \A c \in xapp_connections' : at'[c] \notin {"none", "register", "close", "done"}
    BY <1>0, <1>1 DEF HandlersUntouched, RegisteredInv, SharedOK
  <2>2. xapp_connections \subseteq xapp_connections'
    BY <1>1 DEF HandlersUntouched
  <2> QED BY <2>1, <2>2, SnapshotKept DEF RegisteredInv
<1>2. ASSUME NEW c \in Conns, XConnect(c) \/ XClose(c) PROVE RegisteredInv'
  BY <1>2 DEF XConnect, XClose, relay, shared, RegisteredInv
<1>3. ASSUME NEW c \in Conns, XappThread(c) PROVE RegisteredInv'
  <2>0. c \in Threads
    BY KindsDisjoint
  <2>1. \A d \in Conns \ {c} : at'[d] = at[d]
    BY <1>0, <1>3, HandlerGoes, KindsDisjoint
  <2>2. CASE Deregister(c)
    <3>1. /\ lock = NoOne /\ xapp_connections' = xapp_connections \ {c}
          /\ at' = [at EXCEPT ![c] = "close"]
      BY <2>2 DEF Deregister, Move
    <3>2. \A t \in AiConns \cup Cmds : at[t] # "broadcast"
      BY <3>1, KindsDisjoint DEF LockDiscipline, Holding
    <3>3. \A t \in AiConns \cup Cmds : at'[t] # "broadcast"
      BY <1>0, <3>1, <3>2, KindsDisjoint DEF AtOK
    <3>4. \A d \in xapp_connections' : at'[d] \notin {"none", "register", "close", "done"}
      BY <1>0, <2>1, <3>1 DEF RegisteredInv, SharedOK
    <3> QED BY <3>3, <3>4 DEF RegisteredInv
  <2>3. CASE ~Deregister(c)
    <3>1. /\ xapp_connections \subseteq xapp_connections'
          /\ xapp_connections' \subseteq xapp_connections \cup {c}
      BY <1>3, <2>3
         DEF XappThread, Accept, Handler, Register, RecvLen, RecvBody, LockKpi, ForwardKpi,
             LockRequest, ForwardRequest, ReplyLen, ReplyBody, Answer, CloseXapp, shared
    <3>2. c \in xapp_connections' => at'[c] \notin {"none", "register", "close", "done"}
      <4>1. CASE Accept(c) \/ CloseXapp(c)
        BY <4>1 DEF Accept, CloseXapp, Move, shared, RegisteredInv
      <4>2. CASE Register(c) \/ LockKpi(c) \/ ForwardKpi(c) \/ LockRequest(c)
                 \/ ReplyBody(c) \/ Answer(c)
        BY <1>0, <2>0, <4>2
           DEF Register, LockKpi, ForwardKpi, LockRequest, ReplyBody, Answer, Move, AtOK
      <4>3. CASE RecvLen(c)
        BY <1>0, <2>0, <4>3 DEF RecvLen, Move, AtOK
      <4>4. CASE RecvBody(c)
        BY <1>0, <2>0, <4>4 DEF RecvBody, Move, AtOK
      <4>5. CASE ForwardRequest(c)
        BY <1>0, <2>0, <4>5 DEF ForwardRequest, Move, AtOK
      <4>6. CASE ReplyLen(c)
        BY <1>0, <2>0, <4>6 DEF ReplyLen, Move, AtOK
      <4> QED BY <1>3, <2>3, <4>1, <4>2, <4>3, <4>4, <4>5, <4>6 DEF XappThread, Handler
    <3>3. \A d \in xapp_connections' : at'[d] \notin {"none", "register", "close", "done"}
      BY <1>0, <2>1, <3>1, <3>2 DEF RegisteredInv, SharedOK
    <3> QED BY <3>1, <3>3, SnapshotKept DEF RegisteredInv
  <2> QED BY <2>2, <2>3
<1> QED BY <1>1, <1>2, <1>3, OthersLeaveHandlers

\* A socket that the relay can still write to is one that it has not closed.
THEOREM NoWriteAfterCloseCorrect == Spec => []NoWriteAfterClose
<1>1. Init => EndsInv /\ RegisteredInv
  BY KindsDisjoint DEF Init, LinkInit, RelayInit, EndsInv, RegisteredInv
<1>2. /\ CoreInv /\ EndsInv /\ RegisteredInv /\ [Next]_rvars
      => EndsInv' /\ RegisteredInv'
  BY EndsKept, RegisteredKept DEF CoreInv
<1>3. CoreInv /\ EndsInv /\ RegisteredInv => NoWriteAfterClose
  <2> SUFFICES ASSUME CoreInv, EndsInv, RegisteredInv PROVE NoWriteAfterClose
    OBVIOUS
  <2>0. LinkOK /\ AtOK /\ SharedOK /\ ConnInv
    BY DEF CoreInv, TypeInv
  <2>1. \A c \in xapp_connections : rend[c] = "open"
    BY <2>0 DEF EndsInv, RegisteredInv, SharedOK, LinkOK
  <2>2. \A t \in Threads : at[t] = "broadcast" => t \in AiConns \cup Cmds
    BY <2>0 DEF AtOK, LabelsOf, HandlerLabels, Threads
  <2> QED BY <2>0, <2>1, <2>2 DEF NoWriteAfterClose, ConnInv, RegisteredInv
<1> QED BY <1>1, <1>2, <1>3, CoreInvHolds, PTL DEF Spec

-----------------------------------------------------------------------------
(* InOrder needs where every frame of a connection is: on its way to the     *)
(* handler, in the handler's hand, on its way to the AI, or read.            *)

\* The ids of c's frames that the relay has sent on and that may be read still
\* or have been read.
OnWay(c) ==
  {n \in Nat : \/ \E i \in DOMAIN delivered : delivered[i].conn = c /\ delivered[i].m.id = n
               \/ \E a \in AiConns : \E i \in DOMAIN aup[a] :
                    aup[a][i].conn = c /\ aup[a][i].m.id = n}

\* What comes after frame n: later frames, and what is left of n itself.
ComesAfter(n, u) == n < u.id \/ (n = u.id /\ u.part = "body")

UpInOrder(c) ==
  /\ \A i, j \in DOMAIN up[c] : i < j => ComesAfter(up[c][i].id, up[c][j])
  /\ \A i \in DOMAIN up[c] : up[c][i].id <= sends

BetweenFrames == {"none", "register", "len", "reply_len", "reply_body", "reply"}
FrameInHand   == {"lock_kpi", "fwd_kpi", "lock_req", "fwd_req"}

\* A handler is past everything that it has sent on; when it finds itself in the
\* middle of a frame ("final") it reads no more.
HandlerIsPast(c) ==
  /\ \A n \in OnWay(c) : n <= sends
  /\ at[c] \in BetweenFrames =>
       \A n \in OnWay(c) : \A i \in DOMAIN up[c] : ComesAfter(n, up[c][i])
  /\ at[c] = "body" => \A n \in OnWay(c) : \A i \in DOMAIN up[c] : n < up[c][i].id
  /\ at[c] \in FrameInHand =>
       /\ msg[c].id <= sends
       /\ \A n \in OnWay(c) : n < msg[c].id
       /\ \A i \in DOMAIN up[c] : ComesAfter(msg[c].id, up[c][i])

HistoryOK == delivered \in Seq([conn : Conns, m : Message, over : AiConns])

AiStreamsInOrder ==
  /\ \A a \in AiConns : \A i, j \in DOMAIN aup[a] :
       i < j /\ aup[a][i].conn = aup[a][j].conn => aup[a][i].m.id < aup[a][j].m.id
  /\ \A a, b \in AiConns : \A i \in DOMAIN aup[a] : \A j \in DOMAIN aup[b] :
       a # b /\ aup[a][i].conn = aup[b][j].conn => aup[a][i].m.id # aup[b][j].m.id

\* What the AI has read comes before what it will read.
ReadIsPast ==
  \A a \in AiConns : \A i \in DOMAIN delivered : \A j \in DOMAIN aup[a] :
    delivered[i].conn = aup[a][j].conn
      => /\ delivered[i].m.id # aup[a][j].m.id
         /\ delivered[i].over = a => delivered[i].m.id < aup[a][j].m.id

AiOrderInv == HistoryOK /\ AiStreamsInOrder /\ ReadIsPast /\ InOrder
ConnsInOrder == \A c \in Conns : UpInOrder(c) /\ HandlerIsPast(c)

\* What Tail and Append do to the elements.
LEMMA TailElements ==
  ASSUME NEW S, NEW q \in Seq(S), q # <<>>
  PROVE  /\ Tail(q) \in Seq(S) /\ Head(q) = q[1] /\ 1 \in DOMAIN q /\ Head(q) \in S
         /\ \A i \in DOMAIN Tail(q) : /\ i \in Nat \ {0} /\ i + 1 \in DOMAIN q
                                      /\ Tail(q)[i] = q[i + 1]
OBVIOUS

LEMMA AppendElements ==
  ASSUME NEW S, NEW q \in Seq(S), NEW e \in S
  PROVE  /\ Append(q, e) \in Seq(S)
         /\ \A i \in DOMAIN Append(q, e) :
              \/ i \in DOMAIN q /\ Append(q, e)[i] = q[i]
              \/ i = Len(q) + 1 /\ Append(q, e)[i] = e
         /\ \A i \in DOMAIN q : i \in Nat /\ i < Len(q) + 1
OBVIOUS

LEMMA SeqElements ==
  ASSUME NEW S, NEW q \in Seq(S)
  PROVE  \A i \in DOMAIN q : q[i] \in S
OBVIOUS

\* A frame that is newer than everything of its connection joins an AI stream.
LEMMA FrameJoins ==
  ASSUME AiOK, AiOrderInv, NEW b \in AiConns, NEW f \in AiFrame,
         \A n \in OnWay(f.conn) : n < f.m.id,
         aup' = [aup EXCEPT ![b] = Append(@, f)], UNCHANGED delivered
  PROVE  /\ AiOrderInv'
         /\ OnWay(f.conn)' \subseteq OnWay(f.conn) \cup {f.m.id}
         /\ \A c \in Conns \ {f.conn} : OnWay(c)' \subseteq OnWay(c)
<1>0. /\ aup'[b] = Append(aup[b], f) /\ \A a \in AiConns \ {b} : aup'[a] = aup[a]
      /\ \A a \in AiConns : aup[a] \in Seq(AiFrame)
  BY DEF AiOK
<1>1. f.conn \in Conns /\ f.m.id \in Nat
  BY DEF AiFrame, Message
<1>2. \A i \in DOMAIN aup'[b] : \/ i \in DOMAIN aup[b] /\ aup'[b][i] = aup[b][i]
                                \/ i = Len(aup[b]) + 1 /\ aup'[b][i] = f
  BY <1>0, AppendElements
<1>3. \A i \in DOMAIN aup[b] : i \in Nat /\ i < Len(aup[b]) + 1
  BY <1>0, AppendElements
<1>4. \A a \in AiConns : \A i \in DOMAIN aup[a] : aup[a][i].m.id \in Nat
  <2> TAKE a \in AiConns
  <2> TAKE i \in DOMAIN aup[a]
  <2>1. aup[a][i] \in AiFrame
    BY <1>0
  <2> QED BY <2>1 DEF AiFrame, Message
<1>5. \A a \in AiConns : \A i \in DOMAIN aup[a] :
        aup[a][i].conn = f.conn => aup[a][i].m.id < f.m.id
  BY <1>4 DEF OnWay
<1>6. \A i \in DOMAIN delivered :
        delivered[i].conn = f.conn => delivered[i].m.id \in Nat /\ delivered[i].m.id < f.m.id
  <2> TAKE i \in DOMAIN delivered
  <2>0. delivered \in Seq([conn : Conns, m : Message, over : AiConns])
    BY DEF AiOrderInv, HistoryOK
  <2>1. delivered[i] \in [conn : Conns, m : Message, over : AiConns]
    BY <2>0, SeqElements
  <2>2. delivered[i].m.id \in Nat
    BY <2>1 DEF Message
  <2> QED BY <2>2 DEF OnWay
<1>7. AiStreamsInOrder'
  <2>1. ASSUME NEW a \in AiConns, NEW i \in DOMAIN aup'[a], NEW j \in DOMAIN aup'[a],
               i < j, aup'[a][i].conn = aup'[a][j].conn
        PROVE  aup'[a][i].m.id < aup'[a][j].m.id
    <3>1. CASE a # b
      BY <1>0, <2>1, <3>1 DEF AiOrderInv, AiStreamsInOrder
    <3>2. CASE a = b
      <4>1. i \in DOMAIN aup[b] /\ aup'[b][i] = aup[b][i]
        BY <1>2, <1>3, <2>1, <3>2
      <4>2. CASE j \in DOMAIN aup[b] /\ aup'[b][j] = aup[b][j]
        BY <2>1, <3>2, <4>1, <4>2 DEF AiOrderInv, AiStreamsInOrder
      <4>3. CASE aup'[b][j] = f
        BY <1>5, <2>1, <3>2, <4>1, <4>3
      <4> QED BY <1>2, <3>2, <4>2, <4>3
    <3> QED BY <3>1, <3>2
  <2>2. ASSUME NEW a \in AiConns, NEW i \in DOMAIN aup'[a], NEW d \in AiConns,
               NEW j \in DOMAIN aup'[d], a # d, aup'[a][i].conn = aup'[d][j].conn
        PROVE  aup'[a][i].m.id # aup'[d][j].m.id
    <3>1. CASE i \in DOMAIN aup[a] /\ aup'[a][i] = aup[a][i]
      <4>1. CASE j \in DOMAIN aup[d] /\ aup'[d][j] = aup[d][j]
        BY <2>2, <3>1, <4>1 DEF AiOrderInv, AiStreamsInOrder
      <4>2. CASE aup'[d][j] = f
        BY <1>1, <1>4, <1>5, <2>2, <3>1, <4>2
      <4> QED BY <1>0, <1>2, <4>1, <4>2
    <3>2. CASE a = b /\ aup'[a][i] = f
      <4>1. j \in DOMAIN aup[d] /\ aup'[d][j] = aup[d][j]
        BY <1>0, <2>2, <3>2
      <4> QED BY <1>1, <1>4, <1>5, <2>2, <3>2, <4>1
    <3> QED BY <1>0, <1>2, <3>1, <3>2
  <2> QED BY <2>1, <2>2 DEF AiStreamsInOrder
<1>8. ReadIsPast'
  <2> SUFFICES ASSUME NEW a \in AiConns, NEW i \in DOMAIN delivered,
                      NEW j \in DOMAIN aup'[a], delivered[i].conn = aup'[a][j].conn
               PROVE  /\ delivered[i].m.id # aup'[a][j].m.id
                      /\ delivered[i].over = a => delivered[i].m.id < aup'[a][j].m.id
    BY DEF ReadIsPast
  <2>1. CASE j \in DOMAIN aup[a] /\ aup'[a][j] = aup[a][j]
    BY <2>1 DEF AiOrderInv, ReadIsPast
  <2>2. CASE aup'[a][j] = f
    BY <1>1, <1>6, <2>2
  <2> QED BY <1>0, <1>2, <2>1, <2>2
<1>9. HistoryOK' /\ InOrder'
  BY DEF AiOrderInv, HistoryOK, InOrder
<1>10. \A c \in Conns : \A n \in OnWay(c)' :
         n \in OnWay(c) \/ (c = f.conn /\ n = f.m.id)
  BY <1>0, <1>2 DEF OnWay
<1> QED BY <1>1, <1>7, <1>8, <1>9, <1>10 DEF AiOrderInv

\* The AI takes the first frame of a stream.
LEMMA FrameIsRead ==
  ASSUME AiOK, AiOrderInv, NEW a \in AiConns, AiReads(a)
  PROVE  AiOrderInv' /\ \A c \in Conns : OnWay(c)' \subseteq OnWay(c)
<1> DEFINE q == aup[a]
           e == [conn |-> Head(q).conn, m |-> Head(q).m, over |-> a]
           Read == [conn : Conns, m : Message, over : AiConns]
<1>0. /\ q # <<>> /\ aup'[a] = Tail(q) /\ \A b \in AiConns \ {a} : aup'[b] = aup[b]
      /\ delivered' = Append(delivered, e) /\ q \in Seq(AiFrame)
      /\ delivered \in Seq(Read)
  BY DEF AiReads, AiOK, AiOrderInv, HistoryOK
<1>1. /\ Head(q) = q[1] /\ 1 \in DOMAIN q /\ Head(q) \in AiFrame
      /\ \A i \in DOMAIN aup'[a] : /\ i \in Nat \ {0} /\ i + 1 \in DOMAIN q
                                   /\ aup'[a][i] = q[i + 1]
  BY <1>0, TailElements
<1>2. e \in Read /\ e.conn = q[1].conn /\ e.m = q[1].m /\ e.over = a
  BY <1>1 DEF AiFrame
<1> HIDE DEF e
<1>3. /\ delivered' \in Seq(Read)
      /\ \A i \in DOMAIN delivered' :
           \/ i \in DOMAIN delivered /\ delivered'[i] = delivered[i]
           \/ i = Len(delivered) + 1 /\ delivered'[i] = e
      /\ \A i \in DOMAIN delivered : i \in Nat /\ i < Len(delivered) + 1
  BY <1>0, <1>2, AppendElements
\* Every frame of the new streams is one of the old ones, and not the one read.
<1>4. \A b \in AiConns : \A i \in DOMAIN aup'[b] : \E j \in DOMAIN aup[b] :
        aup'[b][i] = aup[b][j] /\ (b = a => j = i + 1 /\ 1 < j)
  <2> TAKE b \in AiConns
  <2> TAKE i \in DOMAIN aup'[b]
  <2>1. CASE b = a
    BY <1>1, <2>1
  <2>2. CASE b # a
    BY <1>0, <2>2
  <2> QED BY <2>1, <2>2
<1>5. AiStreamsInOrder'
  <2>1. ASSUME NEW b \in AiConns, NEW i \in DOMAIN aup'[b], NEW j \in DOMAIN aup'[b],
               i < j, aup'[b][i].conn = aup'[b][j].conn
        PROVE  aup'[b][i].m.id < aup'[b][j].m.id
    <3>1. CASE b = a
      BY <1>1, <2>1, <3>1 DEF AiOrderInv, AiStreamsInOrder
    <3>2. CASE b # a
      BY <1>0, <2>1, <3>2 DEF AiOrderInv, AiStreamsInOrder
    <3> QED BY <3>1, <3>2
  <2>2. ASSUME NEW b \in AiConns, NEW i \in DOMAIN aup'[b], NEW d \in AiConns,
               NEW j \in DOMAIN aup'[d], b # d, aup'[b][i].conn = aup'[d][j].conn
        PROVE  aup'[b][i].m.id # aup'[d][j].m.id
    BY <1>4, <2>2 DEF AiOrderInv, AiStreamsInOrder
  <2> QED BY <2>1, <2>2 DEF AiStreamsInOrder
<1>6. ReadIsPast'
  <2> SUFFICES ASSUME NEW b \in AiConns, NEW i \in DOMAIN delivered', NEW j \in DOMAIN aup'[b],
                      delivered'[i].conn = aup'[b][j].conn
               PROVE  /\ delivered'[i].m.id # aup'[b][j].m.id
                      /\ delivered'[i].over = b => delivered'[i].m.id < aup'[b][j].m.id
    BY DEF ReadIsPast
  <2>0. PICK k \in DOMAIN aup[b] : aup'[b][j] = aup[b][k] /\ (b = a => 1 < k)
    BY <1>4
  <2>1. CASE i \in DOMAIN delivered /\ delivered'[i] = delivered[i]
    BY <2>0, <2>1 DEF AiOrderInv, ReadIsPast
  <2>2. CASE delivered'[i] = e
    <3>1. CASE b = a
      <4>1. q[1].m.id < q[k].m.id
        BY <1>1, <1>2, <2>0, <2>2, <3>1 DEF AiOrderInv, AiStreamsInOrder
      <4>2. q[1].m.id \in Nat
        BY <1>1 DEF AiFrame, Message
      <4>3. q[k] \in AiFrame
        BY <1>0, <2>0, <3>1
      <4>4. q[k].m.id \in Nat
        BY <4>3 DEF AiFrame, Message
      <4> QED BY <1>2, <2>0, <2>2, <3>1, <4>1, <4>2, <4>4
    <3>2. CASE b # a
      BY <1>1, <1>2, <2>0, <2>2, <3>2 DEF AiOrderInv, AiStreamsInOrder
    <3> QED BY <3>1, <3>2
  <2> QED BY <1>3, <2>1, <2>2
<1>7. InOrder'
  <2> SUFFICES ASSUME NEW i \in DOMAIN delivered', NEW j \in DOMAIN delivered', i < j,
                      delivered'[i].conn = delivered'[j].conn
               PROVE  Follows(delivered'[i], delivered'[j])
    BY DEF InOrder
  <2>1. i \in DOMAIN delivered /\ delivered'[i] = delivered[i]
    BY <1>3
  <2>2. CASE j \in DOMAIN delivered /\ delivered'[j] = delivered[j]
    BY <2>1, <2>2 DEF AiOrderInv, InOrder
  <2>3. CASE delivered'[j] = e
    BY <1>1, <1>2, <2>1, <2>3 DEF AiOrderInv, ReadIsPast, Follows
  <2> QED BY <1>3, <2>2, <2>3
<1>8. ASSUME NEW c \in Conns, NEW n \in OnWay(c)' PROVE n \in OnWay(c)
  <2>1. n \in Nat
    BY <1>8 DEF OnWay
  <2>2. CASE \E i \in DOMAIN delivered' : delivered'[i].conn = c /\ delivered'[i].m.id = n
    <3>1. PICK i \in DOMAIN delivered' : delivered'[i].conn = c /\ delivered'[i].m.id = n
      BY <2>2
    <3>2. CASE i \in DOMAIN delivered /\ delivered'[i] = delivered[i]
      BY <2>1, <3>1, <3>2 DEF OnWay
    <3>3. CASE delivered'[i] = e
      BY <1>1, <1>2, <2>1, <3>1, <3>3 DEF OnWay
    <3> QED BY <1>3, <3>2, <3>3
  <2>3. CASE \E b \in AiConns : \E i \in DOMAIN aup'[b] :
               aup'[b][i].conn = c /\ aup'[b][i].m.id = n
    BY <1>4, <2>1, <2>3 DEF OnWay
  <2> QED BY <1>8, <2>2, <2>3 DEF OnWay
<1> QED BY <1>3, <1>5, <1>6, <1>7, <1>8 DEF AiOrderInv, HistoryOK

\* The steps that move no frame of an xApp keep its handler's stage.
SameStage(c) ==
  \/ at'[c] = at[c]
  \/ at[c] \in BetweenFrames /\ at'[c] \in BetweenFrames
  \/ at[c] \in FrameInHand /\ at'[c] \in FrameInHand
  \/ at'[c] \in {"final", "close", "done"}

LEMMA StageKept ==
  ASSUME NEW c \in Conns, UpInOrder(c), HandlerIsPast(c), SameStage(c),
         up'[c] = up[c], msg'[c] = msg[c], sends' = sends, OnWay(c)' \subseteq OnWay(c)
  PROVE  UpInOrder(c)' /\ HandlerIsPast(c)'
<1>1. UpInOrder(c)'
  BY DEF UpInOrder, ComesAfter
<1>2. at'[c] \in BetweenFrames => at[c] \in BetweenFrames
  BY DEF SameStage, BetweenFrames, FrameInHand
<1>3. at'[c] = "body" => at[c] = "body"
  BY DEF SameStage, BetweenFrames, FrameInHand
<1>4. at'[c] \in FrameInHand => at[c] \in FrameInHand
  BY DEF SameStage, BetweenFrames, FrameInHand
<1> QED BY <1>1, <1>2, <1>3, <1>4 DEF HandlerIsPast, ComesAfter

MovesFrame ==
  \/ \E c \in Conns : ForwardKpi(c) \/ ForwardRequest(c) \/ RecvLen(c) \/ RecvBody(c)
  \/ \E c \in Conns : XSend(c)
  \/ \E a \in AiConns : AiReads(a)

LEMMA QuietSteps ==
  ASSUME TypeInv, [Next]_rvars, ~MovesFrame
  PROVE  /\ UNCHANGED <<up, aup, delivered, sends>>
         /\ \A c \in Conns : msg'[c] = msg[c] /\ SameStage(c)
<1>0. AtOK /\ DataOK
  BY DEF TypeInv
<1>1. ASSUME NEW c \in Conns, Own(XappThread(c))
      PROVE  /\ UNCHANGED <<up, aup, delivered, sends>>
             /\ \A d \in Conns : msg'[d] = msg[d] /\ SameStage(d)
  <2>0. c \in Threads /\ sends' = sends
    BY <1>1, KindsDisjoint DEF Own
  <2>1. ~(ForwardKpi(c) \/ ForwardRequest(c) \/ RecvLen(c) \/ RecvBody(c))
    BY DEF MovesFrame
  <2>2. UNCHANGED <<up, aup, delivered, msg>>
    BY <1>1, <2>1
       DEF Own, XappThread, Accept, Handler, Register, LockKpi, LockRequest, ReplyLen,
           ReplyBody, Answer, Deregister, CloseXapp, link, aiLink, aiSide
  <2>3. \A d \in Conns \ {c} : at'[d] = at[d]
    BY <1>0, <1>1, HandlerGoes, KindsDisjoint DEF Own
  <2>4. SameStage(c)
    <3>1. CASE Accept(c) \/ Register(c) \/ LockKpi(c) \/ LockRequest(c)
      BY <1>0, <2>0, <3>1
         DEF Accept, Register, LockKpi, LockRequest, Move, AtOK, SameStage, BetweenFrames,
             FrameInHand
    <3>2. CASE ReplyLen(c)
      BY <1>0, <2>0, <3>2 DEF ReplyLen, Move, AtOK, SameStage, BetweenFrames
    <3>3. CASE ReplyBody(c) \/ Answer(c)
      BY <1>0, <2>0, <3>3 DEF ReplyBody, Answer, Move, AtOK, SameStage, BetweenFrames
    <3>4. CASE Deregister(c) \/ CloseXapp(c)
      BY <1>0, <2>0, <3>4 DEF Deregister, CloseXapp, Move, AtOK, SameStage
    <3> QED BY <1>1, <2>1, <3>1, <3>2, <3>3, <3>4 DEF Own, XappThread, Handler
  <2> QED BY <2>0, <2>2, <2>3, <2>4 DEF SameStage
<1>2. ASSUME \A c \in Conns : at'[c] = at[c]
      PROVE  \A c \in Conns : SameStage(c)
  BY <1>2 DEF SameStage
<1>3. ASSUME NEW a \in AiConns, Own(Receiver(a))
      PROVE  /\ UNCHANGED <<up, aup, delivered, sends>>
             /\ \A c \in Conns : msg'[c] = msg[c] /\ at'[c] = at[c]
  <2>1. UNCHANGED <<up, aup, delivered, sends>>
    BY <1>3 DEF Own, Receiver, AiRecvLen, AiRecvBody, StartBroadcast, Broadcast, ForgetAi,
                CloseAi, link, aiLink, aiSide
  <2>2. UNCHANGED msg \/ \E m : msg' = [msg EXCEPT ![a] = m]
    BY <1>3 DEF Own, Receiver, AiRecvLen, AiRecvBody, StartBroadcast, Broadcast, ForgetAi,
                CloseAi
  <2>3. \A c \in Conns : msg'[c] = msg[c]
    BY <1>0, <2>2, KindsDisjoint DEF DataOK
  <2>4. \A c \in Conns : at'[c] = at[c]
    BY <1>0, <1>3, ReceiverGoes, KindsDisjoint DEF Own
  <2> QED BY <2>1, <2>3, <2>4
<1>4. ASSUME NEW k \in Cmds, Own(CommandThread(k))
      PROVE  /\ UNCHANGED <<up, aup, delivered, sends>>
             /\ \A c \in Conns : msg'[c] = msg[c] /\ at'[c] = at[c]
  <2>1. UNCHANGED <<up, aup, delivered, sends>>
    BY <1>4 DEF Own, CommandThread, Command, Commander, StartBroadcast, Broadcast, link,
                aiLink, aiSide
  <2>2. UNCHANGED msg \/ \E m : msg' = [msg EXCEPT ![k] = m]
    BY <1>4 DEF Own, CommandThread, Command, Commander, StartBroadcast, Broadcast
  <2>3. \A c \in Conns : msg'[c] = msg[c]
    BY <1>0, <2>2, KindsDisjoint DEF DataOK
  <2>4. \A c \in Conns : at'[c] = at[c]
    BY <1>0, <1>4, CommandGoes, KindsDisjoint DEF Own
  <2> QED BY <2>1, <2>3, <2>4
<1>5. ASSUME Own(ConnectAi) \/ Own(SpawnReceiver)
      PROVE  /\ UNCHANGED <<up, aup, delivered, sends>>
             /\ \A c \in Conns : msg'[c] = msg[c] /\ at'[c] = at[c]
  <2>1. UNCHANGED <<up, aup, delivered, sends, msg>>
    BY <1>5 DEF Own, ConnectAi, SpawnReceiver, link, aiLink, aiSide
  <2>2. \A c \in Conns : at'[c] = at[c]
    <3>1. \A c \in Conns : c # ai_connection /\ c \in Threads
      BY KindsDisjoint DEF TypeInv, SharedOK
    <3>2. UNCHANGED at \/ at' = [at EXCEPT ![ai_connection] = "len"]
      BY <1>5 DEF Own, ConnectAi, SpawnReceiver
    <3> QED BY <1>0, <3>1, <3>2 DEF AtOK
  <2> QED BY <2>1, <2>2
<1>6. ASSUME NEW a \in AiConns, Own(AiReads(a) \/ AiControls(a) \/ AiCloses(a))
      PROVE  UNCHANGED <<up, aup, delivered, sends, msg, at>>
  BY <1>6 DEF Own, MovesFrame, AiControls, AiCloses, AiSends, link, aiSide
<1>7. ASSUME NEW c \in Conns, XConnect(c) \/ XSend(c) \/ XRead(c) \/ XClose(c)
      PROVE  UNCHANGED <<up, aup, delivered, sends, msg, at>>
  BY <1>7 DEF MovesFrame, XConnect, Connect, XRead, XClose, relay, aiLink, aiSide
<1>8. ASSUME UNCHANGED rvars PROVE UNCHANGED <<up, aup, delivered, sends, msg, at>>
  BY <1>8 DEF rvars, relay, aiLink, aiSide, link
<1>9. CASE \E c \in Conns : Own(XappThread(c))
  BY <1>1, <1>9
<1>10. CASE /\ UNCHANGED <<up, aup, delivered, sends>>
            /\ \A c \in Conns : msg'[c] = msg[c] /\ at'[c] = at[c]
  BY <1>2, <1>10
<1> QED BY <1>3, <1>4, <1>5, <1>6, <1>7, <1>8, <1>9, <1>10, NextCases

\* What frame ids and counts are, for the arithmetic.
LEMMA IdsAreNumbers ==
  ASSUME TypeInv, NEW c \in Conns
  PROVE  /\ \A i \in DOMAIN up[c] : up[c][i].id \in Nat /\ i \in Nat
         /\ \A n \in OnWay(c) : n \in Nat
         /\ msg[c] \in Message /\ msg[c].id \in Nat /\ sends \in Nat
         /\ up[c] \in Seq(UpUnit)
<1>1. up[c] \in Seq(UpUnit)
  BY DEF TypeInv, LinkOK
<1>2. \A i \in DOMAIN up[c] : up[c][i] \in UpUnit /\ i \in Nat
  BY <1>1
<1>3. msg[c] \in Message
  BY KindsDisjoint DEF TypeInv, DataOK
<1> QED BY <1>1, <1>2, <1>3 DEF UpUnit, OnWay, Message, TypeInv, CountOK

\* The frame in a handler's hand goes to the AI, or is lost.
LEMMA ForwardInOrder ==
  ASSUME TypeInv, AiOrderInv, ConnsInOrder, NEW c \in Conns,
         Own(ForwardKpi(c) \/ ForwardRequest(c))
  PROVE  AiOrderInv' /\ ConnsInOrder'
<1> DEFINE f == [conn |-> c, m |-> msg[c]]
<1>0. AiOK /\ AtOK /\ SharedOK /\ c \in Threads
  BY KindsDisjoint DEF TypeInv
<1>1. /\ at[c] \in FrameInHand /\ at'[c] \in BetweenFrames
      /\ \A d \in Conns \ {c} : at'[d] = at[d]
      /\ UNCHANGED <<up, msg, sends, delivered>>
      /\ \/ UNCHANGED aup
         \/ ai_connection # NoAi /\ SendToAi(f)
  <2>1. \A d \in Conns \ {c} : at'[d] = at[d]
    BY <1>0, HandlerGoes, KindsDisjoint DEF Own, XappThread, Handler
  <2>2. CASE ForwardKpi(c)
    BY <1>0, <2>1, <2>2
       DEF Own, ForwardKpi, Move, AtOK, FrameInHand, BetweenFrames, link, aiSide
  <2>3. CASE ForwardRequest(c)
    <3>1. at[c] \in FrameInHand /\ UNCHANGED <<up, msg, sends, delivered>>
      BY <2>3 DEF Own, ForwardRequest, FrameInHand, link, aiSide
    <3>2. at'[c] \in BetweenFrames
      BY <1>0, <2>3 DEF ForwardRequest, Move, AtOK, BetweenFrames
    <3>3. UNCHANGED aup \/ (ai_connection # NoAi /\ SendToAi(f))
      BY <2>3 DEF ForwardRequest
    <3> QED BY <2>1, <3>1, <3>2, <3>3
  <2> QED BY <2>2, <2>3 DEF Own
<1>2. /\ msg[c].id <= sends
      /\ \A n \in OnWay(c) : n < msg[c].id
      /\ \A i \in DOMAIN up[c] : ComesAfter(msg[c].id, up[c][i])
      /\ UpInOrder(c)
  BY <1>1 DEF ConnsInOrder, HandlerIsPast
<1>3. f \in AiFrame /\ f.conn = c /\ f.m.id = msg[c].id
  BY IdsAreNumbers DEF AiFrame
<1> HIDE DEF f
<1>4. /\ AiOrderInv'
      /\ OnWay(c)' \subseteq OnWay(c) \cup {msg[c].id}
      /\ \A d \in Conns \ {c} : OnWay(d)' \subseteq OnWay(d)
  <2>1. CASE UNCHANGED aup
    BY <1>1, <2>1
       DEF AiOrderInv, HistoryOK, AiStreamsInOrder, ReadIsPast, InOrder, OnWay
  <2>2. CASE aup' = [aup EXCEPT ![ai_connection] = Append(@, f)] /\ ai_connection \in AiConns
    BY <1>0, <1>1, <1>2, <1>3, <2>2, FrameJoins
  <2>3. ai_connection # NoAi => ai_connection \in AiConns
    BY <1>0 DEF SharedOK
  <2> QED BY <1>1, <2>1, <2>2, <2>3 DEF SendToAi
<1>5. \A d \in Conns \ {c} : UpInOrder(d)' /\ HandlerIsPast(d)'
  BY <1>1, <1>4, StageKept DEF ConnsInOrder, SameStage
<1>6. UpInOrder(c)'
  BY <1>1, <1>2 DEF UpInOrder, ComesAfter
<1>7. HandlerIsPast(c)'
  <2>1. \A n \in OnWay(c)' : n \in Nat /\ n <= msg[c].id
    BY <1>2, <1>4, IdsAreNumbers
  <2>2. \A n \in OnWay(c)' : n <= sends
    BY <1>2, <2>1, IdsAreNumbers
  <2>3. ASSUME NEW n \in OnWay(c)', NEW i \in DOMAIN up[c] PROVE ComesAfter(n, up[c][i])
    <3>1. n \in Nat /\ n <= msg[c].id /\ msg[c].id \in Nat /\ up[c][i].id \in Nat
      BY <2>1, IdsAreNumbers
    <3>2. ComesAfter(msg[c].id, up[c][i])
      BY <1>2
    <3> QED BY <3>1, <3>2 DEF ComesAfter
  <2> QED
    BY <1>1, <2>2, <2>3 DEF HandlerIsPast, ComesAfter, BetweenFrames, FrameInHand
<1> QED BY <1>4, <1>5, <1>6, <1>7 DEF ConnsInOrder

\* A handler reads a length, a body, or finds the end of the stream.
LEMMA ReceiveInOrder ==
  ASSUME TypeInv, AiOrderInv, ConnsInOrder, NEW c \in Conns, Own(RecvLen(c) \/ RecvBody(c))
  PROVE  AiOrderInv' /\ ConnsInOrder'
<1>0. AtOK /\ DataOK /\ LinkOK /\ c \in Threads /\ UpInOrder(c) /\ HandlerIsPast(c)
  BY KindsDisjoint DEF TypeInv, ConnsInOrder
<1>1. /\ UNCHANGED <<aup, delivered, sends>>
      /\ \A d \in Conns \ {c} : at'[d] = at[d] /\ up'[d] = up[d] /\ msg'[d] = msg[d]
  <2>1. \A d \in Conns \ {c} : at'[d] = at[d]
    BY <1>0, HandlerGoes, KindsDisjoint DEF Own, XappThread, Handler
  <2>2. UNCHANGED <<aup, delivered, sends>>
    BY DEF Own, RecvLen, RecvBody, aiLink, aiSide
  <2>3. \A d \in Conns \ {c} : up'[d] = up[d] /\ msg'[d] = msg[d]
    BY <1>0, KindsDisjoint DEF Own, RecvLen, RecvBody, LinkOK, DataOK
  <2> QED BY <2>1, <2>2, <2>3
<1>2. AiOrderInv' /\ \A d \in Conns : OnWay(d)' = OnWay(d)
  BY <1>1 DEF AiOrderInv, HistoryOK, AiStreamsInOrder, ReadIsPast, InOrder, OnWay
<1>3. \A d \in Conns \ {c} : UpInOrder(d)' /\ HandlerIsPast(d)'
  BY <1>1, <1>2, StageKept DEF ConnsInOrder, SameStage
<1>4. CASE up[c] # <<>> /\ up' = [up EXCEPT ![c] = Tail(@)]
  <2>0. /\ up'[c] = Tail(up[c]) /\ Head(up[c]) = up[c][1] /\ 1 \in DOMAIN up[c]
        /\ Head(up[c]) \in UpUnit
        /\ \A i \in DOMAIN up'[c] : /\ i \in Nat \ {0} /\ i + 1 \in DOMAIN up[c]
                                    /\ up'[c][i] = up[c][i + 1]
    BY <1>0, <1>4, TailElements DEF LinkOK
  <2>1. UpInOrder(c)'
    <3>1. ASSUME NEW i \in DOMAIN up'[c], NEW j \in DOMAIN up'[c], i < j
          PROVE  ComesAfter(up'[c][i].id, up'[c][j])
      <4>1. /\ i + 1 \in DOMAIN up[c] /\ j + 1 \in DOMAIN up[c] /\ i + 1 < j + 1
            /\ up'[c][i] = up[c][i + 1] /\ up'[c][j] = up[c][j + 1]
        BY <2>0, <3>1
      <4> QED BY <1>0, <4>1 DEF UpInOrder
    <3>2. \A i \in DOMAIN up'[c] : up'[c][i].id <= sends'
      BY <1>0, <1>1, <2>0 DEF UpInOrder
    <3> QED BY <3>1, <3>2 DEF UpInOrder, ComesAfter
  \* What is left comes after the unit that was read.
  <2>2. \A i \in DOMAIN up'[c] : ComesAfter(up[c][1].id, up'[c][i])
    BY <1>0, <2>0 DEF UpInOrder
  <2>3. /\ up[c][1].id \in Nat /\ up[c][1].id <= sends
        /\ \A i \in DOMAIN up'[c] : up'[c][i].id \in Nat
    BY <1>0, <2>0, IdsAreNumbers DEF UpInOrder
  <2>4. \A n \in OnWay(c) : n \in Nat /\ n <= sends
    BY <1>0, IdsAreNumbers DEF HandlerIsPast
  <2>5. CASE RecvLen(c)
    <3>1. at[c] = "len" /\ at'[c] = IF up[c][1].part = "len" THEN "body" ELSE "final"
      BY <1>0, <1>4, <2>0, <2>5 DEF RecvLen, Move, AtOK, UpEof
    <3>2. ASSUME up[c][1].part = "len"
          PROVE  \A n \in OnWay(c) : \A i \in DOMAIN up'[c] : n < up'[c][i].id
      <4>1. \A n \in OnWay(c) : n < up[c][1].id
        BY <1>0, <2>0, <3>1, <3>2 DEF HandlerIsPast, BetweenFrames, ComesAfter
      <4> QED BY <2>2, <2>3, <2>4, <4>1 DEF ComesAfter
    <3>3. HandlerIsPast(c)'
      BY <1>1, <1>2, <2>4, <3>1, <3>2 DEF HandlerIsPast, BetweenFrames, FrameInHand
    <3> QED BY <1>2, <1>3, <2>1, <3>3 DEF ConnsInOrder
  <2>6. CASE RecvBody(c)
    <3>1. /\ at[c] = "body" /\ at'[c] \in {"lock_kpi", "lock_req"}
          /\ msg'[c].id = up[c][1].id
      BY <1>0, <1>4, <2>0, <2>6 DEF RecvBody, Move, AtOK, DataOK, UpEof, Body
    <3>2. \A n \in OnWay(c) : n < up[c][1].id
      BY <1>0, <2>0, <3>1 DEF HandlerIsPast
    <3>3. HandlerIsPast(c)'
      BY <1>1, <1>2, <2>2, <2>3, <2>4, <3>1, <3>2
         DEF HandlerIsPast, BetweenFrames, FrameInHand, ComesAfter
    <3> QED BY <1>2, <1>3, <2>1, <3>3 DEF ConnsInOrder
  <2> QED BY <2>5, <2>6 DEF Own
<1>5. CASE UNCHANGED up
  <2>1. at'[c] = "final"
    <3>1. up[c] # <<>> => Tail(up[c]) # up[c]
      BY <1>0 DEF LinkOK
    <3>2. UpEof(c)
      BY <1>0, <1>5, <3>1 DEF Own, RecvLen, RecvBody, LinkOK
    <3>3. up[c] = <<>>
      BY <3>2 DEF UpEof
    <3> QED BY <1>0, <3>3 DEF Own, RecvLen, RecvBody, Move, AtOK
  <2>2. UpInOrder(c)' /\ HandlerIsPast(c)'
    BY <1>0, <1>1, <1>2, <1>5, <2>1
       DEF UpInOrder, HandlerIsPast, ComesAfter, BetweenFrames, FrameInHand
  <2> QED BY <1>2, <1>3, <2>2 DEF ConnsInOrder
<1> QED BY <1>4, <1>5 DEF Own, RecvLen, RecvBody

\* An xApp sends a frame, or a part of one.
LEMMA SendInOrder ==
  ASSUME TypeInv, AiOrderInv, ConnsInOrder, NEW c \in Conns, XSend(c)
  PROVE  AiOrderInv' /\ ConnsInOrder'
<1>0. LinkOK /\ UpInOrder(c) /\ HandlerIsPast(c) /\ sends \in Nat
  BY DEF TypeInv, CountOK, ConnsInOrder
<1>1. UNCHANGED <<aup, delivered, at, msg>> /\ sends' = sends + 1
  BY DEF XSend, relay, aiLink, aiSide
<1>2. AiOrderInv' /\ \A d \in Conns : OnWay(d)' = OnWay(d)
  BY <1>1 DEF AiOrderInv, HistoryOK, AiStreamsInOrder, ReadIsPast, InOrder, OnWay
\* What is appended is of the new frame, its length before its body.
<1>3. \A d \in Conns \ {c} : up'[d] = up[d]
  BY <1>0 DEF XSend, LinkOK
<1>4. \A i \in DOMAIN up'[c] :
        \/ i \in DOMAIN up[c] /\ up'[c][i] = up[c][i]
        \/ /\ up'[c][i].id = sends + 1
           /\ \A j \in DOMAIN up[c] : j < i
           /\ \A j \in DOMAIN up'[c] : i < j => up'[c][j].part = "body"
                                               /\ up'[c][j].id = sends + 1
  <2>1. PICK k \in XKinds :
          LET units == << [part |-> "len", id |-> sends', kind |-> k],
                          [part |-> "body", id |-> sends', kind |-> k] >>
          IN \/ up' = [up EXCEPT ![c] = @ \o units]
             \/ \E i \in 1..2 : up' = [up EXCEPT ![c] = Append(@, units[i])]
    BY DEF XSend
  <2> DEFINE u == [part |-> "len", id |-> sends', kind |-> k]
             v == [part |-> "body", id |-> sends', kind |-> k]
  <2>2. u.id = sends + 1 /\ v.id = sends + 1 /\ v.part = "body"
    BY <1>1
  <2>3. \/ up' = [up EXCEPT ![c] = @ \o <<u, v>>]
        \/ up' = [up EXCEPT ![c] = Append(@, u)]
        \/ up' = [up EXCEPT ![c] = Append(@, v)]
    BY <2>1
  <2> HIDE DEF u, v
  <2>4. up[c] \in Seq(UpUnit)
    BY <1>0 DEF LinkOK
  <2>5. CASE up' = [up EXCEPT ![c] = @ \o <<u, v>>]
    <3>1. up'[c] = up[c] \o <<u, v>>
      BY <1>0, <2>5 DEF LinkOK
    <3>2. /\ Len(up[c]) \in Nat /\ DOMAIN up[c] = 1..Len(up[c])
          /\ DOMAIN up'[c] = 1..(Len(up[c]) + 2)
          /\ \A i \in DOMAIN up[c] : up'[c][i] = up[c][i]
          /\ up'[c][Len(up[c]) + 1] = u /\ up'[c][Len(up[c]) + 2] = v
      BY <2>4, <3>1
    <3> TAKE i \in DOMAIN up'[c]
    <3>0. i \in DOMAIN up[c] \/ i = Len(up[c]) + 1 \/ i = Len(up[c]) + 2
      BY <3>2
    <3>3. CASE i \in DOMAIN up[c]
      BY <3>2, <3>3
    <3>4. CASE i = Len(up[c]) + 1
      BY <2>2, <3>2, <3>4
    <3>5. CASE i = Len(up[c]) + 2
      BY <2>2, <3>2, <3>5
    <3> QED BY <3>0, <3>3, <3>4, <3>5
  <2>6. ASSUME NEW w \in {u, v}, up' = [up EXCEPT ![c] = Append(@, w)]
        PROVE  \A i \in DOMAIN up'[c] :
                 \/ i \in DOMAIN up[c] /\ up'[c][i] = up[c][i]
                 \/ /\ up'[c][i].id = sends + 1
                    /\ \A j \in DOMAIN up[c] : j < i
                    /\ \A j \in DOMAIN up'[c] : i < j => up'[c][j].part = "body"
                                                        /\ up'[c][j].id = sends + 1
    <3>1. up'[c] = Append(up[c], w) /\ w.id = sends + 1
      BY <1>0, <2>2, <2>6 DEF LinkOK
    <3> QED BY <2>4, <3>1
  <2> QED BY <2>3, <2>5, <2>6
<1>5. \A d \in Conns : \A n \in OnWay(d) : n \in Nat /\ n < sends'
  BY <1>0, <1>1, IdsAreNumbers DEF ConnsInOrder, HandlerIsPast
<1>6. ASSUME NEW d \in Conns \ {c} PROVE UpInOrder(d)' /\ HandlerIsPast(d)'
  <2>1. UpInOrder(d) /\ HandlerIsPast(d) /\ up'[d] = up[d]
    BY <1>3 DEF ConnsInOrder
  <2>2. \A i \in DOMAIN up[d] : up[d][i].id <= sends'
    BY <1>0, <1>1, <2>1, IdsAreNumbers DEF UpInOrder
  <2>3. msg[d].id <= sends => msg[d].id <= sends'
    BY <1>0, <1>1, IdsAreNumbers
  <2>4. UpInOrder(d)'
    BY <2>1, <2>2 DEF UpInOrder, ComesAfter
  <2>5. HandlerIsPast(d)'
    <3>1. \A n \in OnWay(d) : n <= sends'
      BY <1>0, <1>1, <1>5
    <3> QED BY <1>1, <1>2, <2>1, <2>3, <3>1 DEF HandlerIsPast, ComesAfter
  <2> QED BY <2>4, <2>5
<1>7. \A i \in DOMAIN up[c] : up[c][i].id \in Nat /\ i \in Nat /\ up[c][i].id <= sends
  BY <1>0, IdsAreNumbers DEF UpInOrder
<1>8. UpInOrder(c)'
  <2>1. \A i \in DOMAIN up'[c] : up'[c][i].id <= sends'
    BY <1>0, <1>1, <1>4, <1>7
  <2>2. ASSUME NEW i \in DOMAIN up'[c], NEW j \in DOMAIN up'[c], i < j
        PROVE  ComesAfter(up'[c][i].id, up'[c][j])
    <3>1. CASE ~(i \in DOMAIN up[c] /\ up'[c][i] = up[c][i])
      BY <1>4, <2>2, <3>1 DEF ComesAfter
    <3>2. CASE i \in DOMAIN up[c] /\ up'[c][i] = up[c][i]
      <4>1. CASE j \in DOMAIN up[c] /\ up'[c][j] = up[c][j]
        BY <1>0, <2>2, <3>2, <4>1 DEF UpInOrder
      <4>2. CASE up'[c][j].id = sends + 1
        BY <1>0, <1>7, <3>2, <4>2 DEF ComesAfter
      <4> QED BY <1>4, <4>1, <4>2
    <3> QED BY <3>1, <3>2
  <2> QED BY <2>1, <2>2 DEF UpInOrder, ComesAfter
<1>9. HandlerIsPast(c)'
  <2>1. msg[c].id \in Nat
    BY IdsAreNumbers
  <2>2. at[c] \in FrameInHand =>
          /\ msg[c].id <= sends'
          /\ \A i \in DOMAIN up'[c] : ComesAfter(msg[c].id, up'[c][i])
    BY <1>0, <1>1, <1>4, <2>1 DEF HandlerIsPast, ComesAfter
  <2>3. at[c] \in BetweenFrames =>
          \A n \in OnWay(c) : \A i \in DOMAIN up'[c] : ComesAfter(n, up'[c][i])
    BY <1>0, <1>1, <1>4, <1>5 DEF HandlerIsPast, ComesAfter
  <2>4. at[c] = "body" => \A n \in OnWay(c) : \A i \in DOMAIN up'[c] : n < up'[c][i].id
    BY <1>0, <1>1, <1>4, <1>5 DEF HandlerIsPast
  <2>5. \A n \in OnWay(c) : n <= sends'
    BY <1>0, <1>1, <1>5
  <2> QED BY <1>0, <1>1, <1>2, <2>2, <2>3, <2>4, <2>5 DEF HandlerIsPast, ComesAfter
<1> QED BY <1>2, <1>6, <1>8, <1>9 DEF ConnsInOrder

LEMMA OrderKept ==
  ASSUME TypeInv, AiOrderInv, ConnsInOrder, [Next]_rvars
  PROVE  AiOrderInv' /\ ConnsInOrder'
<1>0. AtOK
  BY DEF TypeInv
<1>1. CASE ~MovesFrame
  <2>1. AiOrderInv' /\ \A c \in Conns : OnWay(c)' = OnWay(c)
    BY <1>1, QuietSteps
       DEF AiOrderInv, HistoryOK, AiStreamsInOrder, ReadIsPast, InOrder, OnWay
  <2>2. \A c \in Conns : UpInOrder(c)' /\ HandlerIsPast(c)'
    BY <1>1, <2>1, QuietSteps, StageKept DEF ConnsInOrder
  <2> QED BY <2>1, <2>2 DEF ConnsInOrder
<1>2. ASSUME NEW c \in Conns, XSend(c) PROVE AiOrderInv' /\ ConnsInOrder'
  BY <1>2, SendInOrder
<1>3. ASSUME NEW a \in AiConns, Own(AiReads(a)) PROVE AiOrderInv' /\ ConnsInOrder'
  <2>1. AiOrderInv' /\ \A c \in Conns : OnWay(c)' \subseteq OnWay(c)
    BY <1>3, FrameIsRead DEF Own, TypeInv
  <2>2. UNCHANGED <<up, msg, at, sends>>
    BY <1>3 DEF Own, AiReads, link
  <2>3. \A c \in Conns : UpInOrder(c)' /\ HandlerIsPast(c)'
    BY <2>1, <2>2, StageKept DEF ConnsInOrder, SameStage
  <2> QED BY <2>1, <2>3 DEF ConnsInOrder
<1>4. ASSUME NEW c \in Conns, Own(ForwardKpi(c) \/ ForwardRequest(c) \/ RecvLen(c) \/ RecvBody(c))
      PROVE  AiOrderInv' /\ ConnsInOrder'
  BY <1>4, ForwardInOrder, ReceiveInOrder DEF Own
\* A step that moves a frame does nothing to the xApps' counts unless it is XSend.
<1>5. CASE MovesFrame
  <2>1. CASE UNCHANGED <<sends, cut>>
    BY <1>2, <1>3, <1>4, <1>5, <2>1 DEF MovesFrame, Own
  <2>2. CASE ~UNCHANGED <<sends, cut>>
    <3>1. PICK c \in Conns : XConnect(c) \/ XSend(c) \/ XRead(c) \/ XClose(c)
      BY <2>2, NextCases DEF Own, rvars
    <3>2. XSend(c)
      BY <2>2, <3>1 DEF XConnect, XRead, XClose
    <3> QED BY <1>2, <3>2
  <2> QED BY <2>1, <2>2
<1> QED BY <1>1, <1>5

\* The AI reads no frame twice, and in order over each of its connections.
THEOREM InOrderCorrect == Spec => []InOrder
<1>1. Init => AiOrderInv /\ ConnsInOrder
  <2> SUFFICES ASSUME Init PROVE AiOrderInv /\ ConnsInOrder
    OBVIOUS
  <2>1. delivered = <<>> /\ \A a \in AiConns : aup[a] = <<>>
    BY DEF Init, AiInit, RelayInit
  <2>2. ASSUME NEW c \in Conns PROVE up[c] = <<>> /\ at[c] = "none"
    <3>1. up[c] = <<>>
      BY DEF Init, LinkInit
    <3>2. c \in Threads /\ c \notin Cmds
      BY KindsDisjoint
    <3>3. at = [t \in Threads |-> IF t \in Cmds THEN "idle" ELSE "none"]
      BY DEF Init, RelayInit
    <3> QED BY <3>1, <3>2, <3>3
  <2>3. \A c \in Conns : OnWay(c) = {}
    BY <2>1 DEF OnWay
  <2>4. AiOrderInv
    BY <2>1 DEF AiOrderInv, HistoryOK, AiStreamsInOrder, ReadIsPast, InOrder
  <2>5. ASSUME NEW c \in Conns PROVE UpInOrder(c) /\ HandlerIsPast(c)
    <3>1. UpInOrder(c)
      BY <2>2 DEF UpInOrder
    <3>2. at[c] \notin FrameInHand
      BY <2>2 DEF FrameInHand
    <3> QED BY <2>3, <3>1, <3>2 DEF HandlerIsPast
  <2> QED BY <2>4, <2>5 DEF ConnsInOrder
<1>2. CoreInv /\ AiOrderInv /\ ConnsInOrder /\ [Next]_rvars => AiOrderInv' /\ ConnsInOrder'
  BY OrderKept DEF CoreInv
<1>3. AiOrderInv => InOrder
  BY DEF AiOrderInv
<1> QED BY <1>1, <1>2, <1>3, CoreInvHolds, PTL DEF Spec
=============================================================================
