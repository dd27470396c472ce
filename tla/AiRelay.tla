------------------------------ MODULE AiRelay ------------------------------
(***************************************************************************)
(* The relay between the xApps and the external AI (ai_relay_server.py).   *)
(* One handle_xapp_connection thread per xApp connection, one              *)
(* receive_from_ai thread per AI connection, the connect_to_external_ai    *)
(* thread, and one handle_command_interface thread per test command.  They *)
(* share xapp_connections and ai_connection under connections_lock, which  *)
(* is not reentrant and is held across blocking sends and receives.        *)
(*                                                                         *)
(* A thread is named by the connection or the command it serves.           *)
(***************************************************************************)
EXTENDS TcpLink, FiniteSets

CONSTANTS
  AiConns,      \* connections to the external AI that may ever be made
  Cmds,         \* commands that arrive on the command port
  NoAi,         \* ai_connection is None
  NoOne,        \* connections_lock is free
  AiCap,        \* frames (units) the sockets to (from) the AI hold
  MaxControls,  \* bound on the control messages the AI sends
  MaxSends,     \* bound on the frames the xApps send
  XKinds,       \* subset of {"kpi", "reco"}: what the xApps send
  RelayFaults   \* subset of {"xclose", "aiclose", "cut"}

Threads == Conns \cup AiConns \cup Cmds

ASSUME RelayAssumption ==
  /\ Conns \cap AiConns = {} /\ Conns \cap Cmds = {} /\ AiConns \cap Cmds = {}
  /\ NoAi \notin Threads /\ NoOne \notin Threads
  /\ AiCap \in Nat \ {0, 1}
  /\ MaxControls \in Nat /\ MaxSends \in Nat
  /\ XKinds \subseteq {"kpi", "reco"}

VARIABLES
  lock,              \* the thread that holds connections_lock, or NoOne
  at,                \* where each thread is
  xapp_connections,  \* the registered connections
  ai_connection,     \* ai_connection
  connector,         \* connect_to_external_ai: "off", "connect" or "spawn"
  aend, xend,        \* the relay's and the AI's end of each AI connection
  aup, adown,        \* frames to the AI; units from the AI
  msg,               \* the message each thread is handling
  reply,             \* what each handler will send back for its request
  todo,              \* connections a broadcast has still to reach
  forwarded,         \* forwarded[k]: k reached some xApp ("success")
  result             \* the status that command k was answered with

VARIABLES
  controls,          \* control messages the AI has sent
  delivered,         \* history: what the AI has read, and over which AI connection
  sends,             \* frames the xApps have sent
  cut                \* connections on which an xApp broke off a frame

shared == <<lock, xapp_connections, ai_connection>>
aiLink == <<aend, xend, aup, adown>>
relay  == <<shared, at, connector, aiLink, msg, reply, todo, forwarded, result>>
aiSide == <<controls, delivered>>
rvars  == <<link, relay, aiSide, sends, cut>>

Message  == [id : Nat, kind : {"kpi", "reco", "control", "other"}]
NoAction == [id |-> 0, kind |-> "other"]       \* {"no_action": true}
\* Mutant: a message is kept as it came, with its framing.
BodyFramed(u) == u

Body(u)  == [id |-> u.id, kind |-> u.kind]
AiUnit(part, m) == [part |-> part, id |-> m.id, kind |-> m.kind]

RelayInit ==
  /\ lock = NoOne
  /\ at = [t \in Threads |-> IF t \in Cmds THEN "idle" ELSE "none"]
  /\ xapp_connections = {}
  /\ ai_connection = NoAi
  /\ connector = "connect"
  /\ aend = [a \in AiConns |-> "none"] /\ xend = [a \in AiConns |-> "none"]
  /\ aup = [a \in AiConns |-> <<>>]    /\ adown = [a \in AiConns |-> <<>>]
  /\ msg = [t \in Threads |-> NoAction]
  /\ reply = [c \in Conns |-> NoAction]
  /\ todo = [t \in Threads |-> {}]
  /\ forwarded = [k \in Cmds |-> FALSE]
  /\ result = [k \in Cmds |-> "none"]

Move(t, from, to) == at[t] = from /\ at' = [at EXCEPT ![t] = to]

\* Mutant: the lock is not released.
ReleaseForgotten(t) == lock = t /\ lock' = lock

Acquire(t) == lock = NoOne /\ lock' = t
Release(t) == lock = t /\ lock' = NoOne

AiRoom(a)  == Len(aup[a]) < AiCap
AiEof(a)   == adown[a] = <<>> /\ xend[a] = "closed"
-----------------------------------------------------------------------------
(* main's accept loop and handle_xapp_connection, for connection c.          *)

Accept(c) ==
  /\ rend[c] = "backlog"
  /\ rend' = [rend EXCEPT ![c] = "open"]
  /\ Move(c, "none", "register")
  /\ UNCHANGED <<cend, up, down, shared, connector, aiLink, msg, reply, todo,
                 forwarded, result, aiSide>>

Register(c) ==
  /\ lock = NoOne
  /\ Move(c, "register", "len")
  /\ xapp_connections' = xapp_connections \cup {c}
  /\ UNCHANGED <<link, lock, ai_connection, connector, aiLink, msg, reply, todo,
                 forwarded, result, aiSide>>

\* recv_framed: the four bytes of a length.  A body read as a length is far
\* above MAX_FRAME; that and end of file end the connection.
RecvLen(c) ==
  /\ at[c] = "len"
  /\ \/ /\ up[c] # <<>>
        /\ up' = [up EXCEPT ![c] = Tail(@)]
        /\ Move(c, "len", IF Head(up[c]).part = "len" THEN "body" ELSE "final")
     \/ /\ UpEof(c)
        /\ Move(c, "len", "final")
        /\ UNCHANGED up
  /\ UNCHANGED <<cend, rend, down, shared, connector, aiLink, msg, reply, todo,
                 forwarded, result, aiSide>>

RecvBody(c) ==
  /\ at[c] = "body"
  /\ \/ /\ up[c] # <<>>
        /\ up' = [up EXCEPT ![c] = Tail(@)]
        /\ msg' = [msg EXCEPT ![c] = Body(Head(up[c]))]
        /\ Move(c, "body", IF Head(up[c]).kind = "kpi" THEN "lock_kpi" ELSE "lock_req")
     \/ /\ UpEof(c)
        /\ Move(c, "body", "final")
        /\ UNCHANGED <<up, msg>>
  /\ UNCHANGED <<cend, rend, down, shared, connector, aiLink, reply, todo,
                 forwarded, result, aiSide>>

\* Mutant: the frame is sent again after it was sent.
SendToAiTwice(m) ==
  /\ xend[ai_connection] = "open" /\ AiRoom(ai_connection)
  /\ aup' = [aup EXCEPT ![ai_connection] = @ \o <<m, m>>]

\* The frame goes to the AI's socket, or is lost because the AI has closed it.
SendToAi(m) ==
  \/ /\ xend[ai_connection] = "open" /\ AiRoom(ai_connection)
     /\ aup' = [aup EXCEPT ![ai_connection] = Append(@, m)]
  \/ xend[ai_connection] = "closed" /\ UNCHANGED aup

\* Mutant: a KPI that finds the lock taken is dropped instead of waiting.
LockKpiOrDrop(c) ==
  /\ Move(c, "lock_kpi", IF lock = NoOne THEN "fwd_kpi" ELSE "len")
  /\ lock' = IF lock = NoOne THEN c ELSE lock
  /\ UNCHANGED <<link, xapp_connections, ai_connection, connector, aiLink, msg,
                 reply, todo, forwarded, result, aiSide>>

\* Forwarding a KPI, or dropping it when the AI is not connected.
LockKpi(c) ==
  /\ Acquire(c)
  /\ Move(c, "lock_kpi", "fwd_kpi")
  /\ UNCHANGED <<link, xapp_connections, ai_connection, connector, aiLink, msg,
                 reply, todo, forwarded, result, aiSide>>

ForwardKpi(c) ==
  /\ Move(c, "fwd_kpi", "len")
  /\ \/ ai_connection = NoAi /\ UNCHANGED aup
     \/ ai_connection # NoAi /\ SendToAi([conn |-> c, m |-> msg[c]])
  /\ Release(c)
  /\ UNCHANGED <<link, xapp_connections, ai_connection, connector, aend, xend,
                 adown, msg, reply, todo, forwarded, result, aiSide>>

\* A recommendation request: the lock is held until the answer is back.
LockRequest(c) ==
  /\ Acquire(c)
  /\ Move(c, "lock_req", "fwd_req")
  /\ UNCHANGED <<link, xapp_connections, ai_connection, connector, aiLink, msg,
                 reply, todo, forwarded, result, aiSide>>

\* There is no answer to wait for when the AI is not connected or the send fails.
ForwardRequest(c) ==
  /\ at[c] = "fwd_req"
  /\ \/ /\ ai_connection \in {NoAi} \cup {a \in AiConns : xend[a] = "closed"}
        /\ reply' = [reply EXCEPT ![c] = NoAction]
        /\ Move(c, "fwd_req", "reply")
        /\ UNCHANGED aup
     \/ /\ ai_connection # NoAi
        /\ SendToAi([conn |-> c, m |-> msg[c]])
        /\ Move(c, "fwd_req", "reply_len")
        /\ UNCHANGED reply
  /\ UNCHANGED <<link, shared, connector, aend, xend, adown, msg, todo,
                 forwarded, result, aiSide>>

\* recv_framed(ai_connection), on the socket that receive_from_ai reads too.
ReplyLen(c) ==
  /\ at[c] = "reply_len"
  /\ \/ /\ adown[ai_connection] # <<>>
        /\ adown' = [adown EXCEPT ![ai_connection] = Tail(@)]
        /\ LET isLen == Head(adown[ai_connection]).part = "len" IN
             /\ Move(c, "reply_len", IF isLen THEN "reply_body" ELSE "reply")
             /\ reply' = IF isLen THEN reply ELSE [reply EXCEPT ![c] = NoAction]
     \/ /\ AiEof(ai_connection)
        /\ Move(c, "reply_len", "reply")
        /\ reply' = [reply EXCEPT ![c] = NoAction]
        /\ UNCHANGED adown
  /\ UNCHANGED <<link, shared, connector, aend, xend, aup, msg, todo,
                 forwarded, result, aiSide>>

ReplyBody(c) ==
  /\ at[c] = "reply_body"
  /\ \/ /\ adown[ai_connection] # <<>>
        /\ adown' = [adown EXCEPT ![ai_connection] = Tail(@)]
        /\ LET u == Head(adown[ai_connection]) IN
             reply' = [reply EXCEPT ![c] = IF u.part = "body" THEN Body(u) ELSE NoAction]
     \/ /\ AiEof(ai_connection)
        /\ reply' = [reply EXCEPT ![c] = NoAction]
        /\ UNCHANGED adown
  /\ Move(c, "reply_body", "reply")
  /\ UNCHANGED <<link, shared, connector, aend, xend, aup, msg, todo,
                 forwarded, result, aiSide>>

\* send_framed to an xApp: blocks while its buffers are full, and is lost (or
\* fails, which only prints) when the xApp has closed the connection.
SendToXapp(c, m) ==
  \/ /\ cend[c] = "open" /\ DownRoom(c)
     /\ down' = [down EXCEPT ![c] = Append(@, m)]
  \/ cend[c] = "closed" /\ UNCHANGED down

Answer(c) ==
  /\ Move(c, "reply", "len")
  /\ SendToXapp(c, reply[c])
  /\ Release(c)
  /\ UNCHANGED <<cend, rend, up, xapp_connections, ai_connection, connector, aiLink,
                 msg, reply, todo, forwarded, result, aiSide>>

\* Mutant: the connection is closed and stays registered.
DeregisterForgotten(c) ==
  /\ lock = NoOne
  /\ Move(c, "final", "close")
  /\ UNCHANGED <<link, shared, connector, aiLink, msg, reply, todo,
                 forwarded, result, aiSide>>

\* finally: deregister under the lock, then close.
Deregister(c) ==
  /\ lock = NoOne
  /\ Move(c, "final", "close")
  /\ xapp_connections' = xapp_connections \ {c}
  /\ UNCHANGED <<link, lock, ai_connection, connector, aiLink, msg, reply, todo,
                 forwarded, result, aiSide>>

CloseXapp(c) ==
  /\ Move(c, "close", "done")
  /\ rend' = [rend EXCEPT ![c] = "closed"]
  /\ UNCHANGED <<cend, up, down, shared, connector, aiLink, msg, reply, todo,
                 forwarded, result, aiSide>>

Handler(c) ==
  \/ Register(c) \/ RecvLen(c) \/ RecvBody(c) \/ LockKpi(c) \/ ForwardKpi(c)
  \/ LockRequest(c) \/ ForwardRequest(c) \/ ReplyLen(c) \/ ReplyBody(c)
  \/ Answer(c) \/ Deregister(c) \/ CloseXapp(c)

-----------------------------------------------------------------------------
(* receive_from_ai for AI connection a, and the broadcast that it shares     *)
(* with handle_command_interface.                                            *)

AiRecvLen(a) ==
  /\ at[a] = "len"
  /\ \/ /\ adown[a] # <<>>
        /\ adown' = [adown EXCEPT ![a] = Tail(@)]
        /\ Move(a, "len", IF Head(adown[a]).part = "len" THEN "body" ELSE "final")
     \/ /\ AiEof(a)
        /\ Move(a, "len", "final")
        /\ UNCHANGED adown
  /\ UNCHANGED <<link, shared, connector, aend, xend, aup, msg, reply, todo,
                 forwarded, result, aiSide>>

\* Only control messages are forwarded.  A unit that is not the body that the
\* length announced is not JSON, and is dropped too.
AiRecvBody(a) ==
  /\ at[a] = "body"
  /\ \/ /\ adown[a] # <<>>
        /\ adown' = [adown EXCEPT ![a] = Tail(@)]
        /\ LET u == Head(adown[a]) IN
             /\ msg' = [msg EXCEPT ![a] = Body(u)]
             /\ Move(a, "body", IF u.part = "body" /\ u.kind = "control"
                                THEN "wait" ELSE "len")
     \/ /\ AiEof(a)
        /\ Move(a, "body", "final")
        /\ UNCHANGED <<adown, msg>>
  /\ UNCHANGED <<link, shared, connector, aend, xend, aup, reply, todo,
                 forwarded, result, aiSide>>

\* Where a broadcasting thread goes once it has released the lock.
AfterBroadcast(t) == IF t \in AiConns THEN "len" ELSE "done"

\* Under the lock: nobody to send to, or a snapshot of the dict to go through.
StartBroadcast(t) ==
  /\ t \in AiConns \cup Cmds
  /\ lock = NoOne
  /\ \/ /\ xapp_connections = {}
        /\ Move(t, "wait", AfterBroadcast(t))
        /\ result' = IF t \in Cmds THEN [result EXCEPT ![t] = "error"] ELSE result
        /\ UNCHANGED <<lock, todo>>
     \/ /\ xapp_connections # {}
        /\ Move(t, "wait", "broadcast")
        /\ lock' = t
        /\ todo' = [todo EXCEPT ![t] = xapp_connections]
        /\ UNCHANGED result
  /\ UNCHANGED <<link, xapp_connections, ai_connection, connector, aiLink, msg,
                 reply, forwarded, aiSide>>

\* One send of the broadcast, still under the lock; after the last one a command
\* is answered and the lock released.
Broadcast(t) ==
  /\ at[t] = "broadcast"
  /\ \E c \in todo[t], ok \in BOOLEAN :
       /\ SendToXapp(c, msg[t])
       /\ cend[c] = "open" => ok
       /\ todo' = [todo EXCEPT ![t] = @ \ {c}]
       /\ forwarded' = IF t \in Cmds THEN [forwarded EXCEPT ![t] = @ \/ ok] ELSE forwarded
  /\ \/ /\ todo'[t] # {}
        /\ UNCHANGED <<at, lock, result>>
     \/ /\ todo'[t] = {}
        /\ Move(t, "broadcast", AfterBroadcast(t))
        /\ Release(t)
        /\ result' = IF t \in Cmds
                     THEN [result EXCEPT ![t] = IF forwarded'[t] THEN "ok" ELSE "error"]
                     ELSE result
  /\ UNCHANGED <<cend, rend, up, xapp_connections, ai_connection, connector, aiLink,
                 msg, reply, aiSide>>

\* Mutant: the reconnection starts before the old connection is done with.
ForgetAiReconnects(a) ==
  /\ lock = NoOne
  /\ Move(a, "final", "close")
  /\ ai_connection' = NoAi
  /\ connector' = "connect"
  /\ UNCHANGED <<link, lock, xapp_connections, aiLink, msg, reply, todo,
                 forwarded, result, aiSide>>

\* finally: forget the connection under the lock, then close and reconnect.
ForgetAi(a) ==
  /\ lock = NoOne
  /\ Move(a, "final", "close")
  /\ ai_connection' = NoAi
  /\ UNCHANGED <<link, lock, xapp_connections, connector, aiLink, msg, reply, todo,
                 forwarded, result, aiSide>>

CloseAi(a) ==
  /\ Move(a, "close", "done")
  /\ aend' = [aend EXCEPT ![a] = "closed"]
  /\ connector' = "connect"
  /\ UNCHANGED <<link, shared, xend, aup, adown, msg, reply, todo,
                 forwarded, result, aiSide>>

Receiver(a) ==
  AiRecvLen(a) \/ AiRecvBody(a) \/ StartBroadcast(a) \/ Broadcast(a)
  \/ ForgetAi(a) \/ CloseAi(a)

\* connect_to_external_ai sets ai_connection without the lock, then starts the
\* receiving thread.  While the AI refuses, it sleeps and tries again.
ConnectAi ==
  /\ connector = "connect"
  /\ \E a \in AiConns :
       /\ aend[a] = "none"
       /\ aend' = [aend EXCEPT ![a] = "open"]
       /\ xend' = [xend EXCEPT ![a] = "open"]
       /\ ai_connection' = a
  /\ connector' = "spawn"
  /\ UNCHANGED <<link, lock, at, xapp_connections, aup, adown, msg, reply, todo,
                 forwarded, result, aiSide>>

SpawnReceiver ==
  /\ connector = "spawn"
  /\ connector' = "off"
  /\ at' = [at EXCEPT ![ai_connection] = "len"]
  /\ UNCHANGED <<link, shared, aiLink, msg, reply, todo, forwarded, result, aiSide>>

\* handle_command_interface, up to the check of meid and cmd.  A connection
\* without data is closed without an answer.
Command(k) ==
  /\ \/ /\ Move(k, "idle", "wait")
        /\ UNCHANGED result
     \/ /\ Move(k, "idle", "done")
        /\ result' \in {result, [result EXCEPT ![k] = "error"]}
  /\ msg' = [msg EXCEPT ![k] = [id |-> 0, kind |-> "control"]]
  /\ UNCHANGED <<link, shared, connector, aiLink, reply, todo, forwarded, aiSide>>

Commander(k) == StartBroadcast(k) \/ Broadcast(k)

Relay ==
  \/ \E c \in Conns : Accept(c) \/ Handler(c)
  \/ \E a \in AiConns : Receiver(a)
  \/ ConnectAi \/ SpawnReceiver
  \/ \E k \in Cmds : Command(k) \/ Commander(k)

-----------------------------------------------------------------------------
(* The external AI: it reads what it is sent, answers every request, sends   *)
(* control messages when it likes, and may go away.                          *)

AiInit == controls = 0 /\ delivered = <<>>

AiSends(a, m) ==
  /\ Len(adown[a]) + 2 <= AiCap
  /\ adown' = [adown EXCEPT ![a] = @ \o << AiUnit("len", m), AiUnit("body", m) >>]

AiReads(a) ==
  /\ xend[a] = "open" /\ aup[a] # <<>>
  /\ aup' = [aup EXCEPT ![a] = Tail(@)]
  /\ delivered' = Append(delivered, [conn |-> Head(aup[a]).conn, m |-> Head(aup[a]).m,
                                     over |-> a])
  /\ IF Head(aup[a]).m.kind = "reco"
     THEN AiSends(a, [id |-> Head(aup[a]).m.id, kind |-> "other"])
     ELSE UNCHANGED adown
  /\ UNCHANGED <<link, shared, at, connector, aend, xend, msg, reply, todo, forwarded,
                 result, controls>>

AiControls(a) ==
  /\ xend[a] = "open" /\ controls < MaxControls
  /\ controls' = controls + 1
  /\ AiSends(a, [id |-> controls + 1, kind |-> "control"])
  /\ UNCHANGED <<link, shared, at, connector, aend, xend, aup, msg, reply, todo,
                 forwarded, result, delivered>>

AiCloses(a) ==
  /\ "aiclose" \in RelayFaults
  /\ xend[a] = "open"
  /\ xend' = [xend EXCEPT ![a] = "closed"]
  /\ UNCHANGED <<link, shared, at, connector, aend, aup, adown, msg, reply, todo,
                 forwarded, result, aiSide>>

Ai == \E a \in AiConns : AiReads(a) \/ AiControls(a) \/ AiCloses(a)

-----------------------------------------------------------------------------
(* The xApps, when this module is checked alone.  An xApp may break off a    *)
(* frame, and then sends no more on that connection.                         *)

XConnect(c) == Connect(c) /\ UNCHANGED <<relay, aiSide, sends, cut>>

XSend(c) ==
  /\ cend[c] = "open" /\ c \notin cut /\ sends < MaxSends
  /\ sends' = sends + 1
  /\ \E k \in XKinds :
       LET units == << [part |-> "len", id |-> sends', kind |-> k],
                       [part |-> "body", id |-> sends', kind |-> k] >>
       IN \/ /\ Len(up[c]) + 2 <= UpCap
             /\ up' = [up EXCEPT ![c] = @ \o units]
             /\ UNCHANGED cut
          \/ /\ "cut" \in RelayFaults /\ UpRoom(c)
             /\ \E i \in 1..2 : up' = [up EXCEPT ![c] = Append(@, units[i])]
             /\ cut' = cut \cup {c}
  /\ UNCHANGED <<cend, rend, down, relay, aiSide>>

XRead(c) ==
  /\ cend[c] = "open" /\ down[c] # <<>>
  /\ down' = [down EXCEPT ![c] = Tail(@)]
  /\ UNCHANGED <<cend, rend, up, relay, aiSide, sends, cut>>

XClose(c) ==
  /\ "xclose" \in RelayFaults
  /\ cend[c] = "open"
  /\ cend' = [cend EXCEPT ![c] = "closed"]
  /\ UNCHANGED <<rend, up, down, relay, aiSide, sends, cut>>

Xapps == \E c \in Conns : XConnect(c) \/ XSend(c) \/ XRead(c) \/ XClose(c)

Init == LinkInit /\ RelayInit /\ AiInit /\ sends = 0 /\ cut = {}

\* A step of the relay or of the AI, which leaves the xApps' own state alone.
Own(A) == A /\ UNCHANGED <<sends, cut>>

Next == Own(Relay) \/ Own(Ai) \/ Xapps

\* Every relay thread runs; the AI reads, and every xApp reads what it is sent.
Fairness ==
  /\ \A c \in Conns :
       WF_rvars(Own(Accept(c))) /\ WF_rvars(Own(Handler(c))) /\ WF_rvars(XRead(c))
  /\ \A a \in AiConns : WF_rvars(Own(Receiver(a))) /\ WF_rvars(Own(AiReads(a)))
  /\ \A k \in Cmds : WF_rvars(Own(Commander(k)))
  /\ WF_rvars(Own(ConnectAi \/ SpawnReceiver))

Spec     == Init /\ [][Next]_rvars
FairSpec == Spec /\ Fairness

-----------------------------------------------------------------------------
HandlerLabels   == {"none", "register", "len", "body", "lock_kpi", "fwd_kpi", "lock_req",
                    "fwd_req", "reply_len", "reply_body", "reply", "final", "close", "done"}
ReceiverLabels  == {"none", "len", "body", "wait", "broadcast", "final", "close", "done"}
CommanderLabels == {"idle", "wait", "broadcast", "done"}
Holding         == {"fwd_kpi", "fwd_req", "reply_len", "reply_body", "reply", "broadcast"}

TypeOK ==
  /\ cend \in [Conns -> {"none", "open", "closed"}]
  /\ rend \in [Conns -> {"none", "backlog", "open", "closed"}]
  /\ lock \in Threads \cup {NoOne}
  /\ \A c \in Conns : at[c] \in HandlerLabels
  /\ \A a \in AiConns : at[a] \in ReceiverLabels
  /\ \A k \in Cmds : at[k] \in CommanderLabels
  /\ xapp_connections \in SUBSET Conns
  /\ ai_connection \in AiConns \cup {NoAi}
  /\ connector \in {"off", "connect", "spawn"}
  /\ aend \in [AiConns -> {"none", "open", "closed"}]
  /\ xend \in [AiConns -> {"none", "open", "closed"}]
  /\ aup \in [AiConns -> Seq([conn : Conns, m : Message])]
  /\ adown \in [AiConns -> Seq([part : {"len", "body"}, id : Nat, kind : {"control", "other"}])]
  /\ msg \in [Threads -> Message]
  /\ reply \in [Conns -> Message]
  /\ todo \in [Threads -> SUBSET Conns]
  /\ forwarded \in [Cmds -> BOOLEAN]
  /\ result \in [Cmds -> {"none", "ok", "error"}]

\* connections_lock is held exactly inside the `with` blocks, by one thread, and
\* every way out of a block releases it.
LockDiscipline == \A t \in Threads : at[t] \in Holding <=> lock = t

\* A socket that the relay can still write to is one that it has not closed: a
\* handler deregisters its connection before the close(), a broadcast goes
\* through its snapshot of the dict without letting go of the lock, and the
\* receiving thread clears ai_connection before it closes that socket.
NoWriteAfterClose ==
  /\ \A c \in xapp_connections : rend[c] = "open"
  /\ \A t \in Threads : at[t] = "broadcast" => \A c \in todo[t] : rend[c] = "open"
  /\ ai_connection # NoAi => aend[ai_connection] = "open"

\* Reconnecting never leaves two AI connections in use: one thread connects or
\* one receives, and ai_connection is that thread's socket.
LiveReceivers == {a \in AiConns : at[a] \notin {"none", "done"}}
OneAiConnection ==
  /\ Cardinality(LiveReceivers) + (IF connector = "off" THEN 0 ELSE 1) <= 1
  /\ \A a \in LiveReceivers : ai_connection = IF at[a] = "close" THEN NoAi ELSE a

\* The AI reads no frame twice, and what it reads of one xApp connection over one
\* of its own connections comes in the order in which it was sent.  When the relay
\* has reconnected, the AI may still read older frames from the connection before.
Follows(e, f) ==
  /\ e.m.id # f.m.id
  /\ e.over = f.over => e.m.id < f.m.id
InOrder ==
  \A i, j \in DOMAIN delivered :
    i < j /\ delivered[i].conn = delivered[j].conn => Follows(delivered[i], delivered[j])

\* "Wait for response from AI and forward back to xApp": a handler that waits
\* for the AI's answer gets one, and with it lets go of connections_lock.
RequestAnswered == \A c \in Conns : at[c] = "reply_len" ~> at[c] = "reply"
============================================================================
