---------------------------- MODULE AiTcpClient ----------------------------
(***************************************************************************)
(* The xApp's TCP client to the AI (xapp-mgmt/ai_tcp_client.cc): the RMR   *)
(* receiver threads call SendKpi and GetRecommendation, main calls         *)
(* StartControlCommandListener once, and the thread that starts runs       *)
(* configListenerLoop.  All share sock_ and the mutex mtx_;                *)
(* ensureConnected and one reset() also run without the mutex.             *)
(*                                                                         *)
(* The peer (relay) is the environment here: it accepts, reads, sends and  *)
(* closes.  ControlLoop replaces it by the relay's own model.              *)
(***************************************************************************)
EXTENDS TcpLink

CONSTANTS
  Workers,         \* RMR receiver threads
  Starter,         \* main, inside StartControlCommandListener
  Listener,        \* the thread that runs configListenerLoop
  NoConn,          \* sock_ == -1
  NoThread,           \* nobody holds the mutex
  Ops,             \* subset of {"kpi", "reco"}: what the workers call
  MaxCalls,        \* bound on the calls of all workers together
  MaxFrames,       \* bound on the frames the peer sends
  ReconnectEvery,  \* listener iterations between two attempts (100 in the code)
  Faults           \* subset of {"refuse", "close", "pollerr", "early"}

ClientThreads == Workers \cup {Starter, Listener}

ASSUME ClientAssumption ==
  /\ NoConn \notin Conns
  /\ NoThread \notin ClientThreads
  /\ Starter # Listener
  /\ Workers \cap {Starter, Listener} = {}
  /\ Ops \subseteq {"kpi", "reco"}
  /\ ReconnectEvery \in Nat \ {0}
  /\ MaxCalls \in Nat /\ MaxFrames \in Nat

VARIABLES
  sock,               \* sock_
  mtx,                \* the thread that holds mtx_, or NoThread
  pc,                 \* where each thread is
  call,               \* call[w]: the request of worker w's current call
  wrote,              \* history: the connection that took w's length prefix
  current_sock,       \* the listener's copy of sock_
  no_connection,      \* consecutive_no_connection, modulo ReconnectEvery
  listener_running,   \* listener_running_
  handler,            \* control_cmd_handler_ is installed
  hmsg,               \* the frame the listener has read
  handled,            \* history: the frames given to the handler
  calls, frames       \* calls made by workers, frames sent by the peer

client == <<sock, mtx, pc, call, wrote, current_sock, no_connection,
            listener_running, handler, hmsg, handled, calls>>
cvars   == <<link, client, frames>>

Request == [id : Nat, kind : {"kpi", "reco"}]
Unit    == [part : {"len", "body"}, id : Nat, kind : {"kpi", "reco"}]
\* "control": a control message with meid and cmd.  "other": every message that
\* the listener reads and ignores, or a recommendation.
Frame   == [id : Nat, kind : {"control", "other"}]
NoRequest == [id |-> 0, kind |-> "kpi"]
NoFrame   == [id |-> 0, kind |-> "other"]

ClientInit ==
  /\ LinkInit
  /\ sock = NoConn
  /\ mtx = NoThread
  /\ pc = [t \in ClientThreads |-> IF t = Starter THEN "install"
                             ELSE IF t = Listener THEN "off" ELSE "idle"]
  /\ call = [w \in Workers |-> NoRequest]
  /\ wrote = [w \in Workers |-> NoConn]
  /\ current_sock = NoConn
  /\ no_connection = 0
  /\ listener_running = FALSE
  /\ handler = FALSE
  /\ hmsg = [frame |-> NoFrame, conn |-> NoConn]
  /\ handled = <<>>
  /\ calls = 0
  /\ frames = 0

Goto(t, from, to) == pc[t] = from /\ pc' = [pc EXCEPT ![t] = to]

\* The values of sock_ on which send() and recv() fail.
SendFails == {NoConn} \cup {c \in Conns : cend[c] = "closed" \/ rend[c] = "closed"}
RecvFails == {NoConn} \cup {c \in Conns : cend[c] = "closed" \/ DownEof(c)}

-----------------------------------------------------------------------------
(* ensureConnected(): "check" up to the socket's error state, then reset()   *)
(* if it is broken, "connect" from there to the assignment of sock_.         *)
(* Workers run it with mtx_ held, the starter and the listener without.      *)

AfterEnsure(t, connected) ==
  CASE t = Starter    -> "spawn"
    [] t = Listener   -> "copy"
    [] t \in Workers  -> IF connected THEN "len" ELSE "idle"

\* A worker's failed call returns, which releases its lock_guard.
UnlockIfReturning(t, connected) ==
  mtx' = IF t \in Workers /\ ~connected THEN NoThread ELSE mtx

\* Mutant: a healthy socket is not recognised.
EnsureCheckAlwaysConnects(t) ==
  /\ Goto(t, "check", "connect")
  /\ UNCHANGED <<link, sock, mtx, call, wrote, current_sock, no_connection,
                 listener_running, handler, hmsg, handled, calls>>

\* SO_ERROR is set only when the peer has gone, and may be still clean then; it
\* cannot be read from a descriptor that is closed.
EnsureCheck(t) ==
  /\ \/ /\ sock # NoConn /\ cend[sock] = "open"
        /\ Goto(t, "check", AfterEnsure(t, TRUE))
     \/ /\ sock # NoConn /\ (cend[sock] = "closed" \/ rend[sock] = "closed")
        /\ Goto(t, "check", "reset_connect")
     \/ /\ sock = NoConn
        /\ Goto(t, "check", "connect")
  /\ UNCHANGED <<link, sock, mtx, call, wrote, current_sock, no_connection,
                 listener_running, handler, hmsg, handled, calls>>

\* When every member of Conns is used the bound refuses the connection.
EnsureConnect(t) ==
  /\ \/ \E c \in Conns :
          /\ Connect(c)
          /\ sock' = c
          /\ Goto(t, "connect", AfterEnsure(t, TRUE))
          /\ UNCHANGED mtx
     \/ /\ "refuse" \in Faults \/ Unused = {}
        /\ Goto(t, "connect", AfterEnsure(t, FALSE))
        /\ UnlockIfReturning(t, FALSE)
        /\ UNCHANGED <<sock, link>>
  /\ UNCHANGED <<call, wrote, current_sock, no_connection,
                 listener_running, handler, hmsg, handled, calls>>

-----------------------------------------------------------------------------
(* reset(), which reads sock_ to close it and then forgets it.  It is called *)
(* by ensureConnected ("connect" follows), by what fails with mtx_ held (the *)
(* call returns, the listener starts over, and either releases it) and by    *)
(* the listener after a poll() error (it starts over, nothing to release).   *)

AfterReset(t, why) ==
  CASE why = "connect"                    -> "connect"
    [] why = "return" /\ t \in Workers   -> "idle"
    [] why = "return" /\ t \notin Workers -> "copy"
    [] why = "poll"                       -> "copy"

ResetLabel(why) == CASE why = "connect" -> "reset_connect"
                     [] why = "return"  -> "reset_return"
                     [] why = "poll"    -> "reset_poll"
ClearLabel(why) == CASE why = "connect" -> "clear_connect"
                     [] why = "return"  -> "clear_return"
                     [] why = "poll"    -> "clear_poll"

\* Mutant: the failed call returns with the mutex held.
UnlockForgotten(why) == mtx' = mtx

UnlockAfterReset(why) == mtx' = IF why = "return" THEN NoThread ELSE mtx

\* if (sock_ >= 0) close(sock_)
ResetClose(t, why) ==
  /\ \/ /\ sock # NoConn
        /\ Goto(t, ResetLabel(why), ClearLabel(why))
        /\ cend' = [cend EXCEPT ![sock] = "closed"]
        /\ UNCHANGED mtx
     \/ /\ sock = NoConn
        /\ Goto(t, ResetLabel(why), AfterReset(t, why))
        /\ UnlockAfterReset(why)
        /\ UNCHANGED cend
  /\ UNCHANGED <<rend, up, down, sock, call, wrote, current_sock, no_connection,
                 listener_running, handler, hmsg, handled, calls>>

\* Mutant: the descriptor is closed and not forgotten.
ResetClearKeepsSock(t, why) ==
  /\ Goto(t, ClearLabel(why), AfterReset(t, why))
  /\ UnlockAfterReset(why)
  /\ UNCHANGED <<link, sock, call, wrote, current_sock, no_connection,
                 listener_running, handler, hmsg, handled, calls>>

\* sock_ = -1
ResetClear(t, why) ==
  /\ Goto(t, ClearLabel(why), AfterReset(t, why))
  /\ sock' = NoConn
  /\ UnlockAfterReset(why)
  /\ UNCHANGED <<link, call, wrote, current_sock, no_connection,
                 listener_running, handler, hmsg, handled, calls>>

Reset(t) == \E why \in {"connect", "return", "poll"} : ResetClose(t, why) \/ ResetClear(t, why)

-----------------------------------------------------------------------------
(* SendKpi and GetRecommendation, called by worker w.                        *)

Begin(w) ==
  /\ calls < MaxCalls
  /\ "early" \in Faults \/ pc[Starter] = "done"
  /\ Goto(w, "idle", "lock")
  /\ \E k \in Ops : call' = [call EXCEPT ![w] = [id |-> calls + 1, kind |-> k]]
  /\ calls' = calls + 1
  /\ UNCHANGED <<link, sock, mtx, wrote, current_sock, no_connection,
                 listener_running, handler, hmsg, handled>>

LockCall(w) ==
  /\ mtx = NoThread
  /\ mtx' = w
  /\ Goto(w, "lock", "check")
  /\ UNCHANGED <<link, sock, call, wrote, current_sock, no_connection,
                 listener_running, handler, hmsg, handled, calls>>

\* Mutant: SendKpi waits for a reply, as GetRecommendation does.
AfterSendWaits(w, part) == IF part = "len" THEN "body" ELSE "reply"

\* Where sendFramed goes after one of its two sendAll calls.
AfterSend(w, part) ==
  IF part = "len" THEN "body"
  ELSE IF call[w].kind = "reco" THEN "reply" ELSE "idle"

\* One sendAll: it reads sock_ again, and blocks while the buffers are full.
SendPart(w, part) ==
  /\ sock # NoConn /\ cend[sock] = "open"
  /\ \/ /\ rend[sock] # "closed" /\ UpRoom(sock)
        /\ up' = [up EXCEPT ![sock] = Append(@,
                    [part |-> part, id |-> call[w].id, kind |-> call[w].kind])]
     \/ rend[sock] = "closed" /\ UNCHANGED up       \* accepted, then lost
  /\ Goto(w, part, AfterSend(w, part))
  /\ wrote' = [wrote EXCEPT ![w] = IF part = "len" THEN sock ELSE @]
  /\ mtx' = IF AfterSend(w, part) = "idle" THEN NoThread ELSE mtx
  /\ UNCHANGED <<cend, rend, down, sock, call, current_sock, no_connection,
                 listener_running, handler, hmsg, handled, calls>>

\* A failed send() or recv() resets the connection and the call returns false.
CallFails(w) ==
  /\ \/ pc[w] \in {"len", "body"} /\ sock \in SendFails
     \/ pc[w] = "reply" /\ sock \in RecvFails
  /\ pc' = [pc EXCEPT ![w] = "reset_return"]
  /\ UNCHANGED <<link, sock, mtx, call, wrote, current_sock, no_connection,
                 listener_running, handler, hmsg, handled, calls>>

\* GetRecommendation takes the next frame for its reply, whatever it is.
RecvReply(w) ==
  /\ sock # NoConn /\ cend[sock] = "open" /\ down[sock] # <<>>
  /\ down' = [down EXCEPT ![sock] = Tail(@)]
  /\ Goto(w, "reply", "idle")
  /\ mtx' = NoThread
  /\ UNCHANGED <<cend, rend, up, sock, call, wrote, current_sock, no_connection,
                 listener_running, handler, hmsg, handled, calls>>

-----------------------------------------------------------------------------
(* StartControlCommandListener, called once by main.                         *)

\* Mutant: the handler is stored only when the client is connected already.
InstallIfConnected ==
  /\ mtx = NoThread
  /\ handler' = (sock # NoConn)
  /\ Goto(Starter, "install", IF sock = NoConn THEN "check" ELSE "spawn")
  /\ UNCHANGED <<link, sock, mtx, call, wrote, current_sock, no_connection,
                 listener_running, hmsg, handled, calls>>

Install ==
  /\ mtx = NoThread
  /\ handler' = TRUE
  /\ Goto(Starter, "install", IF sock = NoConn THEN "check" ELSE "spawn")
  /\ UNCHANGED <<link, sock, mtx, call, wrote, current_sock, no_connection,
                 listener_running, hmsg, handled, calls>>

Spawn ==
  /\ mtx = NoThread
  /\ pc[Starter] = "spawn" /\ ~listener_running
  /\ listener_running' = TRUE
  /\ pc' = [pc EXCEPT ![Starter] = "done", ![Listener] = "copy"]
  /\ UNCHANGED <<link, sock, mtx, call, wrote, current_sock, no_connection,
                 handler, hmsg, handled, calls>>

-----------------------------------------------------------------------------
(* configListenerLoop.                                                       *)

\* Mutant: the count of iterations without a connection is never started again.
NextCountUp(n) == n + 1

NextCount(n) == (n + 1) % ReconnectEvery

\* Copy sock_ under the mutex; without a connection count the iteration, and
\* every ReconnectEvery of them go on to ensureConnected.
CopySock ==
  LET n == NextCount(no_connection) IN
  /\ mtx = NoThread
  /\ current_sock' = sock
  /\ no_connection' = IF sock = NoConn THEN n ELSE 0
  /\ Goto(Listener, "copy", IF sock # NoConn THEN "poll"
                            ELSE IF n = 0 THEN "recheck" ELSE "copy")
  /\ UNCHANGED <<link, sock, mtx, call, wrote, listener_running, handler,
                 hmsg, handled, calls>>

\* The mutex is taken only to log, and is free again before ensureConnected.
Recheck ==
  /\ mtx = NoThread
  /\ Goto(Listener, "recheck", "check")
  /\ UNCHANGED <<link, sock, mtx, call, wrote, current_sock, no_connection,
                 listener_running, handler, hmsg, handled, calls>>

\* Mutant: poll() is not asked whether there is anything to read.
ReadableAlways(c) == cend[c] = "open"

Readable(c) == cend[c] = "open" /\ (down[c] # <<>> \/ rend[c] = "closed")

\* Mutant: a timeout is taken for an error.
PollResetsOnTimeout ==
  /\ Goto(Listener, "poll", IF Readable(current_sock) THEN "relock" ELSE "reset_poll")
  /\ UNCHANGED <<link, sock, mtx, call, wrote, current_sock, no_connection,
                 listener_running, handler, hmsg, handled, calls>>

\* poll() on the copy: POLLIN, a timeout (or a closed descriptor), an error.
\* After an error reset() runs without the mutex, on sock_ rather than the copy.
Poll ==
  /\ pc[Listener] = "poll"
  /\ \/ Readable(current_sock) /\ Goto(Listener, "poll", "relock")
     \/ ~Readable(current_sock) /\ Goto(Listener, "poll", "copy")
     \/ "pollerr" \in Faults /\ Goto(Listener, "poll", "reset_poll")
  /\ UNCHANGED <<link, sock, mtx, call, wrote, current_sock, no_connection,
                 listener_running, handler, hmsg, handled, calls>>

Relock ==
  /\ mtx = NoThread
  /\ mtx' = Listener
  /\ Goto(Listener, "relock", "recv")
  /\ UNCHANGED <<link, sock, call, wrote, current_sock, no_connection,
                 listener_running, handler, hmsg, handled, calls>>

ForHandler(f) == f.kind = "control" /\ handler

\* Mutant: the next read finds the frame again.
RecvPeeks ==
  /\ sock # NoConn /\ cend[sock] = "open" /\ down[sock] # <<>>
  /\ hmsg' = [frame |-> Head(down[sock]), conn |-> sock]
  /\ Goto(Listener, "recv", "handle")
  /\ UNCHANGED <<link, sock, mtx, call, wrote, current_sock, no_connection,
                 listener_running, handler, handled, calls>>

\* recvAll of length and body, from sock_, with the mutex held: blocks while
\* sock_ has nothing to read.
Recv ==
  /\ pc[Listener] = "recv"
  /\ \/ /\ sock # NoConn /\ cend[sock] = "open" /\ down[sock] # <<>>
        /\ down' = [down EXCEPT ![sock] = Tail(@)]
        /\ hmsg' = [frame |-> Head(down[sock]), conn |-> sock]
        /\ Goto(Listener, "recv", IF ForHandler(Head(down[sock])) THEN "handle" ELSE "copy")
        /\ mtx' = IF ForHandler(Head(down[sock])) THEN mtx ELSE NoThread
     \/ /\ sock \in RecvFails
        /\ Goto(Listener, "recv", "reset_return")
        /\ UNCHANGED <<down, mtx, hmsg>>
  /\ UNCHANGED <<cend, rend, up, sock, call, wrote, current_sock, no_connection,
                 listener_running, handler, handled, calls>>

\* control_cmd_handler_(meid, cmd) returns; the lock_guard's scope ends.
Handle ==
  /\ Goto(Listener, "handle", "copy")
  /\ handled' = Append(handled, hmsg)
  /\ mtx' = NoThread
  /\ UNCHANGED <<link, sock, call, wrote, current_sock, no_connection,
                 listener_running, handler, hmsg, calls>>

-----------------------------------------------------------------------------
InCall(w) ==
  \/ LockCall(w) \/ EnsureCheck(w) \/ EnsureConnect(w) \/ Reset(w)
  \/ SendPart(w, "len") \/ SendPart(w, "body") \/ CallFails(w) \/ RecvReply(w)

StarterStep ==
  \/ Install \/ Spawn \/ EnsureCheck(Starter) \/ EnsureConnect(Starter) \/ Reset(Starter)

ListenerStep ==
  \/ CopySock \/ Recheck \/ EnsureCheck(Listener) \/ EnsureConnect(Listener)
  \/ Reset(Listener) \/ Poll \/ Relock \/ Recv \/ Handle

Client == (\E w \in Workers : Begin(w) \/ InCall(w)) \/ StarterStep \/ ListenerStep

-----------------------------------------------------------------------------
(* The peer: any server that frames what it sends and reads what it gets.    *)

PeerAccept(c) ==
  /\ rend[c] = "backlog"
  /\ rend' = [rend EXCEPT ![c] = "open"]
  /\ UNCHANGED <<cend, up, down, client, frames>>

PeerRead(c) ==
  /\ rend[c] = "open" /\ up[c] # <<>>
  /\ up' = [up EXCEPT ![c] = Tail(@)]
  /\ UNCHANGED <<cend, rend, down, client, frames>>

PeerSend(c) ==
  /\ rend[c] = "open" /\ DownRoom(c) /\ frames < MaxFrames
  /\ \E k \in {"control", "other"} :
       down' = [down EXCEPT ![c] = Append(@, [id |-> frames + 1, kind |-> k])]
  /\ frames' = frames + 1
  /\ UNCHANGED <<cend, rend, up, client>>

PeerClose(c) ==
  /\ "close" \in Faults
  /\ rend[c] = "open"
  /\ rend' = [rend EXCEPT ![c] = "closed"]
  /\ UNCHANGED <<cend, up, down, client, frames>>

Peer == \E c \in Conns : PeerAccept(c) \/ PeerRead(c) \/ PeerSend(c) \/ PeerClose(c)

\* A step of the client, which leaves the peer's own state alone.
ClientOwn(A) == A /\ UNCHANGED frames

ClientNext == ClientOwn(Client) \/ Peer

ClientSpec == ClientInit /\ [][ClientNext]_cvars

-----------------------------------------------------------------------------
Resetting      == {"reset_connect", "clear_connect"}
WorkerLabels   == {"idle", "lock", "check", "connect", "len", "body", "reply",
                   "reset_return", "clear_return"} \cup Resetting
StarterLabels  == {"install", "check", "connect", "spawn", "done"} \cup Resetting
ListenerLabels == {"off", "copy", "recheck", "check", "connect", "poll", "relock", "recv",
                   "handle", "reset_return", "clear_return", "reset_poll", "clear_poll"}
                  \cup Resetting

ClientTypeOK ==
  /\ cend \in [Conns -> {"none", "open", "closed"}]
  /\ rend \in [Conns -> {"none", "backlog", "open", "closed"}]
  /\ up   \in [Conns -> Seq(Unit)]
  /\ down \in [Conns -> Seq(Frame)]
  /\ sock \in Conns \cup {NoConn}
  /\ mtx  \in ClientThreads \cup {NoThread}
  /\ pc \in [ClientThreads -> WorkerLabels \cup StarterLabels \cup ListenerLabels]
  /\ \A w \in Workers : pc[w] \in WorkerLabels
  /\ pc[Starter] \in StarterLabels
  /\ pc[Listener] \in ListenerLabels
  /\ call \in [Workers -> Request]
  /\ wrote \in [Workers -> Conns \cup {NoConn}]
  /\ current_sock \in Conns \cup {NoConn}
  /\ no_connection \in 0..(ReconnectEvery - 1)
  /\ listener_running \in BOOLEAN
  /\ handler \in BOOLEAN
  /\ hmsg \in [frame : Frame, conn : Conns \cup {NoConn}]
  /\ handled \in Seq([frame : Frame, conn : Conns \cup {NoConn}])
  /\ calls \in Nat /\ frames \in Nat

\* The lock_guard of every call and of the listener's read is in force exactly
\* from its acquisition to the return, the reset or the continue that ends it,
\* so no path leaves mtx_ held for ever or releases another thread's lock.
HoldsLock(t) ==
  \/ t \in Workers /\ pc[t] \notin {"idle", "lock"}
  \/ t = Listener /\ pc[t] \in {"recv", "handle", "reset_return", "clear_return"}
MutexDiscipline == \A t \in ClientThreads : HoldsLock(t) <=> mtx = t

\* Whatever the interleaving of the unlocked reset() and ensureConnected() with
\* the calls, sock_ names a descriptor that the client has closed only while the
\* thread that closed it is about to write -1.
Clearing == {"clear_connect", "clear_return", "clear_poll"}
SockIsOpen ==
  sock # NoConn /\ cend[sock] = "closed" => \E t \in ClientThreads : pc[t] \in Clearing

\* The handler gets the control frames of one connection in the order in which
\* the peer sent them, and none of them twice.
ControlInOrder ==
  \A i, j \in DOMAIN handled :
    i < j /\ handled[i].conn = handled[j].conn
      => handled[i].frame.id < handled[j].frame.id

\* A frame's length prefix and its body go to one connection (the protocol of
\* ai_tcp_client.h: length-prefixed frames), although sock_ is read anew for
\* each of the two sends.
FrameOnOneSocket ==
  \A w \in Workers : pc[w] = "body" => wrote[w] = sock

\* The client holds one connection: it never forgets a descriptor that is open.
NoLeakedConnection == \A c \in Conns : cend[c] = "open" => c = sock

\* The listener takes the mutex to read only when there is something to read
\* ("Poll outside of lock to avoid blocking other operations").
RecvFindsData ==
  pc[Listener] = "recv" => sock = NoConn \/ down[sock] # <<>> \/ rend[sock] = "closed"

\* Every SendKpi returns.
KpiReturns == \A w \in Workers : pc[w] = "lock" ~> pc[w] = "idle"
============================================================================
