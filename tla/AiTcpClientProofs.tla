------------------------- MODULE AiTcpClientProofs -------------------------
(***************************************************************************)
(* Theorems about AiTcpClient, for any number of receiver threads,         *)
(* connections, calls and frames, and for every set of faults.             *)
(***************************************************************************)
EXTENDS AiTcpClient, TLAPS

Labels == WorkerLabels \cup StarterLabels \cup ListenerLabels

\* Where a thread of each kind may be.
ClientLabelsOf(t) == IF t \in Workers THEN WorkerLabels
               ELSE IF t = Starter THEN StarterLabels ELSE ListenerLabels

-----------------------------------------------------------------------------
\* pc as ClientTypeOK has it: every thread at a label of its own kind.
LEMMA PcLabels ==
  ASSUME ClientTypeOK
  PROVE  \A t \in ClientThreads : pc[t] \in ClientLabelsOf(t)
BY ClientAssumption DEF ClientTypeOK, ClientLabelsOf, ClientThreads

\* One thread that moves to a label of its own kind keeps pc well typed.
LEMMA GotoTyped ==
  ASSUME ClientTypeOK, NEW t \in ClientThreads, NEW to \in ClientLabelsOf(t),
         pc' = [pc EXCEPT ![t] = to]
  PROVE  /\ pc' \in [ClientThreads -> Labels]
         /\ \A w \in Workers : pc'[w] \in WorkerLabels
         /\ pc'[Starter] \in StarterLabels
         /\ pc'[Listener] \in ListenerLabels
<1>1. pc \in [ClientThreads -> Labels] BY DEF ClientTypeOK, Labels
<1>2. to \in Labels BY DEF ClientLabelsOf, Labels
<1>3. pc' \in [ClientThreads -> Labels] BY <1>1, <1>2
<1>4. ASSUME NEW w \in Workers PROVE pc'[w] \in WorkerLabels
  <2>1. w \in ClientThreads /\ pc[w] \in WorkerLabels BY DEF ClientTypeOK, ClientThreads
  <2>2. CASE w = t BY <1>1, <2>1, <2>2 DEF ClientLabelsOf
  <2>3. CASE w # t BY <1>1, <2>1, <2>3
  <2> QED BY <2>2, <2>3
<1>5. pc'[Starter] \in StarterLabels
  <2>1. Starter \in ClientThreads /\ Starter \notin Workers /\ pc[Starter] \in StarterLabels
    BY ClientAssumption DEF ClientTypeOK, ClientThreads
  <2>2. CASE Starter = t BY <1>1, <2>1, <2>2 DEF ClientLabelsOf
  <2>3. CASE Starter # t BY <1>1, <2>1, <2>3
  <2> QED BY <2>2, <2>3
<1>6. pc'[Listener] \in ListenerLabels
  <2>1. /\ Listener \in ClientThreads /\ Listener \notin Workers /\ Listener # Starter
        /\ pc[Listener] \in ListenerLabels
    BY ClientAssumption DEF ClientTypeOK, ClientThreads
  <2>2. CASE Listener = t BY <1>1, <2>1, <2>2 DEF ClientLabelsOf
  <2>3. CASE Listener # t BY <1>1, <2>1, <2>3
  <2> QED BY <2>2, <2>3
<1> QED BY <1>3, <1>4, <1>5, <1>6

\* The state apart from pc, which ClientTypeOK types too.
RestOK ==
  /\ cend \in [Conns -> {"none", "open", "closed"}]
  /\ rend \in [Conns -> {"none", "backlog", "open", "closed"}]
  /\ up   \in [Conns -> Seq(Unit)]
  /\ down \in [Conns -> Seq(Frame)]
  /\ sock \in Conns \cup {NoConn}
  /\ mtx  \in ClientThreads \cup {NoThread}
  /\ call \in [Workers -> Request]
  /\ wrote \in [Workers -> Conns \cup {NoConn}]
  /\ current_sock \in Conns \cup {NoConn}
  /\ no_connection \in 0..(ReconnectEvery - 1)
  /\ listener_running \in BOOLEAN
  /\ handler \in BOOLEAN
  /\ hmsg \in [frame : Frame, conn : Conns \cup {NoConn}]
  /\ handled \in Seq([frame : Frame, conn : Conns \cup {NoConn}])
  /\ calls \in Nat /\ frames \in Nat

\* ClientTypeOK after a step that moves one thread, from the rest of the state.
LEMMA StepTyped ==
  ASSUME ClientTypeOK, NEW t \in ClientThreads, NEW to \in ClientLabelsOf(t),
         pc' = [pc EXCEPT ![t] = to], RestOK'
  PROVE  ClientTypeOK'
<1>1. /\ pc' \in [ClientThreads -> Labels]
      /\ \A w \in Workers : pc'[w] \in WorkerLabels
      /\ pc'[Starter] \in StarterLabels
      /\ pc'[Listener] \in ListenerLabels
  BY GotoTyped
<1> QED BY <1>1 DEF RestOK, ClientTypeOK, Labels

LEMMA TypeInit == ClientInit => ClientTypeOK
<1> SUFFICES ASSUME ClientInit PROVE ClientTypeOK
  OBVIOUS
<1>1. NoRequest \in Request /\ NoFrame \in Frame
  BY DEF NoRequest, NoFrame, Request, Frame
<1>2. RestOK
  <2>1. /\ cend \in [Conns -> {"none", "open", "closed"}]
        /\ rend \in [Conns -> {"none", "backlog", "open", "closed"}]
        /\ up \in [Conns -> Seq(Unit)] /\ down \in [Conns -> Seq(Frame)]
    BY DEF ClientInit, LinkInit
  <2>2. /\ call \in [Workers -> Request] /\ wrote \in [Workers -> Conns \cup {NoConn}]
        /\ hmsg \in [frame : Frame, conn : Conns \cup {NoConn}]
    BY <1>1 DEF ClientInit
  <2>3. no_connection \in 0..(ReconnectEvery - 1)
    BY ClientAssumption DEF ClientInit
  <2>4. handled \in Seq([frame : Frame, conn : Conns \cup {NoConn}])
    BY DEF ClientInit
  <2>5. listener_running \in BOOLEAN /\ handler \in BOOLEAN /\ calls \in Nat /\ frames \in Nat
    BY DEF ClientInit
  <2>6. sock \in Conns \cup {NoConn} /\ mtx \in ClientThreads \cup {NoThread}
        /\ current_sock \in Conns \cup {NoConn}
    BY DEF ClientInit
  <2> QED BY <2>1, <2>2, <2>3, <2>4, <2>5, <2>6 DEF RestOK
<1>3. /\ pc \in [ClientThreads -> WorkerLabels \cup StarterLabels \cup ListenerLabels]
      /\ \A w \in Workers : pc[w] \in WorkerLabels
      /\ pc[Starter] \in StarterLabels
      /\ pc[Listener] \in ListenerLabels
  BY ClientAssumption DEF ClientInit, ClientThreads, WorkerLabels, StarterLabels, ListenerLabels
<1> QED BY <1>2, <1>3 DEF RestOK, ClientTypeOK

-----------------------------------------------------------------------------
\* The actions of each thread keep ClientTypeOK.
LEMMA EnsureTyped ==
  ASSUME ClientTypeOK, NEW t \in ClientThreads, EnsureCheck(t) \/ EnsureConnect(t), UNCHANGED frames
  PROVE  ClientTypeOK'
<1>1. PICK to \in {AfterEnsure(t, TRUE), AfterEnsure(t, FALSE), "reset_connect", "connect"} :
        pc' = [pc EXCEPT ![t] = to]
  BY DEF EnsureCheck, EnsureConnect, Goto
<1>2. to \in ClientLabelsOf(t)
  BY ClientAssumption
     DEF AfterEnsure, ClientLabelsOf, WorkerLabels, StarterLabels, ListenerLabels, Resetting,
         ClientThreads
<1>3. RestOK'
  BY DEF ClientTypeOK, RestOK, EnsureCheck, EnsureConnect, Connect, UnlockIfReturning, link, Unused
<1> QED BY <1>1, <1>2, <1>3, StepTyped

LEMMA ResetTyped ==
  ASSUME ClientTypeOK, NEW t \in ClientThreads, Reset(t), UNCHANGED frames
  PROVE  ClientTypeOK'
<1>1. PICK why \in {"connect", "return", "poll"} : ResetClose(t, why) \/ ResetClear(t, why)
  BY DEF Reset
<1>2. PICK to \in {ClearLabel(why), AfterReset(t, why)} : pc' = [pc EXCEPT ![t] = to]
  BY <1>1 DEF ResetClose, ResetClear, Goto
<1>3. pc[t] \in {ResetLabel(why), ClearLabel(why)}
  BY <1>1 DEF ResetClose, ResetClear, Goto
<1>4. to \in ClientLabelsOf(t)
  BY <1>2, <1>3, PcLabels, ClientAssumption
     DEF AfterReset, ResetLabel, ClearLabel, ClientLabelsOf, WorkerLabels, StarterLabels,
         ListenerLabels, Resetting, ClientThreads
<1>5. RestOK'
  BY <1>1 DEF ClientTypeOK, RestOK, ResetClose, ResetClear, UnlockAfterReset, link
<1> QED BY <1>2, <1>4, <1>5, StepTyped

LEMMA CallTyped ==
  ASSUME ClientTypeOK, NEW w \in Workers, UNCHANGED frames,
         \/ Begin(w) \/ LockCall(w) \/ SendPart(w, "len") \/ SendPart(w, "body")
         \/ CallFails(w) \/ RecvReply(w)
  PROVE  ClientTypeOK'
<1>1. w \in ClientThreads BY DEF ClientThreads
<1>2. PICK to \in {"lock", "check", "body", "reply", "idle", "reset_return"} :
        pc' = [pc EXCEPT ![w] = to]
  BY DEF Begin, LockCall, SendPart, CallFails, RecvReply, Goto, AfterSend
<1>3. to \in ClientLabelsOf(w) BY DEF ClientLabelsOf, WorkerLabels
<1>4. RestOK'
  <2>1. CASE Begin(w)
    <3>1. PICK k \in Ops : call' = [call EXCEPT ![w] = [id |-> calls + 1, kind |-> k]]
      BY <2>1 DEF Begin
    <3>2. [id |-> calls + 1, kind |-> k] \in Request
      BY ClientAssumption DEF ClientTypeOK, Request
    <3> QED BY <2>1, <3>1, <3>2 DEF Begin, ClientTypeOK, RestOK, link
  <2>2. CASE LockCall(w) BY <2>2, <1>1 DEF LockCall, ClientTypeOK, RestOK, link
  <2>3. ASSUME NEW part \in {"len", "body"}, SendPart(w, part) PROVE RestOK'
    <3> DEFINE u == [part |-> part, id |-> call[w].id, kind |-> call[w].kind]
    <3>1. u \in Unit
      BY DEF ClientTypeOK, Request, Unit
    <3>2. up' \in [Conns -> Seq(Unit)]
      <4>1. sock \in Conns /\ up[sock] \in Seq(Unit)
        BY <2>3 DEF SendPart, ClientTypeOK
      <4>2. Append(up[sock], u) \in Seq(Unit) BY <3>1, <4>1
      <4>3. up' = up \/ up' = [up EXCEPT ![sock] = Append(up[sock], u)]
        BY <2>3 DEF SendPart
      <4> HIDE DEF u
      <4> QED BY <4>1, <4>2, <4>3 DEF ClientTypeOK
    <3>3. wrote' \in [Workers -> Conns \cup {NoConn}]
      BY <2>3 DEF SendPart, ClientTypeOK
    <3> QED BY <2>3, <3>2, <3>3 DEF SendPart, ClientTypeOK, RestOK
  <2>4. CASE CallFails(w) BY <2>4 DEF CallFails, ClientTypeOK, RestOK, link
  <2>5. CASE RecvReply(w)
    <3>1. sock \in Conns /\ down[sock] \in Seq(Frame) /\ down[sock] # <<>>
      BY <2>5 DEF RecvReply, ClientTypeOK
    <3>2. Tail(down[sock]) \in Seq(Frame) BY <3>1
    <3> QED BY <2>5, <3>1, <3>2 DEF RecvReply, ClientTypeOK, RestOK
  <2> QED BY <2>1, <2>2, <2>3, <2>4, <2>5
<1> QED BY <1>1, <1>2, <1>3, <1>4, StepTyped

LEMMA StarterTyped ==
  ASSUME ClientTypeOK, Install \/ Spawn, UNCHANGED frames
  PROVE  ClientTypeOK'
<1>1. Starter \in ClientThreads /\ Listener \in ClientThreads BY DEF ClientThreads
<1>2. RestOK' BY DEF Install, Spawn, ClientTypeOK, RestOK, link
<1>3. CASE Install
  <2>1. PICK to \in {"check", "spawn"} : pc' = [pc EXCEPT ![Starter] = to]
    BY <1>3 DEF Install, Goto
  <2>2. to \in ClientLabelsOf(Starter) BY ClientAssumption DEF ClientLabelsOf, StarterLabels
  <2> QED BY <1>1, <1>2, <2>1, <2>2, StepTyped
<1>4. CASE Spawn
  <2>1. /\ pc' \in [ClientThreads -> Labels]
        /\ \A w \in Workers : pc'[w] \in WorkerLabels
        /\ pc'[Starter] \in StarterLabels
        /\ pc'[Listener] \in ListenerLabels
    BY <1>1, <1>4, ClientAssumption
       DEF Spawn, ClientTypeOK, Labels, StarterLabels, ListenerLabels, ClientThreads
  <2> QED BY <1>2, <2>1 DEF RestOK, ClientTypeOK, Labels
<1> QED BY <1>3, <1>4

LEMMA ListenerTyped ==
  ASSUME ClientTypeOK, UNCHANGED frames,
         CopySock \/ Recheck \/ Poll \/ Relock \/ Recv \/ Handle
  PROVE  ClientTypeOK'
<1>1. Listener \in ClientThreads BY DEF ClientThreads
<1>2. PICK to \in {"poll", "recheck", "copy", "check", "relock", "reset_poll", "recv",
                   "handle", "reset_return"} : pc' = [pc EXCEPT ![Listener] = to]
  BY DEF CopySock, Recheck, Poll, Relock, Recv, Handle, Goto
<1>3. to \in ClientLabelsOf(Listener)
  BY ClientAssumption DEF ClientLabelsOf, ListenerLabels
<1>4. RestOK'
  <2>1. CASE CopySock
    <3>1. /\ NextCount(no_connection) \in 0..(ReconnectEvery - 1)
          /\ 0 \in 0..(ReconnectEvery - 1)
      BY ClientAssumption DEF ClientTypeOK, NextCount
    <3> QED BY <2>1, <3>1 DEF CopySock, ClientTypeOK, RestOK, link
  <2>2. CASE Recheck \/ Poll \/ Relock
    BY <2>2, <1>1 DEF Recheck, Poll, Relock, ClientTypeOK, RestOK, link
  <2>3. CASE Recv
    <3>1. CASE sock # NoConn /\ cend[sock] = "open" /\ down[sock] # <<>>
               /\ down' = [down EXCEPT ![sock] = Tail(@)]
               /\ hmsg' = [frame |-> Head(down[sock]), conn |-> sock]
      <4>1. sock \in Conns /\ down[sock] \in Seq(Frame) /\ down[sock] # <<>>
        BY <3>1 DEF ClientTypeOK
      <4>2. Tail(down[sock]) \in Seq(Frame) /\ Head(down[sock]) \in Frame BY <4>1
      <4>3. mtx' \in ClientThreads \cup {NoThread} BY <2>3 DEF Recv, ClientTypeOK
      <4> QED BY <2>3, <3>1, <4>1, <4>2, <4>3 DEF Recv, ClientTypeOK, RestOK
    <3>2. CASE UNCHANGED <<down, mtx, hmsg>>
      BY <2>3, <3>2 DEF Recv, ClientTypeOK, RestOK
    <3> QED BY <2>3, <3>1, <3>2 DEF Recv
  <2>4. CASE Handle BY <2>4 DEF Handle, ClientTypeOK, RestOK, link
  <2> QED BY <2>1, <2>2, <2>3, <2>4
<1> QED BY <1>1, <1>2, <1>3, <1>4, StepTyped

LEMMA PeerTyped ==
  ASSUME ClientTypeOK, Peer
  PROVE  ClientTypeOK'
<1>1. PICK c \in Conns : PeerAccept(c) \/ PeerRead(c) \/ PeerSend(c) \/ PeerClose(c)
  BY DEF Peer
<1>2. CASE PeerAccept(c) \/ PeerClose(c)
  BY <1>2 DEF PeerAccept, PeerClose, ClientTypeOK, client
<1>3. CASE PeerRead(c)
  <2>1. Tail(up[c]) \in Seq(Unit) BY <1>3 DEF PeerRead, ClientTypeOK
  <2> QED BY <1>3, <2>1 DEF PeerRead, ClientTypeOK, client
<1>4. CASE PeerSend(c)
  <2>1. PICK k \in {"control", "other"} :
          down' = [down EXCEPT ![c] = Append(@, [id |-> frames + 1, kind |-> k])]
    BY <1>4 DEF PeerSend
  <2>2. [id |-> frames + 1, kind |-> k] \in Frame BY DEF ClientTypeOK, Frame
  <2>3. down' \in [Conns -> Seq(Frame)] BY <2>1, <2>2 DEF ClientTypeOK
  <2> QED BY <1>4, <2>3 DEF PeerSend, ClientTypeOK, client
<1> QED BY <1>1, <1>2, <1>3, <1>4

-----------------------------------------------------------------------------
\* The actions by thread, as the inductive steps below go through them.
WorkerStep(w) ==
  \/ Begin(w) \/ LockCall(w) \/ SendPart(w, "len") \/ SendPart(w, "body")
  \/ CallFails(w) \/ RecvReply(w)
EnsureStep(t) == EnsureCheck(t) \/ EnsureConnect(t)
LoopStep == CopySock \/ Recheck \/ Poll \/ Relock \/ Recv \/ Handle

\* A step is one of a worker's call, of main's start, of the listener, of
\* ensureConnected or reset in any thread, of the peer, or a stutter.
LEMMA ClientNextCases ==
  ASSUME [ClientNext]_cvars
  PROVE  \/ \E w \in Workers : WorkerStep(w) /\ UNCHANGED frames
         \/ \E t \in ClientThreads : (EnsureStep(t) \/ Reset(t)) /\ UNCHANGED frames
         \/ (Install \/ Spawn) /\ UNCHANGED frames
         \/ LoopStep /\ UNCHANGED frames
         \/ Peer
         \/ UNCHANGED cvars
BY DEF ClientNext, ClientOwn, Client, InCall, StarterStep, ListenerStep, WorkerStep, EnsureStep,
       LoopStep, ClientThreads

\* One step, of the client or of the peer.
LEMMA TypeKept == ASSUME ClientTypeOK, [ClientNext]_cvars PROVE ClientTypeOK'
<1>1. CASE \E w \in Workers : WorkerStep(w) /\ UNCHANGED frames
  BY <1>1, CallTyped DEF WorkerStep
<1>2. CASE \E t \in ClientThreads : (EnsureStep(t) \/ Reset(t)) /\ UNCHANGED frames
  BY <1>2, EnsureTyped, ResetTyped DEF EnsureStep
<1>3. CASE (Install \/ Spawn) /\ UNCHANGED frames
  BY <1>3, StarterTyped
<1>4. CASE LoopStep /\ UNCHANGED frames
  BY <1>4, ListenerTyped DEF LoopStep
<1>5. CASE Peer
  BY <1>5, PeerTyped
<1>6. CASE UNCHANGED cvars
  BY <1>6 DEF ClientTypeOK, cvars, link, client
<1> QED BY <1>1, <1>2, <1>3, <1>4, <1>5, <1>6, ClientNextCases

\* Every variable keeps to its type: in particular every thread is only ever at
\* a label of its own code, so that reset() reached from a failed call always
\* returns to that call and never to the listener or to main.
THEOREM TypeCorrect == ClientSpec => []ClientTypeOK
<1>1. ClientInit => ClientTypeOK
  BY TypeInit
<1>2. ClientTypeOK /\ [ClientNext]_cvars => ClientTypeOK'
  BY TypeKept
<1> QED BY <1>1, <1>2, PTL DEF ClientSpec

-----------------------------------------------------------------------------
\* MutexDiscipline after a step of one thread, from what it does to the mutex: leave
\* it, take it when it is free, or let go of it.
LEMMA LockStep ==
  ASSUME ClientTypeOK, MutexDiscipline, NEW t \in ClientThreads, NEW to,
         pc' = [pc EXCEPT ![t] = to],
         \/ mtx' = mtx /\ (HoldsLock(t)' <=> HoldsLock(t))
         \/ mtx = NoThread /\ mtx' = t /\ HoldsLock(t)'
         \/ HoldsLock(t) /\ mtx' = NoThread /\ ~HoldsLock(t)'
  PROVE  MutexDiscipline'
<1>1. ASSUME NEW u \in ClientThreads, u # t PROVE HoldsLock(u)' <=> HoldsLock(u)
  BY <1>1 DEF HoldsLock, ClientTypeOK
<1>2. NoThread \notin ClientThreads BY ClientAssumption
<1> QED BY <1>1, <1>2 DEF MutexDiscipline

\* What each step does to the mutex.
LEMMA MutexKept == ASSUME ClientTypeOK, MutexDiscipline, [ClientNext]_cvars PROVE MutexDiscipline'
<1>0. \A t \in ClientThreads : pc[t] \in ClientLabelsOf(t)
  BY PcLabels
<1>1. ASSUME NEW w \in Workers, WorkerStep(w) PROVE MutexDiscipline'
  <2>0. w \in ClientThreads /\ w # Listener
    BY ClientAssumption DEF ClientThreads
  <2>1. CASE Begin(w) \/ LockCall(w) \/ CallFails(w) \/ RecvReply(w)
    <3>1. PICK to \in {"lock", "check", "reset_return", "idle"} : pc' = [pc EXCEPT ![w] = to]
      BY <2>1 DEF Begin, LockCall, CallFails, RecvReply, Goto
    <3>2. \/ mtx' = mtx /\ (HoldsLock(w)' <=> HoldsLock(w))
          \/ mtx = NoThread /\ mtx' = w /\ HoldsLock(w)'
          \/ HoldsLock(w) /\ mtx' = NoThread /\ ~HoldsLock(w)'
      BY <2>0, <2>1 DEF Begin, LockCall, CallFails, RecvReply, Goto, HoldsLock, ClientTypeOK
    <3> QED BY <2>0, <3>1, <3>2, LockStep
  <2>2. ASSUME NEW part \in {"len", "body"}, SendPart(w, part) PROVE MutexDiscipline'
    <3>1. HoldsLock(w) BY <2>2 DEF SendPart, Goto, HoldsLock
    <3>2. /\ pc' = [pc EXCEPT ![w] = AfterSend(w, part)]
          /\ mtx' = IF AfterSend(w, part) = "idle" THEN NoThread ELSE mtx
          /\ AfterSend(w, part) \in {"body", "reply", "idle"}
      BY <2>2 DEF SendPart, Goto, AfterSend
    <3>3. \/ mtx' = mtx /\ HoldsLock(w)'
          \/ mtx' = NoThread /\ ~HoldsLock(w)'
      BY <2>0, <3>2 DEF HoldsLock, ClientTypeOK
    <3> QED BY <2>0, <3>1, <3>2, <3>3, LockStep
  <2> QED BY <1>1, <2>1, <2>2 DEF WorkerStep
<1>2. ASSUME NEW t \in ClientThreads, EnsureStep(t) PROVE MutexDiscipline'
  <2>1. \/ mtx' = mtx /\ \E to \in {AfterEnsure(t, TRUE), "reset_connect", "connect"} :
                            pc' = [pc EXCEPT ![t] = to]
        \/ UnlockIfReturning(t, FALSE) /\ pc' = [pc EXCEPT ![t] = AfterEnsure(t, FALSE)]
    BY <1>2 DEF EnsureStep, EnsureCheck, EnsureConnect, Goto
  <2>2. pc[t] \in {"check", "connect"}
    BY <1>2 DEF EnsureStep, EnsureCheck, EnsureConnect, Goto
  <2>3. CASE t \in Workers
    <3>1. t # Starter /\ t # Listener /\ HoldsLock(t)
      BY <2>2, <2>3, ClientAssumption DEF HoldsLock
    <3>2. AfterEnsure(t, TRUE) = "len" /\ AfterEnsure(t, FALSE) = "idle"
      BY <2>3, <3>1 DEF AfterEnsure
    <3>3. PICK to \in {"len", "reset_connect", "connect", "idle"} :
            /\ pc' = [pc EXCEPT ![t] = to]
            /\ mtx' = IF to = "idle" THEN NoThread ELSE mtx
      BY <2>1, <2>3, <3>2 DEF UnlockIfReturning
    <3>4. HoldsLock(t)' <=> to # "idle"
      BY <2>3, <3>1, <3>3 DEF HoldsLock, ClientTypeOK
    <3> QED BY <3>1, <3>3, <3>4, LockStep
  <2>4. CASE t \notin Workers
    <3>1. ~HoldsLock(t) BY <2>2, <2>4 DEF HoldsLock
    <3>2. /\ AfterEnsure(t, TRUE) \in {"spawn", "copy"}
          /\ AfterEnsure(t, FALSE) \in {"spawn", "copy"}
      BY <2>4, ClientAssumption DEF AfterEnsure, ClientThreads
    <3>3. PICK to \in {"spawn", "copy", "reset_connect", "connect"} :
            /\ pc' = [pc EXCEPT ![t] = to]
            /\ mtx' = mtx
      BY <2>1, <2>4, <3>2 DEF UnlockIfReturning
    <3>4. ~HoldsLock(t)'
      BY <2>4, <3>3 DEF HoldsLock, ClientTypeOK
    <3> QED BY <3>1, <3>3, <3>4, LockStep
  <2> QED BY <2>3, <2>4
<1>3. ASSUME NEW t \in ClientThreads, Reset(t) PROVE MutexDiscipline'
  <2>1. PICK why \in {"connect", "return", "poll"} : ResetClose(t, why) \/ ResetClear(t, why)
    BY <1>3 DEF Reset
  <2>2. pc[t] \in {ResetLabel(why), ClearLabel(why)}
    BY <2>1 DEF ResetClose, ResetClear, Goto
  <2>3. why = "return" => HoldsLock(t)
    BY <1>0, <2>2, ClientAssumption
       DEF ResetLabel, ClearLabel, ClientLabelsOf, StarterLabels, Resetting, HoldsLock,
           ClientThreads
  <2>4. why = "poll" => t = Listener
    BY <1>0, <2>2, ClientAssumption
       DEF ResetLabel, ClearLabel, ClientLabelsOf, StarterLabels, WorkerLabels, Resetting,
           ClientThreads
  <2> QED
    BY <2>1, <2>2, <2>3, <2>4, ClientAssumption
       DEF ResetClose, ResetClear, UnlockAfterReset, AfterReset, ResetLabel, ClearLabel, Goto,
           MutexDiscipline, HoldsLock, ClientThreads, ClientTypeOK
<1>4. CASE Install \/ Spawn
  BY <1>4, ClientAssumption
     DEF Install, Spawn, Goto, MutexDiscipline, HoldsLock, ClientThreads, ClientTypeOK
<1>5. CASE LoopStep
  BY <1>5, ClientAssumption
     DEF LoopStep, CopySock, Recheck, Poll, Relock, Recv, Handle, Goto,
         MutexDiscipline, HoldsLock, ClientThreads, ClientTypeOK
<1>6. CASE Peer
  BY <1>6 DEF Peer, PeerAccept, PeerRead, PeerSend, PeerClose, client,
              MutexDiscipline, HoldsLock
<1>7. CASE UNCHANGED cvars
  BY <1>7 DEF cvars, client, MutexDiscipline, HoldsLock
<1> QED BY <1>1, <1>2, <1>3, <1>4, <1>5, <1>6, <1>7, ClientNextCases

\* mtx_ is held by exactly the thread that is inside a lock_guard's scope, in
\* every interleaving: no return, reset or continue leaves it locked, and the
\* unlocked paths (main's and the listener's ensureConnected, the reset after a
\* poll error) never release what another thread holds.
THEOREM MutexCorrect == ClientSpec => []MutexDiscipline
<1>1. ClientInit => MutexDiscipline
  BY ClientAssumption DEF ClientInit, MutexDiscipline, HoldsLock, ClientThreads
<1>2. ClientTypeOK /\ MutexDiscipline /\ [ClientNext]_cvars => MutexDiscipline'
  BY MutexKept
<1> QED BY <1>1, <1>2, TypeCorrect, PTL DEF ClientSpec

-----------------------------------------------------------------------------
\* The listener's thread does not exist before main has started it.
ListenerOff == ~listener_running => pc[Listener] = "off"

LEMMA ListenerOffCorrect == ClientSpec => []ListenerOff
<1>1. ClientInit => ListenerOff
  BY ClientAssumption DEF ClientInit, ListenerOff, ClientThreads
<1>2. ClientTypeOK /\ ListenerOff /\ [ClientNext]_cvars => ListenerOff'
  <2> SUFFICES ASSUME ClientTypeOK, ListenerOff, [ClientNext]_cvars PROVE ListenerOff'
    OBVIOUS
  <2>1. ASSUME NEW w \in Workers, WorkerStep(w) PROVE ListenerOff'
    <3>1. w # Listener BY ClientAssumption
    <3>2. PICK to : pc' = [pc EXCEPT ![w] = to]
      BY <2>1 DEF WorkerStep, Begin, LockCall, SendPart, CallFails, RecvReply, Goto
    <3>3. UNCHANGED listener_running
      BY <2>1 DEF WorkerStep, Begin, LockCall, SendPart, CallFails, RecvReply
    <3> QED BY <3>1, <3>2, <3>3 DEF ListenerOff, ClientTypeOK
  <2>2. ASSUME NEW t \in ClientThreads, EnsureStep(t) \/ Reset(t) PROVE ListenerOff'
    <3>1. pc[t] # "off" /\ UNCHANGED listener_running
      BY <2>2 DEF EnsureStep, EnsureCheck, EnsureConnect, Reset, ResetClose, ResetClear,
                  ResetLabel, ClearLabel, Goto
    <3>2. PICK to : pc' = [pc EXCEPT ![t] = to]
      BY <2>2 DEF EnsureStep, EnsureCheck, EnsureConnect, Reset, ResetClose, ResetClear, Goto
    <3> QED BY <3>1, <3>2 DEF ListenerOff, ClientTypeOK
  <2>3. CASE Install \/ Spawn
    <3>1. CASE Install
      <4>1. PICK to : pc' = [pc EXCEPT ![Starter] = to]
        BY <3>1 DEF Install, Goto
      <4> QED BY <3>1, <4>1, ClientAssumption DEF Install, ListenerOff, ClientTypeOK
    <3>2. CASE Spawn
      BY <3>2 DEF Spawn, ListenerOff
    <3> QED BY <2>3, <3>1, <3>2
  <2>4. CASE LoopStep
    <3>1. pc[Listener] # "off" /\ UNCHANGED listener_running
      BY <2>4 DEF LoopStep, CopySock, Recheck, Poll, Relock, Recv, Handle, Goto
    <3> QED BY <3>1 DEF ListenerOff
  <2>5. CASE Peer
    BY <2>5 DEF Peer, PeerAccept, PeerRead, PeerSend, PeerClose, client, ListenerOff
  <2>6. CASE UNCHANGED cvars
    BY <2>6 DEF cvars, client, ListenerOff
  <2> QED BY <2>1, <2>2, <2>3, <2>4, <2>5, <2>6, ClientNextCases
<1> QED BY <1>1, <1>2, TypeCorrect, PTL DEF ClientSpec

\* SockIsOpen after a step that neither closes a descriptor nor ends a reset().
LEMMA SockStep ==
  ASSUME ClientTypeOK, SockIsOpen, UNCHANGED <<sock, cend>>,
         \A t \in ClientThreads : pc[t] \in Clearing => pc'[t] = pc[t]
  PROVE  SockIsOpen'
BY DEF SockIsOpen

\* However the unlocked reset() and ensureConnected() run between the steps of a
\* call, sock_ names a closed descriptor only between a thread's close() and its
\* write of -1: no other path loses track of the descriptor it has closed.
THEOREM SockCorrect == ClientSpec => []SockIsOpen
<1>1. ClientInit => SockIsOpen
  BY DEF ClientInit, SockIsOpen
<1>2. ClientTypeOK /\ ListenerOff /\ SockIsOpen /\ [ClientNext]_cvars => SockIsOpen'
  <2> SUFFICES ASSUME ClientTypeOK, ListenerOff, SockIsOpen, [ClientNext]_cvars PROVE SockIsOpen'
    OBVIOUS
  <2>1. ASSUME NEW w \in Workers, WorkerStep(w) PROVE SockIsOpen'
    <3>1. UNCHANGED <<sock, cend>>
      BY <2>1 DEF WorkerStep, Begin, LockCall, SendPart, CallFails, RecvReply, link
    <3>2. pc[w] \notin Clearing
      BY <2>1 DEF WorkerStep, Begin, LockCall, SendPart, CallFails, RecvReply, Goto, Clearing
    <3>3. PICK to : pc' = [pc EXCEPT ![w] = to]
      BY <2>1 DEF WorkerStep, Begin, LockCall, SendPart, CallFails, RecvReply, Goto
    <3>4. \A t \in ClientThreads : pc[t] \in Clearing => pc'[t] = pc[t]
      BY <3>2, <3>3 DEF ClientTypeOK
    <3> QED BY <3>1, <3>4, SockStep
  <2>2. ASSUME NEW t \in ClientThreads, EnsureStep(t) PROVE SockIsOpen'
    BY <2>2 DEF EnsureStep, EnsureCheck, EnsureConnect, Connect, Goto, link,
                SockIsOpen, Clearing, ClientThreads, ClientTypeOK
  <2>3. ASSUME NEW t \in ClientThreads, Reset(t) PROVE SockIsOpen'
    BY <2>3 DEF Reset, ResetClose, ResetClear, ResetLabel, ClearLabel, Goto, link,
                SockIsOpen, Clearing, ClientThreads, ClientTypeOK
  <2>4. CASE Install \/ Spawn
    <3>1. UNCHANGED <<sock, cend>>
      BY <2>4 DEF Install, Spawn, link
    <3>2. \A t \in ClientThreads : pc[t] \in Clearing => pc'[t] = pc[t]
      <4>1. pc[Starter] \in {"install", "spawn"} /\ (Spawn => pc[Listener] = "off")
        BY <2>4 DEF Install, Spawn, Goto, ListenerOff
      <4> QED BY <2>4, <4>1 DEF Install, Spawn, Goto, Clearing, ClientTypeOK
    <3> QED BY <3>1, <3>2, SockStep
  <2>5. CASE LoopStep
    <3>1. UNCHANGED <<sock, cend>>
      BY <2>5 DEF LoopStep, CopySock, Recheck, Poll, Relock, Recv, Handle, link
    <3>2. pc[Listener] \notin Clearing
      BY <2>5 DEF LoopStep, CopySock, Recheck, Poll, Relock, Recv, Handle, Goto, Clearing
    <3>3. PICK to : pc' = [pc EXCEPT ![Listener] = to]
      BY <2>5 DEF LoopStep, CopySock, Recheck, Poll, Relock, Recv, Handle, Goto
    <3>4. \A t \in ClientThreads : pc[t] \in Clearing => pc'[t] = pc[t]
      BY <3>2, <3>3 DEF ClientTypeOK
    <3> QED BY <3>1, <3>4, SockStep
  <2>6. CASE Peer
    BY <2>6 DEF Peer, PeerAccept, PeerRead, PeerSend, PeerClose, client, SockIsOpen, Clearing
  <2>7. CASE UNCHANGED cvars
    BY <2>7 DEF cvars, link, client, SockIsOpen, Clearing
  <2> QED BY <2>1, <2>2, <2>3, <2>4, <2>5, <2>6, <2>7, ClientNextCases
<1> QED BY <1>1, <1>2, TypeCorrect, ListenerOffCorrect, PTL DEF ClientSpec

-----------------------------------------------------------------------------
(* ControlInOrder says nothing of what is still on its way, so no step that  *)
(* reads a frame preserves it by itself.  The inductive form orders what the *)
(* handler has been given, the frame in the listener's hands, and what is in *)
(* each stream, one after the other.                                         *)

\* Every frame still in the stream of a connection comes after frame n.
AllAfter(c, n) == \A j \in DOMAIN down[c] : n < down[c][j].id

\* What the handler has been given over connection c comes before frame n.
HandledBefore(c, n) ==
  \A i \in DOMAIN handled : handled[i].conn = c => handled[i].frame.id < n

StreamsInOrder ==
  \A c \in Conns :
    /\ \A i, j \in DOMAIN down[c] : i < j => down[c][i].id < down[c][j].id
    /\ \A j \in DOMAIN down[c] : down[c][j].id <= frames /\ HandledBefore(c, down[c][j].id)

HandledIsPast == \A i \in DOMAIN handled : handled[i].frame.id <= frames

InHandInOrder ==
  pc[Listener] = "handle" =>
    /\ hmsg.conn \in Conns /\ hmsg.frame.id <= frames
    /\ HandledBefore(hmsg.conn, hmsg.frame.id)
    /\ AllAfter(hmsg.conn, hmsg.frame.id)

OrderInv == StreamsInOrder /\ HandledIsPast /\ InHandInOrder /\ ControlInOrder

\* OrderInv after a step that takes the first frame of a stream and, unless the
\* listener has it in hand, forgets it.
LEMMA TakeFrame ==
  ASSUME ClientTypeOK, OrderInv, NEW c \in Conns, down[c] # <<>>,
         down' = [down EXCEPT ![c] = Tail(@)],
         UNCHANGED <<handled, frames>>, NEW n, n = Head(down[c]).id
  PROVE  /\ StreamsInOrder' /\ HandledIsPast' /\ ControlInOrder'
         /\ n <= frames' /\ HandledBefore(c, n)' /\ AllAfter(c, n)'
         /\ \A d \in Conns, m \in Nat : AllAfter(d, m) => AllAfter(d, m)'
<1>1. down[c] \in Seq(Frame) /\ down \in [Conns -> Seq(Frame)]
  BY DEF ClientTypeOK
<1>2. /\ down'[c] = Tail(down[c])
      /\ \A d \in Conns : d # c => down'[d] = down[d]
  BY <1>1
<1>3. /\ DOMAIN down'[c] = 1..(Len(down[c]) - 1)
      /\ \A j \in DOMAIN down'[c] : down'[c][j] = down[c][j + 1]
      /\ DOMAIN down[c] = 1..Len(down[c]) /\ Len(down[c]) \in Nat \ {0}
      /\ Head(down[c]) = down[c][1]
  BY <1>1, <1>2
<1>4. \A j \in DOMAIN down'[c] : j \in Nat /\ j + 1 \in DOMAIN down[c] /\ 1 < j + 1
  BY <1>3
<1>5. HandledIsPast' /\ ControlInOrder'
  BY DEF OrderInv, HandledIsPast, ControlInOrder
<1>6. StreamsInOrder'
  <2>1. ASSUME NEW d \in Conns, d # c
        PROVE  /\ \A i, j \in DOMAIN down'[d] : i < j => down'[d][i].id < down'[d][j].id
               /\ \A j \in DOMAIN down'[d] :
                    down'[d][j].id <= frames' /\ HandledBefore(d, down[d][j].id)'
    BY <1>2, <2>1 DEF OrderInv, StreamsInOrder, HandledBefore
  <2>2. \A i, j \in DOMAIN down'[c] : i < j => down'[c][i].id < down'[c][j].id
    BY <1>3, <1>4 DEF OrderInv, StreamsInOrder
  <2>3. \A j \in DOMAIN down'[c] :
          down'[c][j].id <= frames' /\ HandledBefore(c, down[c][j].id)'
    BY <1>3, <1>4 DEF OrderInv, StreamsInOrder, HandledBefore
  <2> QED BY <2>1, <2>2, <2>3 DEF StreamsInOrder
<1>7. n <= frames' /\ HandledBefore(c, n)'
  BY <1>3 DEF OrderInv, StreamsInOrder, HandledBefore
<1>8. AllAfter(c, n)'
  BY <1>3, <1>4 DEF OrderInv, StreamsInOrder, AllAfter
<1>9. ASSUME NEW d \in Conns, NEW m \in Nat, AllAfter(d, m) PROVE AllAfter(d, m)'
  <2>1. CASE d = c BY <1>3, <1>4, <1>9, <2>1 DEF AllAfter
  <2>2. CASE d # c BY <1>2, <1>9, <2>2 DEF AllAfter
  <2> QED BY <2>1, <2>2
<1> QED BY <1>5, <1>6, <1>7, <1>8, <1>9

\* OrderInv after a step that neither moves a frame nor hands one over.
LEMMA FrameOrderKept ==
  ASSUME OrderInv, UNCHANGED <<down, handled, frames, hmsg>>,
         pc'[Listener] = "handle" => pc[Listener] = "handle"
  PROVE  OrderInv'
BY DEF OrderInv, StreamsInOrder, HandledIsPast, InHandInOrder, ControlInOrder,
       HandledBefore, AllAfter

\* Whatever carries a frame carries a number.
LEMMA FrameIdsAreNumbers ==
  ASSUME ClientTypeOK
  PROVE  /\ \A c \in Conns : \A j \in DOMAIN down[c] : down[c][j].id \in Nat
         /\ \A i \in DOMAIN handled : handled[i].frame.id \in Nat
         /\ hmsg.frame.id \in Nat
<1>1. ASSUME NEW c \in Conns, NEW j \in DOMAIN down[c] PROVE down[c][j].id \in Nat
  <2>1. down[c] \in Seq(Frame) BY DEF ClientTypeOK
  <2>2. down[c][j] \in Frame BY <2>1
  <2> QED BY <2>2 DEF Frame
<1>2. ASSUME NEW i \in DOMAIN handled PROVE handled[i].frame.id \in Nat
  <2> DEFINE Given == [frame : Frame, conn : Conns \cup {NoConn}]
  <2>1. handled \in Seq(Given) BY DEF ClientTypeOK
  <2>2. handled[i] \in Given
    <3> HIDE DEF Given
    <3> QED BY <2>1
  <2>3. handled[i].frame \in Frame BY <2>2
  <2> QED BY <2>3 DEF Frame
<1>3. hmsg.frame.id \in Nat
  <2>1. hmsg.frame \in Frame BY DEF ClientTypeOK
  <2> QED BY <2>1 DEF Frame
<1> QED BY <1>1, <1>2, <1>3

\* The peer numbers its frames as it sends them.
LEMMA PeerSendInOrder ==
  ASSUME ClientTypeOK, OrderInv, NEW c \in Conns, PeerSend(c)
  PROVE  OrderInv'
<1>1. PICK k \in {"control", "other"} :
        down' = [down EXCEPT ![c] = Append(@, [id |-> frames + 1, kind |-> k])]
  BY DEF PeerSend
<1> DEFINE f == [id |-> frames + 1, kind |-> k]
<1>2. /\ f.id = frames + 1 /\ frames \in Nat /\ frames' = frames + 1
      /\ UNCHANGED <<handled, hmsg, pc>>
  BY DEF PeerSend, client, ClientTypeOK
<1>3. down[c] \in Seq(Frame) /\ down \in [Conns -> Seq(Frame)]
  BY DEF ClientTypeOK
<1>4. f \in Frame BY <1>2 DEF Frame
<1>5. down' = [down EXCEPT ![c] = Append(down[c], f)]
  BY <1>1
<1> HIDE DEF f
<1>6. /\ down'[c] = Append(down[c], f)
      /\ \A d \in Conns : d # c => down'[d] = down[d]
  BY <1>3, <1>5
<1>7. /\ DOMAIN down'[c] = 1..(Len(down[c]) + 1) /\ DOMAIN down[c] = 1..Len(down[c])
      /\ Len(down[c]) \in Nat
      /\ \A j \in DOMAIN down[c] : down'[c][j] = down[c][j]
      /\ down'[c][Len(down[c]) + 1] = f
  BY <1>3, <1>4, <1>6
<1>8. \A d \in Conns : \A j \in DOMAIN down[d] : down[d][j].id \in Nat
  BY FrameIdsAreNumbers
<1>9. \A i \in DOMAIN handled : handled[i].frame.id \in Nat
  BY FrameIdsAreNumbers
<1>10. StreamsInOrder'
  <2>1. ASSUME NEW d \in Conns, d # c
        PROVE  /\ \A i, j \in DOMAIN down'[d] : i < j => down'[d][i].id < down'[d][j].id
               /\ \A j \in DOMAIN down'[d] :
                    down'[d][j].id <= frames' /\ HandledBefore(d, down[d][j].id)'
    <3>1. down'[d] = down[d] BY <1>6, <2>1
    <3>2. \A j \in DOMAIN down[d] : down[d][j].id \in Nat BY <1>8
    <3>3. \A j \in DOMAIN down[d] : down[d][j].id <= frames + 1 /\ HandledBefore(d, down[d][j].id)
      BY <1>2, <3>2 DEF OrderInv, StreamsInOrder
    <3>4. \A j \in DOMAIN down[d] : HandledBefore(d, down[d][j].id)'
      BY <1>2, <3>1, <3>3 DEF HandledBefore
    <3> QED BY <1>2, <3>1, <3>3, <3>4 DEF OrderInv, StreamsInOrder
  <2>2. \A i, j \in DOMAIN down'[c] : i < j => down'[c][i].id < down'[c][j].id
    <3> SUFFICES ASSUME NEW i \in DOMAIN down'[c], NEW j \in DOMAIN down'[c], i < j
                 PROVE  down'[c][i].id < down'[c][j].id
      OBVIOUS
    <3>1. i \in DOMAIN down[c] /\ down'[c][i] = down[c][i] BY <1>7
    <3>2. down[c][i].id \in Nat /\ down[c][i].id <= frames
      BY <1>8, <3>1 DEF OrderInv, StreamsInOrder
    <3>3. CASE j \in DOMAIN down[c]
      BY <1>7, <3>1, <3>3 DEF OrderInv, StreamsInOrder
    <3>4. CASE j = Len(down[c]) + 1
      BY <1>2, <1>7, <3>1, <3>2, <3>4
    <3> QED BY <1>7, <3>3, <3>4
  <2>3. ASSUME NEW j \in DOMAIN down'[c]
        PROVE  down'[c][j].id <= frames' /\ HandledBefore(c, down[c][j].id)'
    <3>1. CASE j \in DOMAIN down[c]
      BY <1>2, <1>7, <1>8, <3>1 DEF OrderInv, StreamsInOrder, HandledBefore
    <3>2. CASE j = Len(down[c]) + 1
      BY <1>2, <1>7, <1>9, <3>2 DEF OrderInv, HandledIsPast, HandledBefore
    <3> QED BY <1>7, <3>1, <3>2
  <2> QED BY <2>1, <2>2, <2>3 DEF StreamsInOrder
<1>11. HandledIsPast' /\ ControlInOrder'
  BY <1>2, <1>9 DEF OrderInv, HandledIsPast, ControlInOrder
<1>12. InHandInOrder'
  <2> SUFFICES ASSUME pc[Listener] = "handle" PROVE InHandInOrder'
    BY <1>2 DEF InHandInOrder
  <2>1. hmsg.frame.id \in Nat /\ hmsg.conn \in Conns /\ hmsg.frame.id <= frames
    BY FrameIdsAreNumbers DEF OrderInv, InHandInOrder
  <2>2. hmsg.frame.id <= frames' BY <1>2, <2>1
  <2>3. AllAfter(hmsg.conn, hmsg.frame.id)'
    <3>1. CASE hmsg.conn = c
      <4> SUFFICES ASSUME NEW j \in DOMAIN down'[c]
                   PROVE  hmsg.frame.id < down'[c][j].id
        BY <1>2, <3>1 DEF AllAfter
      <4>1. CASE j \in DOMAIN down[c]
        BY <1>7, <3>1, <4>1 DEF OrderInv, InHandInOrder, AllAfter
      <4>2. CASE j = Len(down[c]) + 1
        BY <1>2, <1>7, <2>1, <4>2
      <4> QED BY <1>7, <4>1, <4>2
    <3>2. CASE hmsg.conn # c
      <4>1. down'[hmsg.conn] = down[hmsg.conn] BY <1>6, <2>1, <3>2
      <4> QED BY <1>2, <4>1 DEF OrderInv, InHandInOrder, AllAfter
    <3> QED BY <3>1, <3>2
  <2> QED BY <1>2, <2>1, <2>2, <2>3 DEF OrderInv, InHandInOrder, HandledBefore
<1> QED BY <1>10, <1>11, <1>12 DEF OrderInv

\* The listener hands over the frame it has in hand.
LEMMA HandleInOrder ==
  ASSUME ClientTypeOK, OrderInv, Handle, UNCHANGED frames
  PROVE  OrderInv'
<1> DEFINE Given == [frame : Frame, conn : Conns \cup {NoConn}]
<1>1. handled \in Seq(Given) /\ hmsg \in Given /\ handled' = Append(handled, hmsg)
  BY DEF Handle, ClientTypeOK
<1> HIDE DEF Given
<1>2. /\ DOMAIN handled = 1..Len(handled) /\ Len(handled) \in Nat
      /\ DOMAIN handled' = 1..(Len(handled) + 1)
      /\ \A i \in DOMAIN handled : handled'[i] = handled[i]
      /\ handled'[Len(handled) + 1] = hmsg
  BY <1>1
<1>3. UNCHANGED <<down, hmsg, frames>> /\ pc[Listener] = "handle" /\ pc'[Listener] = "copy"
  BY DEF Handle, Goto, link, ClientTypeOK, ClientThreads
<1>4. /\ hmsg.conn \in Conns /\ hmsg.frame.id <= frames
      /\ HandledBefore(hmsg.conn, hmsg.frame.id)
      /\ AllAfter(hmsg.conn, hmsg.frame.id)
  BY <1>3 DEF OrderInv, InHandInOrder
<1>5. StreamsInOrder'
  <2>1. ASSUME NEW c \in Conns, NEW j \in DOMAIN down[c]
        PROVE  HandledBefore(c, down[c][j].id)'
    <3> SUFFICES ASSUME NEW i \in DOMAIN handled', handled'[i].conn = c
                 PROVE  handled'[i].frame.id < down[c][j].id
      BY <1>3 DEF HandledBefore
    <3>1. CASE i \in DOMAIN handled
      BY <1>2, <3>1 DEF OrderInv, StreamsInOrder, HandledBefore
    <3>2. CASE i = Len(handled) + 1
      BY <1>2, <1>4, <3>2 DEF AllAfter
    <3> QED BY <1>2, <3>1, <3>2
  <2> QED BY <1>3, <2>1 DEF OrderInv, StreamsInOrder
<1>6. HandledIsPast'
  BY <1>2, <1>3, <1>4 DEF OrderInv, HandledIsPast
<1>7. InHandInOrder'
  BY <1>3 DEF InHandInOrder
<1>8. ControlInOrder'
  <2> SUFFICES ASSUME NEW i \in DOMAIN handled', NEW j \in DOMAIN handled', i < j,
                      handled'[i].conn = handled'[j].conn
               PROVE  handled'[i].frame.id < handled'[j].frame.id
    BY DEF ControlInOrder
  <2>1. i \in DOMAIN handled BY <1>2
  <2>2. CASE j \in DOMAIN handled
    BY <1>2, <2>1, <2>2 DEF OrderInv, ControlInOrder
  <2>3. CASE j = Len(handled) + 1
    BY <1>2, <1>4, <2>1, <2>3 DEF HandledBefore
  <2> QED BY <1>2, <2>2, <2>3
<1> QED BY <1>5, <1>6, <1>7, <1>8 DEF OrderInv

\* A recommendation's reply is taken from the stream that the listener reads: it
\* may be a control frame, which is lost, but the order of the rest is kept.
LEMMA RecvReplyInOrder ==
  ASSUME ClientTypeOK, OrderInv, NEW w \in Workers, RecvReply(w), UNCHANGED frames
  PROVE  OrderInv'
<1>1. /\ sock \in Conns /\ down[sock] # <<>>
      /\ down' = [down EXCEPT ![sock] = Tail(@)]
      /\ UNCHANGED <<handled, frames, hmsg>>
      /\ pc' = [pc EXCEPT ![w] = "idle"]
  BY DEF RecvReply, Goto, ClientTypeOK
<1>2. /\ StreamsInOrder' /\ HandledIsPast' /\ ControlInOrder'
      /\ \A d \in Conns, m \in Nat : AllAfter(d, m) => AllAfter(d, m)'
  BY <1>1, TakeFrame
<1>3. InHandInOrder'
  <2>1. pc'[Listener] = pc[Listener] BY <1>1, ClientAssumption DEF ClientTypeOK
  <2>2. hmsg.frame.id \in Nat BY FrameIdsAreNumbers
  <2>3. CASE pc[Listener] = "handle"
    <3>1. hmsg.conn \in Conns /\ AllAfter(hmsg.conn, hmsg.frame.id)
      BY <2>3 DEF OrderInv, InHandInOrder
    <3>2. AllAfter(hmsg.conn, hmsg.frame.id)'
      BY <1>1, <1>2, <2>2, <3>1 DEF AllAfter
    <3> QED BY <1>1, <2>3, <3>2 DEF OrderInv, InHandInOrder, HandledBefore
  <2>4. CASE pc[Listener] # "handle" BY <2>1, <2>4 DEF InHandInOrder
  <2> QED BY <2>3, <2>4
<1> QED BY <1>2, <1>3 DEF OrderInv

\* The listener takes the first frame of its connection in hand.
LEMMA RecvInOrder ==
  ASSUME ClientTypeOK, OrderInv, Recv, UNCHANGED frames
  PROVE  OrderInv'
<1>1. CASE UNCHANGED <<down, mtx, hmsg>> /\ pc' = [pc EXCEPT ![Listener] = "reset_return"]
  <2>1. pc'[Listener] # "handle" BY <1>1 DEF ClientTypeOK, ClientThreads
  <2>2. UNCHANGED handled BY DEF Recv
  <2> QED BY <1>1, <2>1, <2>2, FrameOrderKept
<1>2. CASE /\ sock # NoConn /\ down[sock] # <<>>
           /\ down' = [down EXCEPT ![sock] = Tail(@)]
           /\ hmsg' = [frame |-> Head(down[sock]), conn |-> sock]
  <2>1. sock \in Conns /\ UNCHANGED <<handled, frames>>
    BY <1>2 DEF ClientTypeOK, Recv
  <2>2. PICK c \in Conns, n \in {Head(down[sock]).id} : c = sock
    BY <2>1
  <2>3. /\ StreamsInOrder' /\ HandledIsPast' /\ ControlInOrder'
        /\ n <= frames' /\ HandledBefore(c, n)' /\ AllAfter(c, n)'
    BY <1>2, <2>1, <2>2, TakeFrame
  <2>4. hmsg'.conn = c /\ hmsg'.frame.id = n
    BY <1>2, <2>2
  <2>5. InHandInOrder'
    BY <2>3, <2>4 DEF InHandInOrder, HandledBefore, AllAfter
  <2> QED BY <2>3, <2>5 DEF OrderInv
<1> QED BY <1>1, <1>2 DEF Recv, Goto

-----------------------------------------------------------------------------
\* Over one connection the handler is given the peer's control frames in the
\* order in which they were sent and none twice, although two threads read the
\* stream, either may lose frames to the other, and the connection may be reset
\* between any two steps.
THEOREM ControlOrderCorrect == ClientSpec => []ControlInOrder
<1>1. ClientInit => OrderInv
  BY ClientAssumption
     DEF ClientInit, LinkInit, OrderInv, StreamsInOrder, HandledIsPast, InHandInOrder,
         ControlInOrder, ClientThreads
<1>2. ClientTypeOK /\ OrderInv /\ [ClientNext]_cvars => OrderInv'
  <2> SUFFICES ASSUME ClientTypeOK, OrderInv, [ClientNext]_cvars PROVE OrderInv'
    OBVIOUS
  <2>1. ASSUME NEW w \in Workers, WorkerStep(w), UNCHANGED frames PROVE OrderInv'
    <3>1. CASE RecvReply(w)
      BY <2>1, <3>1, RecvReplyInOrder
    <3>2. CASE Begin(w) \/ LockCall(w) \/ SendPart(w, "len") \/ SendPart(w, "body") \/ CallFails(w)
      <4>1. UNCHANGED <<down, handled, hmsg>>
        BY <3>2 DEF Begin, LockCall, SendPart, CallFails, link
      <4>2. PICK to : pc' = [pc EXCEPT ![w] = to]
        BY <3>2 DEF Begin, LockCall, SendPart, CallFails, Goto
      <4>3. pc'[Listener] = pc[Listener]
        BY <4>2, ClientAssumption DEF ClientTypeOK
      <4> QED BY <2>1, <4>1, <4>3, FrameOrderKept
    <3> QED BY <2>1, <3>1, <3>2 DEF WorkerStep
  <2>2. ASSUME NEW t \in ClientThreads, EnsureStep(t) \/ Reset(t), UNCHANGED frames PROVE OrderInv'
    <3>1. UNCHANGED <<down, handled, hmsg>>
      BY <2>2 DEF EnsureStep, EnsureCheck, EnsureConnect, Connect, Reset, ResetClose,
                  ResetClear, link
    <3>2. PICK to : pc' = [pc EXCEPT ![t] = to] /\ to # "handle"
      <4>1. CASE EnsureStep(t)
        <5>1. PICK to \in {AfterEnsure(t, TRUE), AfterEnsure(t, FALSE), "reset_connect",
                           "connect"} :
                pc' = [pc EXCEPT ![t] = to]
          BY <4>1 DEF EnsureStep, EnsureCheck, EnsureConnect, Goto
        <5>2. to # "handle"
          BY <5>1, ClientAssumption DEF AfterEnsure, ClientThreads
        <5> QED BY <5>1, <5>2
      <4>2. CASE Reset(t)
        <5>0. PICK why \in {"connect", "return", "poll"} : ResetClose(t, why) \/ ResetClear(t, why)
          BY <4>2 DEF Reset
        <5>1. PICK to \in {ClearLabel(why), AfterReset(t, why)} : pc' = [pc EXCEPT ![t] = to]
          BY <5>0 DEF ResetClose, ResetClear, Goto
        <5>2. to # "handle"
          BY <5>1 DEF ClearLabel, AfterReset
        <5> QED BY <5>1, <5>2
      <4> QED BY <2>2, <4>1, <4>2
    <3>3. pc'[Listener] = "handle" => pc[Listener] = "handle"
      BY <3>2 DEF ClientTypeOK
    <3> QED BY <2>2, <3>1, <3>3, FrameOrderKept
  <2>3. CASE (Install \/ Spawn) /\ UNCHANGED frames
    <3>1. UNCHANGED <<down, handled, hmsg>>
      BY <2>3 DEF Install, Spawn, link
    <3>2. pc'[Listener] = "handle" => pc[Listener] = "handle"
      <4>1. CASE Install
        <5>1. PICK to : pc' = [pc EXCEPT ![Starter] = to]
          BY <4>1 DEF Install, Goto
        <5> QED BY <5>1, ClientAssumption DEF ClientTypeOK
      <4>2. CASE Spawn
        BY <4>2 DEF Spawn, ClientTypeOK, ClientThreads
      <4> QED BY <2>3, <4>1, <4>2
    <3> QED BY <2>3, <3>1, <3>2, FrameOrderKept
  <2>4. CASE LoopStep /\ UNCHANGED frames
    <3>1. CASE Recv BY <2>4, <3>1, RecvInOrder
    <3>2. CASE Handle BY <2>4, <3>2, HandleInOrder
    <3>3. CASE CopySock \/ Recheck \/ Poll \/ Relock
      <4>1. UNCHANGED <<down, handled, hmsg>>
        BY <3>3 DEF CopySock, Recheck, Poll, Relock, link
      <4>2. pc'[Listener] # "handle"
        BY <3>3 DEF CopySock, Recheck, Poll, Relock, Goto, ClientTypeOK, ClientThreads
      <4> QED BY <2>4, <4>1, <4>2, FrameOrderKept
    <3> QED BY <2>4, <3>1, <3>2, <3>3 DEF LoopStep
  <2>5. CASE Peer
    <3>1. PICK c \in Conns : PeerAccept(c) \/ PeerRead(c) \/ PeerSend(c) \/ PeerClose(c)
      BY <2>5 DEF Peer
    <3>2. CASE PeerSend(c) BY <3>2, PeerSendInOrder
    <3>3. CASE PeerAccept(c) \/ PeerRead(c) \/ PeerClose(c)
      BY <3>3, FrameOrderKept DEF PeerAccept, PeerRead, PeerClose, client
    <3> QED BY <3>1, <3>2, <3>3
  <2>6. CASE UNCHANGED cvars
    BY <2>6, FrameOrderKept DEF cvars, link, client
  <2> QED BY <2>1, <2>2, <2>3, <2>4, <2>5, <2>6, ClientNextCases
<1>3. OrderInv => ControlInOrder
  BY DEF OrderInv
<1> QED BY <1>1, <1>2, <1>3, TypeCorrect, PTL DEF ClientSpec
============================================================================
