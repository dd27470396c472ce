--------------------------- MODULE XappCoreProofs ---------------------------
(***************************************************************************)
(* Theorems about XappCore, for any gNB lists, buffers and bounds: that    *)
(* main and the receiver use the subscription table as SubscriptionHandler *)
(* says, and what that means for start-up, for the messages that are       *)
(* returned and for the control messages of the AI.                        *)
(***************************************************************************)
EXTENDS XappCore, TLAPS

\* The part of TypeOK that SubscriptionHandler's steps keep by themselves, with a
\* buffer for the response in hand and a name for the request in hand.
SubInv ==
  /\ Subs!TypeOK
  /\ pc[Rcv] # "idle" => me_id[Rcv] \in HeapKeys
  /\ pc[Main] # "idle" => text[Main] \in Ids
  /\ \A id \in Ids : requested[id] <= requests

MainTypes ==
  /\ process \in {"up", "crashed", "stopped"}
  /\ main \in {"receiver", "listener", "list", "push", "agent", "subscribe", "request", "forever"}
  /\ inventory \in Seq(Ids) /\ rnib_gnblist \in Seq(Ids)
  /\ next \in 1 .. Len(rnib_gnblist) + 1
  /\ outcomes \in Seq(Subs!Results)
  /\ agent \in BOOLEAN /\ ext \in {"off", "accept"}

RcvTypes ==
  /\ rcv \in {"off", "recv", "handle", "respond", "return", "ended"}
  /\ current \in Message \cup {NoMessage}
  /\ resend \in BOOLEAN
  /\ msgs \in 0..MaxMsgs
  /\ published \subseteq Ids
  /\ healthChecks \subseteq 1..MaxMsgs /\ returned \in Seq(Message)

CtlTypes ==
  /\ listener \in {"off", "idle", "copy", "send"}
  /\ control \in Controls
  /\ controls \in 0..MaxControls
  /\ fates \in Seq([control : Controls, fate : {"dropped", "unencoded", "refused", "sent"}])

\* Where a place in the program says something about the lists and the message.
PlaceInv ==
  /\ main = "receiver" => rcv = "off"
  /\ main = "push" => inventory # <<>>
  /\ main = "request" => next <= Len(rnib_gnblist)
  /\ rcv \in {"handle", "respond", "return"} => current \in Message /\ current.n = msgs
  /\ rcv = "handle" => current.kind # "bad"
  /\ rcv = "handle" /\ current.kind \in E2Kinds => current.id \in sent

TypeInv == SubInv /\ MainTypes /\ RcvTypes /\ CtlTypes /\ PlaceInv

LEMMA TypeInvType == TypeInv => TypeOK
BY DEF TypeInv, SubInv, MainTypes, RcvTypes, CtlTypes, TypeOK

-----------------------------------------------------------------------------
\* Every step of the xApp is a step of the table, or leaves the table alone.
SubStep ==
  \/ \E id \in Ids : Subs!Call(Main, id)
  \/ Subs!Requester(Main) \/ Subs!Expire(Main)
  \/ Subs!Responder(Rcv)
  \/ \E id \in Ids : Subs!Receive(Rcv, id)
  \/ UNCHANGED subVars

LEMMA SubCases ==
  ASSUME SubInv, MainTypes, [Next]_vars
  PROVE  SubStep
<1>1. CASE SubscribeNext
  <2>1. rnib_gnblist[next] \in Ids
    BY <1>1 DEF SubscribeNext, MainTypes
  <2> QED BY <1>1, <2>1 DEF SubscribeNext, SubStep
<1>2. CASE HandleSubResp
  <2>1. current.id \in Ids
    BY <1>2 DEF HandleSubResp, Subs!Receive, SubInv, Subs!TypeOK
  <2> QED BY <1>2, <2>1 DEF HandleSubResp, SubStep
<1>3. CASE Request \/ Respond \/ Clock
  BY <1>3 DEF Request, Respond, Clock, SubStep
<1>4. CASE start_xapp_receiver \/ StartControlCommandListener \/ PushGnb
           \/ StartExternalControl \/ open_control_socket_agent \/ RequestReturns
           \/ SleepForever
  BY <1>4 DEF SubStep, start_xapp_receiver, StartControlCommandListener, PushGnb,
              StartExternalControl, open_control_socket_agent, RequestReturns, SleepForever
<1>5. CASE ReceiveNext \/ Handle \/ HandleIndication \/ SubRespDone \/ ReturnToSender
  BY <1>5 DEF SubStep, ReceiveNext, Handle, HandleIndication, SubRespDone, ReturnToSender
<1>6. CASE Listener \/ terminate_du_reporting \/ ControlArrives
  BY <1>6 DEF SubStep, Listener, CopyGnbList, SendControl, terminate_du_reporting,
              ControlArrives
<1>7. CASE UNCHANGED vars
  BY <1>7 DEF vars, SubStep
<1> QED BY <1>1, <1>2, <1>3, <1>4, <1>5, <1>6, <1>7 DEF Next, MainThread, Receiver

\* What Put and Erased make of the table.
LEMMA PutTable ==
  ASSUME SubInv, NEW k \in Subs!Keys, NEW status \in Subs!Statuses,
         status_table' = Subs!Put(k, status)
  PROVE  /\ DOMAIN status_table' = DOMAIN status_table \cup {k}
         /\ DOMAIN status_table' \subseteq Subs!Keys
         /\ status_table' \in [DOMAIN status_table' -> Subs!Statuses]
BY DEF SubInv, Subs!TypeOK, Subs!Put

LEMMA ErasedTable ==
  ASSUME SubInv, NEW k, status_table' = Subs!Erased(k)
  PROVE  /\ DOMAIN status_table' = DOMAIN status_table \ {k}
         /\ DOMAIN status_table' \subseteq Subs!Keys
         /\ status_table' \in [DOMAIN status_table' -> Subs!Statuses]
BY DEF SubInv, Subs!TypeOK, Subs!Erased

\* The table's own steps keep its types.
LEMMA SubKept ==
  ASSUME SubInv, SubStep
  PROVE  SubInv'
<1> USE XappAssumption DEF SubInv, Subs!TypeOK
<1>0. Main \in Subs!Keys /\ HeapKeys \subseteq Subs!Keys
  BY DEF Subs!Keys
<1>1. ASSUME NEW id \in Ids, Subs!Call(Main, id) PROVE SubInv'
  <2>1. requests + 1 \in 0..MaxRequests /\ requested[id] + 1 \in 0..MaxRequests
    BY <1>1 DEF Subs!Call
  <2> QED BY <1>0, <1>1, <2>1 DEF Subs!Call, Subs!Goto, Subs!RequesterLabels, Subs!Results
<1>2. CASE Subs!AddEntry(Main)
  <2>1. DOMAIN status_table' \subseteq Subs!Keys
        /\ status_table' \in [DOMAIN status_table' -> Subs!Statuses]
    BY <1>0, <1>2, PutTable DEF Subs!AddEntry, Subs!Statuses
  <2> QED BY <1>2, <2>1 DEF Subs!AddEntry, Subs!Goto, Subs!RequesterLabels, Subs!Results
<1>3. CASE Subs!Relock(Main) \/ Subs!StartWait(Main) \/ Subs!Expire(Main)
  BY <1>3 DEF Subs!Relock, Subs!StartWait, Subs!Expire, Subs!Goto, Subs!RequesterLabels
<1>4. CASE Subs!Transmit(Main)
  <2>1. DOMAIN status_table' \subseteq Subs!Keys
        /\ status_table' \in [DOMAIN status_table' -> Subs!Statuses]
    BY <1>4, ErasedTable DEF Subs!Transmit, Subs!GiveBack
  <2> QED BY <1>4, <2>1 DEF Subs!Transmit, Subs!GiveBack, Subs!Goto,
                            Subs!RequesterLabels, Subs!Results
<1>5. CASE Subs!Wake(Main)
  <2>1. DOMAIN status_table' \subseteq Subs!Keys
        /\ status_table' \in [DOMAIN status_table' -> Subs!Statuses]
    BY <1>5, ErasedTable DEF Subs!Wake
  <2>2. \A status \in Subs!StatusOf(text[Main]) : Subs!Outcome(Main, status) \in Subs!Results
    <3>1. Subs!StatusOf(text[Main]) \subseteq Subs!Statuses \cup {"absent"}
      BY DEF Subs!StatusOf, Subs!Entries
    <3> QED BY <3>1 DEF Subs!Outcome, Subs!Statuses, Subs!Results
  <2> QED BY <1>5, <2>1, <2>2 DEF Subs!Wake, Subs!Goto, Subs!RequesterLabels
<1>6. ASSUME NEW id \in Ids, Subs!Receive(Rcv, id) PROVE SubInv'
  BY <1>0, <1>6 DEF Subs!Receive, Subs!Goto, Subs!ResponderLabels
<1>7. CASE Subs!IsRequestEntry(Rcv) \/ Subs!SetStatus(Rcv) \/ Subs!NotifyAll(Rcv)
  BY <1>7 DEF Subs!IsRequestEntry, Subs!SetStatus, Subs!NotifyAll, Subs!Goto,
              Subs!ResponderLabels
<1>8. CASE Subs!PutStatus(Rcv)
  <2>1. me_id[Rcv] \in Subs!Keys
    BY <1>0, <1>8 DEF Subs!PutStatus, Subs!Goto
  <2>2. DOMAIN status_table' \subseteq Subs!Keys
        /\ status_table' \in [DOMAIN status_table' -> Subs!Statuses]
    BY <1>8, <2>1, PutTable DEF Subs!PutStatus, Subs!Statuses
  <2> QED BY <1>8, <2>2 DEF Subs!PutStatus, Subs!Goto, Subs!ResponderLabels
<1>9. CASE UNCHANGED subVars
  BY <1>9 DEF subVars
<1> QED BY <1>1, <1>2, <1>3, <1>4, <1>5, <1>6, <1>7, <1>8, <1>9
        DEF SubStep, Subs!Requester, Subs!Responder

-----------------------------------------------------------------------------
LEMMA EmptySeq == ASSUME NEW S PROVE <<>> \in Seq(S) /\ Len(<<>>) = 0
OBVIOUS

LEMMA TypeInit == Init => TypeInv
<1> SUFFICES ASSUME Init PROVE TypeInv
  OBVIOUS
<1>1. SubInv
  BY XappAssumption DEF Init, Subs!Init, SubInv, Subs!TypeOK, Subs!RequesterLabels,
                        Subs!ResponderLabels, Subs!Results, Subs!Statuses
<1>2. MainTypes
  <2>1. inventory \in Seq(Ids)
    BY XappAssumption DEF Init
  <2>2. next \in 1 .. Len(rnib_gnblist) + 1
    BY EmptySeq DEF Init
  <2> QED BY <2>1, <2>2, EmptySeq DEF Init, MainTypes
<1>3. RcvTypes /\ CtlTypes
  <2>1. msgs \in 0..MaxMsgs /\ controls \in 0..MaxControls
    BY XappAssumption DEF Init
  <2> QED BY <2>1, EmptySeq DEF Init, RcvTypes, CtlTypes, Controls
<1>4. PlaceInv
  BY DEF Init, PlaceInv
<1> QED BY <1>1, <1>2, <1>3, <1>4 DEF TypeInv

\* main's steps: the two lists, the index and what the calls returned.
LEMMA MainKept ==
  ASSUME TypeInv, MainThread
  PROVE  MainTypes' /\ main' # "receiver" /\ (main' = "push" => inventory' # <<>>)
         /\ (main' = "request" => next' <= Len(rnib_gnblist'))
<1> USE DEF TypeInv, MainTypes, PlaceInv, Goto
<1>1. CASE start_xapp_receiver
  BY <1>1 DEF start_xapp_receiver
<1>2. CASE StartControlCommandListener
  BY <1>2 DEF StartControlCommandListener
<1>3. CASE PushGnb
  <2>1. CASE inventory # <<>> /\ Goto("list", "push") /\ UNCHANGED <<inventory, rnib_gnblist>>
    BY <1>3, <2>1 DEF PushGnb
  <2>2. CASE /\ Goto("push", "list")
             /\ rnib_gnblist' = Append(rnib_gnblist, Head(inventory))
             /\ inventory' = Tail(inventory)
    <3>1. Head(inventory) \in Ids /\ inventory' \in Seq(Ids)
      BY <2>2
    <3>2. rnib_gnblist' \in Seq(Ids) /\ Len(rnib_gnblist') = Len(rnib_gnblist) + 1
      BY <2>2, <3>1
    <3> QED BY <1>3, <2>2, <3>1, <3>2 DEF PushGnb
  <2> QED BY <1>3, <2>1, <2>2 DEF PushGnb
<1>4. CASE StartExternalControl
  BY <1>4 DEF StartExternalControl
<1>5. CASE open_control_socket_agent
  BY <1>5 DEF open_control_socket_agent
<1>6. CASE SubscribeNext \/ SleepForever
  BY <1>6 DEF SubscribeNext, SleepForever
<1>7. CASE Request
  BY <1>7 DEF Request, mainVars
<1>8. CASE RequestReturns
  <2>1. result[Main] \in Subs!Results
    BY DEF SubInv, Subs!TypeOK
  <2> QED BY <1>8, <2>1 DEF RequestReturns
<1> QED BY <1>1, <1>2, <1>3, <1>4, <1>5, <1>6, <1>7, <1>8 DEF MainThread

\* The receiver's steps.
LEMMA RcvKept ==
  ASSUME TypeInv, Receiver
  PROVE  /\ RcvTypes' /\ rcv # "off"
         /\ rcv' \in {"handle", "respond", "return"} => current' \in Message /\ current'.n = msgs'
         /\ rcv' = "handle" => current'.kind # "bad"
         /\ rcv' = "handle" /\ current'.kind \in E2Kinds => current'.id \in sent
<1> USE DEF TypeInv, RcvTypes, PlaceInv
<1>1. CASE ReceiveNext
  <2>1. PICK kind \in Kinds, id \in Ids \cup {NoOne} :
          /\ IF kind \in E2Kinds THEN id \in sent ELSE id = NoOne
          /\ current' = [kind |-> kind, id |-> id, n |-> msgs + 1]
          /\ rcv' = IF kind = "bad" THEN "ended" ELSE "handle"
          /\ healthChecks' = IF kind = "health" THEN healthChecks \cup {msgs + 1}
                                                ELSE healthChecks
    BY <1>1 DEF ReceiveNext
  <2>2. msgs + 1 \in 1..MaxMsgs /\ msgs' = msgs + 1
    BY <1>1, XappAssumption DEF ReceiveNext
  <2>3. current' \in Message /\ current'.n = msgs' /\ current'.kind = kind /\ current'.id = id
    BY <2>1, <2>2 DEF Message
  <2> QED BY <1>1, <2>1, <2>2, <2>3, XappAssumption DEF ReceiveNext
<1>2. CASE Handle
  <2>1. resend' \in BOOLEAN
    <3>1. current.kind \in {"health", "policy", "unknown", "too_long"}
      BY <1>2 DEF Handle, Message, Kinds, E2Kinds
    <3> QED BY <1>2, <3>1 DEF Handle
  <2> QED BY <1>2, <2>1 DEF Handle
<1>3. CASE HandleIndication
  <2>1. current.id \in Ids
    BY <1>3 DEF HandleIndication, E2Kinds, SubInv, Subs!TypeOK
  <2> QED BY <1>3, <2>1 DEF HandleIndication
<1>4. CASE HandleSubResp \/ SubRespDone
  BY <1>4 DEF HandleSubResp, SubRespDone
<1>5. CASE Respond
  BY <1>5 DEF Respond, rcvVars
<1>6. CASE ReturnToSender
  <2>1. current \in Message /\ returned \in Seq(Message)
    BY <1>6 DEF ReturnToSender
  <2>2. returned' \in Seq(Message)
    BY <1>6, <2>1 DEF ReturnToSender
  <2> QED BY <1>6, <2>2 DEF ReturnToSender
<1> QED BY <1>1, <1>2, <1>3, <1>4, <1>5, <1>6 DEF Receiver

\* The listener's steps.
LEMMA CtlKept ==
  ASSUME TypeInv, Listener \/ ControlArrives
  PROVE  CtlTypes' /\ process' \in {"up", "crashed", "stopped"}
<1> USE DEF TypeInv, CtlTypes, MainTypes
<1>1. CASE ControlArrives
  BY <1>1, XappAssumption DEF ControlArrives, Controls
<1>2. ASSUME NEW f \in {"dropped", "unencoded", "refused", "sent"}, Fate(f)
      PROVE  fates' \in Seq([control : Controls,
                             fate : {"dropped", "unencoded", "refused", "sent"}])
  BY <1>2 DEF Fate
<1>3. CASE CopyGnbList
  BY <1>2, <1>3 DEF CopyGnbList
<1>4. CASE SendControl
  BY <1>2, <1>4 DEF SendControl
<1> QED BY <1>1, <1>3, <1>4 DEF Listener

\* No step takes back a transmission.
LEMMA SentGrows == ASSUME SubStep PROVE sent \subseteq sent'
BY DEF SubStep, Subs!Call, Subs!Requester, Subs!AddEntry, Subs!Relock, Subs!Transmit,
       Subs!StartWait, Subs!Wake, Subs!Expire, Subs!Receive, Subs!Responder,
       Subs!IsRequestEntry, Subs!SetStatus, Subs!PutStatus, Subs!NotifyAll, subVars

\* What each thread's steps leave alone.
LEMMA ThreadVars ==
  /\ MainThread => UNCHANGED <<process, published, healthChecks, returned, current, resend,
                              msgs, controls, control, fates>>
                /\ rcv' \in {rcv, "recv"} /\ listener' \in {listener, "idle"}
  /\ Receiver => UNCHANGED <<process, mainVars, ext, ctlVars>>
  /\ Listener \/ ControlArrives => UNCHANGED <<subVars, mainVars, ext, rcvVars, msgs>>
  /\ terminate_du_reporting => UNCHANGED <<subVars, mainVars, ext, rcvVars, ctlVars, msgs>>
  /\ Clock => UNCHANGED <<process, mainVars, ext, rcvVars, ctlVars, msgs>>
BY DEF MainThread, start_xapp_receiver, StartControlCommandListener, PushGnb,
       StartExternalControl, open_control_socket_agent, SubscribeNext, Request,
       RequestReturns, SleepForever, Receiver, ReceiveNext, Handle, HandleIndication,
       HandleSubResp, Respond, SubRespDone, ReturnToSender, Listener, CopyGnbList,
       SendControl, ControlArrives, terminate_du_reporting, Clock, mainVars, rcvVars, ctlVars

LEMMA TypeInvHolds == Spec => []TypeInv
<1>1. TypeInv /\ [Next]_vars => TypeInv'
  <2> SUFFICES ASSUME TypeInv, [Next]_vars PROVE TypeInv'
    OBVIOUS
  <2>1. SubInv' /\ sent \subseteq sent'
    BY SubCases, SubKept, SentGrows DEF TypeInv
  <2>2. CASE MainThread
    BY <2>1, <2>2, MainKept, ThreadVars DEF TypeInv, RcvTypes, CtlTypes, PlaceInv
  <2>3. CASE Receiver
    BY <2>1, <2>3, RcvKept, ThreadVars
       DEF TypeInv, MainTypes, CtlTypes, PlaceInv, mainVars, ctlVars
  <2>4. CASE Listener \/ ControlArrives
    BY <2>1, <2>4, CtlKept, ThreadVars
       DEF TypeInv, MainTypes, RcvTypes, PlaceInv, mainVars, rcvVars
  <2>5. CASE terminate_du_reporting \/ Clock
    <3>1. process' \in {"up", "crashed", "stopped"}
      BY <2>5 DEF terminate_du_reporting, Clock, TypeInv, MainTypes
    <3>2. UNCHANGED <<mainVars, ext, rcvVars, ctlVars, msgs>>
      BY <2>5, ThreadVars
    <3>3. MainTypes' /\ RcvTypes' /\ CtlTypes'
      BY <3>1, <3>2 DEF TypeInv, MainTypes, RcvTypes, CtlTypes, mainVars, rcvVars, ctlVars
    <3> QED BY <2>1, <3>2, <3>3 DEF TypeInv, PlaceInv, mainVars, rcvVars
  <2>6. CASE UNCHANGED vars
    BY <2>1, <2>6
       DEF vars, TypeInv, MainTypes, RcvTypes, CtlTypes, PlaceInv, mainVars, rcvVars, ctlVars
  <2> QED BY <2>2, <2>3, <2>4, <2>5, <2>6 DEF Next
<1> QED BY <1>1, TypeInit, PTL DEF Spec

\* Every variable keeps to its type, the table's variables to SubscriptionHandler's.
THEOREM XappTypeCorrect == Spec => []TypeOK
BY TypeInvHolds, TypeInvType, PTL

\* main and the receiver use the table only as SubscriptionHandler describes it, with
\* one requester and one responder, so that its theorems hold in the xApp.
THEOREM UsesSubscriptionHandlerCorrect == Spec => UsesSubscriptionHandler
<1>1. Init => Subs!Init
  BY DEF Init
<1>2. TypeInv /\ [Next]_vars => [Subs!Next]_(Subs!vars)
  <2> SUFFICES ASSUME TypeInv, [Next]_vars PROVE [Subs!Next]_(Subs!vars)
    OBVIOUS
  <2>1. SubStep
    BY SubCases DEF TypeInv
  <2>2. CASE UNCHANGED subVars
    BY <2>2 DEF subVars, Subs!vars
  <2>3. CASE ~UNCHANGED subVars
    BY <2>1, <2>3 DEF SubStep, Subs!Next
  <2> QED BY <2>2, <2>3
<1> QED BY <1>1, <1>2, TypeInvHolds, PTL DEF Spec, UsesSubscriptionHandler, Subs!Spec

-----------------------------------------------------------------------------
\* The requester's side of the table changes only in main's own calls.
LEMMA MainOnly ==
  ASSUME TypeInv, [Next]_vars, ~SubscribeNext, ~Request
  PROVE  /\ UNCHANGED <<sent, result, requested>>
         /\ pc'[Main] = pc[Main] /\ text'[Main] = text[Main]
<1> USE XappAssumption DEF TypeInv, SubInv, Subs!TypeOK, Subs!Keys
<1>1. CASE Clock
  BY <1>1 DEF Clock, Subs!Expire
<1>2. CASE HandleSubResp
  <2>1. PICK k \in HeapKeys : text' = [text EXCEPT ![k] = current.id]
    BY <1>2 DEF HandleSubResp, Subs!Receive
  <2> QED BY <1>2, <2>1 DEF HandleSubResp, Subs!Receive, Subs!Goto
<1>3. CASE Respond
  BY <1>3 DEF Respond, Subs!Responder, Subs!IsRequestEntry, Subs!SetStatus, Subs!PutStatus,
              Subs!NotifyAll, Subs!Goto
<1>4. CASE UNCHANGED subVars
  BY <1>4 DEF subVars
<1>5. ~Clock /\ ~HandleSubResp /\ ~Respond => UNCHANGED subVars
  BY DEF Next, MainThread, start_xapp_receiver, StartControlCommandListener, PushGnb,
         StartExternalControl, open_control_socket_agent, RequestReturns, SleepForever,
         Receiver, ReceiveNext, Handle, HandleIndication, SubRespDone, ReturnToSender,
         Listener, CopyGnbList, SendControl, ControlArrives, terminate_du_reporting, vars
<1> QED BY <1>1, <1>2, <1>3, <1>4, <1>5

\* A request is transmitted only when main has the whole list; a gNB reports only
\* then; the AI reacts only to a report.
Subscribing == main \in {"subscribe", "request", "forever"}

ReactInv ==
  /\ pc[Main] # "idle" => main = "request"
  /\ sent # {} => Subscribing /\ rnib_gnblist # <<>>
  /\ published \subseteq sent
  /\ control = "reaction" => published # {}
  /\ \A i \in DOMAIN fates : fates[i].control = "reaction" => fates[i].fate # "dropped"

LEMMA ReactInvHolds == Spec => []ReactInv
<1>1. Init => ReactInv
  BY DEF Init, Subs!Init, ReactInv
<1>2. TypeInv /\ ReactInv /\ [Next]_vars => ReactInv'
  <2> SUFFICES ASSUME TypeInv, ReactInv, [Next]_vars PROVE ReactInv'
    OBVIOUS
  <2>1. sent \subseteq sent'
    BY SubCases, SentGrows DEF TypeInv
  <2>2. CASE SubscribeNext \/ Request
    <3>1. UNCHANGED <<rnib_gnblist, published, control, fates>> /\ main' = "request"
      BY <2>2 DEF SubscribeNext, Request, Goto, mainVars, rcvVars, ctlVars
    <3>2. sent' # {} => rnib_gnblist # <<>>
      <4>1. CASE SubscribeNext
        BY <4>1 DEF SubscribeNext, Subs!Call, ReactInv
      <4>2. CASE Request
        <5>1. next \in 1 .. Len(rnib_gnblist)
          BY <4>2 DEF Request, TypeInv, PlaceInv, MainTypes
        <5> QED BY <5>1, EmptySeq DEF TypeInv, MainTypes
      <4> QED BY <2>2, <4>1, <4>2
    <3> QED BY <2>1, <3>1, <3>2 DEF ReactInv, Subscribing
  <2>3. CASE ~SubscribeNext /\ ~Request
    <3>1. UNCHANGED sent /\ pc'[Main] = pc[Main]
      BY <2>3, MainOnly
    <3>2. CASE MainThread
      <4>1. UNCHANGED <<published, control, fates>>
        BY <3>2, ThreadVars
      <4>2. /\ Subscribing => Subscribing' /\ UNCHANGED rnib_gnblist
            /\ pc'[Main] # "idle" => main' = "request"
        BY <2>3, <3>1, <3>2
           DEF MainThread, start_xapp_receiver, StartControlCommandListener, PushGnb,
               StartExternalControl, open_control_socket_agent, RequestReturns,
               SleepForever, Goto, Subscribing, ReactInv
      <4> QED BY <3>1, <4>1, <4>2 DEF ReactInv
    <3>3. CASE Receiver
      <4>1. UNCHANGED <<mainVars, control, fates>>
        BY <3>3, ThreadVars DEF ctlVars
      <4>2. \/ published' = published
            \/ current.id \in sent /\ published' = published \cup {current.id}
        <5>1. CASE HandleIndication
          <6>1. current.id \in sent
            BY <5>1 DEF HandleIndication, TypeInv, PlaceInv, E2Kinds
          <6> QED BY <5>1, <6>1 DEF HandleIndication
        <5>2. CASE ~HandleIndication
          BY <3>3, <5>2 DEF Receiver, ReceiveNext, Handle, HandleSubResp, Respond,
                            SubRespDone, ReturnToSender, rcvVars
        <5> QED BY <5>1, <5>2
      <4> QED BY <3>1, <4>1, <4>2 DEF ReactInv, Subscribing, mainVars
    <3>4. CASE Listener \/ ControlArrives
      <4>1. UNCHANGED <<mainVars, published>>
        BY <3>4, ThreadVars DEF rcvVars
      <4>2. control' = "reaction" => published # {}
        BY <3>4 DEF Listener, CopyGnbList, SendControl, ControlArrives, ReactInv
      <4>3. \A i \in DOMAIN fates' :
              fates'[i].control = "reaction" => fates'[i].fate # "dropped"
        <5>1. UNCHANGED fates \/ \E f : Fate(f) /\ (control = "reaction" => f # "dropped")
          BY <3>4 DEF Listener, CopyGnbList, SendControl, ControlArrives, ReactInv
        <5>2. ASSUME NEW f, Fate(f), control = "reaction" => f # "dropped"
              PROVE  \A i \in DOMAIN fates' :
                       fates'[i].control = "reaction" => fates'[i].fate # "dropped"
          <6>1. /\ DOMAIN fates' = DOMAIN fates \cup {Len(fates) + 1}
                /\ \A i \in DOMAIN fates : fates'[i] = fates[i]
                /\ fates'[Len(fates) + 1] = [control |-> control, fate |-> f]
            BY <5>2 DEF Fate, TypeInv, CtlTypes
          <6> QED BY <5>2, <6>1 DEF ReactInv
        <5>3. CASE UNCHANGED fates
          BY <5>3 DEF ReactInv
        <5> QED BY <5>1, <5>2, <5>3
      <4> QED BY <3>1, <4>1, <4>2, <4>3 DEF ReactInv, Subscribing, mainVars
    <3>5. CASE terminate_du_reporting \/ Clock \/ UNCHANGED vars
      <4>1. UNCHANGED <<mainVars, rcvVars, ctlVars>>
        BY <3>5, ThreadVars DEF vars
      <4> QED BY <3>1, <4>1 DEF ReactInv, Subscribing, mainVars, rcvVars, ctlVars
    <3> QED BY <3>2, <3>3, <3>4, <3>5 DEF Next
  <2> QED BY <2>2, <2>3
<1> QED BY <1>1, <1>2, TypeInvHolds, PTL DEF Spec

\* A reaction of the AI to a report always finds the whole list of gNBs.
THEOREM ReactionCorrect == Spec => []ReactionFindsList
<1>1. ReactInv => ReactionFindsList
  BY DEF ReactInv, ReactionFindsList, Subscribing
<1> QED BY <1>1, ReactInvHolds, PTL

-----------------------------------------------------------------------------
\* The flag is set only for a message that is about to be returned, every message in
\* hand is later than those returned, and a health check is in hand or returned.
InHand == rcv \in {"handle", "respond", "return"}

FlagInv ==
  /\ resend => rcv = "return" /\ current.kind \in {"health", "policy"}
  /\ rcv = "return" /\ current.kind = "health" => resend
  /\ rcv = "respond" => current.kind = "sub_resp"

OrderInv ==
  /\ \A i \in DOMAIN returned : /\ returned[i].kind \in {"health", "policy"}
                                /\ returned[i].n <= msgs
                                /\ InHand => returned[i].n < msgs
  /\ \A i, j \in DOMAIN returned : i < j => returned[i].n < returned[j].n

WasReturned(n) == \E j \in DOMAIN returned : returned[j].n = n

HealthInv ==
  \A n \in healthChecks :
    \/ WasReturned(n)
    \/ n = msgs /\ rcv \in {"handle", "return"} /\ current.kind = "health"

ReturnInv == FlagInv /\ OrderInv /\ HealthInv

LEMMA ReturnInvHolds == Spec => []ReturnInv
<1>1. Init => ReturnInv
  BY DEF Init, ReturnInv, FlagInv, OrderInv, HealthInv
<1>2. TypeInv /\ ReturnInv /\ [Next]_vars => ReturnInv'
  <2> SUFFICES ASSUME TypeInv, ReturnInv, [Next]_vars PROVE ReturnInv'
    OBVIOUS
  <2>0. msgs \in Nat /\ returned \in Seq(Message)
        /\ \A i \in DOMAIN returned : returned[i].n \in Nat
    <3>1. \A m \in Message : m.n \in Nat
      BY XappAssumption DEF Message
    <3> QED BY <3>1, XappAssumption DEF TypeInv, RcvTypes
  <2>1. CASE ReceiveNext
    <3>1. PICK kind \in Kinds, id \in Ids \cup {NoOne} :
            /\ current' = [kind |-> kind, id |-> id, n |-> msgs + 1]
            /\ rcv' = IF kind = "bad" THEN "ended" ELSE "handle"
            /\ healthChecks' = IF kind = "health" THEN healthChecks \cup {msgs + 1}
                                                  ELSE healthChecks
      BY <2>1 DEF ReceiveNext
    <3>2. UNCHANGED <<resend, returned>> /\ msgs' = msgs + 1 /\ rcv = "recv"
      BY <2>1 DEF ReceiveNext
    <3>3. FlagInv'
      BY <3>1, <3>2 DEF ReturnInv, FlagInv
    <3>4. OrderInv'
      BY <2>0, <3>2 DEF ReturnInv, OrderInv
    <3>5. HealthInv'
      BY <2>0, <3>1, <3>2 DEF ReturnInv, HealthInv, WasReturned
    <3> QED BY <3>3, <3>4, <3>5 DEF ReturnInv
  <2>2. CASE Handle
    <3>1. current.kind \in {"health", "policy", "unknown", "too_long"}
      BY <2>2 DEF Handle, TypeInv, PlaceInv, Message, Kinds, E2Kinds
    <3>2. ~resend
      BY <2>2 DEF Handle, ReturnInv, FlagInv
    <3>3. FlagInv'
      BY <2>2, <3>1, <3>2 DEF Handle, FlagInv
    <3> QED BY <2>2, <3>3 DEF Handle, ReturnInv, OrderInv, HealthInv, WasReturned, InHand
  <2>3. CASE HandleIndication \/ HandleSubResp \/ SubRespDone
    BY <2>3 DEF HandleIndication, HandleSubResp, SubRespDone, ReturnInv, FlagInv, OrderInv,
                HealthInv, WasReturned, InHand
  <2>4. CASE ReturnToSender
    <3>1. rcv = "return" /\ rcv' = "recv" /\ resend' = FALSE /\ current.n = msgs
          /\ current \in Message
          /\ UNCHANGED <<msgs, healthChecks, current>>
      BY <2>4 DEF ReturnToSender, TypeInv, PlaceInv
    <3>2. CASE resend
      <4>1. /\ DOMAIN returned' = DOMAIN returned \cup {Len(returned) + 1}
            /\ \A i \in DOMAIN returned : returned'[i] = returned[i] /\ i < Len(returned) + 1
            /\ returned'[Len(returned) + 1] = current
        BY <2>0, <2>4, <3>1, <3>2 DEF ReturnToSender
      <4>2. FlagInv'
        BY <3>1 DEF FlagInv
      <4>3. OrderInv'
        BY <2>0, <3>1, <3>2, <4>1 DEF ReturnInv, FlagInv, OrderInv, InHand
      <4>4. HealthInv'
        <5> SUFFICES ASSUME NEW n \in healthChecks PROVE WasReturned(n)'
          BY <3>1 DEF HealthInv, WasReturned
        <5>1. CASE WasReturned(n)
          BY <4>1, <5>1 DEF WasReturned
        <5>2. CASE n = msgs
          BY <3>1, <4>1, <5>2 DEF WasReturned
        <5> QED BY <5>1, <5>2 DEF ReturnInv, HealthInv
      <4> QED BY <4>2, <4>3, <4>4 DEF ReturnInv
    <3>3. CASE ~resend
      <4>1. returned' = returned
        BY <2>4, <3>3 DEF ReturnToSender
      <4> QED BY <3>1, <3>3, <4>1 DEF ReturnInv, FlagInv, OrderInv, HealthInv, WasReturned, InHand
    <3> QED BY <3>2, <3>3
  <2>5. CASE MainThread
    <3>1. UNCHANGED <<healthChecks, returned, current, resend, msgs>>
      BY <2>5, ThreadVars
    <3>2. rcv' = rcv \/ (rcv = "off" /\ rcv' = "recv")
      BY <2>5 DEF MainThread, start_xapp_receiver, StartControlCommandListener, PushGnb,
                  StartExternalControl, open_control_socket_agent, SubscribeNext, Request,
                  RequestReturns, SleepForever, rcvVars, Goto, TypeInv, PlaceInv
    <3> QED BY <3>1, <3>2 DEF ReturnInv, FlagInv, OrderInv, HealthInv, WasReturned, InHand
  <2>6. CASE UNCHANGED <<rcvVars, msgs>>
    BY <2>6 DEF rcvVars, ReturnInv, FlagInv, OrderInv, HealthInv, WasReturned, InHand
  <2>7. Respond \/ Listener \/ ControlArrives \/ terminate_du_reporting \/ Clock \/ UNCHANGED vars
          => UNCHANGED <<rcvVars, msgs>>
    BY ThreadVars DEF Respond, vars
  <2> QED BY <2>1, <2>2, <2>3, <2>4, <2>5, <2>6, <2>7 DEF Next, Receiver
<1> QED BY <1>1, <1>2, TypeInvHolds, PTL DEF Spec

\* What is returned to its sender is what has to be, each once and in order.
THEOREM ReturnedCorrect == Spec => []ReturnedExactly
<1>1. TypeInv /\ ReturnInv => ReturnedExactly
  BY XappAssumption
     DEF TypeInv, RcvTypes, ReturnInv, OrderInv, HealthInv, WasReturned, ReturnedExactly
<1> QED BY <1>1, TypeInvHolds, ReturnInvHolds, PTL

-----------------------------------------------------------------------------
\* How far main has got with the list: what it has pushed and what is left make one
\* of the inventories, and it goes through the list once.
ListInv ==
  /\ rnib_gnblist \o inventory \in Inventories
  /\ main \in {"agent", "subscribe", "request", "forever"} => inventory = <<>>
  /\ ~Subscribing => next = 1
  /\ Len(outcomes) = next - 1
  /\ main = "forever" => next = Len(rnib_gnblist) + 1

LEMMA MoveHead ==
  ASSUME NEW S, NEW r \in Seq(S), NEW q \in Seq(S), q # <<>>
  PROVE  Append(r, Head(q)) \o Tail(q) = r \o q
OBVIOUS

LEMMA ConcatEmpty ==
  ASSUME NEW S, NEW q \in Seq(S)
  PROVE  <<>> \o q = q /\ q \o <<>> = q
OBVIOUS

LEMMA ListInvHolds == Spec => []ListInv
<1>1. Init => ListInv
  <2> SUFFICES ASSUME Init PROVE ListInv
    OBVIOUS
  <2>1. rnib_gnblist \o inventory \in Inventories
    BY XappAssumption, ConcatEmpty DEF Init
  <2> QED BY <2>1 DEF Init, ListInv
<1>2. TypeInv /\ ListInv /\ [Next]_vars => ListInv'
  <2> SUFFICES ASSUME TypeInv, ListInv, [Next]_vars PROVE ListInv'
    OBVIOUS
  <2>0. /\ rnib_gnblist \in Seq(Ids) /\ inventory \in Seq(Ids) /\ outcomes \in Seq(Subs!Results)
        /\ next \in 1 .. Len(rnib_gnblist) + 1
    BY DEF TypeInv, MainTypes
  <2>1. CASE PushGnb
    <3>1. rnib_gnblist' \o inventory' = rnib_gnblist \o inventory
      BY <2>0, <2>1, MoveHead DEF PushGnb, TypeInv, PlaceInv, Goto
    <3>2. UNCHANGED <<next, outcomes>> /\ ~Subscribing /\ main' \in {"list", "push"}
      BY <2>1 DEF PushGnb, Goto, Subscribing
    <3> QED BY <3>1, <3>2 DEF ListInv
  <2>2. CASE RequestReturns
    BY <2>0, <2>2 DEF RequestReturns, Goto, ListInv, Subscribing
  <2>3. CASE SubscribeNext \/ SleepForever
    BY <2>0, <2>3 DEF SubscribeNext, SleepForever, Goto, ListInv, Subscribing
  <2>4. CASE start_xapp_receiver \/ StartControlCommandListener \/ StartExternalControl
             \/ open_control_socket_agent
    BY <2>4 DEF start_xapp_receiver, StartControlCommandListener, StartExternalControl,
                open_control_socket_agent, Goto, ListInv, Subscribing
  <2>5. CASE UNCHANGED mainVars
    BY <2>5 DEF mainVars, ListInv, Subscribing
  <2>6. Request \/ Receiver \/ Listener \/ terminate_du_reporting \/ ControlArrives \/ Clock
          \/ UNCHANGED vars => UNCHANGED mainVars
    BY ThreadVars DEF Request, vars
  <2> QED BY <2>1, <2>2, <2>3, <2>4, <2>5, <2>6 DEF Next, MainThread
<1> QED BY <1>1, <1>2, TypeInvHolds, PTL DEF Spec

\* No gNB is in the list twice.
LEMMA ListDistinct ==
  ASSUME TypeInv, ListInv, main = "request",
         NEW i \in DOMAIN rnib_gnblist, NEW j \in DOMAIN rnib_gnblist,
         rnib_gnblist[i] = rnib_gnblist[j]
  PROVE  i = j
<1>1. rnib_gnblist \in Inventories
  BY ConcatEmpty DEF ListInv, TypeInv, MainTypes
<1> QED BY <1>1, XappAssumption

-----------------------------------------------------------------------------
\* The table has main's entry while main's request is under way; its other entries,
\* and the response in hand, name gNBs to which a request has been sent.
EntryInv ==
  /\ Main \in DOMAIN status_table <=> pc[Main] \in {"relock", "tx", "start_wait", "wait"}
  /\ \A k \in DOMAIN status_table : k # Main => text[k] \in sent
  /\ pc[Rcv] # "idle" => text[me_id[Rcv]] \in sent

\* Requests have been sent to gNBs that are earlier in the list than the one whose
\* turn it is, and perhaps to that one.
Earlier == {rnib_gnblist[i] : i \in 1 .. next - 1}

SentInv ==
  /\ main = "request" => text[Main] = rnib_gnblist[next]
  /\ pc[Main] \in {"start_wait", "wait"} => text[Main] \in sent
  /\ \A id \in sent :
       \/ id \in Earlier
       \/ main = "request" /\ pc[Main] \in {"start_wait", "wait", "idle"} /\ id = text[Main]

Asked == {"SUBSCR_SUCCESS", "SUBSCR_ERR_TX"}

OutcomeInv ==
  /\ main = "request" /\ pc[Main] = "idle" =>
       result[Main] \in Asked /\ (result[Main] = "SUBSCR_SUCCESS" => text[Main] \in sent)
  /\ \A i \in DOMAIN outcomes :
       outcomes[i] \in Asked /\ (outcomes[i] = "SUBSCR_SUCCESS" => rnib_gnblist[i] \in sent)

AskInv == EntryInv /\ SentInv /\ OutcomeInv

\* No entry is in the way of main's request.
LEMMA NotPresent ==
  ASSUME TypeInv, ListInv, EntryInv, SentInv, main = "request", pc[Main] = "add"
  PROVE  ~Subs!transaction_present(text[Main])
<1> SUFFICES ASSUME NEW k \in DOMAIN status_table, text[k] = text[Main]
             PROVE  FALSE
  BY DEF Subs!transaction_present, Subs!Entries
<1>1. k # Main
  BY DEF EntryInv
<1>2. text[Main] \in Earlier
  BY <1>1 DEF EntryInv, SentInv
<1>3. PICK i \in 1 .. next - 1 : rnib_gnblist[i] = rnib_gnblist[next]
  BY <1>2 DEF Earlier, SentInv
<1>4. i \in DOMAIN rnib_gnblist /\ next \in DOMAIN rnib_gnblist /\ i # next
  BY <1>3 DEF TypeInv, MainTypes, PlaceInv
<1> QED BY <1>3, <1>4, ListDistinct

\* main's request, step by step.
LEMMA RequestKept ==
  ASSUME TypeInv, ListInv, AskInv, Request
  PROVE  AskInv'
<1>0. /\ main = "request" /\ UNCHANGED <<main, next, rnib_gnblist, outcomes>>
      /\ Subs!Requester(Main)
  BY DEF Request, mainVars
<1>1. /\ Main \in DOMAIN pc /\ Main # Rcv /\ Main \in Subs!Keys
      /\ result \in [{Main} -> Subs!Results]
      /\ DOMAIN pc = {Main} \cup {Rcv}
  BY XappAssumption DEF TypeInv, SubInv, Subs!TypeOK, Subs!Keys
<1>2. CASE Subs!AddEntry(Main)
  <2>1. /\ pc[Main] = "add" /\ pc' = [pc EXCEPT ![Main] = "relock"]
        /\ status_table' = Subs!Put(Main, "request_pending")
        /\ UNCHANGED <<text, sent, me_id, result>>
    BY <1>0, <1>2, NotPresent DEF Subs!AddEntry, Subs!Goto, AskInv
  <2>2. DOMAIN status_table' = DOMAIN status_table \cup {Main}
    BY <2>1 DEF Subs!Put
  <2>3. EntryInv'
    BY <1>1, <2>1, <2>2 DEF AskInv, EntryInv
  <2>4. SentInv' /\ OutcomeInv'
    BY <1>0, <1>1, <2>1 DEF AskInv, SentInv, OutcomeInv, Earlier
  <2> QED BY <2>3, <2>4 DEF AskInv
<1>3. CASE Subs!Relock(Main) \/ Subs!StartWait(Main)
  <2>1. /\ \/ pc[Main] = "relock" /\ pc' = [pc EXCEPT ![Main] = "tx"]
           \/ pc[Main] = "start_wait" /\ pc' = [pc EXCEPT ![Main] = "wait"]
        /\ UNCHANGED <<text, status_table, sent, me_id, result>>
    BY <1>3 DEF Subs!Relock, Subs!StartWait, Subs!Goto
  <2> QED BY <1>0, <1>1, <2>1 DEF AskInv, EntryInv, SentInv, OutcomeInv, Earlier
<1>4. CASE Subs!Transmit(Main)
  <2>1. pc[Main] = "tx" /\ UNCHANGED <<text, me_id>>
    BY <1>4 DEF Subs!Transmit
  <2>2. CASE /\ pc' = [pc EXCEPT ![Main] = "start_wait"] /\ sent' = sent \cup {text[Main]}
             /\ UNCHANGED <<status_table, result>>
    BY <1>0, <1>1, <2>1, <2>2 DEF AskInv, EntryInv, SentInv, OutcomeInv, Earlier
  <2>3. CASE /\ pc' = [pc EXCEPT ![Main] = "idle"] /\ status_table' = Subs!Erased(Main)
             /\ result' = [result EXCEPT ![Main] = "SUBSCR_ERR_TX"] /\ UNCHANGED sent
    <3>1. DOMAIN status_table' = DOMAIN status_table \ {Main}
      BY <2>3 DEF Subs!Erased
    <3>2. EntryInv'
      BY <1>1, <2>1, <2>3, <3>1 DEF AskInv, EntryInv
    <3>3. SentInv' /\ OutcomeInv'
      BY <1>0, <1>1, <2>1, <2>3 DEF AskInv, SentInv, OutcomeInv, Earlier, Asked
    <3> QED BY <3>2, <3>3 DEF AskInv
  <2> QED BY <1>4, <2>2, <2>3 DEF Subs!Transmit, Subs!Goto, Subs!GiveBack
<1>5. CASE Subs!Wake(Main)
  <2>1. pc[Main] = "wait" /\ UNCHANGED <<text, sent, me_id>>
    BY <1>5 DEF Subs!Wake
  <2>2. CASE pc' = [pc EXCEPT ![Main] = "start_wait"] /\ UNCHANGED <<status_table, result>>
    BY <1>0, <1>1, <2>1, <2>2 DEF AskInv, EntryInv, SentInv, OutcomeInv, Earlier
  <2>3. ASSUME NEW status \in Subs!StatusOf(text[Main]),
               Subs!Outcome(Main, status) # "none",
               pc' = [pc EXCEPT ![Main] = "idle"], status_table' = Subs!Erased(Main),
               result' = [result EXCEPT ![Main] = Subs!Outcome(Main, status)]
        PROVE  AskInv'
    <3>1. DOMAIN status_table' = DOMAIN status_table \ {Main}
      BY <2>3 DEF Subs!Erased
    <3>2. Subs!Outcome(Main, status) = "SUBSCR_SUCCESS"
      <4>1. Main \in Subs!Entries(text[Main])
        BY <2>1 DEF Subs!Entries, AskInv, EntryInv
      <4>2. status \in Subs!Statuses
        BY <4>1 DEF Subs!StatusOf, Subs!transaction_present, Subs!Entries, TypeInv, SubInv,
                    Subs!TypeOK
      <4> QED BY <2>3, <4>2 DEF Subs!Outcome, Subs!Statuses
    <3>3. text[Main] \in sent
      BY <2>1 DEF AskInv, SentInv
    <3>4. EntryInv'
      BY <1>1, <2>1, <2>3, <3>1 DEF AskInv, EntryInv
    <3>5. SentInv' /\ OutcomeInv'
      BY <1>0, <1>1, <2>1, <2>3, <3>2, <3>3 DEF AskInv, SentInv, OutcomeInv, Earlier, Asked
    <3> QED BY <3>4, <3>5 DEF AskInv
  <2> QED BY <1>5, <2>2, <2>3 DEF Subs!Wake, Subs!Goto
<1> QED BY <1>0, <1>2, <1>3, <1>4, <1>5 DEF Subs!Requester

\* The receiver's steps add the response in hand, and move its entry into the table.
LEMMA ResponseKept ==
  ASSUME TypeInv, AskInv, HandleSubResp \/ Respond
  PROVE  EntryInv'
<1>1. /\ Main # Rcv /\ Main \notin HeapKeys /\ DOMAIN pc = {Main} \cup {Rcv}
      /\ text \in [{Main} \cup HeapKeys -> Ids \cup {NoOne}]
      /\ me_id \in [{Rcv} -> HeapKeys \cup {NoOne}]
      /\ sent \subseteq Ids /\ NoOne \notin Ids
      /\ DOMAIN status_table \subseteq {Main} \cup HeapKeys
  BY XappAssumption DEF TypeInv, SubInv, Subs!TypeOK, Subs!Keys
<1>2. CASE HandleSubResp
  <2>1. PICK k \in HeapKeys : /\ text[k] = NoOne
                              /\ text' = [text EXCEPT ![k] = current.id]
                              /\ me_id' = [me_id EXCEPT ![Rcv] = k]
    BY <1>2 DEF HandleSubResp, Subs!Receive
  <2>2. /\ current.id \in sent /\ UNCHANGED <<status_table, sent>>
        /\ pc' = [pc EXCEPT ![Rcv] = "present"]
    BY <1>2 DEF HandleSubResp, Subs!Receive, Subs!Goto
  <2> QED BY <1>1, <2>1, <2>2 DEF AskInv, EntryInv
<1>3. CASE Respond
  <2>1. UNCHANGED <<text, me_id, sent>> /\ pc'[Main] = pc[Main] /\ pc[Rcv] # "idle"
    BY <1>1, <1>3 DEF Respond, Subs!Responder, Subs!IsRequestEntry, Subs!SetStatus,
                      Subs!PutStatus, Subs!NotifyAll, Subs!Goto
  <2>2. CASE Subs!PutStatus(Rcv)
    <3>1. DOMAIN status_table' = DOMAIN status_table \cup {me_id[Rcv]}
      BY <2>2 DEF Subs!PutStatus, Subs!Put
    <3>2. me_id[Rcv] # Main
      BY <1>1, <2>1 DEF TypeInv, SubInv
    <3> QED BY <1>1, <2>1, <3>1, <3>2 DEF AskInv, EntryInv
  <2>3. CASE ~Subs!PutStatus(Rcv)
    <3>1. UNCHANGED status_table
      BY <1>3, <2>3 DEF Respond, Subs!Responder, Subs!IsRequestEntry, Subs!SetStatus,
                        Subs!NotifyAll
    <3> QED BY <2>1, <3>1 DEF AskInv, EntryInv
  <2> QED BY <2>2, <2>3
<1> QED BY <1>2, <1>3

LEMMA AskInvHolds == Spec => []AskInv
<1>1. Init => AskInv
  BY XappAssumption
     DEF Init, Subs!Init, AskInv, EntryInv, SentInv, OutcomeInv
<1>2. TypeInv /\ ListInv /\ ReactInv /\ AskInv /\ [Next]_vars => AskInv'
  <2> SUFFICES ASSUME TypeInv, ListInv, ReactInv, AskInv, [Next]_vars PROVE AskInv'
    OBVIOUS
  <2>0. /\ rnib_gnblist \in Seq(Ids) /\ outcomes \in Seq(Subs!Results)
        /\ next \in 1 .. Len(rnib_gnblist) + 1 /\ Len(outcomes) = next - 1
        /\ Main # Rcv /\ Main \in DOMAIN pc /\ Main \notin HeapKeys
        /\ me_id \in [{Rcv} -> HeapKeys \cup {NoOne}]
        /\ text \in [{Main} \cup HeapKeys -> Ids \cup {NoOne}]
        /\ DOMAIN status_table \subseteq {Main} \cup HeapKeys
    BY XappAssumption DEF TypeInv, MainTypes, SubInv, Subs!TypeOK, Subs!Keys, ListInv
  <2>1. CASE Request
    BY <2>1, RequestKept
  <2>2. CASE SubscribeNext
    <3>1. /\ main = "subscribe" /\ main' = "request" /\ pc[Main] = "idle"
          /\ pc' = [pc EXCEPT ![Main] = "add"]
          /\ text' = [text EXCEPT ![Main] = rnib_gnblist[next]]
          /\ UNCHANGED <<status_table, sent, me_id, rnib_gnblist, next, outcomes>>
      BY <2>2 DEF SubscribeNext, Subs!Call, Subs!Goto, Goto
    <3>2. pc[Rcv] # "idle" => me_id[Rcv] # Main
      BY <2>0 DEF TypeInv, SubInv
    <3>3. EntryInv'
      BY <2>0, <3>1, <3>2 DEF AskInv, EntryInv, TypeInv, SubInv
    <3>4. SentInv' /\ OutcomeInv'
      BY <2>0, <3>1 DEF AskInv, SentInv, OutcomeInv, Earlier
    <3> QED BY <3>3, <3>4 DEF AskInv
  <2>3. CASE RequestReturns
    <3>1. /\ main = "request" /\ main' = "subscribe" /\ pc[Main] = "idle"
          /\ outcomes' = Append(outcomes, result[Main]) /\ next' = next + 1
          /\ UNCHANGED <<subVars, rnib_gnblist>>
      BY <2>3 DEF RequestReturns, Goto
    <3>2. EntryInv'
      BY <3>1 DEF subVars, AskInv, EntryInv
    <3>3. SentInv'
      BY <2>0, <3>1 DEF subVars, AskInv, SentInv, Earlier
    <3>4. OutcomeInv'
      <4>1. /\ DOMAIN outcomes' = DOMAIN outcomes \cup {next}
            /\ \A i \in DOMAIN outcomes : outcomes'[i] = outcomes[i]
            /\ outcomes'[next] = result[Main]
        BY <2>0, <3>1
      <4> QED BY <3>1, <4>1 DEF subVars, AskInv, OutcomeInv, SentInv
    <3> QED BY <3>2, <3>3, <3>4 DEF AskInv
  <2>4. CASE PushGnb
    <3>1. /\ ~Subscribing /\ main' # "request" /\ UNCHANGED <<subVars, next, outcomes>>
      BY <2>4 DEF PushGnb, Goto, Subscribing
    <3>2. sent = {} /\ pc[Main] = "idle" /\ next = 1
      BY <3>1 DEF ReactInv, Subscribing, ListInv
    <3>3. EntryInv'
      BY <3>1 DEF subVars, AskInv, EntryInv
    <3>4. SentInv' /\ OutcomeInv'
      BY <2>0, <3>1, <3>2 DEF subVars, SentInv, OutcomeInv
    <3> QED BY <3>3, <3>4 DEF AskInv
  <2>5. CASE /\ UNCHANGED <<subVars, next, outcomes, rnib_gnblist>>
             /\ (main # "request" /\ main' # "request") \/ main' = main
    BY <2>5 DEF subVars, AskInv, EntryInv, SentInv, OutcomeInv, Earlier
  <2>6. CASE ~SubscribeNext /\ ~Request /\ (HandleSubResp \/ Respond)
    <3>1. EntryInv'
      BY <2>6, ResponseKept
    <3>2. /\ UNCHANGED <<sent, result, main, next, rnib_gnblist, outcomes>>
          /\ pc'[Main] = pc[Main] /\ text'[Main] = text[Main]
      BY <2>0, <2>6, MainOnly, ThreadVars DEF Receiver, mainVars, HandleSubResp, Respond
    <3> QED BY <3>1, <3>2 DEF AskInv, SentInv, OutcomeInv, Earlier
  <2>7. CASE Clock
    <3>1. UNCHANGED <<text, status_table, pc, sent, result, me_id, main, next, rnib_gnblist,
                      outcomes>>
      BY <2>7, ThreadVars DEF Clock, Subs!Expire, mainVars
    <3> QED BY <3>1 DEF AskInv, EntryInv, SentInv, OutcomeInv, Earlier
  <2>8. CASE start_xapp_receiver \/ StartControlCommandListener \/ StartExternalControl
             \/ open_control_socket_agent \/ SleepForever
    BY <2>5, <2>8
       DEF start_xapp_receiver, StartControlCommandListener, StartExternalControl,
           open_control_socket_agent, SleepForever, Goto
  <2>9. CASE ReceiveNext \/ Handle \/ HandleIndication \/ SubRespDone \/ ReturnToSender
    BY <2>5, <2>9
       DEF ReceiveNext, Handle, HandleIndication, SubRespDone, ReturnToSender, mainVars
  <2>10. CASE Listener \/ ControlArrives \/ terminate_du_reporting \/ UNCHANGED vars
    BY <2>5, <2>10, ThreadVars DEF vars, mainVars
  <2> QED BY <2>1, <2>2, <2>3, <2>4, <2>6, <2>7, <2>8, <2>9, <2>10
          DEF Next, MainThread, Receiver
<1> QED BY <1>1, <1>2, TypeInvHolds, ListInvHolds, ReactInvHolds, PTL DEF Spec

\* Every gNB in the list is asked, whatever responses come meanwhile.
THEOREM EveryGnbCorrect == Spec => []EveryGnbIsAsked
<1>1. TypeInv /\ ListInv /\ AskInv => EveryGnbIsAsked
  BY DEF TypeInv, MainTypes, ListInv, AskInv, OutcomeInv, Asked, EveryGnbIsAsked
<1> QED BY <1>1, TypeInvHolds, ListInvHolds, AskInvHolds, PTL
=============================================================================
