------------------------------ MODULE XappCore ------------------------------
(***************************************************************************)
(* The xApp process (hw_xapp_main.cc, xapp.cc, the receive loop of         *)
(* xapp_rmr.hpp and the dispatch of msgs_proc.cc): main starts the RMR     *)
(* receiver thread, then the AI's control listener, and only then fills    *)
(* rnib_gnblist, opens the agent socket and subscribes to every gNB.  The  *)
(* receiver handles subscription responses and indications one at a time.  *)
(* The subscription table is SubscriptionHandler, with main as its only    *)
(* requester and the receiver as its only responder; AiTcpClient and       *)
(* XappRmr, which have modules of their own, are single steps here.        *)
(***************************************************************************)
EXTENDS Naturals, Sequences, FiniteSets

CONSTANTS
  Main, Rcv,     \* the main thread and the RMR receiver thread
  Ids, HeapKeys, NoOne, MaxRequests, MaxResponses,   \* as in SubscriptionHandler
  Inventories,   \* the gNB lists that the R-NIB may return
  MaxMsgs,       \* bound on the RMR messages that arrive
  MaxControls    \* bound on the control messages from the AI

ASSUME XappAssumption ==
  /\ Main # Rcv /\ Main \notin HeapKeys /\ NoOne \notin Ids \cup HeapKeys \cup {Main}
  /\ MaxRequests \in Nat /\ MaxResponses \in Nat
  /\ Inventories \subseteq Seq(Ids)
  /\ \A inv \in Inventories :
       /\ Len(inv) <= MaxRequests
       /\ \A i, j \in DOMAIN inv : inv[i] = inv[j] => i = j
  /\ MaxMsgs \in 0..MaxResponses /\ MaxResponses <= Cardinality(HeapKeys)
  /\ MaxControls \in Nat

VARIABLES
  text, status_table, data_lock, pc, notified, expired, result, me_id, requested,
  sent, answered, requests, responses       \* SubscriptionHandler

VARIABLES
  process,        \* "up"; "crashed" (undefined behaviour); "stopped" (SIGTERM)
  main,           \* where main is
  inventory,      \* what set_rnib_gnblist has still to push
  rnib_gnblist,
  next,           \* the loop index of startup_subscribe_requests
  outcomes,       \* history: what each subscription call returned
  agent,          \* the DRL agent is in agentIp_socket
  ext,            \* the external-control thread: "off" or "accept"
  rcv,            \* where the receiver thread is
  current,        \* the message in _xapp_received_buff
  resend,         \* *resend
  listener,       \* where the control listener thread is
  control         \* the kind of control message it handles

VARIABLES
  msgs,           \* RMR messages that have arrived
  controls,       \* control messages the AI has sent
  published,      \* history: the gNBs whose KPIs have been sent to the AI
  healthChecks,   \* history: the health checks received, by number
  returned,       \* history: the messages returned to their sender
  fates           \* history: what became of each control message

subVars  == <<text, status_table, data_lock, pc, notified, expired, result, me_id,
              requested, sent, answered, requests, responses>>
mainVars == <<main, inventory, rnib_gnblist, next, outcomes, agent>>
rcvVars  == <<rcv, current, resend, published, healthChecks, returned>>
ctlVars  == <<listener, control, controls, fates>>
vars == <<subVars, process, mainVars, ext, rcvVars, ctlVars, msgs>>

Subs == INSTANCE SubscriptionHandler WITH Requesters <- {Main}, Responders <- {Rcv}

Kinds     == {"indication", "sub_resp", "health", "policy", "unknown", "too_long", "bad"}
E2Kinds   == {"indication", "sub_resp"}
Message   == [kind : Kinds, id : Ids \cup {NoOne}, n : 1..MaxMsgs]
NoMessage == [kind |-> "unknown", id |-> NoOne, n |-> 0]
\* What a control message is: a reaction to a KPI, or a command that somebody
\* types in.  The gNB it names decides nothing here.
Controls  == {"reaction", "command"}

Init ==
  /\ Subs!Init
  /\ process = "up"
  /\ main = "receiver"
  /\ inventory \in Inventories
  /\ rnib_gnblist = <<>> /\ next = 1 /\ outcomes = <<>>
  /\ agent = FALSE /\ ext = "off"
  /\ rcv = "off" /\ current = NoMessage /\ resend = FALSE
  /\ listener = "off" /\ control = "command"
  /\ msgs = 0 /\ controls = 0
  /\ published = {} /\ healthChecks = {} /\ returned = <<>> /\ fates = <<>>

-----------------------------------------------------------------------------
(* main: hw_xapp_main.cc and Xapp::startup.                                  *)

Goto(from, to) == main = from /\ main' = to

start_xapp_receiver ==
  /\ Goto("receiver", "listener")
  /\ rcv' = "recv"
  /\ UNCHANGED <<subVars, process, inventory, rnib_gnblist, next, outcomes, agent, ext,
                 current, resend, published, healthChecks, returned, ctlVars, msgs>>

StartControlCommandListener ==
  /\ Goto("listener", "list")
  /\ listener' = "idle"
  /\ UNCHANGED <<subVars, process, inventory, rnib_gnblist, next, outcomes, agent, ext,
                 rcvVars, control, controls, fates, msgs>>

\* set_rnib_gnblist: one push_back after the other, each of them two steps, for
\* the listener may copy the vector in the middle of one.
PushGnb ==
  /\ \/ /\ inventory # <<>>
        /\ Goto("list", "push")
        /\ UNCHANGED <<inventory, rnib_gnblist>>
     \/ /\ Goto("push", "list")
        /\ rnib_gnblist' = Append(rnib_gnblist, Head(inventory))
        /\ inventory' = Tail(inventory)
  /\ UNCHANGED <<subVars, process, next, outcomes, agent, ext, rcvVars, ctlVars, msgs>>

\* The external-control thread, which ends at once if it cannot bind its port.
StartExternalControl ==
  /\ inventory = <<>>
  /\ Goto("list", "agent")
  /\ ext' \in {"off", "accept"}
  /\ UNCHANGED <<subVars, process, inventory, rnib_gnblist, next, outcomes, agent,
                 rcvVars, ctlVars, msgs>>

open_control_socket_agent ==
  /\ Goto("agent", "subscribe")
  /\ agent' \in BOOLEAN
  /\ UNCHANGED <<subVars, process, inventory, rnib_gnblist, next, outcomes, ext,
                 rcvVars, ctlVars, msgs>>

\* startup_subscribe_requests: the next gNB, whatever the last call returned.
SubscribeNext ==
  /\ Goto("subscribe", "request")
  /\ next <= Len(rnib_gnblist)
  /\ Subs!Call(Main, rnib_gnblist[next])
  /\ UNCHANGED <<process, inventory, rnib_gnblist, next, outcomes, agent, ext,
                 rcvVars, ctlVars, msgs>>

Request ==
  /\ main = "request"
  /\ Subs!Requester(Main)
  /\ UNCHANGED <<process, mainVars, ext, rcvVars, ctlVars, msgs>>

\* Mutant: the list is used up.
RequestPops ==
  /\ Goto("request", "subscribe")
  /\ pc[Main] = "idle"
  /\ outcomes' = Append(outcomes, result[Main])
  /\ rnib_gnblist' = Tail(rnib_gnblist)
  /\ UNCHANGED <<subVars, process, inventory, next, agent, ext, rcvVars, ctlVars, msgs>>

RequestReturns ==
  /\ Goto("request", "subscribe")
  /\ pc[Main] = "idle"
  /\ outcomes' = Append(outcomes, result[Main])
  /\ next' = next + 1
  /\ UNCHANGED <<subVars, process, inventory, rnib_gnblist, agent, ext, rcvVars,
                 ctlVars, msgs>>

SleepForever ==
  /\ Goto("subscribe", "forever")
  /\ next > Len(rnib_gnblist)
  /\ UNCHANGED <<subVars, process, inventory, rnib_gnblist, next, outcomes, agent, ext,
                 rcvVars, ctlVars, msgs>>

MainThread ==
  \/ start_xapp_receiver \/ StartControlCommandListener \/ PushGnb
  \/ StartExternalControl \/ open_control_socket_agent
  \/ SubscribeNext \/ Request \/ RequestReturns \/ SleepForever

-----------------------------------------------------------------------------
(* The RMR receiver thread: xapp_rmr_receive and XappMsgHandler::operator(). *)

\* rmr_rcv_msg.  The gNBs are assumed to answer, and to report, only once this xApp has
\* subscribed to them, and with a MEID.  A bad message ends the thread.
ReceiveNext ==
  /\ rcv = "recv" /\ msgs < MaxMsgs
  /\ \E kind \in Kinds, id \in Ids \cup {NoOne} :
       /\ IF kind \in E2Kinds THEN id \in sent ELSE id = NoOne
       /\ current' = [kind |-> kind, id |-> id, n |-> msgs + 1]
       /\ rcv' = IF kind = "bad" THEN "ended" ELSE "handle"
       /\ healthChecks' = IF kind = "health" THEN healthChecks \cup {msgs + 1} ELSE healthChecks
  /\ msgs' = msgs + 1
  /\ UNCHANGED <<subVars, process, mainVars, ext, resend, published, returned, ctlVars>>

\* The cases that need nobody else: a health check and an A1 policy that can be
\* answered ask for a resend, an unknown type asks for none, and a message that
\* is too long, or a policy that is refused, leaves the flag alone.
Handle ==
  /\ rcv = "handle" /\ current.kind \notin E2Kinds
  /\ rcv' = "return"
  /\ resend' \in CASE current.kind = "health"   -> {TRUE}
                   [] current.kind = "policy"   -> {TRUE, resend}
                   [] current.kind = "unknown"  -> {FALSE}
                   [] current.kind = "too_long" -> {resend}
  /\ UNCHANGED <<subVars, process, mainVars, ext, current, published, healthChecks, returned,
                 ctlVars, msgs>>

\* An indication that can be decoded goes to SendKpi; one that cannot is skipped.
HandleIndication ==
  /\ rcv = "handle" /\ current.kind = "indication"
  /\ rcv' = "return"
  /\ published' \in {published, published \cup {current.id}}
  /\ UNCHANGED <<subVars, process, mainVars, ext, current, resend, healthChecks, returned,
                 ctlVars, msgs>>

\* manage_subscription_response, from a fresh copy of the MEID that is never freed.
HandleSubResp ==
  /\ rcv = "handle" /\ current.kind = "sub_resp"
  /\ Subs!Receive(Rcv, current.id)
  /\ rcv' = "respond"
  /\ UNCHANGED <<process, mainVars, ext, current, resend, published, healthChecks, returned,
                 ctlVars, msgs>>

Respond ==
  /\ rcv = "respond"
  /\ Subs!Responder(Rcv)
  /\ UNCHANGED <<process, mainVars, ext, rcvVars, ctlVars, msgs>>

\* Mutant: the MEID's copy is freed, though the table has kept the pointer.
SubRespFreesMeid ==
  /\ rcv = "respond" /\ pc[Rcv] = "idle"
  /\ resend' = FALSE
  /\ rcv' = "return"
  /\ text' = [text EXCEPT ![me_id[Rcv]] = NoOne]
  /\ UNCHANGED <<status_table, data_lock, pc, notified, expired, result, me_id, requested,
                 sent, answered, requests, responses, process, mainVars, ext, current,
                 published, healthChecks, returned, ctlVars, msgs>>

SubRespDone ==
  /\ rcv = "respond" /\ pc[Rcv] = "idle"
  /\ resend' = FALSE
  /\ rcv' = "return"
  /\ UNCHANGED <<subVars, process, mainVars, ext, current, published, healthChecks, returned,
                 ctlVars, msgs>>

\* Mutant: the flag stays set after a message has been returned.
ReturnKeepsFlag ==
  /\ rcv = "return" /\ rcv' = "recv"
  /\ returned' = IF resend THEN Append(returned, current) ELSE returned
  /\ UNCHANGED <<subVars, process, mainVars, ext, current, resend, published, healthChecks,
                 ctlVars, msgs>>

\* rmr_rts_msg if the handler asked for it.
ReturnToSender ==
  /\ rcv = "return" /\ rcv' = "recv"
  /\ returned' = IF resend THEN Append(returned, current) ELSE returned
  /\ resend' = FALSE
  /\ UNCHANGED <<subVars, process, mainVars, ext, current, published, healthChecks, ctlVars,
                 msgs>>

Receiver ==
  \/ ReceiveNext \/ Handle \/ HandleIndication
  \/ HandleSubResp \/ Respond \/ SubRespDone \/ ReturnToSender

-----------------------------------------------------------------------------
(* The control listener's handler: send_control and send_ric_control_request.*)

Fate(f) == fates' = Append(fates, [control |-> control, fate |-> f])

\* get_rnib_gnblist copies the vector without a lock; nothing is sent while it is
\* empty.  A copy in the middle of a push_back is undefined: it may be what was
\* there before, or crash.
CopyGnbList ==
  /\ listener = "copy"
  /\ IF main = "push" THEN process' \in {"up", "crashed"} ELSE UNCHANGED process
  /\ IF rnib_gnblist = <<>> THEN listener' = "idle" /\ Fate("dropped")
                            ELSE listener' = "send" /\ UNCHANGED fates
  /\ UNCHANGED <<subVars, mainVars, ext, rcvVars, control, controls, msgs>>

\* The request cannot be encoded, RMR refuses it, or it is sent.
SendControl ==
  /\ listener = "send" /\ listener' = "idle"
  /\ \E f \in {"unencoded", "refused", "sent"} : Fate(f)
  /\ UNCHANGED <<subVars, process, mainVars, ext, rcvVars, control, controls, msgs>>

Listener == CopyGnbList \/ SendControl

-----------------------------------------------------------------------------
(* handle_external_control_message.  Any other text changes nothing.  To      *)
(* terminate, the gNB of every connected agent is looked up in agentIp_gnbId,*)
(* which nothing ever fills: find() gives end(), and what is then read        *)
(* through it is undefined.  A message from the agent itself is dropped for   *)
(* the same reason.                                                           *)
terminate_du_reporting ==
  /\ ext = "accept"
  /\ process' \in IF agent THEN {"crashed", "stopped"} ELSE {"stopped"}
  /\ UNCHANGED <<subVars, mainVars, ext, rcvVars, ctlVars, msgs>>

-----------------------------------------------------------------------------
(* RMR, the E2 nodes and the AI.                                              *)

ControlArrives ==
  /\ listener = "idle" /\ controls < MaxControls
  /\ listener' = "copy"
  /\ control' \in IF published = {} THEN {"command"} ELSE Controls
  /\ controls' = controls + 1
  /\ UNCHANGED <<subVars, process, mainVars, ext, rcvVars, fates, msgs>>

\* The clock that wait_for reads.
Clock ==
  /\ Subs!Expire(Main)
  /\ UNCHANGED <<process, mainVars, ext, rcvVars, ctlVars, msgs>>

Next ==
  /\ process = "up"
  /\ \/ MainThread \/ Receiver \/ Listener \/ terminate_du_reporting
     \/ ControlArrives \/ Clock

\* Only main and the clock have to run: the receiver may block in SendKpi for
\* good, and the listener may wait for mtx_.
WakeDue == (Main \in notified \cup expired) /\ Subs!Wake(Main)

Fairness ==
  /\ WF_vars(process = "up" /\ MainThread /\ pc[Main] # "wait")
  /\ WF_vars(process = "up" /\ MainThread /\ WakeDue)
  /\ WF_vars(process = "up" /\ Clock)

Spec     == Init /\ [][Next]_vars
FairSpec == Spec /\ Fairness

-----------------------------------------------------------------------------
TypeOK ==
  /\ Subs!TypeOK
  /\ process \in {"up", "crashed", "stopped"}
  /\ main \in {"receiver", "listener", "list", "push", "agent", "subscribe", "request", "forever"}
  /\ inventory \in Seq(Ids) /\ rnib_gnblist \in Seq(Ids)
  /\ next \in 1 .. Len(rnib_gnblist) + 1
  /\ outcomes \in Seq(Subs!Results)
  /\ agent \in BOOLEAN /\ ext \in {"off", "accept"}
  /\ rcv \in {"off", "recv", "handle", "respond", "return", "ended"}
  /\ current \in Message \cup {NoMessage}
  /\ resend \in BOOLEAN
  /\ listener \in {"off", "idle", "copy", "send"}
  /\ control \in Controls
  /\ msgs \in 0..MaxMsgs /\ controls \in 0..MaxControls
  /\ published \subseteq Ids
  /\ healthChecks \subseteq 1..MaxMsgs /\ returned \in Seq(Message)
  /\ fates \in Seq([control : Controls, fate : {"dropped", "unencoded", "refused", "sent"}])

\* Every gNB in the list is subscribed to: by the time main has gone to sleep each
\* of them has had a request that RMR took or refused.  None was turned away by
\* the table, whatever late, repeated or foreign responses have left in it.
EveryGnbIsAsked ==
  /\ \A i \in DOMAIN outcomes : outcomes[i] \in {"SUBSCR_SUCCESS", "SUBSCR_ERR_TX"}
  /\ main = "forever" =>
       /\ Len(outcomes) = Len(rnib_gnblist)
       /\ \A i \in DOMAIN outcomes :
            outcomes[i] = "SUBSCR_SUCCESS" => rnib_gnblist[i] \in sent

\* What is returned to its sender is a health check or a policy request, each at
\* most once and in the order of arrival: the flag that asks for it is one per
\* thread, and no other message inherits it.
ReturnedExactly ==
  /\ \A i \in DOMAIN returned : returned[i].kind \in {"health", "policy"}
  /\ \A i, j \in DOMAIN returned : i < j => returned[i].n < returned[j].n
  /\ \A n \in healthChecks :
       n < msgs \/ rcv = "recv" => \E j \in DOMAIN returned : returned[j].n = n

\* A control message that reacts to a KPI is never lost to start-up: when it comes,
\* main has long finished the list, so the vector is not copied while it grows and
\* is not found empty.  (A command that is typed in has no such guarantee, nor has a
\* reaction to a KPI that an earlier xApp had subscribed to.)
ReactionFindsList ==
  /\ listener = "copy" /\ control = "reaction" => main # "push" /\ rnib_gnblist # <<>>
  /\ \A i \in DOMAIN fates : fates[i].control = "reaction" => fates[i].fate # "dropped"

\* Start-up ends whatever becomes of the receiver thread (it may block in SendKpi
\* or have ended at a bad message), of the transmissions and of the responses.
StartupEnds == <>(main = "forever" \/ process # "up")

\* main and the receiver together use the table only as SubscriptionHandler
\* describes it, so that what is checked there holds here.
UsesSubscriptionHandler == Subs!Spec
=============================================================================
