------------------------------ MODULE XappRmr ------------------------------
(***************************************************************************)
(* Sending through RMR (xapp-utils/xapp_rmr.cc, xapp_rmr_send).  main sends *)
(* subscriptions, the AI listener thread, the agent threads and the        *)
(* external-control thread send control requests, all through ONE XappRmr  *)
(* object: _xapp_send_buff is shared and no lock protects it.              *)
(*                                                                         *)
(* Buffers are numbered as they are allocated; 0 is the null pointer.  The *)
(* RMR library is external: allocation, and rmr_send_msg, which hands the  *)
(* message over and returns a new buffer (RMR_OK), or keeps it and returns *)
(* it with another state.                                                  *)
(***************************************************************************)
EXTENDS Naturals, Sequences

CONSTANTS
  Senders,     \* the threads that call xapp_rmr_send
  Attempts,    \* _nattempts (10 in the code)
  MaxSends,    \* bound on the calls of all senders together
  MaxBufs      \* bound on the buffers RMR allocates

ASSUME RmrAssumption ==
  Attempts \in Nat \ {0} /\ MaxSends \in Nat /\ MaxBufs \in Nat

Null == 0
Bufs == 1..MaxBufs

VARIABLES
  send_buff,     \* _xapp_send_buff
  used,          \* how many buffers have been allocated
  header, body,  \* per buffer: the call whose header, whose payload it holds
  state,         \* per buffer: RMR_OK or not
  ret,           \* what each sender's rmr_send_msg has returned
  pc,            \* where each sender is; "crashed": it dereferenced a null
  attempts,      \* rmr_attempts of each sender
  begun,         \* calls made; each is named by its number
  calls,         \* the call each sender is in, or has finished last
  result,        \* what that call returned, or "none"
  alone,         \* history: no two calls have overlapped
  wire           \* history: the messages handed to RMR's transport

vars == <<send_buff, used, header, body, state, ret, pc, attempts, begun, calls,
          result, alone, wire>>

Message   == 0..MaxSends
NoMessage == 0             \* uninitialised

Init ==
  /\ send_buff = Null
  /\ used = 0
  /\ header = [b \in Bufs |-> NoMessage]
  /\ body   = [b \in Bufs |-> NoMessage]
  /\ state  = [b \in Bufs |-> "ok"]
  /\ ret = [t \in Senders |-> Null]
  /\ pc = [t \in Senders |-> "idle"]
  /\ attempts = [t \in Senders |-> 0]
  /\ begun = 0
  /\ calls = [t \in Senders |-> 0]
  /\ result = [t \in Senders |-> "none"]
  /\ alone = TRUE
  /\ wire = <<>>

Goto(t, from, to) == pc[t] = from /\ pc' = [pc EXCEPT ![t] = to]

-----------------------------------------------------------------------------
Begin(t) ==
  /\ begun < MaxSends /\ begun' = begun + 1
  /\ Goto(t, "idle", "alloc")
  /\ calls' = [calls EXCEPT ![t] = begun']
  /\ attempts' = [attempts EXCEPT ![t] = Attempts]
  /\ result' = [result EXCEPT ![t] = "none"]
  /\ alone' = (alone /\ \A u \in Senders \ {t} : pc[u] \in {"idle", "crashed"})
  /\ UNCHANGED <<send_buff, used, header, body, state, ret, wire>>

\* A buffer is allocated only when there is none.
Alloc(t) ==
  /\ Goto(t, "alloc", "header")
  /\ \/ send_buff # Null /\ UNCHANGED <<send_buff, used>>
     \/ /\ send_buff = Null
        /\ used < MaxBufs /\ used' = used + 1
        /\ send_buff' = used + 1
  /\ UNCHANGED <<alone, begun, header, body, state, ret, attempts, calls, result, wire>>

\* rmr_header, then memcpy, each into whatever _xapp_send_buff is by then.
Fill(t, from, to) ==
  /\ Goto(t, from, IF send_buff = Null THEN "crashed" ELSE to)
  /\ UNCHANGED <<alone, begun, send_buff, used, state, ret, attempts, calls, result, wire>>

\* Mutant: a buffer that is kept for a retry keeps its header.
HeaderKept(t) ==
  /\ Fill(t, "header", "copy")
  /\ header' = IF send_buff = Null \/ state[send_buff] = "retry" THEN header
               ELSE [header EXCEPT ![send_buff] = calls[t]]
  /\ UNCHANGED body

Header(t) ==
  /\ Fill(t, "header", "copy")
  /\ header' = IF send_buff = Null THEN header ELSE [header EXCEPT ![send_buff] = calls[t]]
  /\ UNCHANGED body

Copy(t) ==
  /\ Fill(t, "copy", "send")
  /\ body' = IF send_buff = Null THEN body ELSE [body EXCEPT ![send_buff] = calls[t]]
  /\ UNCHANGED header

\* rmr_send_msg on the buffer of that moment: sent, and a fresh buffer returned;
\* kept for a retry and returned; or, for a null message, null again.
Send(t) ==
  /\ attempts[t] > 0
  /\ Goto(t, "send", "assign")
  /\ \/ /\ send_buff # Null
        /\ wire' = Append(wire, [header |-> header[send_buff], body |-> body[send_buff]])
        /\ used < MaxBufs /\ used' = used + 1
        /\ ret' = [ret EXCEPT ![t] = used + 1]
        /\ state' = [state EXCEPT ![used + 1] = "ok"]
     \/ /\ send_buff # Null
        /\ state' = [state EXCEPT ![send_buff] = "retry"]
        /\ ret' = [ret EXCEPT ![t] = send_buff]
        /\ UNCHANGED <<used, wire>>
     \/ /\ send_buff = Null
        /\ ret' = [ret EXCEPT ![t] = Null]
        /\ UNCHANGED <<used, state, wire>>
  /\ UNCHANGED <<alone, begun, send_buff, header, body, attempts, calls, result>>

\* _xapp_send_buff = rmr_send_msg(...): another sender's buffer may be overwritten.
Assign(t) ==
  /\ Goto(t, "assign", "test")
  /\ send_buff' = ret[t]
  /\ UNCHANGED <<alone, begun, used, header, body, state, ret, attempts, calls, result, wire>>

SentBufs == {b \in Bufs : state[b] = "ok"}

\* Mutant: a refusal is not counted.
TestUncounted(t) ==
  /\ pc[t] = "test"
  /\ \/ /\ send_buff \in SentBufs
        /\ send_buff' = Null
        /\ Goto(t, "test", "idle")
        /\ result' = [result EXCEPT ![t] = "true"]
     \/ /\ send_buff \notin SentBufs
        /\ Goto(t, "test", "send")
        /\ UNCHANGED <<send_buff, result>>
  /\ UNCHANGED <<alone, begun, used, header, body, state, ret, attempts, calls, wire>>

\* The state of whatever _xapp_send_buff is by now; on RMR_OK forget the buffer.
Test(t) ==
  /\ pc[t] = "test"
  /\ \/ /\ send_buff \in SentBufs
        /\ send_buff' = Null
        /\ Goto(t, "test", "idle")
        /\ result' = [result EXCEPT ![t] = "true"]
        /\ UNCHANGED attempts
     \/ /\ send_buff \notin SentBufs
        /\ attempts' = [attempts EXCEPT ![t] = @ - 1]
        /\ Goto(t, "test", "send")
        /\ UNCHANGED <<send_buff, result>>
  /\ UNCHANGED <<alone, begun, used, header, body, state, ret, calls, wire>>

GiveUp(t) ==
  /\ attempts[t] = 0
  /\ Goto(t, "send", "idle")
  /\ result' = [result EXCEPT ![t] = "false"]
  /\ UNCHANGED <<alone, begun, send_buff, used, header, body, state, ret, attempts, calls, wire>>

xapp_rmr_send(t) == Alloc(t) \/ Header(t) \/ Copy(t) \/ Send(t) \/ Assign(t)
                    \/ Test(t) \/ GiveUp(t)

Next == \E t \in Senders : Begin(t) \/ xapp_rmr_send(t)

\* Every thread runs.
Fairness == \A t \in Senders : WF_vars(xapp_rmr_send(t))

Spec     == Init /\ [][Next]_vars
FairSpec == Spec /\ Fairness

-----------------------------------------------------------------------------
TypeOK ==
  /\ send_buff \in Bufs \cup {Null}
  /\ used \in 0..MaxBufs
  /\ header \in [Bufs -> Message] /\ body \in [Bufs -> Message]
  /\ state \in [Bufs -> {"ok", "retry"}]
  /\ pc \in [Senders -> {"idle", "alloc", "header", "copy", "send", "assign", "test", "crashed"}]
  /\ ret \in [Senders -> Bufs \cup {Null}]
  /\ attempts \in [Senders -> 0..Attempts]
  /\ begun \in 0..MaxSends
  /\ calls \in [Senders -> 0..MaxSends]
  /\ result \in [Senders -> {"none", "true", "false"}]
  /\ alone \in BOOLEAN
  /\ wire \in Seq([header : Message, body : Message])

\* How often t's current message is on the wire, with its own header and payload.
Copies(t) == {i \in DOMAIN wire : wire[i] = [header |-> calls[t], body |-> calls[t]]}

\* Calls that do not overlap are exact, whatever buffer an earlier call left behind
\* and however often RMR refused it.  true: the message went out, once, with its
\* header and its payload.  false: it did not.  Nothing else goes out, and no call
\* writes through a null pointer.  Nothing of this survives two calls that overlap.
SerialSendIsExact ==
  alone =>
    /\ \A t \in Senders :
         /\ result[t] = "true"  => \E i \in DOMAIN wire : Copies(t) = {i}
         /\ result[t] = "false" => Copies(t) = {}
         /\ pc[t] # "crashed"
    /\ \A i \in DOMAIN wire : wire[i].header = wire[i].body

\* Every call ends, after Attempts refusals at the latest, even while another
\* thread sends, replaces or forgets the buffer under it (which may crash it).
SendEnds == \A t \in Senders : pc[t] = "alloc" ~> pc[t] \in {"idle", "crashed"}
=============================================================================
