--------------------------- MODULE XappRmrProofs ---------------------------
(***************************************************************************)
(* Proofs about XappRmr: types, and that calls which do not overlap are    *)
(* exact, for any number of senders, calls, buffers and attempts.          *)
(***************************************************************************)
EXTENDS XappRmr, TLAPS

\* A thread that has handed its message over still has an attempt to count down.
TypeInv ==
  /\ TypeOK
  /\ \A t \in Senders : pc[t] \in {"assign", "test"} => attempts[t] > 0

-----------------------------------------------------------------------------
\* Where call n's message is on wire w.
Whole(n)   == [header |-> n, body |-> n]
Sent(w, n) == {i \in DOMAIN w : w[i] = Whole(n)}
Once(w, n) == \E i \in DOMAIN w : Sent(w, n) = {i}

\* What goes out is whole, and of a call that was made.
WireInv ==
  \A i \in DOMAIN wire : wire[i].header = wire[i].body /\ wire[i].header <= begun

\* One call at a time, the latest.
TurnInv ==
  \A t \in Senders :
    /\ pc[t] # "crashed" /\ calls[t] <= begun
    /\ pc[t] # "idle" =>
         /\ calls[t] = begun
         /\ result[t] = "none"
         /\ \A u \in Senders \ {t} : pc[u] = "idle" /\ calls[u] < begun

\* A buffer says what became of call n's message: accepted, or kept for a retry with
\* its header and payload still in it.
Told(b, n) ==
  /\ b # Null
  /\ state[b] = "ok" => Once(wire, n)
  /\ state[b] # "ok" => Sent(wire, n) = {} /\ header[b] = n /\ body[b] = n

\* How far call n of a thread at place p, with r returned to it, has got.
Before(p, n) == p \in {"alloc", "header", "copy", "send"} => Sent(wire, n) = {}
Filled(p, n) ==
  /\ p \in {"header", "copy", "send"} => send_buff # Null
  /\ p \in {"copy", "send"} => header[send_buff] = n
  /\ p = "send" => body[send_buff] = n
After(p, n, r) ==
  /\ p = "assign" => Told(r, n)
  /\ p = "test"   => Told(send_buff, n)
Ended(res, n) ==
  /\ res = "true"  => Once(wire, n)
  /\ res = "false" => Sent(wire, n) = {}

ProgressInv ==
  \A t \in Senders :
    /\ Before(pc[t], calls[t])
    /\ Filled(pc[t], calls[t])
    /\ After(pc[t], calls[t], ret[t])
    /\ Ended(result[t], calls[t])

SerialInv == alone => WireInv /\ TurnInv /\ ProgressInv

-----------------------------------------------------------------------------
LEMMA Buffers == Bufs \subseteq Nat \ {0} /\ Null = 0 /\ Null \notin Bufs
BY RmrAssumption DEF Bufs, Null

LEMMA FreshBuffer ==
  ASSUME TypeOK, used < MaxBufs
  PROVE  used + 1 \in Bufs /\ used + 1 \in 0..MaxBufs /\ used + 1 # Null
BY RmrAssumption DEF TypeOK, Bufs, Null

LEMMA TypeInit == Init => TypeInv
BY RmrAssumption DEF Init, TypeInv, TypeOK, Message, NoMessage, Null

LEMMA TypeStep == TypeInv /\ [Next]_vars => TypeInv'
<1> SUFFICES ASSUME TypeInv, [Next]_vars PROVE TypeInv'
  OBVIOUS
<1> USE RmrAssumption
<1>1. ASSUME NEW t \in Senders, Begin(t) PROVE TypeInv'
  BY <1>1 DEF TypeInv, TypeOK, Begin, Goto
<1>2. ASSUME NEW t \in Senders, Alloc(t) PROVE TypeInv'
  BY <1>2, FreshBuffer DEF TypeInv, TypeOK, Alloc, Goto
<1>3. ASSUME NEW t \in Senders, Header(t) PROVE TypeInv'
  <2>1. header' \in [Bufs -> Message]
    BY <1>3 DEF TypeInv, TypeOK, Header, Message
  <2> QED
    BY <1>3, <2>1 DEF TypeInv, TypeOK, Header, Fill, Goto
<1>4. ASSUME NEW t \in Senders, Copy(t) PROVE TypeInv'
  <2>1. body' \in [Bufs -> Message]
    BY <1>4 DEF TypeInv, TypeOK, Copy, Message
  <2> QED
    BY <1>4, <2>1 DEF TypeInv, TypeOK, Copy, Fill, Goto
<1>5. ASSUME NEW t \in Senders, Send(t) PROVE TypeInv'
  <2>1. wire' \in Seq([header : Message, body : Message])
    <3>1. CASE wire' = wire
      BY <3>1 DEF TypeInv, TypeOK
    <3>2. CASE send_buff # Null /\ wire' = Append(wire, [header |-> header[send_buff],
                                                        body |-> body[send_buff]])
      <4>1. header[send_buff] \in Message /\ body[send_buff] \in Message
        BY <3>2 DEF TypeInv, TypeOK
      <4> QED
        BY <3>2, <4>1 DEF TypeInv, TypeOK
    <3> QED
      BY <1>5, <3>1, <3>2 DEF Send
  <2>2. /\ used' \in 0..MaxBufs
        /\ ret' \in [Senders -> Bufs \cup {Null}]
        /\ state' \in [Bufs -> {"ok", "retry"}]
    BY <1>5, FreshBuffer DEF TypeInv, TypeOK, Send
  <2> QED
    BY <1>5, <2>1, <2>2 DEF TypeInv, TypeOK, Send, Goto
<1>6. ASSUME NEW t \in Senders, Assign(t) PROVE TypeInv'
  BY <1>6 DEF TypeInv, TypeOK, Assign, Goto
<1>7. ASSUME NEW t \in Senders, Test(t) PROVE TypeInv'
  <2>1. attempts[t] \in 1..Attempts /\ attempts \in [Senders -> 0..Attempts]
    BY <1>7 DEF TypeInv, TypeOK, Test
  <2>2. attempts' \in [Senders -> 0..Attempts]
    BY <1>7, <2>1 DEF Test
  <2>3. pc' \in [Senders -> {"idle", "alloc", "header", "copy", "send", "assign", "test",
                            "crashed"}]
    BY <1>7 DEF TypeInv, TypeOK, Test, Goto
  <2>4. ASSUME NEW u \in Senders, pc'[u] \in {"assign", "test"} PROVE attempts'[u] > 0
    BY <1>7, <2>4 DEF TypeInv, TypeOK, Test, Goto
  <2>5. send_buff' \in Bufs \cup {Null} /\ result' \in [Senders -> {"none", "true", "false"}]
    BY <1>7 DEF TypeInv, TypeOK, Test
  <2> QED
    BY <1>7, <2>2, <2>3, <2>4, <2>5 DEF TypeInv, TypeOK, Test
<1>8. ASSUME NEW t \in Senders, GiveUp(t) PROVE TypeInv'
  BY <1>8 DEF TypeInv, TypeOK, GiveUp, Goto
<1>9. CASE UNCHANGED vars
  BY <1>9 DEF TypeInv, TypeOK, vars
<1> QED
  BY <1>1, <1>2, <1>3, <1>4, <1>5, <1>6, <1>7, <1>8, <1>9 DEF Next, xapp_rmr_send

\* Every variable of the sender keeps its type, overlapping calls included: the retry
\* counter never goes below zero.
THEOREM RmrTypeCorrect == Spec => []TypeOK
<1>1. TypeInv => TypeOK
  BY DEF TypeInv
<1> QED
  BY <1>1, TypeInit, TypeStep, PTL DEF Spec

-----------------------------------------------------------------------------
LEMMA ItemInSeq ==
  ASSUME NEW S, NEW w \in Seq(S)
  PROVE  \A i \in DOMAIN w : w[i] \in S
OBVIOUS

LEMMA SentElsewhere ==
  ASSUME NEW S, NEW w \in Seq(S), NEW m \in S, NEW n, m # Whole(n)
  PROVE  Sent(Append(w, m), n) = Sent(w, n) /\ (Once(w, n) => Once(Append(w, m), n))
<1>1. Sent(Append(w, m), n) = Sent(w, n)
  BY DEF Sent
<1>2. DOMAIN w \subseteq DOMAIN Append(w, m)
  OBVIOUS
<1> QED
  BY <1>1, <1>2 DEF Once

LEMMA SentNow ==
  ASSUME NEW S, NEW w \in Seq(S), NEW n, Whole(n) \in S, Sent(w, n) = {}
  PROVE  Once(Append(w, Whole(n)), n)
<1>1. Sent(Append(w, Whole(n)), n) = {Len(w) + 1}
  BY DEF Sent
<1>2. Len(w) + 1 \in DOMAIN Append(w, Whole(n))
  OBVIOUS
<1> QED
  BY <1>1, <1>2 DEF Once

\* A call that has only just begun has nothing on the wire.
LEMMA NewCallUnsent ==
  ASSUME TypeOK, WireInv, NEW n \in Nat, n > begun
  PROVE  Sent(wire, n) = {}
<1>1. ASSUME NEW i \in DOMAIN wire PROVE wire[i] # Whole(n)
  BY <1>1 DEF TypeOK, WireInv, Whole, Message
<1> QED
  BY <1>1 DEF Sent

LEMMA SerialInit == Init => SerialInv
BY DEF Init, SerialInv, WireInv, TurnInv, ProgressInv, Before, Filled, After, Ended

LEMMA SerialStep == TypeInv /\ SerialInv /\ [Next]_vars => SerialInv'
<1> SUFFICES ASSUME TypeInv, SerialInv, [Next]_vars, alone'
             PROVE  (WireInv /\ TurnInv /\ ProgressInv)'
  BY DEF SerialInv
<1> USE RmrAssumption
<1>0. alone /\ WireInv /\ TurnInv /\ ProgressInv /\ TypeOK
  <2>1. alone
    <3>1. ASSUME NEW t \in Senders, Begin(t) PROVE alone
      BY <3>1 DEF Begin
    <3>2. ASSUME NEW t \in Senders, xapp_rmr_send(t) PROVE alone
      BY <3>2 DEF xapp_rmr_send, Alloc, Header, Copy, Fill, Send, Assign, Test, GiveUp
    <3>3. CASE UNCHANGED vars
      BY <3>3 DEF vars
    <3> QED
      BY <3>1, <3>2, <3>3 DEF Next
  <2> QED
    BY <2>1 DEF SerialInv, TypeInv
<1>1. ASSUME NEW t \in Senders, Begin(t) PROVE (WireInv /\ TurnInv /\ ProgressInv)'
  <2>1. begun \in Nat /\ \A u \in Senders : calls[u] \in Nat /\ calls[u] <= begun
    BY <1>0 DEF TypeOK, TurnInv
  <2>2. \A u \in Senders : pc[u] = "idle"
    BY <1>0, <1>1 DEF Begin, Goto, TurnInv
  <2>3. /\ calls' = [calls EXCEPT ![t] = begun + 1] /\ begun' = begun + 1
        /\ pc' = [pc EXCEPT ![t] = "alloc"] /\ result' = [result EXCEPT ![t] = "none"]
        /\ wire' = wire
    BY <1>1 DEF Begin, Goto
  <2>4. WireInv'
    <3>1. \A i \in DOMAIN wire : wire[i].header \in Nat
      <4>1. wire \in Seq([header : Message, body : Message])
        BY <1>0 DEF TypeOK
      <4>2. \A i \in DOMAIN wire : wire[i] \in [header : Message, body : Message]
        BY <4>1, ItemInSeq, Zenon
      <4> QED
        BY <4>2 DEF Message
    <3> QED
      BY <1>0, <2>1, <2>3, <3>1 DEF WireInv
  <2>5. TurnInv'
    BY <1>0, <2>1, <2>2, <2>3 DEF TypeOK, TurnInv
  <2>6. Sent(wire, begun + 1) = {}
    BY <1>0, <2>1, NewCallUnsent
  <2>7. ProgressInv'
    <3>1. calls'[t] = begun + 1 /\ pc'[t] = "alloc" /\ result'[t] = "none"
      BY <1>0, <2>3 DEF TypeOK
    <3>2. ASSUME NEW u \in Senders \ {t}
          PROVE  pc'[u] = "idle" /\ calls'[u] = calls[u] /\ result'[u] = result[u]
      BY <1>0, <2>2, <2>3 DEF TypeOK
    <3> QED
      BY <1>0, <2>3, <2>6, <3>1, <3>2 DEF ProgressInv, Before, Filled, After, Ended
  <2> QED
    BY <2>4, <2>5, <2>7
<1>2. ASSUME NEW t \in Senders, Alloc(t) PROVE (WireInv /\ TurnInv /\ ProgressInv)'
  <2>1. pc[t] = "alloc" /\ pc' = [pc EXCEPT ![t] = "header"] /\ result[t] = "none"
        /\ \A u \in Senders \ {t} : pc[u] = "idle"
    BY <1>0, <1>2 DEF Alloc, Goto, TurnInv
  <2>2. /\ send_buff' # Null
        /\ UNCHANGED <<begun, calls, result, wire>>
    BY <1>0, <1>2, FreshBuffer DEF Alloc
  <2>3. WireInv'
    BY <1>0, <2>2 DEF WireInv
  <2>4. TurnInv'
    BY <1>0, <2>1, <2>2 DEF TypeOK, TurnInv
  <2>5. ProgressInv'
    BY <1>0, <2>1, <2>2 DEF TypeOK, ProgressInv, Before, Filled, After, Ended
  <2> QED
    BY <2>3, <2>4, <2>5
<1>3. ASSUME NEW t \in Senders, Header(t) PROVE (WireInv /\ TurnInv /\ ProgressInv)'
  <2>1. /\ pc[t] = "header" /\ result[t] = "none" /\ send_buff # Null
        /\ \A u \in Senders \ {t} : pc[u] = "idle"
    BY <1>0, <1>3 DEF Header, Fill, Goto, TurnInv, ProgressInv, Filled
  <2>2. /\ pc' = [pc EXCEPT ![t] = "copy"]
        /\ header' = [header EXCEPT ![send_buff] = calls[t]]
        /\ UNCHANGED <<send_buff, begun, calls, result, wire>>
    BY <1>3, <2>1 DEF Header, Fill, Goto
  <2>3. WireInv'
    BY <1>0, <2>2 DEF WireInv
  <2>4. TurnInv'
    BY <1>0, <2>1, <2>2 DEF TypeOK, TurnInv
  <2>5. header'[send_buff] = calls[t]
    BY <1>0, <2>1, <2>2 DEF TypeOK
  <2>6. ProgressInv'
    BY <1>0, <2>1, <2>2, <2>5 DEF TypeOK, ProgressInv, Before, Filled, After, Ended
  <2> QED
    BY <2>3, <2>4, <2>6
<1>4. ASSUME NEW t \in Senders, Copy(t) PROVE (WireInv /\ TurnInv /\ ProgressInv)'
  <2>1. /\ pc[t] = "copy" /\ result[t] = "none" /\ send_buff # Null
        /\ \A u \in Senders \ {t} : pc[u] = "idle"
    BY <1>0, <1>4 DEF Copy, Fill, Goto, TurnInv, ProgressInv, Filled
  <2>2. /\ pc' = [pc EXCEPT ![t] = "send"]
        /\ body' = [body EXCEPT ![send_buff] = calls[t]]
        /\ UNCHANGED <<send_buff, begun, header, calls, result, wire>>
    BY <1>4, <2>1 DEF Copy, Fill, Goto
  <2>3. WireInv'
    BY <1>0, <2>2 DEF WireInv
  <2>4. TurnInv'
    BY <1>0, <2>1, <2>2 DEF TypeOK, TurnInv
  <2>5. body'[send_buff] = calls[t]
    BY <1>0, <2>1, <2>2 DEF TypeOK
  <2>6. ProgressInv'
    BY <1>0, <2>1, <2>2, <2>5 DEF TypeOK, ProgressInv, Before, Filled, After, Ended
  <2> QED
    BY <2>3, <2>4, <2>6
<1>5. ASSUME NEW t \in Senders, Send(t) PROVE (WireInv /\ TurnInv /\ ProgressInv)'
  <2> DEFINE n == calls[t]
             m == [header |-> header[send_buff], body |-> body[send_buff]]
  <2>1. /\ pc[t] = "send" /\ result[t] = "none" /\ n = begun
        /\ \A u \in Senders \ {t} : pc[u] = "idle" /\ calls[u] < begun
        /\ pc' = [pc EXCEPT ![t] = "assign"]
        /\ UNCHANGED <<begun, send_buff, header, body, calls, result>>
    BY <1>0, <1>5 DEF Send, Goto, TurnInv
  <2>2. /\ send_buff # Null /\ send_buff \in Bufs /\ Sent(wire, n) = {}
        /\ header[send_buff] = n /\ body[send_buff] = n
        /\ n \in Nat /\ \A u \in Senders : calls[u] \in Nat
    BY <1>0, <2>1 DEF TypeOK, ProgressInv, Before, Filled
  <2>3. TurnInv'
    BY <1>0, <2>1 DEF TypeOK, TurnInv
  <2>4. CASE /\ wire' = Append(wire, m)
             /\ used < MaxBufs
             /\ ret' = [ret EXCEPT ![t] = used + 1]
             /\ state' = [state EXCEPT ![used + 1] = "ok"]
    <3>1. wire \in Seq([header : Message, body : Message])
          /\ m = Whole(n) /\ m \in [header : Message, body : Message]
      BY <1>0, <2>2 DEF TypeOK, Whole
    <3>2. WireInv'
      <4>1. m.header = begun /\ m.body = begun /\ begun \in Nat
        BY <2>1, <2>2
      <4>2. ASSUME NEW i \in DOMAIN wire'
            PROVE  wire'[i].header = wire'[i].body /\ wire'[i].header <= begun
        <5>1. CASE i \in DOMAIN wire
          BY <1>0, <2>4, <3>1, <5>1 DEF WireInv
        <5>2. CASE i = Len(wire) + 1
          BY <2>4, <3>1, <4>1, <5>2
        <5> QED
          BY <2>4, <3>1, <4>2, <5>1, <5>2
      <4> QED
        BY <2>1, <4>2 DEF WireInv
    <3>3. Once(wire', n)
      BY <2>2, <2>4, <3>1, SentNow
    <3>4. ASSUME NEW u \in Senders \ {t}
          PROVE  /\ Sent(wire', calls[u]) = Sent(wire, calls[u])
                 /\ Once(wire, calls[u]) => Once(wire', calls[u])
      <4>1. m # Whole(calls[u])
        BY <2>1, <2>2, <3>1, <3>4 DEF Whole
      <4> QED
        BY <2>4, <3>1, <4>1, SentElsewhere
    <3>5. ret'[t] # Null /\ state'[ret'[t]] = "ok"
      BY <1>0, <2>4, FreshBuffer DEF TypeOK
    <3>6. ProgressInv'
      BY <1>0, <2>1, <3>3, <3>4, <3>5
         DEF TypeOK, ProgressInv, Before, Filled, After, Ended, Told
    <3> QED
      BY <2>3, <3>2, <3>6
  <2>5. CASE /\ state' = [state EXCEPT ![send_buff] = "retry"]
             /\ ret' = [ret EXCEPT ![t] = send_buff]
             /\ wire' = wire
    <3>1. WireInv'
      BY <1>0, <2>1, <2>5 DEF WireInv
    <3>2. ret'[t] = send_buff /\ state'[send_buff] = "retry"
      BY <1>0, <2>2, <2>5 DEF TypeOK
    <3>3. ProgressInv'
      BY <1>0, <2>1, <2>2, <2>5, <3>2
         DEF TypeOK, ProgressInv, Before, Filled, After, Ended, Told
    <3> QED
      BY <2>3, <3>1, <3>3
  <2> QED
    BY <1>5, <2>2, <2>4, <2>5 DEF Send
<1>6. ASSUME NEW t \in Senders, Assign(t) PROVE (WireInv /\ TurnInv /\ ProgressInv)'
  <2>1. /\ pc[t] = "assign" /\ result[t] = "none"
        /\ \A u \in Senders \ {t} : pc[u] = "idle"
        /\ pc' = [pc EXCEPT ![t] = "test"] /\ send_buff' = ret[t]
        /\ UNCHANGED <<begun, header, body, state, ret, calls, result, wire>>
    BY <1>0, <1>6 DEF Assign, Goto, TurnInv
  <2>2. WireInv'
    BY <1>0, <2>1 DEF WireInv
  <2>3. TurnInv'
    BY <1>0, <2>1 DEF TypeOK, TurnInv
  <2>4. ProgressInv'
    BY <1>0, <2>1 DEF TypeOK, ProgressInv, Before, Filled, After, Ended, Told
  <2> QED
    BY <2>2, <2>3, <2>4
<1>7. ASSUME NEW t \in Senders, Test(t) PROVE (WireInv /\ TurnInv /\ ProgressInv)'
  <2>1. /\ pc[t] = "test" /\ result[t] = "none"
        /\ \A u \in Senders \ {t} : pc[u] = "idle"
        /\ UNCHANGED <<begun, header, body, state, ret, calls, wire>>
    BY <1>0, <1>7 DEF Test, TurnInv
  <2>2. Told(send_buff, calls[t]) /\ send_buff \in Bufs
    BY <1>0, <2>1 DEF TypeOK, ProgressInv, After, Told
  <2>3. WireInv'
    BY <1>0, <2>1 DEF WireInv
  <2>4. CASE /\ send_buff \in SentBufs
             /\ pc' = [pc EXCEPT ![t] = "idle"]
             /\ result' = [result EXCEPT ![t] = "true"]
    <3>1. TurnInv'
      BY <1>0, <2>1, <2>4 DEF TypeOK, TurnInv
    <3>2. ProgressInv'
      BY <1>0, <2>1, <2>2, <2>4
         DEF TypeOK, ProgressInv, Before, Filled, After, Ended, Told, SentBufs
    <3> QED
      BY <2>3, <3>1, <3>2
  <2>5. CASE /\ send_buff \notin SentBufs
             /\ pc' = [pc EXCEPT ![t] = "send"]
             /\ UNCHANGED <<send_buff, result>>
    <3>1. TurnInv'
      BY <1>0, <2>1, <2>5 DEF TypeOK, TurnInv
    <3>2. ProgressInv'
      BY <1>0, <2>1, <2>2, <2>5
         DEF TypeOK, ProgressInv, Before, Filled, After, Ended, Told, SentBufs
    <3> QED
      BY <2>3, <3>1, <3>2
  <2> QED
    BY <1>7, <2>4, <2>5 DEF Test, Goto
<1>8. ASSUME NEW t \in Senders, GiveUp(t) PROVE (WireInv /\ TurnInv /\ ProgressInv)'
  <2>1. /\ pc[t] = "send" /\ result[t] = "none"
        /\ \A u \in Senders \ {t} : pc[u] = "idle"
        /\ pc' = [pc EXCEPT ![t] = "idle"] /\ result' = [result EXCEPT ![t] = "false"]
        /\ UNCHANGED <<begun, send_buff, header, body, state, ret, calls, wire>>
    BY <1>0, <1>8 DEF GiveUp, Goto, TurnInv
  <2>2. WireInv'
    BY <1>0, <2>1 DEF WireInv
  <2>3. TurnInv'
    BY <1>0, <2>1 DEF TypeOK, TurnInv
  <2>4. ProgressInv'
    BY <1>0, <2>1 DEF TypeOK, ProgressInv, Before, Filled, After, Ended, Told
  <2> QED
    BY <2>2, <2>3, <2>4
<1>9. CASE UNCHANGED vars
  BY <1>0, <1>9 DEF vars, WireInv, TurnInv, ProgressInv, Before, Filled, After, Ended, Told
<1> QED
  BY <1>1, <1>2, <1>3, <1>4, <1>5, <1>6, <1>7, <1>8, <1>9 DEF Next, xapp_rmr_send

\* Calls that do not overlap send their message once with its own header and payload
\* and return true, or not at all and return false, for any number of threads, calls,
\* refusals and buffers that earlier calls have left behind.
THEOREM SerialSendCorrect == Spec => []SerialSendIsExact
<1>1. SerialInv => SerialSendIsExact
  <2> SUFFICES ASSUME SerialInv, alone PROVE SerialSendIsExact
    BY DEF SerialSendIsExact
  <2>1. \A t \in Senders : Copies(t) = Sent(wire, calls[t])
    BY DEF Copies, Sent, Whole
  <2> QED
    BY <2>1 DEF SerialInv, WireInv, TurnInv, ProgressInv, Ended, Once, SerialSendIsExact
<1>2. Spec => [](TypeInv /\ SerialInv)
  BY TypeInit, TypeStep, SerialInit, SerialStep, PTL DEF Spec
<1> QED
  BY <1>1, <1>2, PTL
=============================================================================
