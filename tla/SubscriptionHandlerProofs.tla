--------------------- MODULE SubscriptionHandlerProofs ---------------------
(***************************************************************************)
(* Theorems about SubscriptionHandler, for any number of requesters,       *)
(* responders, buffers and identifiers and any bounds.                     *)
(***************************************************************************)
EXTENDS SubscriptionHandler, TLAPS

Threads == Requesters \cup Responders
LabelsOf(t) == IF t \in Requesters THEN RequesterLabels ELSE ResponderLabels

\* The part of TypeOK that is about pc.
PcOK ==
  /\ DOMAIN pc = Threads
  /\ \A r \in Requesters : pc[r] \in RequesterLabels
  /\ \A s \in Responders : pc[s] \in ResponderLabels

\* The part about the table: its keys are buffers.
TableOK ==
  /\ DOMAIN status_table \subseteq Keys
  /\ status_table \in [DOMAIN status_table -> Statuses]

\* The part about everything else.
RestOK ==
  /\ text \in [Keys -> Ids \cup {NoOne}]
  /\ data_lock \in Requesters \cup {NoOne}
  /\ notified \subseteq Requesters /\ expired \subseteq Requesters
  /\ result \in [Requesters -> Results]
  /\ me_id \in [Responders -> HeapKeys \cup {NoOne}]
  /\ requested \in [Ids -> 0..MaxRequests]
  /\ sent \subseteq Ids /\ answered \subseteq Ids
  /\ requests \in 0..MaxRequests /\ responses \in 0..MaxResponses

\* No identifier has been asked for more often than there were calls; a thread
\* that handles a response has its buffer, and a caller has filled its own.
Bounded ==
  /\ \A id \in Ids : requested[id] <= requests
  /\ \A s \in Responders : pc[s] # "idle" => me_id[s] \in HeapKeys
  /\ \A r \in Requesters : pc[r] # "idle" => text[r] \in Ids

TypeInv == TypeOK /\ Bounded

LEMMA TypeParts == TypeOK <=> PcOK /\ TableOK /\ RestOK
BY DEF TypeOK, PcOK, TableOK, RestOK, Threads

\* One thread that moves to a label of its own kind keeps pc well typed.
LEMMA GotoTyped ==
  ASSUME PcOK, NEW t \in Threads, NEW to \in LabelsOf(t), pc' = [pc EXCEPT ![t] = to]
  PROVE  PcOK' /\ pc'[t] = to /\ \A u \in Threads \ {t} : pc'[u] = pc[u]
BY SubscriptionAssumption DEF PcOK, Threads, LabelsOf

\* What Put and Erased make of the table.
LEMMA PutTable ==
  ASSUME TableOK, NEW k \in Keys, NEW status \in Statuses,
         status_table' = Put(k, status)
  PROVE  /\ TableOK'
         /\ DOMAIN status_table' = DOMAIN status_table \cup {k}
         /\ status_table'[k] = status
         /\ \A e \in DOMAIN status_table \ {k} : status_table'[e] = status_table[e]
BY DEF TableOK, Put

LEMMA ErasedTable ==
  ASSUME TableOK, NEW k, status_table' = Erased(k)
  PROVE  /\ TableOK'
         /\ DOMAIN status_table' = DOMAIN status_table \ {k}
         /\ \A e \in DOMAIN status_table \ {k} : status_table'[e] = status_table[e]
BY DEF TableOK, Erased

-----------------------------------------------------------------------------
\* The steps by what they do to pc, for the proofs below.
RequesterStep(r) ==
  \/ \E id \in Ids : Call(r, id)
  \/ Requester(r) \/ Expire(r)
ResponderStep(s) == Responder(s) \/ \E id \in Ids : Receive(s, id)

LEMMA NextCases ==
  ASSUME [Next]_vars
  PROVE  \/ \E r \in Requesters : RequesterStep(r)
         \/ \E s \in Responders : ResponderStep(s)
         \/ UNCHANGED vars
BY DEF Next, RequesterStep, ResponderStep

\* Where a requester's steps lead.
LEMMA RequesterGoes ==
  ASSUME PcOK, NEW r \in Requesters, RequesterStep(r)
  PROVE  /\ PcOK' /\ \A u \in Threads \ {r} : pc'[u] = pc[u]
         /\ UNCHANGED me_id
<1>1. r \in Threads /\ LabelsOf(r) = RequesterLabels
  BY DEF Threads, LabelsOf
<1>2. CASE Expire(r)
  BY <1>2 DEF Expire, PcOK
<1>3. CASE ~Expire(r)
  <2>1. PICK to \in RequesterLabels : pc' = [pc EXCEPT ![r] = to]
    <3>1. CASE \E id \in Ids : Call(r, id)
      BY <3>1 DEF Call, Goto, RequesterLabels
    <3>2. CASE AddEntry(r)
      BY <3>2 DEF AddEntry, Goto, RequesterLabels
    <3>3. CASE Relock(r) \/ StartWait(r)
      BY <3>3 DEF Relock, StartWait, Goto, RequesterLabels
    <3>4. CASE Transmit(r)
      BY <3>4 DEF Transmit, Goto, RequesterLabels
    <3>5. CASE Wake(r)
      BY <3>5 DEF Wake, Goto, RequesterLabels
    <3> QED BY <1>3, <3>1, <3>2, <3>3, <3>4, <3>5 DEF RequesterStep, Requester
  <2>2. UNCHANGED me_id
    BY <1>3 DEF RequesterStep, Requester, Call, AddEntry, Relock, StartWait, Transmit, Wake
  <2> QED BY <1>1, <2>1, <2>2, GotoTyped
<1> QED BY <1>2, <1>3

\* Where a responder's steps lead; they leave the lock and every result alone.
LEMMA ResponderGoes ==
  ASSUME PcOK, NEW s \in Responders, ResponderStep(s)
  PROVE  /\ PcOK' /\ \A u \in Threads \ {s} : pc'[u] = pc[u]
         /\ UNCHANGED <<data_lock, expired, result, requested, sent, requests>>
<1>1. s \in Threads /\ LabelsOf(s) = ResponderLabels
  BY SubscriptionAssumption DEF Threads, LabelsOf
<1>2. PICK to \in ResponderLabels : pc' = [pc EXCEPT ![s] = to]
  <2>1. CASE \E id \in Ids : Receive(s, id)
    BY <2>1 DEF Receive, Goto, ResponderLabels
  <2>2. CASE IsRequestEntry(s)
    BY <2>2 DEF IsRequestEntry, Goto, ResponderLabels
  <2>3. CASE SetStatus(s)
    BY <2>3 DEF SetStatus, Goto, ResponderLabels
  <2>4. CASE PutStatus(s) \/ NotifyAll(s)
    BY <2>4 DEF PutStatus, NotifyAll, Goto, ResponderLabels
  <2> QED BY <2>1, <2>2, <2>3, <2>4 DEF ResponderStep, Responder
<1>3. UNCHANGED <<data_lock, expired, result, requested, sent, requests>>
  BY DEF ResponderStep, Responder, Receive, IsRequestEntry, SetStatus, PutStatus, NotifyAll
<1> QED BY <1>1, <1>2, <1>3, GotoTyped

-----------------------------------------------------------------------------
\* TypeOK is inductive together with Bounded.
LEMMA TypeInvHolds == Spec => []TypeInv
<1>1. Init => TypeInv
  BY SubscriptionAssumption
     DEF Init, TypeInv, TypeOK, Bounded, RequesterLabels, ResponderLabels, Statuses, Results
<1>2. TypeInv /\ [Next]_vars => TypeInv'
  <2> SUFFICES ASSUME TypeOK, Bounded, [Next]_vars PROVE TypeOK' /\ Bounded'
    BY DEF TypeInv
  <2>0. PcOK /\ TableOK /\ RestOK
    BY TypeParts
  <2>1. ASSUME NEW r \in Requesters, RequesterStep(r)
        PROVE  TableOK' /\ RestOK' /\ Bounded'
    <3>0. r \in Keys /\ r \in Threads /\ r \notin Responders
      BY SubscriptionAssumption DEF Keys, Threads
    <3>1. /\ UNCHANGED me_id
          /\ \A s \in Responders : pc'[s] = pc[s]
          /\ \A q \in Requesters \ {r} : pc'[q] = pc[q]
      BY <2>0, <2>1, <3>0, RequesterGoes DEF Threads
    <3>2. ASSUME NEW id \in Ids, Call(r, id) PROVE TableOK' /\ RestOK' /\ Bounded'
      <4>1. TableOK' BY <2>0, <3>2 DEF Call, TableOK
      <4>2. requests + 1 \in 0..MaxRequests /\ requested[id] + 1 \in 0..MaxRequests
        BY <2>0, <3>2, SubscriptionAssumption DEF Call, RestOK, Bounded
      <4>3. RestOK'
        BY <2>0, <3>0, <3>2, <4>2 DEF Call, RestOK, Results
      <4>4. Bounded'
        BY <2>0, <3>0, <3>1, <3>2 DEF Call, RestOK, Bounded
      <4> QED BY <4>1, <4>3, <4>4
    <3>3. CASE AddEntry(r)
      <4>1. TableOK'
        BY <2>0, <3>0, <3>3, PutTable DEF AddEntry, TableOK, Statuses
      <4>2. RestOK' BY <2>0, <3>3 DEF AddEntry, RestOK, Results
      <4>3. Bounded' BY <2>0, <3>1, <3>3 DEF AddEntry, Goto, Bounded
      <4> QED BY <4>1, <4>2, <4>3
    <3>4. CASE Relock(r) \/ StartWait(r) \/ Expire(r)
      <4>1. TableOK' BY <2>0, <3>4 DEF Relock, StartWait, Expire, TableOK
      <4>2. RestOK' BY <2>0, <3>4 DEF Relock, StartWait, Expire, RestOK
      <4>3. Bounded' BY <2>0, <3>1, <3>4 DEF Relock, StartWait, Expire, Goto, Bounded
      <4> QED BY <4>1, <4>2, <4>3
    <3>5. CASE Transmit(r)
      <4>1. TableOK'
        BY <2>0, <3>5, ErasedTable DEF Transmit, GiveBack, TableOK
      <4>2. text[r] \in Ids BY <3>5 DEF Transmit, Bounded
      <4>3. RestOK' BY <2>0, <3>5, <4>2 DEF Transmit, GiveBack, RestOK, Results
      <4>4. Bounded' BY <2>0, <3>1, <3>5 DEF Transmit, Goto, Bounded
      <4> QED BY <4>1, <4>3, <4>4
    <3>6. CASE Wake(r)
      <4>1. TableOK'
        BY <2>0, <3>6, ErasedTable DEF Wake, TableOK
      <4>2. PICK status : status \in StatusOf(text[r]) /\
              (\/ data_lock' = r /\ UNCHANGED result
               \/ result' = [result EXCEPT ![r] = Outcome(r, status)] /\ UNCHANGED data_lock)
        BY <3>6 DEF Wake
      <4>3. status \in Statuses \cup {"absent"}
        BY <2>0, <4>2 DEF StatusOf, Entries, TableOK
      <4>4. Outcome(r, status) \in Results
        BY <4>3 DEF Outcome, Statuses, Results
      <4>5. RestOK' BY <2>0, <3>6, <4>2, <4>4 DEF Wake, RestOK
      <4>6. Bounded' BY <2>0, <3>1, <3>6 DEF Wake, Goto, Bounded
      <4> QED BY <4>1, <4>5, <4>6
    <3> QED BY <2>1, <3>2, <3>3, <3>4, <3>5, <3>6 DEF RequesterStep, Requester
  <2>2. ASSUME NEW s \in Responders, ResponderStep(s)
        PROVE  TableOK' /\ RestOK' /\ Bounded'
    <3>0. s \in Threads /\ s \notin Requesters
      BY SubscriptionAssumption DEF Threads
    <3>1. /\ \A q \in Requesters : pc'[q] = pc[q]
          /\ \A q \in Responders \ {s} : pc'[q] = pc[q]
      BY <2>0, <2>2, <3>0, ResponderGoes DEF Threads
    <3>2. ASSUME NEW id \in Ids, Receive(s, id) PROVE TableOK' /\ RestOK' /\ Bounded'
      <4>1. PICK k \in HeapKeys : /\ text' = [text EXCEPT ![k] = id]
                                  /\ me_id' = [me_id EXCEPT ![s] = k]
        BY <3>2 DEF Receive
      <4>2. k \in Keys /\ k \notin Requesters
        BY SubscriptionAssumption DEF Keys
      <4>3. TableOK' BY <2>0, <3>2 DEF Receive, TableOK
      <4>4. RestOK'
        BY <2>0, <3>2, <4>1, <4>2, SubscriptionAssumption DEF Receive, RestOK
      <4>5. \A r \in Requesters : text'[r] = text[r]
        BY <2>0, <4>1, <4>2 DEF RestOK, Keys
      <4>6. Bounded'
        BY <2>0, <3>1, <3>2, <4>1, <4>5 DEF Receive, Bounded, RestOK
      <4> QED BY <4>3, <4>4, <4>6
    <3>3. CASE IsRequestEntry(s) \/ SetStatus(s) \/ NotifyAll(s)
      <4>1. TableOK' BY <2>0, <3>3 DEF IsRequestEntry, SetStatus, NotifyAll, TableOK
      <4>2. RestOK' BY <2>0, <3>3 DEF IsRequestEntry, SetStatus, NotifyAll, RestOK
      <4>3. Bounded'
        BY <2>0, <3>1, <3>3 DEF IsRequestEntry, SetStatus, NotifyAll, Goto, Bounded
      <4> QED BY <4>1, <4>2, <4>3
    <3>4. CASE PutStatus(s)
      <4>1. me_id[s] \in Keys BY <3>4 DEF PutStatus, Goto, Bounded, Keys
      <4>2. TableOK' BY <2>0, <3>4, <4>1, PutTable DEF PutStatus, Statuses
      <4>3. RestOK' BY <2>0, <3>4 DEF PutStatus, RestOK
      <4>4. Bounded' BY <2>0, <3>1, <3>4 DEF PutStatus, Goto, Bounded
      <4> QED BY <4>2, <4>3, <4>4
    <3> QED BY <2>2, <3>2, <3>3, <3>4 DEF ResponderStep, Responder
  <2>3. CASE UNCHANGED vars
    BY <2>3 DEF TypeOK, Bounded, vars
  <2>4. ASSUME NEW r \in Requesters, RequesterStep(r) PROVE PcOK'
    BY <2>0, <2>4, RequesterGoes
  <2>5. ASSUME NEW s \in Responders, ResponderStep(s) PROVE PcOK'
    BY <2>0, <2>5, ResponderGoes
  <2>6. TypeOK' <=> PcOK' /\ TableOK' /\ RestOK'
    BY DEF TypeOK, PcOK, TableOK, RestOK, Threads
  <2> QED BY <2>1, <2>2, <2>3, <2>4, <2>5, <2>6, NextCases
<1> QED BY <1>1, <1>2, PTL DEF Spec

\* Every variable keeps to its type; in particular the table's keys are buffers
\* of requesters and of responses, never anything else.
THEOREM SubsTypeCorrect == Spec => []TypeOK
<1>1. TypeInv => TypeOK BY DEF TypeInv
<1> QED BY <1>1, TypeInvHolds, PTL

-----------------------------------------------------------------------------
\* What a thread's step leaves alone: the buffers, the entries and the results
\* of all the others.
OthersKept(t) ==
  /\ \A k \in Keys \ {t} : /\ k \in DOMAIN status_table' <=> k \in DOMAIN status_table
                           /\ k \in DOMAIN status_table =>
                                status_table'[k] = status_table[k]
  /\ \A u \in Threads \ {t} : pc'[u] = pc[u]
  /\ \A q \in Requesters \ {t} : /\ text'[q] = text[q] /\ result'[q] = result[q]
                                 /\ q \in expired' <=> q \in expired

LEMMA RequesterKeeps ==
  ASSUME TypeInv, NEW r \in Requesters, RequesterStep(r)
  PROVE  /\ OthersKept(r) /\ UNCHANGED <<me_id, answered>>
         /\ \A k \in HeapKeys : text'[k] = text[k]
         /\ sent \subseteq sent'
         /\ \A id \in Ids : requested'[id] >= requested[id]
<1>0. PcOK /\ TableOK /\ RestOK /\ r \in Keys /\ r \notin HeapKeys
  BY TypeParts, SubscriptionAssumption DEF TypeInv, Keys
<1>1. UNCHANGED me_id /\ \A u \in Threads \ {r} : pc'[u] = pc[u]
  BY <1>0, RequesterGoes
<1>2. \A k \in Keys \ {r} : /\ k \in DOMAIN status_table' <=> k \in DOMAIN status_table
                            /\ k \in DOMAIN status_table =>
                                 status_table'[k] = status_table[k]
  <2>1. CASE status_table' = Put(r, "request_pending")
    BY <1>0, <2>1, PutTable DEF Statuses
  <2>2. CASE status_table' = Erased(r)
    BY <1>0, <2>2, ErasedTable
  <2>3. CASE UNCHANGED status_table
    BY <2>3
  <2>4. \/ status_table' = Put(r, "request_pending")
        \/ status_table' = Erased(r)
        \/ UNCHANGED status_table
    BY DEF RequesterStep, Requester, Call, Expire, AddEntry, Relock, StartWait, Transmit,
           GiveBack, Wake
  <2> QED BY <2>1, <2>2, <2>3, <2>4
<1>3. \A k \in Keys \ {r} : text'[k] = text[k]
  BY <1>0 DEF RestOK, RequesterStep, Requester, Call, Expire, AddEntry, Relock, StartWait,
              Transmit, Wake
<1>4. \A q \in Requesters \ {r} : result'[q] = result[q] /\ (q \in expired' <=> q \in expired)
  BY <1>0 DEF RestOK, RequesterStep, Requester, Call, Expire, AddEntry, Relock, StartWait,
              Transmit, Wake
<1>5. UNCHANGED answered /\ sent \subseteq sent'
  BY DEF RequesterStep, Requester, Call, Expire, AddEntry, Relock, StartWait, Transmit, Wake
<1>6. \A id \in Ids : requested'[id] >= requested[id]
  <2>1. \/ UNCHANGED requested
        \/ \E id \in Ids : requested' = [requested EXCEPT ![id] = @ + 1]
    BY DEF RequesterStep, Requester, Call, Expire, AddEntry, Relock, StartWait, Transmit,
           Wake
  <2>2. \A id \in Ids : requested[id] \in Nat
    BY <1>0, SubscriptionAssumption DEF RestOK
  <2> QED BY <1>0, <2>1, <2>2 DEF RestOK
<1> QED BY <1>0, <1>1, <1>2, <1>3, <1>4, <1>5, <1>6 DEF OthersKept, Keys

LEMMA ResponderKeeps ==
  ASSUME TypeInv, NEW s \in Responders, ResponderStep(s)
  PROVE  /\ \A u \in Threads \ {s} : pc'[u] = pc[u]
         /\ \A q \in Requesters : /\ text'[q] = text[q]
                                  /\ q \in DOMAIN status_table' <=> q \in DOMAIN status_table
         /\ UNCHANGED <<data_lock, expired, result, requested, sent, requests>>
         /\ answered \subseteq answered'
<1>0. PcOK /\ TableOK /\ RestOK
  BY TypeParts DEF TypeInv
<1>1. /\ \A u \in Threads \ {s} : pc'[u] = pc[u]
      /\ UNCHANGED <<data_lock, expired, result, requested, sent, requests>>
  BY <1>0, ResponderGoes
<1>2. \A q \in Requesters : text'[q] = text[q]
  <2>1. UNCHANGED text \/ \E k \in HeapKeys, id \in Ids : text' = [text EXCEPT ![k] = id]
    BY DEF ResponderStep, Responder, Receive, IsRequestEntry, SetStatus, PutStatus, NotifyAll
  <2> QED BY <1>0, <2>1, SubscriptionAssumption DEF RestOK, Keys
<1>3. \A q \in Requesters : q \in DOMAIN status_table' <=> q \in DOMAIN status_table
  <2>1. \/ UNCHANGED status_table
        \/ me_id[s] \in HeapKeys /\ status_table' = Put(me_id[s], "request_success")
    BY DEF ResponderStep, Responder, Receive, IsRequestEntry, SetStatus, PutStatus,
           NotifyAll, TypeInv, Bounded, Goto
  <2>2. ASSUME me_id[s] \in HeapKeys, status_table' = Put(me_id[s], "request_success")
        PROVE  DOMAIN status_table' = DOMAIN status_table \cup {me_id[s]}
    BY <2>2 DEF Put
  <2> QED BY <2>1, <2>2, SubscriptionAssumption
<1>4. answered \subseteq answered'
  BY DEF ResponderStep, Responder, Receive, IsRequestEntry, SetStatus, PutStatus, NotifyAll
<1> QED BY <1>1, <1>2, <1>3, <1>4

-----------------------------------------------------------------------------
\* A requester's entry is in the table exactly while its request is in progress.
EntryInv == \A r \in Requesters : r \in DOMAIN status_table <=> InProgress(r)

TableInv == EntryInv /\ OneRequestPerId /\ \A r \in Requesters :
                                             result[r] # "SUBSCR_ERR_UNKNOWN"

LEMMA TableInvHolds == Spec => []TableInv
<1>1. Init => TableInv
  BY DEF Init, TableInv, EntryInv, OneRequestPerId, InProgress
<1>2. TypeInv /\ TableInv /\ [Next]_vars => TableInv'
  <2> SUFFICES ASSUME TypeInv, TableInv, [Next]_vars PROVE TableInv'
    OBVIOUS
  <2>0. PcOK /\ TableOK /\ RestOK
    BY TypeParts DEF TypeInv
  <2>1. ASSUME NEW r \in Requesters, RequesterStep(r) PROVE TableInv'
    <3>0. r \in Keys /\ r \in Threads
      BY DEF Keys, Threads
    <3>1. OthersKept(r)
      BY <2>1, RequesterKeeps
    \* The other requesters' part of each conjunct.
    <3>2. \A q \in Requesters \ {r} :
             /\ InProgress(q)' <=> InProgress(q)
             /\ q \in DOMAIN status_table' <=> InProgress(q)'
             /\ text'[q] = text[q] /\ result'[q] # "SUBSCR_ERR_UNKNOWN"
      BY <3>1 DEF OthersKept, TableInv, EntryInv, InProgress, Threads, Keys
    \* r's own part, and r has the identifier of nobody else in progress.
    <3> SUFFICES /\ r \in DOMAIN status_table' <=> InProgress(r)'
                 /\ result'[r] # "SUBSCR_ERR_UNKNOWN"
                 /\ InProgress(r)' => \A q \in Requesters \ {r} :
                                        InProgress(q) => text[q] # text'[r]
      BY <3>2 DEF TableInv, EntryInv, OneRequestPerId
    <3>3. CASE \E id \in Ids : Call(r, id)
      BY <2>0, <3>0, <3>3 DEF Call, Goto, TableInv, EntryInv, InProgress, RestOK, PcOK
    <3>4. CASE AddEntry(r)
      <4>1. CASE transaction_present(text[r])
        BY <2>0, <3>0, <3>4, <4>1
           DEF AddEntry, Goto, TableInv, EntryInv, InProgress, RestOK, PcOK
      <4>2. CASE ~transaction_present(text[r])
        <5>1. /\ status_table' = Put(r, "request_pending") /\ pc'[r] = "relock"
              /\ UNCHANGED <<text, result>>
          BY <2>0, <3>0, <3>4, <4>2 DEF AddEntry, Goto, PcOK
        <5>2. r \in DOMAIN status_table'
          BY <2>0, <3>0, <5>1, PutTable DEF Statuses
        <5>3. \A q \in Requesters : InProgress(q) => text[q] # text[r]
          BY <4>2 DEF transaction_present, Entries, TableInv, EntryInv
        <5> QED BY <5>1, <5>2, <5>3 DEF InProgress, TableInv
      <4> QED BY <4>1, <4>2
    <3>5. CASE Relock(r) \/ StartWait(r) \/ Expire(r)
      BY <2>0, <3>0, <3>5
         DEF Relock, StartWait, Expire, Goto, TableInv, EntryInv, InProgress,
             OneRequestPerId, PcOK
    <3>6. CASE Transmit(r)
      <4>1. pc[r] = "tx" /\ UNCHANGED text
        BY <3>6 DEF Transmit
      <4>2. CASE pc' = [pc EXCEPT ![r] = "start_wait"] /\ UNCHANGED <<status_table, result>>
        BY <2>0, <3>0, <4>1, <4>2 DEF TableInv, EntryInv, InProgress, OneRequestPerId, PcOK
      <4>3. CASE /\ pc' = [pc EXCEPT ![r] = "idle"] /\ status_table' = Erased(r)
                 /\ result' = [result EXCEPT ![r] = "SUBSCR_ERR_TX"]
        <5>1. r \notin DOMAIN status_table'
          BY <4>3 DEF Erased
        <5>2. pc'[r] = "idle" /\ result'[r] = "SUBSCR_ERR_TX"
          BY <2>0, <3>0, <4>3 DEF PcOK, RestOK
        <5> QED BY <5>1, <5>2 DEF InProgress
      <4> QED BY <3>6, <4>2, <4>3 DEF Transmit, GiveBack, Goto
    <3>7. CASE Wake(r)
      <4>1. r \in Entries(text[r])
        BY <3>7 DEF Wake, Entries, TableInv, EntryInv, InProgress
      <4>2. PICK status \in StatusOf(text[r]) :
              \/ pc' = [pc EXCEPT ![r] = "start_wait"] /\ UNCHANGED <<status_table, result>>
              \/ /\ pc' = [pc EXCEPT ![r] = "idle"]
                 /\ status_table' = Erased(r)
                 /\ result' = [result EXCEPT ![r] = Outcome(r, status)]
        BY <3>7 DEF Wake, Goto
      <4>3. status \in Statuses
        BY <2>0, <4>1, <4>2 DEF StatusOf, transaction_present, Entries, TableOK
      <4>4. Outcome(r, status) # "SUBSCR_ERR_UNKNOWN"
        BY <4>3 DEF Outcome, Statuses
      <4>5. pc[r] = "wait" /\ UNCHANGED text
        BY <3>7 DEF Wake
      <4>6. CASE pc' = [pc EXCEPT ![r] = "start_wait"] /\ UNCHANGED <<status_table, result>>
        BY <2>0, <3>0, <4>5, <4>6 DEF TableInv, EntryInv, InProgress, OneRequestPerId, PcOK
      <4>7. CASE /\ pc' = [pc EXCEPT ![r] = "idle"] /\ status_table' = Erased(r)
                 /\ result' = [result EXCEPT ![r] = Outcome(r, status)]
        <5>1. r \notin DOMAIN status_table'
          BY <4>7 DEF Erased
        <5>2. pc'[r] = "idle" /\ result'[r] # "SUBSCR_ERR_UNKNOWN"
          BY <2>0, <3>0, <4>4, <4>7 DEF PcOK, RestOK
        <5> QED BY <5>1, <5>2 DEF InProgress
      <4> QED BY <4>2, <4>6, <4>7
    <3> QED BY <2>1, <3>3, <3>4, <3>5, <3>6, <3>7 DEF RequesterStep, Requester
  <2>2. ASSUME NEW s \in Responders, ResponderStep(s) PROVE TableInv'
    <3>1. \A q \in Requesters : q \in Threads \ {s}
      BY SubscriptionAssumption DEF Threads
    <3> QED BY <2>2, <3>1, ResponderKeeps
            DEF TableInv, EntryInv, OneRequestPerId, InProgress
  <2>3. CASE UNCHANGED vars
    BY <2>3 DEF TableInv, EntryInv, OneRequestPerId, InProgress, vars
  <2> QED BY <2>1, <2>2, <2>3, NextCases
<1> QED BY <1>1, <1>2, TypeInvHolds, PTL DEF Spec

\* Two requests for one identifier are never in progress together, although the
\* table is keyed by the callers' buffers and the lock is let go in between.
THEOREM OneRequestPerIdCorrect == Spec => []OneRequestPerId
<1>1. TableInv => OneRequestPerId BY DEF TableInv
<1> QED BY <1>1, TableInvHolds, PTL

\* A request finds its entry until it takes it out itself, and so never fails
\* with SUBSCR_ERR_UNKNOWN.
THEOREM OwnEntryCorrect == Spec => []OwnEntryStays
<1>1. TableInv => OwnEntryStays BY DEF TableInv, EntryInv, OwnEntryStays
<1> QED BY <1>1, TableInvHolds, PTL

\* A call that has returned has left nothing of its own in the table.
THEOREM CleanUpCorrect == Spec => []ReturnCleansUp
<1>1. TableInv => ReturnCleansUp BY DEF TableInv, EntryInv, ReturnCleansUp
<1> QED BY <1>1, TableInvHolds, PTL

-----------------------------------------------------------------------------
\* Only the identifiers of responses that have come are marked as successes, and
\* a thread that handles a response holds the identifier of one that has come.
MarkInv ==
  /\ \A k \in DOMAIN status_table :
       status_table[k] = "request_success" => text[k] \in answered
  /\ \A s \in Responders : pc[s] # "idle" => text[me_id[s]] \in answered

AnsweredInv == MarkInv /\ EarlySuccessIsAnswered

LEMMA AnsweredInvHolds == Spec => []AnsweredInv
<1>1. Init => AnsweredInv
  BY DEF Init, AnsweredInv, MarkInv, EarlySuccessIsAnswered
<1>2. TypeInv /\ TableInv /\ AnsweredInv /\ [Next]_vars => AnsweredInv'
  <2> SUFFICES ASSUME TypeInv, TableInv, AnsweredInv, [Next]_vars PROVE AnsweredInv'
    OBVIOUS
  <2>0. PcOK /\ TableOK /\ RestOK
    BY TypeParts DEF TypeInv
  <2>1. ASSUME NEW r \in Requesters, RequesterStep(r) PROVE AnsweredInv'
    <3>0. /\ r \in Keys /\ r \in Threads
          /\ \A s \in Responders : s \in Threads \ {r}
          /\ \A k \in HeapKeys : k \in Keys \ {r}
      BY SubscriptionAssumption DEF Keys, Threads
    <3>1. OthersKept(r) /\ UNCHANGED <<me_id, answered>> /\ \A k \in HeapKeys : text'[k] = text[k]
      BY <2>1, RequesterKeeps
    <3>2. \A k \in Keys \ {r} : text'[k] = text[k]
      BY <3>1 DEF OthersKept, Keys
    <3>3. TableOK'
      <4>1. TableOK' \/ UNCHANGED status_table
        BY <2>0, <2>1, <3>0, PutTable, ErasedTable
           DEF RequesterStep, Requester, Call, Expire, AddEntry, Relock, StartWait,
               Transmit, GiveBack, Wake, Statuses
      <4> QED BY <2>0, <4>1 DEF TableOK
    \* r's own entry and r's own result.
    <3>4. /\ r \in DOMAIN status_table' /\ status_table'[r] = "request_success" =>
               text'[r] \in answered
          /\ result'[r] = "SUBSCR_SUCCESS" /\ r \notin expired' => text'[r] \in answered
      <4>1. CASE \E id \in Ids : Call(r, id)
        BY <2>0, <3>0, <4>1 DEF Call, Goto, RestOK, TableInv, EntryInv, InProgress
      <4>2. CASE AddEntry(r)
        <5>1. CASE status_table' = Put(r, "request_pending") /\ UNCHANGED result
          BY <2>0, <3>0, <4>2, <5>1, PutTable
             DEF AddEntry, AnsweredInv, EarlySuccessIsAnswered, Statuses
        <5>2. CASE result' = [result EXCEPT ![r] = "SUBSCR_ERR_DUPLICATE"]
                   /\ UNCHANGED status_table
          BY <2>0, <3>0, <4>2, <5>2
             DEF AddEntry, AnsweredInv, MarkInv, RestOK
        <5> QED BY <4>2, <5>1, <5>2 DEF AddEntry
      <4>3. CASE Relock(r) \/ StartWait(r) \/ Expire(r)
        BY <4>3 DEF Relock, StartWait, Expire, AnsweredInv, MarkInv, EarlySuccessIsAnswered
      <4>4. CASE Transmit(r)
        <5>1. CASE UNCHANGED <<status_table, result>>
          BY <4>4, <5>1 DEF Transmit, AnsweredInv, MarkInv, EarlySuccessIsAnswered
        <5>2. CASE status_table' = Erased(r)
                   /\ result' = [result EXCEPT ![r] = "SUBSCR_ERR_TX"]
          BY <2>0, <5>2 DEF Erased, RestOK
        <5> QED BY <4>4, <5>1, <5>2 DEF Transmit, GiveBack
      <4>5. CASE Wake(r)
        <5>1. r \in Entries(text[r]) /\ UNCHANGED <<text, expired>>
          BY <4>5 DEF Wake, Entries, TableInv, EntryInv, InProgress
        <5>2. PICK status \in StatusOf(text[r]) :
                \/ UNCHANGED <<status_table, result>>
                \/ /\ status_table' = Erased(r)
                   /\ result' = [result EXCEPT ![r] = Outcome(r, status)]
          BY <4>5 DEF Wake
        <5>3. PICK k \in Entries(text[r]) : status = status_table[k]
          BY <5>1, <5>2 DEF StatusOf, transaction_present
        <5>4. status = "request_success" => text[r] \in answered
          BY <5>3 DEF Entries, AnsweredInv, MarkInv
        <5>5. status \in Statuses
          BY <2>0, <5>3 DEF Entries, TableOK
        <5>6. Outcome(r, status) = "SUBSCR_SUCCESS" /\ r \notin expired =>
                status = "request_success"
          BY <5>5 DEF Outcome, Statuses
        <5>7. CASE UNCHANGED <<status_table, result>>
          BY <5>1, <5>7 DEF AnsweredInv, MarkInv, EarlySuccessIsAnswered
        <5>8. CASE /\ status_table' = Erased(r)
                   /\ result' = [result EXCEPT ![r] = Outcome(r, status)]
          BY <2>0, <5>1, <5>4, <5>6, <5>8 DEF Erased, RestOK
        <5> QED BY <5>2, <5>7, <5>8
      <4> QED BY <2>1, <4>1, <4>2, <4>3, <4>4, <4>5 DEF RequesterStep, Requester
    <3>5. MarkInv'
      <4>1. ASSUME NEW k \in DOMAIN status_table', status_table'[k] = "request_success"
            PROVE  text'[k] \in answered'
        <5>1. k \in Keys BY <3>3, <4>1 DEF TableOK
        <5>2. CASE k = r BY <3>1, <3>4, <4>1, <5>2
        <5>3. CASE k # r
          BY <3>1, <3>2, <4>1, <5>1, <5>3 DEF OthersKept, AnsweredInv, MarkInv
        <5> QED BY <5>2, <5>3
      <4>2. ASSUME NEW s \in Responders, pc'[s] # "idle" PROVE text'[me_id'[s]] \in answered'
        BY <3>0, <3>1, <3>2, <4>2 DEF OthersKept, AnsweredInv, MarkInv, TypeInv, Bounded
      <4> QED BY <4>1, <4>2 DEF MarkInv
    <3>6. EarlySuccessIsAnswered'
      BY <3>1, <3>4 DEF OthersKept, AnsweredInv, EarlySuccessIsAnswered
    <3> QED BY <3>5, <3>6 DEF AnsweredInv
  <2>2. ASSUME NEW s \in Responders, ResponderStep(s) PROVE AnsweredInv'
    <3>0. /\ s \in Threads
          /\ \A q \in Responders \ {s} : q \in Threads \ {s}
      BY DEF Threads
    <3>1. /\ \A u \in Threads \ {s} : pc'[u] = pc[u]
          /\ \A q \in Requesters : text'[q] = text[q]
          /\ UNCHANGED <<expired, result>>
          /\ answered \subseteq answered'
      BY <2>2, ResponderKeeps
    <3>2. EarlySuccessIsAnswered'
      BY <3>1 DEF AnsweredInv, EarlySuccessIsAnswered
    <3>3. CASE \E id \in Ids : Receive(s, id)
      <4>1. PICK id \in Ids : Receive(s, id) BY <3>3
      <4>2. PICK k \in HeapKeys : /\ text' = [text EXCEPT ![k] = id]
                                  /\ me_id' = [me_id EXCEPT ![s] = k]
        BY <4>1 DEF Receive
      <4>3. /\ id \in answered' /\ UNCHANGED status_table
        BY <4>1 DEF Receive
      <4>4. \A e : text[e] \in answered => text'[e] \in answered'
        BY <2>0, <3>1, <4>2, <4>3 DEF RestOK, Keys
      <4>5. text'[me_id'[s]] \in answered'
        BY <2>0, <4>2, <4>3 DEF RestOK, Keys
      <4>6. \A q \in Responders \ {s} : me_id'[q] = me_id[q]
        BY <2>0, <4>2 DEF RestOK
      <4>7. MarkInv'
        BY <3>0, <3>1, <4>3, <4>4, <4>5, <4>6 DEF AnsweredInv, MarkInv
      <4> QED BY <3>2, <4>7 DEF AnsweredInv
    <3>4. CASE IsRequestEntry(s) \/ SetStatus(s) \/ NotifyAll(s)
      <4>1. UNCHANGED <<text, me_id, answered, status_table>> /\ pc[s] # "idle"
        BY <3>4 DEF IsRequestEntry, SetStatus, NotifyAll, Goto
      <4>2. MarkInv'
        BY <3>0, <3>1, <4>1 DEF AnsweredInv, MarkInv
      <4> QED BY <3>2, <4>2 DEF AnsweredInv
    <3>5. CASE PutStatus(s)
      <4>1. /\ UNCHANGED <<text, me_id, answered>> /\ pc[s] # "idle"
            /\ status_table' = Put(me_id[s], "request_success")
        BY <3>5 DEF PutStatus, Goto
      <4>2. \A k \in DOMAIN status_table' :
               \/ k = me_id[s]
               \/ k \in DOMAIN status_table /\ status_table'[k] = status_table[k]
        BY <4>1 DEF Put
      <4>3. MarkInv'
        BY <3>0, <3>1, <4>1, <4>2 DEF AnsweredInv, MarkInv
      <4> QED BY <3>2, <4>3 DEF AnsweredInv
    <3> QED BY <2>2, <3>3, <3>4, <3>5 DEF ResponderStep, Responder
  <2>3. CASE UNCHANGED vars
    BY <2>3 DEF AnsweredInv, MarkInv, EarlySuccessIsAnswered, vars
  <2> QED BY <2>1, <2>2, <2>3, NextCases
<1> QED BY <1>1, <1>2, TypeInvHolds, TableInvHolds, PTL DEF Spec

\* A call that reports success before its time is up has been answered.
THEOREM EarlySuccessCorrect == Spec => []EarlySuccessIsAnswered
<1>1. AnsweredInv => EarlySuccessIsAnswered BY DEF AnsweredInv
<1> QED BY <1>1, AnsweredInvHolds, PTL

-----------------------------------------------------------------------------
\* An identifier that a call is under way for, or was transmitted, has been
\* asked for; with two calls under way, or a call that meets an earlier
\* transmission, it has been asked for twice; what responses bring was sent.
CountInv ==
  /\ \A r \in Requesters : pc[r] # "idle" => requested[text[r]] >= 1
  /\ \A id \in sent : requested[id] >= 1
  /\ \A r, q \in Requesters :
       pc[r] # "idle" /\ pc[q] # "idle" /\ text[r] = text[q] /\ r # q =>
         requested[text[r]] >= 2
  /\ \A r \in Requesters : pc[r] = "add" /\ text[r] \in sent => requested[text[r]] >= 2
  /\ \A k \in HeapKeys : text[k] \in sent \cup {NoOne}

RefusedInv ==
  \A r \in Requesters :
    result[r] = "SUBSCR_ERR_DUPLICATE" => text[r] \in Ids /\ requested[text[r]] >= 2

LEMMA CountInvHolds == Spec => []CountInv
<1>1. Init => CountInv
  BY SubscriptionAssumption DEF Init, CountInv, Keys
<1>2. TypeInv /\ CountInv /\ [Next]_vars => CountInv'
  <2> SUFFICES ASSUME TypeInv, CountInv, [Next]_vars PROVE CountInv'
    OBVIOUS
  <2>0. PcOK /\ TableOK /\ RestOK
    BY TypeParts DEF TypeInv
  <2>1. ASSUME NEW r \in Requesters, RequesterStep(r) PROVE CountInv'
    <3>0. /\ r \in Keys /\ r \in Threads
          /\ \A q \in Requesters \ {r} : q \in Threads \ {r}
      BY DEF Keys, Threads
    <3>1. /\ OthersKept(r)
          /\ \A k \in HeapKeys : text'[k] = text[k]
          /\ sent \subseteq sent'
          /\ \A id \in Ids : requested'[id] >= requested[id]
      BY <2>1, RequesterKeeps
    <3>2. /\ \A id \in Ids : requested[id] \in Nat /\ requested'[id] \in Nat
          /\ \A id \in sent : id \in Ids
          /\ \A q \in Requesters : pc[q] # "idle" => text[q] \in Ids
      <4>1. \A id \in Ids : requested'[id] \in Nat
        BY <2>0, <2>1, SubscriptionAssumption
           DEF RestOK, RequesterStep, Requester, Call, Expire, AddEntry, Relock, StartWait,
               Transmit, Wake
      <4> QED BY <2>0, <4>1, SubscriptionAssumption DEF RestOK, TypeInv, Bounded
    <3>3. \A q \in Requesters \ {r} : pc'[q] = pc[q] /\ text'[q] = text[q]
      BY <3>0, <3>1 DEF OthersKept
    <3>4. ASSUME NEW id \in Ids, Call(r, id) PROVE CountInv'
      <4>1. /\ text'[r] = id /\ pc'[r] = "add"
            /\ requested'[id] = requested[id] + 1 /\ UNCHANGED sent
        BY <2>0, <3>0, <3>4 DEF Call, Goto, RestOK, PcOK
      <4>2. /\ id \in sent => requested'[id] >= 2
            /\ \A q \in Requesters \ {r} :
                 pc[q] # "idle" /\ text[q] = id => requested'[id] >= 2
        BY <3>2, <4>1 DEF CountInv
      <4> QED BY <3>1, <3>2, <3>3, <4>1, <4>2 DEF CountInv
    <3>5. CASE Transmit(r)
      <4>1. /\ UNCHANGED <<text, requested>> /\ pc[r] = "tx" /\ pc'[r] \in {"start_wait", "idle"}
            /\ sent' \subseteq sent \cup {text[r]}
        BY <2>0, <3>0, <3>5 DEF Transmit, Goto, PcOK
      <4>2. \A q \in Requesters : pc'[q] # "idle" => pc[q] # "idle"
        BY <3>3, <4>1
      <4>3. \A q \in Requesters : pc'[q] = "add" => pc[q] = "add" /\ q # r
        BY <3>3, <4>1
      <4> QED BY <3>1, <3>2, <4>1, <4>2, <4>3 DEF CountInv
    <3>6. CASE AddEntry(r) \/ Relock(r) \/ StartWait(r) \/ Expire(r) \/ Wake(r)
      <4>1. /\ UNCHANGED <<text, requested, sent>>
            /\ pc'[r] # "idle" => pc[r] # "idle"
            /\ pc'[r] = "add" => pc[r] = "add"
        BY <2>0, <3>0, <3>6
           DEF AddEntry, Relock, StartWait, Expire, Wake, Goto, PcOK
      <4> QED BY <3>3, <4>1 DEF CountInv
    <3> QED BY <2>1, <3>4, <3>5, <3>6 DEF RequesterStep, Requester
  <2>2. ASSUME NEW s \in Responders, ResponderStep(s) PROVE CountInv'
    <3>1. \A q \in Requesters : q \in Threads \ {s}
      BY SubscriptionAssumption DEF Threads
    <3>2. \A q \in Requesters : pc'[q] = pc[q] /\ text'[q] = text[q]
      BY <2>2, <3>1, ResponderKeeps
    <3>3. UNCHANGED <<requested, sent>>
      BY <2>2, ResponderKeeps
    <3>4. \A k \in HeapKeys : text'[k] \in sent \cup {NoOne}
      <4>1. UNCHANGED text \/ \E k \in HeapKeys, id \in sent : text' = [text EXCEPT ![k] = id]
        BY <2>2 DEF ResponderStep, Responder, Receive, IsRequestEntry, SetStatus, PutStatus,
                    NotifyAll
      <4> QED BY <2>0, <4>1 DEF CountInv, RestOK, Keys
    <3> QED BY <3>2, <3>3, <3>4 DEF CountInv
  <2>3. CASE UNCHANGED vars
    BY <2>3 DEF CountInv, vars
  <2> QED BY <2>1, <2>2, <2>3, NextCases
<1> QED BY <1>1, <1>2, TypeInvHolds, PTL DEF Spec

\* The first request for an identifier is never refused: an entry that matches
\* it is another caller's or was left by a response, and both were asked for.
THEOREM FirstNotRefusedCorrect == Spec => []FirstNotRefused
<1>1. Init => RefusedInv
  BY DEF Init, RefusedInv
<1>2. TypeInv /\ TableInv /\ CountInv /\ RefusedInv /\ [Next]_vars => RefusedInv'
  <2> SUFFICES ASSUME TypeInv, TableInv, CountInv, RefusedInv, [Next]_vars
               PROVE  RefusedInv'
    OBVIOUS
  <2>0. PcOK /\ TableOK /\ RestOK
    BY TypeParts DEF TypeInv
  <2>1. ASSUME NEW r \in Requesters, RequesterStep(r) PROVE RefusedInv'
    <3>0. r \in Keys
      BY DEF Keys
    <3>1. /\ \A id \in Ids : requested'[id] >= requested[id]
          /\ \A q \in Requesters \ {r} : text'[q] = text[q] /\ result'[q] = result[q]
      BY <2>1, RequesterKeeps DEF OthersKept
    <3>2. \A id \in Ids : requested[id] \in Nat /\ requested'[id] \in Nat
      BY <2>0, <2>1, SubscriptionAssumption
         DEF RestOK, RequesterStep, Requester, Call, Expire, AddEntry, Relock, StartWait,
             Transmit, Wake
    <3>3. CASE AddEntry(r) /\ transaction_present(text[r])
      <4>1. UNCHANGED <<text, requested>> /\ pc[r] = "add" /\ text[r] \in Ids
        BY <3>3 DEF AddEntry, Goto, TypeInv, Bounded
      <4>2. PICK k \in DOMAIN status_table : text[k] = text[r]
        BY <3>3 DEF transaction_present, Entries
      <4>3. requested[text[r]] >= 2
        <5>1. CASE k \in HeapKeys
          BY <4>1, <4>2, <5>1, SubscriptionAssumption DEF CountInv
        <5>2. CASE k \in Requesters
          <6>1. pc[k] # "idle" /\ k # r
            BY <4>1, <4>2, <5>2 DEF TableInv, EntryInv, InProgress
          <6> QED BY <4>1, <4>2, <5>2, <6>1 DEF CountInv
        <5> QED BY <2>0, <5>1, <5>2 DEF TableOK, Keys
      <4> QED BY <3>1, <3>2, <4>1, <4>3 DEF RefusedInv
    <3>4. CASE ~(AddEntry(r) /\ transaction_present(text[r]))
      <4>1. \/ result'[r] # "SUBSCR_ERR_DUPLICATE"
            \/ UNCHANGED <<text, result>>
        <5>1. CASE \E id \in Ids : Call(r, id)
          BY <2>0, <5>1 DEF Call, RestOK
        <5>2. CASE AddEntry(r)
          BY <3>4, <5>2 DEF AddEntry
        <5>3. CASE Relock(r) \/ StartWait(r) \/ Expire(r)
          BY <5>3 DEF Relock, StartWait, Expire
        <5>4. CASE Transmit(r)
          BY <2>0, <5>4 DEF Transmit, RestOK
        <5>5. CASE Wake(r)
          <6>1. PICK status \in StatusOf(text[r]) :
                  UNCHANGED result \/ result' = [result EXCEPT ![r] = Outcome(r, status)]
            BY <5>5 DEF Wake
          <6>2. status \in Statuses \cup {"absent"}
            BY <2>0, <6>1 DEF StatusOf, Entries, TableOK
          <6>3. Outcome(r, status) # "SUBSCR_ERR_DUPLICATE"
            BY <6>2 DEF Outcome, Statuses
          <6>4. UNCHANGED text
            BY <5>5 DEF Wake
          <6> QED BY <2>0, <6>1, <6>3, <6>4 DEF RestOK
        <5> QED BY <2>1, <5>1, <5>2, <5>3, <5>4, <5>5 DEF RequesterStep, Requester
      <4> QED BY <3>1, <3>2, <4>1 DEF RefusedInv
    <3> QED BY <3>3, <3>4
  <2>2. ASSUME NEW s \in Responders, ResponderStep(s) PROVE RefusedInv'
    BY <2>2, ResponderKeeps DEF RefusedInv
  <2>3. CASE UNCHANGED vars
    BY <2>3 DEF RefusedInv, vars
  <2> QED BY <2>1, <2>2, <2>3, NextCases
<1>3. TypeInv /\ RefusedInv => FirstNotRefused
  BY DEF RefusedInv, FirstNotRefused, TypeInv, TypeOK
<1> QED BY <1>1, <1>2, <1>3, TypeInvHolds, TableInvHolds, CountInvHolds, PTL DEF Spec
=============================================================================
