------------------------ MODULE SubscriptionHandler ------------------------
(***************************************************************************)
(* The xApp's subscription table (xapp-mgmt/subs_mgmt.{hpp,cc}): threads   *)
(* that subscribe run manage_subscription_request, the RMR receiver        *)
(* threads run manage_subscription_response.                               *)
(*                                                                         *)
(* status_table is keyed by POINTER (transaction_identifier is an          *)
(* unsigned char pointer), but membership is decided by the bytes pointed  *)
(* to.  A requester's pointer is a buffer of its own that it refills for   *)
(* every call; the responder's is a fresh allocation of rmr_get_meid.      *)
(* Requesters hold _data_lock, responders take no lock.                    *)
(*                                                                         *)
(* trans_table is written and erased along with status_table and never     *)
(* read for a decision; it is left out.                                    *)
(***************************************************************************)
EXTENDS Naturals, FiniteSets

CONSTANTS
  Requesters,    \* subscribing threads, each named by its identifier buffer
  Responders,    \* RMR receiver threads
  HeapKeys,      \* the buffers rmr_get_meid may ever allocate (a bound)
  Ids,           \* the identifiers (MEIDs of gNBs)
  NoOne,         \* _data_lock is free; also: a thread handles no message
  MaxRequests,   \* bound on the calls of all requesters together
  MaxResponses   \* bound on the responses the network delivers

Keys == Requesters \cup HeapKeys

ASSUME SubscriptionAssumption ==
  /\ Requesters \cap HeapKeys = {} /\ Requesters \cap Responders = {}
  /\ NoOne \notin Requesters /\ NoOne \notin Ids /\ NoOne \notin Keys
  /\ MaxRequests \in Nat /\ MaxResponses \in Nat

Statuses == {"request_pending", "request_success"}
Results  == {"none", "SUBSCR_SUCCESS", "SUBSCR_ERR_TX", "SUBSCR_ERR_UNKNOWN",
             "SUBSCR_ERR_DUPLICATE"}

VARIABLES
  text,          \* text[k]: the identifier in buffer k, or NoOne
  status_table,  \* [k |-> status] for the keys k in the table
  data_lock,     \* the requester that holds _data_lock, or NoOne
  pc,            \* where each thread is
  notified,      \* waiting requesters that notify_all has woken
  expired,       \* requesters whose _time_out has passed since "start"
  result,        \* what each requester's last call returned
  me_id,         \* me_id[s]: the buffer of the response that s handles
  requested,     \* history: requested[id]: calls that have been made for id
  sent,          \* history: identifiers whose request was transmitted
  answered,      \* history: identifiers a response has been received for
  requests, responses   \* calls made, responses delivered

vars == <<text, status_table, data_lock, pc, notified, expired, result, me_id,
          requested, sent, answered, requests, responses>>

Init ==
  /\ text = [k \in Keys |-> NoOne]
  /\ status_table = [k \in {} |-> "request_pending"]
  /\ data_lock = NoOne
  /\ pc = [t \in Requesters \cup Responders |-> "idle"]
  /\ notified = {} /\ expired = {}
  /\ result = [r \in Requesters |-> "none"]
  /\ me_id = [s \in Responders |-> NoOne]
  /\ requested = [id \in Ids |-> 0]
  /\ sent = {} /\ answered = {}
  /\ requests = 0 /\ responses = 0

Goto(t, from, to) == pc[t] = from /\ pc' = [pc EXCEPT ![t] = to]

\* find_transaction and transaction_present: the entries whose bytes are id's.
Entries(id) == {k \in DOMAIN status_table : text[k] = id}
\* Mutants: the key itself is looked up, not the bytes; any entry will do.
PresentByKey(id) == id \in DOMAIN status_table
PresentIfAny(id) == DOMAIN status_table # {}

transaction_present(id) == Entries(id) # {}

\* Mutants: the status is stored under the identifier; the entry moves to key k.
PutUnderId(k, status) ==
  [e \in DOMAIN status_table \cup {text[k]} |-> IF e = text[k] THEN status ELSE status_table[e]]
PutMoves(k, status) ==
  [e \in (DOMAIN status_table \ Entries(text[k])) \cup {k} |->
     IF e = k THEN status ELSE status_table[e]]

\* status_table[k] = status, which adds k when k itself is not a key.
Put(k, status) ==
  [e \in DOMAIN status_table \cup {k} |-> IF e = k THEN status ELSE status_table[e]]
Erased(k) == [e \in DOMAIN status_table \ {k} |-> status_table[e]]

-----------------------------------------------------------------------------
(* manage_subscription_request                                               *)

\* The caller fills its buffer with id and calls.
Call(r, id) ==
  /\ requests < MaxRequests
  /\ Goto(r, "idle", "add")
  /\ text' = [text EXCEPT ![r] = id]
  /\ requested' = [requested EXCEPT ![id] = @ + 1]
  /\ requests' = requests + 1
  /\ result' = [result EXCEPT ![r] = "none"]
  /\ expired' = expired \ {r}
  /\ UNCHANGED <<status_table, data_lock, notified, me_id, sent, answered, responses>>

\* add_request_entry under the lock, which the block's end releases.
AddEntry(r) ==
  /\ data_lock = NoOne
  /\ \/ /\ transaction_present(text[r])
        /\ Goto(r, "add", "idle")
        /\ result' = [result EXCEPT ![r] = "SUBSCR_ERR_DUPLICATE"]
        /\ UNCHANGED status_table
     \/ /\ ~transaction_present(text[r])
        /\ Goto(r, "add", "relock")
        /\ status_table' = Put(r, "request_pending")
        /\ UNCHANGED result
  /\ UNCHANGED <<text, data_lock, notified, expired, me_id, requested, sent, answered,
                 requests, responses>>

Relock(r) ==
  /\ data_lock = NoOne /\ data_lock' = r
  /\ Goto(r, "relock", "tx")
  /\ UNCHANGED <<text, status_table, notified, expired, result, me_id, requested, sent,
                 answered, requests, responses>>

\* Mutants: a failed transmission leaves the entry; or the lock.
GiveBackLock(r)  == data_lock' = NoOne /\ UNCHANGED status_table
GiveBackEntry(r) == status_table' = Erased(r) /\ UNCHANGED data_lock

GiveBack(r) == status_table' = Erased(r) /\ data_lock' = NoOne

\* tx(); a failure clears the entry and returns.
Transmit(r) ==
  /\ pc[r] = "tx"
  /\ \/ /\ Goto(r, "tx", "start_wait")
        /\ sent' = sent \cup {text[r]}
        /\ UNCHANGED <<status_table, data_lock, result>>
     \/ /\ Goto(r, "tx", "idle")
        /\ GiveBack(r)
        /\ result' = [result EXCEPT ![r] = "SUBSCR_ERR_TX"]
        /\ UNCHANGED sent
  /\ UNCHANGED <<text, notified, expired, me_id, requested, answered, requests, responses>>

\* wait_for: release the lock and join the waiters.
StartWait(r) ==
  /\ Goto(r, "start_wait", "wait")
  /\ data_lock' = NoOne
  /\ notified' = notified \ {r}
  /\ UNCHANGED <<text, status_table, expired, result, me_id, requested, sent, answered,
                 requests, responses>>

\* The clock: _time_out has passed since the transmission.
Expire(r) ==
  /\ pc[r] \in {"start_wait", "wait"} /\ r \notin expired
  /\ expired' = expired \cup {r}
  /\ UNCHANGED <<text, status_table, data_lock, pc, notified, result, me_id, requested,
                 sent, answered, requests, responses>>

\* Woken (also spuriously) and the lock reacquired: get_request_status, which
\* looks at whichever of the matching entries comes first, then act on it.
StatusOf(id) == IF transaction_present(id)
                THEN {status_table[k] : k \in Entries(id)} ELSE {"absent"}

\* Mutant: a request that is still pending counts as a success.
OutcomePendingIsSuccess(r, status) ==
  IF status = "absent" THEN "SUBSCR_ERR_UNKNOWN" ELSE "SUBSCR_SUCCESS"

Outcome(r, status) ==
  CASE status = "request_success"                    -> "SUBSCR_SUCCESS"
    [] status = "request_pending" /\ r \in expired   -> "SUBSCR_SUCCESS"
    [] status = "request_pending" /\ r \notin expired -> "none"
    [] status = "absent"                             -> "SUBSCR_ERR_UNKNOWN"

Wake(r) ==
  /\ pc[r] = "wait" /\ data_lock = NoOne
  /\ \E status \in StatusOf(text[r]) :
       \/ /\ Outcome(r, status) = "none"
          /\ data_lock' = r
          /\ Goto(r, "wait", "start_wait")
          /\ UNCHANGED <<status_table, result>>
       \/ /\ Outcome(r, status) # "none"
          /\ status_table' = Erased(r)
          /\ result' = [result EXCEPT ![r] = Outcome(r, status)]
          /\ Goto(r, "wait", "idle")
          /\ UNCHANGED data_lock
  /\ UNCHANGED <<text, notified, expired, me_id, requested, sent, answered,
                 requests, responses>>

Requester(r) == AddEntry(r) \/ Relock(r) \/ Transmit(r) \/ StartWait(r) \/ Wake(r)

-----------------------------------------------------------------------------
(* manage_subscription_response                                              *)

\* A response to a transmitted request, late or duplicated, in a new buffer.
Receive(s, id) ==
  /\ responses < MaxResponses
  /\ Goto(s, "idle", "present")
  /\ id \in sent /\ answered' = answered \cup {id}
  /\ \E k \in HeapKeys :
       /\ text[k] = NoOne
       /\ text' = [text EXCEPT ![k] = id]
       /\ me_id' = [me_id EXCEPT ![s] = k]
  /\ responses' = responses + 1
  /\ UNCHANGED <<status_table, data_lock, notified, expired, result, requested, sent,
                 requests>>

IsRequestEntry(s) ==
  /\ Goto(s, "present", IF transaction_present(text[me_id[s]]) THEN "set" ELSE "idle")
  /\ UNCHANGED <<text, status_table, data_lock, notified, expired, result, me_id,
                 requested, sent, answered, requests, responses>>

\* set_request_status looks the identifier up again, then writes.
SetStatus(s) ==
  /\ Goto(s, "set", IF transaction_present(text[me_id[s]]) THEN "put" ELSE "notify")
  /\ UNCHANGED <<text, status_table, data_lock, notified, expired, result, me_id,
                 requested, sent, answered, requests, responses>>

PutStatus(s) ==
  /\ Goto(s, "put", "notify")
  /\ status_table' = Put(me_id[s], "request_success")
  /\ UNCHANGED <<text, data_lock, notified, expired, result, me_id, requested, sent,
                 answered, requests, responses>>

NotifyAll(s) ==
  /\ Goto(s, "notify", "idle")
  /\ notified' = notified \cup {r \in Requesters : pc[r] = "wait"}
  /\ UNCHANGED <<text, status_table, data_lock, expired, result, me_id, requested, sent,
                 answered, requests, responses>>

Responder(s) == IsRequestEntry(s) \/ SetStatus(s) \/ PutStatus(s) \/ NotifyAll(s)

Next ==
  \/ \E r \in Requesters : Requester(r) \/ Expire(r) \/ \E id \in Ids : Call(r, id)
  \/ \E s \in Responders : Responder(s) \/ \E id \in Ids : Receive(s, id)

\* A waiter returns from wait_for when it is notified or its time is up; an
\* earlier, spurious return is possible and never owed.
WakeDue(r) == (r \in notified \/ r \in expired) /\ Wake(r)

Fairness ==
  /\ \A r \in Requesters :
       /\ WF_vars(AddEntry(r) \/ Relock(r) \/ Transmit(r) \/ StartWait(r))
       /\ WF_vars(WakeDue(r)) /\ WF_vars(Expire(r))
  /\ \A s \in Responders : WF_vars(Responder(s))

Spec     == Init /\ [][Next]_vars
FairSpec == Spec /\ Fairness

-----------------------------------------------------------------------------
RequesterLabels == {"idle", "add", "relock", "tx", "start_wait", "wait"}
ResponderLabels == {"idle", "present", "set", "put", "notify"}

TypeOK ==
  /\ text \in [Keys -> Ids \cup {NoOne}]
  /\ DOMAIN status_table \subseteq Keys
  /\ status_table \in [DOMAIN status_table -> Statuses]
  /\ data_lock \in Requesters \cup {NoOne}
  /\ DOMAIN pc = Requesters \cup Responders
  /\ \A r \in Requesters : pc[r] \in RequesterLabels
  /\ \A s \in Responders : pc[s] \in ResponderLabels
  /\ notified \subseteq Requesters /\ expired \subseteq Requesters
  /\ result \in [Requesters -> Results]
  /\ me_id \in [Responders -> HeapKeys \cup {NoOne}]
  /\ requested \in [Ids -> 0..MaxRequests]
  /\ sent \subseteq Ids /\ answered \subseteq Ids
  /\ requests \in 0..MaxRequests /\ responses \in 0..MaxResponses

InProgress(r) == pc[r] \in {"relock", "tx", "start_wait", "wait"}

\* Two requests for one identifier are never in progress together, although the
\* table's keys are the callers' different buffers and the lock is let go
\* between the entry and the transmission ("request with identical key already
\* present").
OneRequestPerId ==
  \A r, s \in Requesters :
    InProgress(r) /\ InProgress(s) /\ text[r] = text[s] => r = s

\* A request finds its entry in the table until it takes it out itself: nobody
\* else's deletion or timeout, and no response, removes it, so that no request
\* fails with SUBSCR_ERR_UNKNOWN.
OwnEntryStays ==
  /\ \A r \in Requesters : InProgress(r) => r \in DOMAIN status_table
  /\ \A r \in Requesters : result[r] # "SUBSCR_ERR_UNKNOWN"

\* A call that reports success before its time is up has been answered.
EarlySuccessIsAnswered ==
  \A r \in Requesters :
    result[r] = "SUBSCR_SUCCESS" /\ r \notin expired => text[r] \in answered

\* The first request for an identifier is never refused as a duplicate (main goes
\* through its list of gNBs once): late and repeated responses to requests for
\* other identifiers, and the entries they leave behind, never match it.
FirstNotRefused ==
  \A r \in Requesters : result[r] = "SUBSCR_ERR_DUPLICATE" => requested[text[r]] > 1

\* Nothing is left of a requester's call in the table once it has returned.
ReturnCleansUp ==
  \A r \in Requesters : r \in DOMAIN status_table => InProgress(r)

\* Every call returns: a wakeup that is lost costs the timeout, not more.
RequestReturns == \A r \in Requesters : pc[r] = "add" ~> pc[r] = "idle"
=============================================================================
