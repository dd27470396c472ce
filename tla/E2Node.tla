------------------------------- MODULE E2Node -------------------------------
(***************************************************************************)
(* The simulator as an E2 node: per gNB an E2Termination with the detached *)
(* e2sim thread that it starts (SCTP association, E2AP handlers, the       *)
(* callbacks of the mmWave device), and the thread in Simulator::Run, whose*)
(* events build the periodic reports.  The RIC is the environment.         *)
(***************************************************************************)
EXTENDS EventList

CONSTANTS
  Period,        \* m_e2Periodicity, in units of SaveActiveUes' 10 ms
  Quiet,         \* gNBs with m_sendCuUp, m_sendCuCp and m_sendDu off
  MaxMessages,   \* bound: messages from the RIC
  MaxLosses      \* bound: associations that the RIC ends or that fail

VARIABLES
  process,              \* "running", "over" (Run returned) or "died"
  epc,                  \* where each e2sim thread is
  client_fd,            \* E2Sim::client_fd
  table,                \* the process's socket descriptors: whose association
  m_isReportingEnabled,
  lost,                 \* associations whose other end is gone
  key,                  \* the key a foreign ScheduleNow has computed
  received, losses,     \* counters for the bounds
  reported,             \* <<association, cell>> of the indications sent
  raced                 \* a foreign ScheduleNow used a key that was out of date, or whose
                        \* time was about to pass

nodeVars == <<process, epc, client_fd, table, m_isReportingEnabled, lost, key,
              received, losses, reported, raced>>
vars == <<eventVars, nodeVars>>

ASSUME PeriodAssumption == Period \in Nat \ {0}
ASSUME QuietAssumption == Quiet \subseteq Gnbs
ASSUME FiniteAssumption == IsFiniteSet(Gnbs)
ASSUME BoundsAssumption == MaxMessages \in Nat /\ MaxLosses \in Nat

Fds    == 1..Cardinality(Gnbs)
NoFd   == 0
NoOne  == -2
NoKey  == [ts |-> 0, uid |-> 0]
EpcSet == {"off", "connect", "setup", "recv", "respond", "report", "handover",
           "key", "schedule", "reply", "ended"}

Running == process = "running"

\* UpdateConfig of every device, cell after cell, and the scenario's Stop: what
\* the list holds when Run is called.  uid is m_uid less its first value.
Rank(g) == Cardinality({h \in Gnbs : h < g})
Configured(g) == {[ts |-> 0, uid |-> 2 * Rank(g), kind |-> "start", g |-> g],
                  [ts |-> 1, uid |-> 2 * Rank(g) + 1, kind |-> "save", g |-> g]}
StopEvent == [ts |-> Horizon, uid |-> 2 * Cardinality(Gnbs), kind |-> "stop", g |-> Scenario]

Init ==
  /\ m_events = (UNION {Configured(g) : g \in Gnbs}) \cup {StopEvent}
  /\ m_eventsWithContext = <<>> /\ m_eventsWithContextEmpty = TRUE
  /\ m_currentTs = 0 /\ m_uid = 2 * Cardinality(Gnbs) + 1 /\ m_stop = FALSE
  /\ spc = "check" /\ swapped = <<>> /\ next = StopEvent
  /\ process = "running"
  /\ epc = [g \in Gnbs |-> "off"]
  /\ client_fd = [g \in Gnbs |-> NoFd]
  /\ table = [f \in Fds |-> NoOne]
  /\ m_isReportingEnabled = [g \in Gnbs |-> FALSE]
  /\ lost = {}
  /\ key = [g \in Gnbs |-> NoKey]
  /\ received = 0 /\ losses = 0
  /\ reported = {}
  /\ raced = FALSE

-----------------------------------------------------------------------------
\* Sending.

\* send() reaches whatever association has the descriptor's number now.
Reaches(g) == IF client_fd[g] = NoFd THEN NoOne ELSE table[client_fd[g]]

\* It succeeds, also when the other end has gone and that is not known yet.
CanSend(g) == Reaches(g) # NoOne

\* On a closed descriptor, or once the loss is known, send returns -1 (or raises
\* SIGPIPE): sctp_send_data calls exit for the whole process.
CannotSend(g) == Reaches(g) = NoOne \/ Reaches(g) \in lost
Dies == process' = "died"

\* The indications of a report, one after the other on one socket: none if all three
\* kinds are switched off, and then nothing can fail.
SendReport(g) ==
  \/ /\ g \notin Quiet /\ CanSend(g)
     /\ reported' = reported \cup {<<Reaches(g), g>>}
     /\ UNCHANGED process
  \/ /\ g \in Quiet
     /\ UNCHANGED <<process, reported>>

CannotReport(g) == g \notin Quiet /\ CannotSend(g)

-----------------------------------------------------------------------------
\* The thread in Run(): what its events do.
Invoke ==
  /\ spc = "invoke"
  /\ spc' = "check"
  /\ UNCHANGED <<m_eventsWithContext, m_eventsWithContextEmpty, m_currentTs, swapped, next>>

\* E2Termination::Start makes a detached thread.
StartE2 ==
  /\ next.kind = "start"
  /\ epc' = [epc EXCEPT ![next.g] = "connect"]
  /\ UNCHANGED <<m_events, m_uid, m_stop, process, reported>>

SaveActiveUes ==
  /\ next.kind = "save"
  /\ Schedule(1, "save", next.g)
  /\ UNCHANGED <<m_stop, process, epc, reported>>

BuildAndSendReportMessage ==
  /\ next.kind = "report"
  /\ \/ /\ SendReport(next.g)
        /\ Schedule(Period, "report", next.g)
     \/ /\ CannotReport(next.g)
        /\ Dies
        /\ UNCHANGED <<m_events, m_uid, reported>>
  /\ UNCHANGED <<m_stop, epc>>

\* The lambdas of ApplySimpleCommand: parameters of a device, or Simulator::Stop.
Command ==
  /\ next.kind = "command"
  /\ m_stop' \in {m_stop, TRUE}
  /\ UNCHANGED <<m_events, m_uid, process, epc, reported>>

Stop ==
  /\ next.kind = "stop"
  /\ m_stop' = TRUE
  /\ UNCHANGED <<m_events, m_uid, process, epc, reported>>

EventCalls == StartE2 \/ SaveActiveUes \/ BuildAndSendReportMessage \/ Command \/ Stop

Main ==
  \/ /\ Invoke
     /\ EventCalls
     /\ UNCHANGED <<client_fd, table, m_isReportingEnabled, lost, key, received, losses, raced>>
  \/ /\ RunStep
     /\ process' = IF spc' = "done" THEN "over" ELSE process
     /\ UNCHANGED <<epc, client_fd, table, m_isReportingEnabled, lost, key, received,
                    losses, reported, raced>>

-----------------------------------------------------------------------------
\* The e2sim thread of a gNB.
Goes(g, from, to) == epc[g] = from /\ epc' = [epc EXCEPT ![g] = to]

\* sctp_start_client; any failure is exit(EXIT_FAILURE).  The descriptor is the
\* lowest free number.
Connect(g) ==
  /\ Goes(g, "connect", "setup")
  /\ \/ \E f \in Fds :
          /\ table[f] = NoOne /\ \A e \in Fds : e < f => table[e] # NoOne
          /\ table' = [table EXCEPT ![f] = g]
          /\ client_fd' = [client_fd EXCEPT ![g] = f]
          /\ UNCHANGED <<process, losses>>
     \/ /\ losses < MaxLosses
        /\ losses' = losses + 1
        /\ Dies
        /\ UNCHANGED <<table, client_fd>>
  /\ UNCHANGED <<eventVars, m_isReportingEnabled, lost, key, received, reported, raced>>

\* E2 setup request, subscription response and every other reply: sent, or the
\* process dies.
Sends(g, from, to) ==
  /\ Goes(g, from, to)
  /\ \/ CanSend(g) /\ UNCHANGED process
     \/ CannotSend(g) /\ Dies
  /\ UNCHANGED <<eventVars, client_fd, table, m_isReportingEnabled, lost, key, received,
                 losses, reported, raced>>

\* e2ap_handle_sctp_data: a subscription request (8), a control request (4), or what
\* is only replied to: an unknown command, a service query, E2 setup and error
\* indication as requests.  Reset, subscription delete and all outcomes are logged and
\* change nothing: no message stops the reports.
Receive(g) ==
  /\ received < MaxMessages
  /\ received' = received + 1
  /\ \/ Goes(g, "recv", "respond")
     \/ Goes(g, "recv", "key")
     \/ Goes(g, "recv", "reply")
  /\ UNCHANGED <<eventVars, process, client_fd, table, m_isReportingEnabled, lost, key,
                 losses, reported, raced>>

\* Mutant: close() and client_fd = -1.
PeerClosedResets(g) ==
  /\ g \in lost
  /\ Goes(g, "recv", "ended")
  /\ table' = [table EXCEPT ![client_fd[g]] = NoOne]
  /\ client_fd' = [client_fd EXCEPT ![g] = -1]
  /\ UNCHANGED <<eventVars, process, m_isReportingEnabled, lost, key, received, losses,
                 reported, raced>>

\* Mutant: the thread connects again.
PeerClosedReconnects(g) ==
  /\ g \in lost
  /\ Goes(g, "recv", "connect")
  /\ table' = [table EXCEPT ![client_fd[g]] = NoOne]
  /\ UNCHANGED <<eventVars, process, client_fd, m_isReportingEnabled, lost, key, received,
                 losses, reported, raced>>

\* recv() == 0: the descriptor is closed, client_fd keeps its number, the thread ends.
PeerClosed(g) ==
  /\ g \in lost
  /\ Goes(g, "recv", "ended")
  /\ table' = [table EXCEPT ![client_fd[g]] = NoOne]
  /\ UNCHANGED <<eventVars, process, client_fd, m_isReportingEnabled, lost, key, received,
                 losses, reported, raced>>

\* recv() == -1.
RecvFails(g) ==
  /\ g \in lost
  /\ epc[g] = "recv"
  /\ Dies
  /\ UNCHANGED <<eventVars, epc, client_fd, table, m_isReportingEnabled, lost, key, received,
                 losses, reported, raced>>

\* KpmSubscriptionCallback: the response, then the first report if there was none.
Respond(g) == Sends(g, "respond", IF m_isReportingEnabled[g] THEN "recv" ELSE "report")

FirstReport(g) ==
  /\ Goes(g, "report", "handover")
  /\ \/ SendReport(g)
     \/ CannotReport(g) /\ Dies /\ UNCHANGED reported
  /\ UNCHANGED <<eventVars, client_fd, table, m_isReportingEnabled, lost, key, received,
                 losses, raced>>

\* Mutant: the flag stays off, so that the next subscription starts a second cycle.
EnableReportingForgotten(g) ==
  /\ Goes(g, "handover", "recv")
  /\ HandOver(Period, "report", g)
  /\ UNCHANGED <<m_events, m_currentTs, m_uid, m_stop, spc, swapped, next, process, client_fd,
                 table, m_isReportingEnabled, lost, key, received, losses, reported, raced>>

\* The end of BuildAndSendReportMessage and of the callback.
EnableReporting(g) ==
  /\ Goes(g, "handover", "recv")
  /\ HandOver(Period, "report", g)
  /\ m_isReportingEnabled' = [m_isReportingEnabled EXCEPT ![g] = TRUE]
  /\ UNCHANGED <<m_events, m_currentTs, m_uid, m_stop, spc, swapped, next, process, client_fd,
                 table, lost, key, received, losses, reported, raced>>

\* ApplySimpleCommand calls ScheduleNow on this thread, which no lock orders with
\* the thread in Run(): it reads time and uid ...
ForeignKey(g) ==
  /\ Goes(g, "key", "schedule")
  /\ key' = [key EXCEPT ![g] = [ts |-> m_currentTs, uid |-> m_uid]]
  /\ UNCHANGED <<eventVars, process, client_fd, table, m_isReportingEnabled, lost, received,
                 losses, reported, raced>>

\* The key is not the one that the thread in Run() would compute now, or the event that
\* this thread has just removed is later: what goes in is then in the past.
OutOfDate(g) ==
  \/ key[g] # [ts |-> m_currentTs, uid |-> m_uid]
  \/ spc = "removed" /\ next.ts # m_currentTs

\* ... and inserts.  m_uid++ writes the value read or the present one, plus one; the
\* two threads' changes of the map may also collide and end the process.
ForeignInsert(g) ==
  /\ Goes(g, "schedule", "reply")
  /\ m_events' = Inserted(m_events, [ts |-> key[g].ts, uid |-> key[g].uid,
                                     kind |-> "command", g |-> g])
  /\ m_uid' \in {key[g].uid + 1, m_uid + 1}
  /\ raced' = (raced \/ OutOfDate(g))
  /\ key' = [key EXCEPT ![g] = NoKey]
  /\ process' \in {"running", "died"}
  /\ UNCHANGED <<m_eventsWithContext, m_eventsWithContextEmpty, m_currentTs, m_stop, spc,
                 swapped, next, client_fd, table, m_isReportingEnabled, lost, received,
                 losses, reported>>

E2Thread(g) ==
  \/ Connect(g) \/ Sends(g, "setup", "recv")
  \/ Receive(g) \/ PeerClosed(g) \/ RecvFails(g)
  \/ Respond(g) \/ FirstReport(g) \/ EnableReporting(g)
  \/ ForeignKey(g) \/ ForeignInsert(g) \/ Sends(g, "reply", "recv")

\* The RIC, or the network, ends an association.
Lose(g) ==
  /\ losses < MaxLosses
  /\ losses' = losses + 1
  /\ g \notin lost /\ \E f \in Fds : table[f] = g
  /\ lost' = lost \cup {g}
  /\ UNCHANGED <<eventVars, process, epc, client_fd, table, m_isReportingEnabled, key,
                 received, reported, raced>>

Next == Running /\ (Main \/ \E g \in Gnbs : E2Thread(g) \/ Lose(g))

Spec == Init /\ [][Next]_vars

-----------------------------------------------------------------------------
TypeOK ==
  /\ m_events \subseteq Event
  /\ m_eventsWithContext \in Seq(Handed) /\ swapped \in Seq(Handed)
  /\ m_eventsWithContextEmpty \in BOOLEAN /\ m_stop \in BOOLEAN /\ raced \in BOOLEAN
  /\ m_currentTs \in Nat /\ m_uid \in Nat
  /\ spc \in {"check", "swap", "insert", "loop", "removed", "invoke", "done"}
  /\ next \in Event
  /\ process \in {"running", "over", "died"}
  /\ epc \in [Gnbs -> EpcSet]
  /\ client_fd \in [Gnbs -> Fds \cup {NoFd}]
  /\ table \in [Fds -> Gnbs \cup {NoOne}]
  /\ m_isReportingEnabled \in [Gnbs -> BOOLEAN]
  /\ lost \subseteq Gnbs
  /\ key \in [Gnbs -> [ts : Nat, uid : Nat]]
  /\ received \in 0..MaxMessages /\ losses \in 0..MaxLosses
  /\ reported \subseteq Gnbs \X Gnbs

\* Where a gNB's next report may be: on its e2sim thread, in the two queues, in the
\* list, or being built.
ReportOf(q, g) == {i \in DOMAIN q : q[i].kind = "report" /\ q[i].g = g}
Places(g) ==
  {<<"thread", 0>> : x \in {h \in {g} : epc[h] = "handover"}}
  \cup {<<"handed", i>> : i \in ReportOf(m_eventsWithContext, g)}
  \cup {<<"swapped", i>> : i \in ReportOf(swapped, g)}
  \cup {<<"list", e>> : e \in {f \in m_events : f.kind = "report" /\ f.g = g}}
  \cup {<<"invoked", 0>> : x \in {h \in {g} : spc \in {"removed", "invoke"}
                                                /\ next.kind = "report" /\ next.g = h}}

\* BuildAndSendReportMessage reschedules itself: a gNB has one cycle of reports however
\* many subscriptions come, and while the simulation runs the cycle is not lost on its
\* way from the e2sim thread to the list, unless a foreign ScheduleNow was out of date.
OneReportCycle ==
  \A g \in Gnbs :
    /\ \A p, q \in Places(g) : p = q
    /\ ~(m_isReportingEnabled[g] \/ epc[g] = "handover") => Places(g) = {}
    /\ m_isReportingEnabled[g] /\ process # "died" /\ ~raced => Places(g) # {}

\* ProcessEventsWithContext looks at the flag without the mutex: an event that is in
\* the queue is never behind a flag that says the queue is empty.
HandedIsFlagged == m_eventsWithContext # <<>> => ~m_eventsWithContextEmpty

\* Reports go out through a number that client_fd keeps after close(): they arrive on
\* the association of another gNB only if their own was closed by its peer.
OwnAssociation == \A r \in reported : r[1] = r[2] \/ epc[r[2]] = "ended"

\* The cycle of reports that a gNB promises (module ReportCycle).  A Quiet gNB has its
\* turns without a message.
phase == [g \in Gnbs |->
  IF \E p \in Places(g) : p[1] \in {"list", "invoked"} THEN "on"
  ELSE IF Places(g) = {} THEN "off" ELSE "first"]
due == [g \in Gnbs |->
  IF \E p \in Places(g) : p[1] = "list"
    THEN (CHOOSE e \in m_events : e.kind = "report" /\ e.g = g).ts
  ELSE IF \E p \in Places(g) : p[1] = "invoked" THEN next.ts ELSE 0]
Cycle == INSTANCE ReportCycle WITH clock <- m_currentTs,
                                   disturbed <- (raced \/ process = "died")

\* The two threads, the two queues and the list implement periodic reporting.
IsReportCycle == Cycle!Spec

\* NS_ASSERT (next.key.m_ts >= m_currentTs) in ProcessOneEvent.
TimeNeverGoesBack == [][m_currentTs' >= m_currentTs]_vars
============================================================================
