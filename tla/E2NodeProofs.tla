---------------------------- MODULE E2NodeProofs ----------------------------
(***************************************************************************)
(* Theorems about E2Node, for any finite set of cells and any bounds.      *)
(***************************************************************************)
EXTENDS E2Node, FiniteSetTheorems, TLAPS

-----------------------------------------------------------------------------
\* Only the scenario's Stop has no device, and only reports are handed over.
OwnedEvent  == {e \in Event : e.kind # "stop" => e.g \in Gnbs}
OwnedHanded == {h \in Handed : h.kind = "report" /\ h.g \in Gnbs}

ListType ==
  /\ m_events \subseteq OwnedEvent
  /\ m_currentTs \in Nat /\ m_uid \in Nat
  /\ next \in OwnedEvent
QueueType ==
  /\ m_eventsWithContext \in Seq(OwnedHanded)
  /\ swapped \in Seq(OwnedHanded)
FlagType == m_eventsWithContextEmpty \in BOOLEAN /\ m_stop \in BOOLEAN /\ raced \in BOOLEAN
PcType ==
  /\ spc \in {"check", "swap", "insert", "loop", "removed", "invoke", "done"}
  /\ process \in {"running", "over", "died"}
  /\ epc \in [Gnbs -> EpcSet]
SocketType ==
  /\ client_fd \in [Gnbs -> Fds \cup {NoFd}]
  /\ table \in [Fds -> Gnbs \cup {NoOne}]
  /\ lost \subseteq Gnbs
  /\ reported \subseteq Gnbs \X Gnbs
ReportingType == m_isReportingEnabled \in [Gnbs -> BOOLEAN]
KeyType == key \in [Gnbs -> [ts : Nat, uid : Nat]]
CountType == received \in 0..MaxMessages /\ losses \in 0..MaxLosses

TypeInv == ListType /\ QueueType /\ FlagType /\ PcType /\ SocketType /\ ReportingType
           /\ KeyType /\ CountType

LEMMA TypeInvImpliesTypeOK == TypeInv => TypeOK
<1> SUFFICES ASSUME TypeInv PROVE TypeOK
  OBVIOUS
<1>1. OwnedEvent \subseteq Event /\ OwnedHanded \subseteq Handed
  BY DEF OwnedEvent, OwnedHanded
<1>2. m_eventsWithContext \in Seq(Handed) /\ swapped \in Seq(Handed)
  <2> HIDE DEF OwnedHanded, Handed
  <2> QED
    BY <1>1 DEF TypeInv, QueueType
<1> QED
  BY <1>1, <1>2 DEF TypeInv, ListType, FlagType, PcType, SocketType, ReportingType, KeyType,
                    CountType, TypeOK

-----------------------------------------------------------------------------
\* The actors' steps, each with what it changes.

LEMMA NextCases ==
  ASSUME [Next]_vars
  PROVE  \/ Running /\ Invoke /\ EventCalls
              /\ UNCHANGED <<client_fd, table, m_isReportingEnabled, lost, key, received,
                             losses, raced>>
         \/ /\ Running /\ RunStep /\ process' \in {"over", process}
            /\ UNCHANGED <<epc, client_fd, table, m_isReportingEnabled, lost, key, received,
                           losses, reported, raced>>
         \/ Running /\ \E g \in Gnbs : E2Thread(g)
         \/ Running /\ \E g \in Gnbs : Lose(g)
         \/ UNCHANGED vars
  BY DEF Next, Main

\* The e2sim threads leave the list's own thread alone.
LEMMA E2ThreadKeeps ==
  ASSUME NEW g \in Gnbs, E2Thread(g) \/ Lose(g)
  PROVE  /\ UNCHANGED <<m_currentTs, m_stop, spc, swapped, next>>
         /\ ForeignInsert(g) \/ UNCHANGED <<m_events, m_uid>>
         /\ EnableReporting(g)
              \/ UNCHANGED <<m_eventsWithContext, m_eventsWithContextEmpty,
                             m_isReportingEnabled>>
  BY DEF E2Thread, Lose, Connect, Sends, Receive, PeerClosed, RecvFails, Respond, FirstReport,
         EnableReporting, ForeignKey, ForeignInsert, Goes, HandOver, eventVars

LEMMA ScheduleAdds ==
  ASSUME TypeInv, NEW delay \in Nat, NEW kind \in Kinds \ {"stop"}, NEW g \in Gnbs,
         Schedule(delay, kind, g)
  PROVE  m_events' \subseteq OwnedEvent /\ m_uid' \in Nat
<1> DEFINE e == [ts |-> m_currentTs + delay, uid |-> m_uid, kind |-> kind, g |-> g]
<1>1. e \in OwnedEvent
  BY DEF OwnedEvent, Event, Owners, TypeInv, ListType
<1>2. m_events' \subseteq m_events \cup {e}
  BY DEF Schedule, Inserted
<1> QED
  BY <1>1, <1>2 DEF Schedule, TypeInv, ListType

-----------------------------------------------------------------------------
\* Types, part by part.

LEMMA FdsFinite == Cardinality(Gnbs) \in Nat
  BY FiniteAssumption, FS_CardinalityType

LEMMA RankInNat == \A g \in Gnbs : Rank(g) \in Nat
<1> SUFFICES ASSUME NEW g \in Gnbs PROVE Rank(g) \in Nat
  OBVIOUS
<1> DEFINE below == {h \in Gnbs : h < g}
<1>1. IsFiniteSet(below)
  BY FiniteAssumption, FS_Subset
<1> QED
  BY <1>1, FS_CardinalityType DEF Rank

LEMMA InitType == Init => TypeInv
<1> SUFFICES ASSUME Init PROVE TypeInv
  OBVIOUS
<1>1. StopEvent \in OwnedEvent
  BY FdsFinite, HorizonAssumption DEF StopEvent, OwnedEvent, Event, Kinds, Owners
<1>2. ASSUME NEW g \in Gnbs PROVE Configured(g) \subseteq OwnedEvent
  BY RankInNat DEF Configured, OwnedEvent, Event, Kinds, Owners
<1>3. ListType
  BY <1>1, <1>2, FdsFinite DEF Init, ListType
<1>4. QueueType
  <2> HIDE DEF OwnedHanded
  <2> QED
    BY DEF Init, QueueType
<1>5. FlagType
  BY DEF Init, FlagType
<1>6. PcType
  BY DEF Init, PcType, EpcSet
<1>7. SocketType
  BY DEF Init, SocketType
<1>8. ReportingType /\ KeyType /\ CountType
  BY BoundsAssumption DEF Init, ReportingType, KeyType, NoKey, CountType
<1> QED
  BY <1>3, <1>4, <1>5, <1>6, <1>7, <1>8 DEF TypeInv

\* What an event does to the list.
LEMMA EventCallsList ==
  ASSUME TypeInv, EventCalls
  PROVE  m_events' \subseteq OwnedEvent /\ m_uid' \in Nat
<1>1. CASE UNCHANGED <<m_events, m_uid>>
  BY <1>1 DEF TypeInv, ListType
<1>2. CASE SaveActiveUes
  <2>1. next.g \in Gnbs
    BY <1>2 DEF SaveActiveUes, TypeInv, ListType, OwnedEvent
  <2> QED
    BY <1>2, <2>1, ScheduleAdds DEF SaveActiveUes, Kinds
<1>3. CASE BuildAndSendReportMessage /\ Schedule(Period, "report", next.g)
  <2>1. next.g \in Gnbs
    BY <1>3 DEF BuildAndSendReportMessage, TypeInv, ListType, OwnedEvent
  <2> QED
    BY <1>3, <2>1, ScheduleAdds, PeriodAssumption DEF Kinds
<1> QED
  BY <1>1, <1>2, <1>3 DEF EventCalls, StartE2, BuildAndSendReportMessage, Command, Stop

LEMMA NextList == TypeInv /\ [Next]_vars => ListType'
<1> SUFFICES ASSUME TypeInv, [Next]_vars PROVE ListType'
  OBVIOUS
<1>1. CASE Invoke /\ EventCalls
  BY <1>1, EventCallsList DEF Invoke, ListType, TypeInv
<1>2. CASE RunStep
  <2>1. CASE Check \/ Swap \/ Finish
    BY <2>1 DEF Check, Swap, Finish, ListType, TypeInv
  <2>2. CASE InsertHanded
    <3>1. CASE swapped = <<>>
      BY <2>2, <3>1 DEF InsertHanded, ListType, TypeInv
    <3>2. CASE swapped # <<>>
      <4> HIDE DEF OwnedHanded
      <4>1. Head(swapped) \in OwnedHanded
        BY <3>2 DEF TypeInv, QueueType
      <4> USE DEF OwnedHanded
      <4>2. Schedule(Head(swapped).delay, Head(swapped).kind, Head(swapped).g)
        BY <2>2, <3>2 DEF InsertHanded
      <4>3. /\ Head(swapped).delay \in Nat /\ Head(swapped).kind \in Kinds \ {"stop"}
            /\ Head(swapped).g \in Gnbs
        BY <4>1 DEF Handed, Kinds
      <4> QED
        BY <2>2, <4>2, <4>3, ScheduleAdds DEF InsertHanded, ListType, TypeInv
    <3> QED
      BY <3>1, <3>2
  <2>3. CASE RemoveNext \/ SetTime
    BY <2>3 DEF RemoveNext, SetTime, ListType, TypeInv, OwnedEvent, Event
  <2> QED
    BY <1>2, <2>1, <2>2, <2>3 DEF RunStep
<1>3. ASSUME NEW g \in Gnbs, E2Thread(g) \/ Lose(g) PROVE ListType'
  <2>1. CASE ForeignInsert(g)
    <3> DEFINE e == [ts |-> key[g].ts, uid |-> key[g].uid, kind |-> "command", g |-> g]
    <3>1. key[g].ts \in Nat /\ key[g].uid \in Nat
      BY DEF TypeInv, KeyType
    <3>2. e \in OwnedEvent
      BY <3>1 DEF OwnedEvent, Event, Kinds, Owners
    <3>3. m_events' \subseteq m_events \cup {e}
      BY <2>1 DEF ForeignInsert, Inserted
    <3>4. m_uid' \in Nat
      BY <2>1, <3>1 DEF ForeignInsert, TypeInv, ListType
    <3> QED
      BY <1>3, <3>2, <3>3, <3>4, E2ThreadKeeps DEF TypeInv, ListType
  <2> QED
    BY <1>3, <2>1, E2ThreadKeeps DEF TypeInv, ListType
<1>4. CASE UNCHANGED vars
  BY <1>4 DEF vars, eventVars, TypeInv, ListType
<1> QED
  BY <1>1, <1>2, <1>3, <1>4, NextCases

LEMMA NextQueue == TypeInv /\ [Next]_vars => QueueType'
<1> SUFFICES ASSUME TypeInv, [Next]_vars PROVE QueueType'
  OBVIOUS
<1>1. CASE RunStep \/ Invoke
  <2> HIDE DEF OwnedHanded
  <2>1. m_eventsWithContext \in Seq(OwnedHanded) /\ swapped \in Seq(OwnedHanded)
    BY DEF TypeInv, QueueType
  <2>2. swapped # <<>> => Tail(swapped) \in Seq(OwnedHanded)
    BY <2>1
  <2>3. m_eventsWithContext' \in {m_eventsWithContext, <<>>}
    BY <1>1 DEF RunStep, Invoke, Check, Swap, InsertHanded, RemoveNext, SetTime, Finish
  <2>4. \/ swapped' \in {m_eventsWithContext, swapped}
        \/ swapped # <<>> /\ swapped' = Tail(swapped)
    BY <1>1 DEF RunStep, Invoke, Check, Swap, InsertHanded, RemoveNext, SetTime, Finish
  <2>5. <<>> \in Seq(OwnedHanded)
    OBVIOUS
  <2>6. m_eventsWithContext' \in Seq(OwnedHanded)
    BY <2>1, <2>3, <2>5
  <2>7. swapped' \in Seq(OwnedHanded)
    BY <2>1, <2>2, <2>4
  <2> QED
    BY <2>6, <2>7 DEF QueueType
<1>2. ASSUME NEW g \in Gnbs, E2Thread(g) \/ Lose(g) PROVE QueueType'
  <2>1. [delay |-> Period, kind |-> "report", g |-> g] \in OwnedHanded
    BY PeriodAssumption DEF OwnedHanded, Handed, Kinds, Owners
  <2> HIDE DEF OwnedHanded
  <2>2. \/ m_eventsWithContext' = m_eventsWithContext
        \/ m_eventsWithContext' = Append(m_eventsWithContext,
                                         [delay |-> Period, kind |-> "report", g |-> g])
    BY <1>2, E2ThreadKeeps DEF EnableReporting, HandOver
  <2> QED
    BY <1>2, <2>1, <2>2, E2ThreadKeeps DEF QueueType, TypeInv
<1>3. CASE UNCHANGED vars
  <2> HIDE DEF OwnedHanded
  <2> QED
    BY <1>3 DEF vars, eventVars, TypeInv, QueueType
<1> QED
  BY <1>1, <1>2, <1>3, NextCases

LEMMA NextFlag == TypeInv /\ [Next]_vars => FlagType'
<1> SUFFICES ASSUME TypeInv, [Next]_vars PROVE FlagType'
  OBVIOUS
<1> USE DEF FlagType, TypeInv
<1>1. CASE Invoke /\ EventCalls /\ UNCHANGED raced
  BY <1>1 DEF Invoke, EventCalls, StartE2, SaveActiveUes, BuildAndSendReportMessage, Command, Stop
<1>2. CASE RunStep /\ UNCHANGED raced
  BY <1>2 DEF RunStep, Check, Swap, InsertHanded, RemoveNext, SetTime, Finish
<1>3. ASSUME NEW g \in Gnbs, E2Thread(g) \/ Lose(g) PROVE FlagType'
  <2>1. m_eventsWithContextEmpty' \in BOOLEAN /\ m_stop' \in BOOLEAN
    BY <1>3, E2ThreadKeeps DEF EnableReporting, HandOver
  <2>2. raced' \in BOOLEAN
    BY <1>3 DEF E2Thread, Lose, Connect, Sends, Receive, PeerClosed, RecvFails, Respond,
                FirstReport, EnableReporting, ForeignKey, ForeignInsert
  <2> QED
    BY <2>1, <2>2
<1>4. CASE UNCHANGED vars
  BY <1>4 DEF vars, eventVars, nodeVars
<1> QED
  BY <1>1, <1>2, <1>3, <1>4, NextCases

LEMMA NextPc == TypeInv /\ [Next]_vars => PcType'
<1> SUFFICES ASSUME TypeInv, [Next]_vars PROVE PcType'
  OBVIOUS
<1> USE DEF PcType, TypeInv
<1>1. CASE Invoke /\ EventCalls
  BY <1>1 DEF Invoke, EventCalls, StartE2, SaveActiveUes, BuildAndSendReportMessage, SendReport,
              Command, Stop, Dies, EpcSet
<1>2. CASE RunStep /\ process' \in {"over", process} /\ UNCHANGED epc
  BY <1>2 DEF RunStep, Check, Swap, InsertHanded, RemoveNext, SetTime, Finish
<1>3. ASSUME NEW g \in Gnbs, Running, E2Thread(g) \/ Lose(g) PROVE PcType'
  <2>1. process' \in {"running", "died"}
    BY <1>3 DEF E2Thread, Lose, Connect, Sends, Receive, PeerClosed, RecvFails, Respond,
                FirstReport, SendReport, EnableReporting, ForeignKey, ForeignInsert, Dies, Running
  <2>2. epc' = epc \/ \E to \in EpcSet : epc' = [epc EXCEPT ![g] = to]
    BY <1>3 DEF E2Thread, Lose, Connect, Sends, Receive, PeerClosed, RecvFails, Respond,
                FirstReport, EnableReporting, ForeignKey, ForeignInsert, Goes, EpcSet
  <2> QED
    BY <1>3, <2>1, <2>2, E2ThreadKeeps
<1>4. CASE UNCHANGED vars
  BY <1>4 DEF vars, eventVars, nodeVars
<1> QED
  BY <1>1, <1>2, <1>3, <1>4, NextCases

LEMMA ReachesType ==
  ASSUME TypeInv, NEW g \in Gnbs, CanSend(g)
  PROVE  Reaches(g) \in Gnbs
  BY GnbsAssumption DEF CanSend, Reaches, TypeInv, SocketType

LEMMA NextSocket == TypeInv /\ [Next]_vars => SocketType'
<1> SUFFICES ASSUME TypeInv, [Next]_vars PROVE SocketType'
  OBVIOUS
<1> USE DEF SocketType, TypeInv
<1>1. CASE Invoke /\ EventCalls /\ UNCHANGED <<client_fd, table, lost>>
  <2>1. CASE BuildAndSendReportMessage
    <3>1. next.g \in Gnbs
      BY <2>1 DEF BuildAndSendReportMessage, ListType, OwnedEvent
    <3> QED
      BY <1>1, <2>1, <3>1, ReachesType DEF BuildAndSendReportMessage, SendReport
  <2> QED
    BY <1>1, <2>1 DEF EventCalls, StartE2, SaveActiveUes, Command, Stop
<1>2. ASSUME NEW g \in Gnbs, E2Thread(g) \/ Lose(g) PROVE SocketType'
  <2>1. CASE Connect(g)
    BY <2>1 DEF Connect
  <2>2. CASE PeerClosed(g)
    BY <2>2 DEF PeerClosed
  <2>3. CASE FirstReport(g)
    BY <2>3, ReachesType DEF FirstReport, SendReport
  <2>4. CASE Lose(g)
    BY <2>4 DEF Lose
  <2>5. CASE UNCHANGED <<client_fd, table, lost, reported>>
    BY <2>5
  <2> QED
    BY <1>2, <2>1, <2>2, <2>3, <2>4, <2>5
       DEF E2Thread, Sends, Receive, RecvFails, Respond, EnableReporting, ForeignKey, ForeignInsert
<1>3. CASE UNCHANGED <<client_fd, table, lost, reported>>
  BY <1>3
<1> QED
  BY <1>1, <1>2, <1>3, NextCases DEF vars, nodeVars

LEMMA NextReporting == TypeInv /\ [Next]_vars => ReportingType'
<1> SUFFICES ASSUME TypeInv, [Next]_vars PROVE ReportingType'
  OBVIOUS
<1> USE DEF ReportingType, TypeInv
<1>1. ASSUME NEW g \in Gnbs, E2Thread(g) \/ Lose(g) PROVE ReportingType'
  BY <1>1, E2ThreadKeeps DEF EnableReporting
<1> QED
  BY <1>1, NextCases DEF vars, nodeVars

LEMMA NextKey == TypeInv /\ [Next]_vars => KeyType'
<1> SUFFICES ASSUME TypeInv, [Next]_vars PROVE KeyType'
  OBVIOUS
<1> USE DEF KeyType, TypeInv
<1>1. ASSUME NEW g \in Gnbs, E2Thread(g) \/ Lose(g) PROVE KeyType'
  <2>1. CASE ForeignKey(g)
    BY <2>1 DEF ForeignKey, ListType
  <2>2. CASE ForeignInsert(g)
    BY <2>2 DEF ForeignInsert, NoKey
  <2>3. CASE UNCHANGED key
    BY <2>3
  <2> QED
    BY <1>1, <2>1, <2>2, <2>3
       DEF E2Thread, Lose, Connect, Sends, Receive, PeerClosed, RecvFails, Respond, FirstReport,
           EnableReporting
<1> QED
  BY <1>1, NextCases DEF vars, nodeVars

LEMMA NextCount == TypeInv /\ [Next]_vars => CountType'
<1> SUFFICES ASSUME TypeInv, [Next]_vars PROVE CountType'
  OBVIOUS
<1> USE BoundsAssumption DEF CountType, TypeInv
<1>1. ASSUME NEW g \in Gnbs, E2Thread(g) \/ Lose(g) PROVE CountType'
  BY <1>1 DEF E2Thread, Lose, Connect, Sends, Receive, PeerClosed, RecvFails, Respond,
              FirstReport, EnableReporting, ForeignKey, ForeignInsert
<1> QED
  BY <1>1, NextCases DEF vars, nodeVars

LEMMA NextType == TypeInv /\ [Next]_vars => TypeInv'
  BY NextList, NextQueue, NextFlag, NextPc, NextSocket, NextReporting, NextKey, NextCount
     DEF TypeInv

LEMMA TypeAlways == Spec => []TypeInv
  BY InitType, NextType, PTL DEF Spec

\* Every variable of simulator and e2sim threads keeps its type.
THEOREM NodeTypeCorrect == Spec => []TypeOK
  BY TypeAlways, TypeInvImpliesTypeOK, PTL

-----------------------------------------------------------------------------
\* The queue and its flag.

LEMMA NextFlagged == HandedIsFlagged /\ [Next]_vars => HandedIsFlagged'
<1> SUFFICES ASSUME HandedIsFlagged, [Next]_vars PROVE HandedIsFlagged'
  OBVIOUS
<1>1. CASE RunStep \/ Invoke
  BY <1>1 DEF RunStep, Check, Swap, InsertHanded, RemoveNext, SetTime, Finish, Invoke,
              HandedIsFlagged
<1>2. ASSUME NEW g \in Gnbs, E2Thread(g) \/ Lose(g) PROVE HandedIsFlagged'
  BY <1>2, E2ThreadKeeps DEF EnableReporting, HandOver, HandedIsFlagged
<1>3. CASE UNCHANGED vars
  BY <1>3 DEF vars, eventVars, HandedIsFlagged
<1> QED
  BY <1>1, <1>2, <1>3, NextCases

\* The simulator's thread may look at the flag without the mutex, for any number of
\* threads that hand events over.
THEOREM HandedIsFlaggedCorrect == Spec => []HandedIsFlagged
<1>1. Init => HandedIsFlagged
  BY DEF Init, HandedIsFlagged
<1> QED
  BY <1>1, NextFlagged, PTL DEF Spec

-----------------------------------------------------------------------------
\* Each e2sim thread is started once, and holds its own socket until its peer has
\* gone.

IsStart(e) == e.kind = "start"

StartOnce ==
  /\ \A e \in m_events : IsStart(e) => epc[e.g] = "off"
  /\ \A e, f \in m_events : IsStart(e) /\ IsStart(f) /\ e.g = f.g => e = f
  /\ spc \in {"removed", "invoke"} /\ IsStart(next)
       => epc[next.g] = "off" /\ \A e \in m_events : IsStart(e) => e.g # next.g
  /\ \A i \in DOMAIN m_eventsWithContext : m_eventsWithContext[i].kind = "report"
  /\ \A i \in DOMAIN swapped : swapped[i].kind = "report"

OwnSocket ==
  Running => \A g \in Gnbs :
    /\ epc[g] \in {"off", "connect"} => client_fd[g] = NoFd
    /\ epc[g] \notin {"off", "connect", "ended"}
         => client_fd[g] \in Fds /\ table[client_fd[g]] = g

LEMMA InitStart == Init => StartOnce /\ OwnSocket
<1> SUFFICES ASSUME Init PROVE StartOnce /\ OwnSocket
  OBVIOUS
<1>1. ASSUME NEW e \in m_events, IsStart(e)
      PROVE  e.g \in Gnbs /\ e = [ts |-> 0, uid |-> 2 * Rank(e.g), kind |-> "start", g |-> e.g]
  BY <1>1 DEF Init, Configured, StopEvent, IsStart
<1>2. \A e, f \in m_events : IsStart(e) /\ IsStart(f) /\ e.g = f.g => e = f
  BY <1>1
<1> QED
  BY <1>1, <1>2 DEF Init, StartOnce, OwnSocket

\* Whoever schedules, schedules no start.
LEMMA EventsAdded ==
  ASSUME TypeInv, StartOnce, [Next]_vars
  PROVE  \A e \in m_events' : e \in m_events \/ ~IsStart(e)
<1>1. ASSUME NEW delay, NEW kind \in Kinds \ {"start"}, NEW g, Schedule(delay, kind, g)
      PROVE  \A e \in m_events' : e \in m_events \/ ~IsStart(e)
  BY <1>1 DEF Schedule, Inserted, IsStart
<1>2. CASE Invoke /\ EventCalls
  BY <1>1, <1>2 DEF EventCalls, StartE2, SaveActiveUes, BuildAndSendReportMessage, Command, Stop,
                    Kinds
<1>3. CASE RunStep
  <2>1. CASE InsertHanded /\ swapped # <<>>
    <3>1. Head(swapped).kind = "report"
      BY <2>1 DEF StartOnce, TypeInv, QueueType
    <3> QED
      BY <1>1, <2>1, <3>1 DEF InsertHanded, Kinds
  <2> QED
    BY <1>3, <2>1 DEF RunStep, Check, Swap, InsertHanded, RemoveNext, SetTime, Finish
<1>4. ASSUME NEW g \in Gnbs, E2Thread(g) \/ Lose(g)
      PROVE  \A e \in m_events' : e \in m_events \/ ~IsStart(e)
  BY <1>4, E2ThreadKeeps DEF ForeignInsert, Inserted, IsStart
<1>5. CASE UNCHANGED vars
  BY <1>5 DEF vars, eventVars
<1> QED
  BY <1>2, <1>3, <1>4, <1>5, NextCases

\* An e2sim thread that has started does not start again.
LEMMA E2ThreadGoes ==
  ASSUME TypeInv, NEW g \in Gnbs, E2Thread(g) \/ Lose(g)
  PROVE  /\ \A h \in Gnbs \ {g} : epc'[h] = epc[h]
         /\ epc'[g] # epc[g] => epc[g] \notin {"off", "ended"} /\ epc'[g] \notin {"off", "connect"}
  BY DEF E2Thread, Lose, Connect, Sends, Receive, PeerClosed, RecvFails, Respond, FirstReport,
         EnableReporting, ForeignKey, ForeignInsert, Goes, TypeInv, PcType

LEMMA QueuesKeepReports ==
  ASSUME TypeInv'
  PROVE  /\ \A i \in DOMAIN m_eventsWithContext' : m_eventsWithContext'[i].kind = "report"
         /\ \A i \in DOMAIN swapped' : swapped'[i].kind = "report"
  BY DEF TypeInv, QueueType, OwnedHanded

LEMMA NextStart == TypeInv /\ StartOnce /\ [Next]_vars => StartOnce'
<1> SUFFICES ASSUME TypeInv, StartOnce, [Next]_vars PROVE StartOnce'
  OBVIOUS
<1>1. TypeInv'
  BY NextType
<1>2. /\ \A e \in m_events' : IsStart(e) => e \in m_events
      /\ \A e \in m_events : IsStart(e) => e.g \in Gnbs
  BY EventsAdded DEF TypeInv, ListType, OwnedEvent, IsStart
<1>3. CASE Invoke /\ EventCalls
  <2>1. spc' = "check" /\ next' = next
    BY <1>3 DEF Invoke
  <2>2. \A h \in Gnbs : epc'[h] = epc[h] \/ (IsStart(next) /\ h = next.g)
    <3>1. CASE StartE2
      BY <3>1 DEF StartE2, IsStart, TypeInv, PcType
    <3>2. CASE UNCHANGED epc
      BY <3>2
    <3> QED
      BY <1>3, <3>1, <3>2 DEF EventCalls, SaveActiveUes, BuildAndSendReportMessage, Command, Stop
  <2>3. spc = "invoke"
    BY <1>3 DEF Invoke
  <2> QED
    BY <1>1, <1>2, <2>1, <2>2, <2>3, QueuesKeepReports DEF StartOnce
<1>4. CASE RunStep /\ UNCHANGED epc
  <2>1. CASE RemoveNext
    <3>1. next' \in m_events /\ m_events' = m_events \ {next'}
      BY <2>1 DEF RemoveNext
    <3> QED
      BY <1>1, <1>2, <1>4, <3>1, QueuesKeepReports DEF StartOnce
  <2>2. CASE SetTime
    <3>1. UNCHANGED <<m_events, next>> /\ spc = "removed"
      BY <2>2 DEF SetTime
    <3> QED
      BY <1>1, <1>2, <1>4, <3>1, QueuesKeepReports DEF StartOnce
  <2>3. CASE ~RemoveNext /\ ~SetTime
    <3>1. spc' \notin {"removed", "invoke"}
      BY <1>4, <2>3 DEF RunStep, Check, Swap, InsertHanded, Finish
    <3> QED
      BY <1>1, <1>2, <1>4, <3>1, QueuesKeepReports DEF StartOnce
  <2> QED
    BY <2>1, <2>2, <2>3
<1>5. ASSUME NEW g \in Gnbs, E2Thread(g) \/ Lose(g) PROVE StartOnce'
  <2>1. \A h \in Gnbs : epc[h] = "off" => epc'[h] = "off"
    BY <1>5, E2ThreadGoes
  <2>2. UNCHANGED <<spc, next>>
    BY <1>5, E2ThreadKeeps
  <2>3. next.kind = "start" => next.g \in Gnbs
    BY DEF TypeInv, ListType, OwnedEvent
  <2> QED
    BY <1>1, <1>2, <2>1, <2>2, <2>3, QueuesKeepReports DEF StartOnce, IsStart
<1>6. CASE UNCHANGED vars
  BY <1>6 DEF vars, eventVars, nodeVars, StartOnce
<1> QED
  BY <1>3, <1>4, <1>5, <1>6, NextCases

LEMMA OwnReach ==
  ASSUME TypeInv, OwnSocket, Running, NEW g \in Gnbs, epc[g] # "ended", CanSend(g)
  PROVE  Reaches(g) = g
  BY DEF OwnSocket, CanSend, Reaches, TypeInv, PcType

LEMMA NextOwnSocket == TypeInv /\ StartOnce /\ OwnSocket /\ [Next]_vars => OwnSocket'
<1> SUFFICES ASSUME TypeInv, StartOnce, OwnSocket, [Next]_vars, Running' PROVE OwnSocket'
  BY DEF OwnSocket
<1>1. CASE Running /\ Invoke /\ EventCalls /\ UNCHANGED <<client_fd, table>>
  <2>1. CASE StartE2
    <3>1. \A h \in Gnbs : \/ epc'[h] = epc[h]
                          \/ epc[h] = "off" /\ epc'[h] = "connect"
      BY <1>1, <2>1 DEF Invoke, StartE2, StartOnce, IsStart, TypeInv, PcType
    <3> QED
      BY <1>1, <3>1 DEF OwnSocket
  <2>2. CASE UNCHANGED epc
    BY <1>1, <2>2 DEF OwnSocket
  <2> QED
    BY <1>1, <2>1, <2>2 DEF EventCalls, SaveActiveUes, BuildAndSendReportMessage, Command, Stop
<1>2. CASE Running /\ UNCHANGED <<epc, client_fd, table>>
  BY <1>2 DEF OwnSocket
<1>3. ASSUME Running, NEW g \in Gnbs, E2Thread(g) \/ Lose(g) PROVE OwnSocket'
  <2>1. CASE Connect(g)
    <3>1. PICK f \in Fds : /\ table[f] = NoOne
                           /\ table' = [table EXCEPT ![f] = g]
                           /\ client_fd' = [client_fd EXCEPT ![g] = f]
      BY <2>1 DEF Connect, Dies, Running
    <3>2. epc'[g] = "setup" /\ \A h \in Gnbs \ {g} : epc'[h] = epc[h]
      BY <2>1 DEF Connect, Goes, TypeInv, PcType
    <3>3. client_fd'[g] = f /\ table'[f] = g
      BY <3>1 DEF TypeInv, SocketType
    <3>4. ASSUME NEW h \in Gnbs \ {g}
          PROVE  /\ client_fd'[h] = client_fd[h]
                 /\ client_fd[h] \in Fds /\ table[client_fd[h]] = h
                      => table'[client_fd[h]] = h
      BY <3>1, GnbsAssumption DEF TypeInv, SocketType, NoOne
    <3> QED
      BY <1>3, <3>2, <3>3, <3>4 DEF OwnSocket
  <2>2. CASE PeerClosed(g)
    <3>1. epc[g] = "recv" /\ epc'[g] = "ended" /\ \A h \in Gnbs \ {g} : epc'[h] = epc[h]
      BY <2>2 DEF PeerClosed, Goes, TypeInv, PcType
    <3>2. client_fd[g] \in Fds /\ table[client_fd[g]] = g
      BY <1>3, <3>1 DEF OwnSocket
    <3>3. \A h \in Gnbs \ {g} : client_fd[h] \in Fds /\ table[client_fd[h]] = h
                                  => table'[client_fd[h]] = h
      BY <2>2, <3>2 DEF PeerClosed, TypeInv, SocketType
    <3> QED
      BY <1>3, <2>2, <3>1, <3>3 DEF OwnSocket, PeerClosed
  <2>3. CASE ~Connect(g) /\ ~PeerClosed(g)
    <3>1. UNCHANGED <<client_fd, table>>
      BY <1>3, <2>3 DEF E2Thread, Lose, Sends, Receive, RecvFails, Respond, FirstReport,
                        EnableReporting, ForeignKey, ForeignInsert
    <3>2. epc'[g] # epc[g] => epc[g] \notin {"off", "connect", "ended"}
                                /\ epc'[g] \notin {"off", "connect", "ended"}
      BY <1>3, <2>3 DEF E2Thread, Lose, Sends, Receive, RecvFails, Respond, FirstReport,
                        EnableReporting, ForeignKey, ForeignInsert, Goes, TypeInv, PcType
    <3> QED
      BY <1>3, <3>1, <3>2, E2ThreadGoes DEF OwnSocket
  <2> QED
    BY <2>1, <2>2, <2>3
<1> QED
  BY <1>1, <1>2, <1>3, NextCases DEF vars, nodeVars, Running

LEMMA NextAssociation ==
  TypeInv /\ StartOnce /\ OwnSocket /\ OwnAssociation /\ [Next]_vars => OwnAssociation'
<1> SUFFICES ASSUME TypeInv, StartOnce, OwnSocket, OwnAssociation, [Next]_vars,
                    NEW r \in reported'
             PROVE  r[1] = r[2] \/ epc'[r[2]] = "ended"
  BY DEF OwnAssociation
<1>1. ASSUME NEW g \in Gnbs, Running, SendReport(g), UNCHANGED epc \/ epc[g] # "ended",
             \A h \in Gnbs : epc[h] = "ended" => epc'[h] = "ended"
      PROVE  r[1] = r[2] \/ epc'[r[2]] = "ended"
  <2>1. CASE r \in reported
    BY <1>1, <2>1 DEF OwnAssociation, TypeInv, SocketType
  <2>2. CASE CanSend(g) /\ r = <<Reaches(g), g>>
    BY <1>1, <2>2, OwnReach
  <2> QED
    BY <1>1, <2>1, <2>2 DEF SendReport
<1>2. ASSUME reported' = reported, \A h \in Gnbs : epc[h] = "ended" => epc'[h] = "ended"
      PROVE  r[1] = r[2] \/ epc'[r[2]] = "ended"
  BY <1>2 DEF OwnAssociation, TypeInv, SocketType
<1>3. CASE Running /\ Invoke /\ EventCalls
  <2>1. CASE StartE2
    <3>1. \A h \in Gnbs : epc[h] = "ended" => epc'[h] = "ended"
      BY <1>3, <2>1 DEF Invoke, StartE2, StartOnce, IsStart, TypeInv, PcType
    <3> QED
      BY <1>2, <2>1, <3>1 DEF StartE2
  <2>2. CASE BuildAndSendReportMessage
    <3>1. next.g \in Gnbs
      BY <2>2 DEF BuildAndSendReportMessage, TypeInv, ListType, OwnedEvent
    <3> QED
      BY <1>1, <1>2, <1>3, <2>2, <3>1 DEF BuildAndSendReportMessage
  <2> QED
    BY <1>2, <1>3, <2>1, <2>2 DEF EventCalls, SaveActiveUes, Command, Stop
<1>4. ASSUME Running, NEW g \in Gnbs, E2Thread(g) \/ Lose(g)
      PROVE  r[1] = r[2] \/ epc'[r[2]] = "ended"
  <2>1. \A h \in Gnbs : epc[h] = "ended" => epc'[h] = "ended"
    BY <1>4, E2ThreadGoes
  <2>2. CASE FirstReport(g)
    BY <1>1, <1>2, <1>4, <2>1, <2>2 DEF FirstReport, Goes
  <2> QED
    BY <1>2, <1>4, <2>1, <2>2
       DEF E2Thread, Lose, Connect, Sends, Receive, PeerClosed, RecvFails, Respond,
           EnableReporting, ForeignKey, ForeignInsert
<1>5. CASE UNCHANGED <<epc, reported>>
  BY <1>2, <1>5
<1> QED
  BY <1>3, <1>4, <1>5, NextCases DEF vars, nodeVars

LEMMA SocketsAlways == Spec => [](TypeInv /\ StartOnce /\ OwnSocket)
  BY InitType, InitStart, NextType, NextStart, NextOwnSocket, PTL DEF Spec

\* A report goes out on another gNB's association only after the peer of the gNB's own
\* has closed it, for any set of cells and however often the numbers of descriptors are
\* used again.
THEOREM OwnAssociationCorrect == Spec => []OwnAssociation
<1>1. Init => OwnAssociation
  BY DEF Init, OwnAssociation
<1> QED
  BY <1>1, NextAssociation, SocketsAlways, PTL DEF Spec

-----------------------------------------------------------------------------
(***************************************************************************)
(* The cycle of reports: a gNB's next report is in one place of the two    *)
(* threads' queues and the event list.                                     *)
(***************************************************************************)
\* The places, one by one.
Has(q, g)  == \E i \in DOMAIN q : q[i].g = g
Once(q)    == \A i, j \in DOMAIN q : q[i].g = q[j].g => i = j

IsReport(e, g) == e.kind = "report" /\ e.g = g
Waiting(g) == Has(m_eventsWithContext, g)
Moving(g)  == Has(swapped, g)
Listed(g)  == \E e \in m_events : IsReport(e, g)
Invoked(g) == spc \in {"removed", "invoke"} /\ IsReport(next, g)

ListOnce == \A g \in Gnbs : \A e, f \in m_events : IsReport(e, g) /\ IsReport(f, g) => e = f

Apart(g) ==
  /\ Waiting(g) => ~Moving(g) /\ ~Listed(g) /\ ~Invoked(g)
  /\ Moving(g)  => ~Listed(g) /\ ~Invoked(g)
  /\ Listed(g)  => ~Invoked(g)

Off(g) ==
  /\ ~m_isReportingEnabled[g] => ~Waiting(g) /\ ~Moving(g) /\ ~Listed(g) /\ ~Invoked(g)
  /\ epc[g] \in {"report", "handover"} => ~m_isReportingEnabled[g]

OnePlace ==
  /\ Once(m_eventsWithContext) /\ Once(swapped) /\ ListOnce
  /\ \A g \in Gnbs : Apart(g) /\ Off(g)
  /\ spc # "insert" => swapped = <<>>

\* Where the list has not been disturbed, no event has a later one's key, and a cycle
\* that was started is somewhere.
Somewhere(g) == Waiting(g) \/ Moving(g) \/ Listed(g) \/ Invoked(g)

Kept ==
  /\ ~raced => \A e \in m_events : e.uid < m_uid
  /\ process # "died" /\ ~raced
       => \A g \in Gnbs : m_isReportingEnabled[g] => Somewhere(g)

CycleInv == OnePlace /\ Kept

-----------------------------------------------------------------------------
\* Queues.

LEMMA TailHas ==
  ASSUME NEW S, NEW q \in Seq(S), q # <<>>, NEW g
  PROVE  /\ Has(q, g) <=> g = Head(q).g \/ Has(Tail(q), g)
         /\ Once(q) => Once(Tail(q)) /\ ~Has(Tail(q), Head(q).g)
<1>1. /\ \A i \in DOMAIN Tail(q) : i + 1 \in DOMAIN q /\ Tail(q)[i] = q[i + 1]
      /\ \A i \in DOMAIN q : i # 1 => i - 1 \in DOMAIN Tail(q) /\ Tail(q)[i - 1] = q[i]
      /\ 1 \in DOMAIN q /\ Head(q) = q[1]
      /\ DOMAIN q \subseteq Nat /\ DOMAIN Tail(q) \subseteq Nat \ {0}
  OBVIOUS
<1>2. Has(q, g) => g = Head(q).g \/ Has(Tail(q), g)
  BY <1>1 DEF Has
<1>3. g = Head(q).g \/ Has(Tail(q), g) => Has(q, g)
  BY <1>1 DEF Has
<1>4. Once(q) => Once(Tail(q))
  <2> SUFFICES ASSUME Once(q), NEW i \in DOMAIN Tail(q), NEW j \in DOMAIN Tail(q),
                      Tail(q)[i].g = Tail(q)[j].g
               PROVE  i = j
    BY DEF Once
  <2>1. i + 1 \in DOMAIN q /\ j + 1 \in DOMAIN q /\ q[i + 1].g = q[j + 1].g
    BY <1>1
  <2>2. i + 1 = j + 1
    BY <2>1 DEF Once
  <2> QED
    BY <1>1, <2>2
<1>5. Once(q) => ~Has(Tail(q), Head(q).g)
  <2> SUFFICES ASSUME Once(q), NEW i \in DOMAIN Tail(q), Tail(q)[i].g = Head(q).g PROVE FALSE
    BY DEF Has
  <2>1. i + 1 \in DOMAIN q /\ q[i + 1].g = q[1].g
    BY <1>1
  <2>2. i + 1 = 1
    BY <1>1, <2>1 DEF Once
  <2> QED
    BY <1>1, <2>2
<1> QED
  BY <1>2, <1>3, <1>4, <1>5

LEMMA AppendHas ==
  ASSUME NEW S, NEW q \in Seq(S), NEW x \in S, NEW g
  PROVE  /\ Has(Append(q, x), g) <=> Has(q, g) \/ g = x.g
         /\ Once(q) /\ ~Has(q, x.g) => Once(Append(q, x))
<1>1. /\ \A i \in DOMAIN q : i \in DOMAIN Append(q, x) /\ Append(q, x)[i] = q[i]
      /\ \A i \in DOMAIN Append(q, x) : i \in DOMAIN q \/ i = Len(q) + 1
      /\ Len(q) + 1 \in DOMAIN Append(q, x) /\ Append(q, x)[Len(q) + 1] = x
  OBVIOUS
<1>2. Has(Append(q, x), g) <=> Has(q, g) \/ g = x.g
  BY <1>1 DEF Has
<1>3. Once(q) /\ ~Has(q, x.g) => Once(Append(q, x))
  BY <1>1 DEF Once, Has
<1> QED
  BY <1>2, <1>3

LEMMA EmptyHas == \A g : ~Has(<<>>, g)
  BY DEF Has

LEMMA EmptyOnce == Once(<<>>)
  BY DEF Once

-----------------------------------------------------------------------------
\* The list.

\* A report that is scheduled is the only one of its gNB if there was none, and it is
\* in the list if no event has a later key.
LEMMA ScheduleReport ==
  ASSUME TypeInv, NEW delay, NEW g \in Gnbs, Schedule(delay, "report", g),
         ListOnce, ~Listed(g)
  PROVE  /\ ListOnce'
         /\ \A h \in Gnbs \ {g} : Listed(h)' <=> Listed(h)
         /\ (\A e \in m_events : e.uid < m_uid) => Listed(g)' /\ \A e \in m_events' : e.uid < m_uid'
<1> DEFINE e0 == [ts |-> m_currentTs + delay, uid |-> m_uid, kind |-> "report", g |-> g]
<1>1. /\ m_events' = m_events \/ m_events' = m_events \cup {e0}
      /\ (\A e \in m_events : e.uid < m_uid) => m_events' = m_events \cup {e0}
  BY DEF Schedule, Inserted, TypeInv, ListType, OwnedEvent, Event
<1>2. e0.kind = "report" /\ e0.g = g /\ e0.uid = m_uid /\ IsReport(e0, g)
  BY DEF IsReport
<1> HIDE DEF e0
<1>3. ListOnce'
  BY <1>1, <1>2 DEF ListOnce, Listed, IsReport
<1>4. \A h \in Gnbs \ {g} : Listed(h)' <=> Listed(h)
  BY <1>1, <1>2 DEF Listed, IsReport
<1>5. (\A e \in m_events : e.uid < m_uid) => Listed(g)'
  BY <1>1, <1>2 DEF Listed
<1>6. (\A e \in m_events : e.uid < m_uid) => \A e \in m_events' : e.uid < m_uid'
  <2>1. m_uid \in Nat /\ m_uid' = m_uid + 1 /\ \A e \in m_events : e.uid \in Nat
    BY DEF Schedule, TypeInv, ListType, OwnedEvent, Event
  <2> QED
    BY <1>1, <1>2, <2>1
<1> QED
  BY <1>3, <1>4, <1>5, <1>6

\* An event of another kind changes nothing of the reports.
LEMMA ScheduleOther ==
  ASSUME TypeInv, NEW delay, NEW kind \in Kinds \ {"report"}, NEW g \in Gnbs,
         Schedule(delay, kind, g), ListOnce
  PROVE  /\ ListOnce'
         /\ \A h \in Gnbs : Listed(h)' <=> Listed(h)
         /\ (\A e \in m_events : e.uid < m_uid) => \A e \in m_events' : e.uid < m_uid'
<1> DEFINE e0 == [ts |-> m_currentTs + delay, uid |-> m_uid, kind |-> kind, g |-> g]
<1>1. m_events' = m_events \/ m_events' = m_events \cup {e0}
  BY DEF Schedule, Inserted
<1>2. e0.kind # "report" /\ e0.uid = m_uid
  OBVIOUS
<1> HIDE DEF e0
<1>3. m_uid \in Nat /\ m_uid' = m_uid + 1 /\ \A e \in m_events : e.uid \in Nat
  BY DEF Schedule, TypeInv, ListType, OwnedEvent, Event
<1> QED
  BY <1>1, <1>2, <1>3 DEF ListOnce, Listed, IsReport

-----------------------------------------------------------------------------
\* The steps of the thread in Run().

LEMMA RankBelow == \A g \in Gnbs : Rank(g) < Cardinality(Gnbs)
<1> SUFFICES ASSUME NEW g \in Gnbs PROVE Rank(g) < Cardinality(Gnbs)
  OBVIOUS
<1> DEFINE below == {h \in Gnbs : h < g}
<1>1. below \subseteq Gnbs /\ below # Gnbs
  BY GnbsAssumption
<1>2. IsFiniteSet(below) /\ Cardinality(below) <= Cardinality(Gnbs)
        /\ Cardinality(below) # Cardinality(Gnbs)
  BY <1>1, FiniteAssumption, FS_Subset
<1>3. Cardinality(below) \in Nat /\ Cardinality(Gnbs) \in Nat
  BY <1>2, FiniteAssumption, FS_CardinalityType
<1> QED
  BY <1>2, <1>3 DEF Rank

LEMMA InitCycle == Init => CycleInv
<1> SUFFICES ASSUME Init PROVE CycleInv
  OBVIOUS
<1>1. \A e \in m_events : e.kind # "report" /\ e.uid < m_uid
  BY RankBelow, RankInNat, FdsFinite DEF Init, Configured, StopEvent
<1>2. OnePlace
  BY <1>1, EmptyHas, EmptyOnce
     DEF Init, OnePlace, ListOnce, Apart, Off, Waiting, Moving, Listed, Invoked, IsReport
<1>3. Kept
  BY <1>1 DEF Init, Kept
<1> QED
  BY <1>2, <1>3 DEF CycleInv

LEMMA InvokeCycle ==
  ASSUME TypeInv, CycleInv, Invoke, EventCalls, UNCHANGED <<m_isReportingEnabled, raced>>
  PROVE  CycleInv'
<1> USE DEF CycleInv
<1>1. /\ spc = "invoke" /\ spc' = "check" /\ swapped = <<>>
      /\ UNCHANGED <<m_eventsWithContext, swapped, next>>
      /\ \A h \in Gnbs : (Waiting(h)' <=> Waiting(h)) /\ (Moving(h)' <=> Moving(h))
      /\ \A h \in Gnbs : ~Invoked(h)' /\ ~Moving(h)
  BY EmptyHas DEF Invoke, OnePlace, Waiting, Moving, Invoked, Has
<1>2. Once(m_eventsWithContext)' /\ Once(swapped)'
  BY <1>1 DEF OnePlace, Once
<1>3. \A h \in Gnbs : epc'[h] \in {"report", "handover"} => epc'[h] = epc[h]
  <2>1. CASE StartE2
    BY <2>1 DEF StartE2, TypeInv, PcType
  <2> QED
    BY <2>1 DEF EventCalls, SaveActiveUes, BuildAndSendReportMessage, Command, Stop
<1>4. CASE next.kind # "report"
  <2>1. /\ ListOnce'
        /\ \A h \in Gnbs : Listed(h)' <=> Listed(h)
        /\ (\A e \in m_events : e.uid < m_uid) => \A e \in m_events' : e.uid < m_uid'
    <3>1. CASE SaveActiveUes
      <4>1. next.g \in Gnbs
        BY <3>1 DEF SaveActiveUes, TypeInv, ListType, OwnedEvent
      <4> QED
        BY <3>1, <4>1, ScheduleOther DEF SaveActiveUes, Kinds, OnePlace
    <3>2. CASE UNCHANGED <<m_events, m_uid>>
      BY <3>2 DEF OnePlace, ListOnce, Listed
    <3> QED
      BY <1>4, <3>1, <3>2 DEF EventCalls, StartE2, BuildAndSendReportMessage, Command, Stop
  <2>2. UNCHANGED process
    BY <1>4 DEF EventCalls, StartE2, SaveActiveUes, BuildAndSendReportMessage, Command, Stop
  <2>3. \A h \in Gnbs : ~Invoked(h)
    BY <1>4 DEF Invoked, IsReport
  <2>4. OnePlace'
    BY <1>1, <1>2, <1>3, <2>1 DEF OnePlace, Apart, Off
  <2>5. Kept'
    BY <1>1, <2>1, <2>2, <2>3 DEF Kept, Somewhere
  <2> QED
    BY <2>4, <2>5
<1>5. CASE BuildAndSendReportMessage
  <2>0. PICK g \in Gnbs : next.g = g
    BY <1>5 DEF BuildAndSendReportMessage, TypeInv, ListType, OwnedEvent
  <2>1. Invoked(g)
    BY <1>1, <1>5, <2>0 DEF BuildAndSendReportMessage, Invoked, IsReport
  <2>2. m_isReportingEnabled[g] /\ ~Waiting(g) /\ ~Listed(g)
    BY <2>1 DEF OnePlace, Apart, Off
  <2>3. \A h \in Gnbs \ {g} : ~Invoked(h)
    BY <2>0 DEF Invoked, IsReport
  <2>4. CASE process' = "died" /\ UNCHANGED <<m_events, m_uid>>
    <3>1. OnePlace'
      BY <1>1, <1>2, <1>3, <2>4 DEF OnePlace, Apart, Off, ListOnce, Listed
    <3> QED
      BY <2>4, <3>1 DEF Kept
  <2>5. CASE Schedule(Period, "report", g) /\ UNCHANGED process
    <3>1. /\ ListOnce'
          /\ \A h \in Gnbs \ {g} : Listed(h)' <=> Listed(h)
          /\ (\A e \in m_events : e.uid < m_uid)
               => Listed(g)' /\ \A e \in m_events' : e.uid < m_uid'
      BY <2>1, <2>2, <2>5, ScheduleReport DEF OnePlace
    <3>2. OnePlace'
      BY <1>1, <1>2, <1>3, <2>1, <2>2, <3>1 DEF OnePlace, Apart, Off
    <3>3. Kept'
      BY <1>1, <2>1, <2>3, <2>5, <3>1 DEF Kept, Somewhere
    <3> QED
      BY <3>2, <3>3
  <2> QED
    BY <1>5, <2>0, <2>4, <2>5 DEF BuildAndSendReportMessage, SendReport, Dies
<1> QED
  BY <1>4, <1>5 DEF EventCalls, StartE2, SaveActiveUes, Command, Stop

LEMMA RunCycle ==
  ASSUME TypeInv, CycleInv, RunStep, process' \in {"over", process}, Running,
         UNCHANGED <<epc, m_isReportingEnabled, raced>>
  PROVE  CycleInv'
<1> USE DEF CycleInv
<1>1. process # "died" /\ process' # "died"
  BY DEF Running
<1>2. CASE Check \/ Finish
  <2>1. UNCHANGED <<m_events, m_eventsWithContext, m_uid, swapped, next>>
          /\ spc \in {"check", "loop"} /\ spc' \notin {"removed", "invoke", "insert"}
    BY <1>2 DEF Check, Finish
  <2>2. \A h : /\ Waiting(h)' <=> Waiting(h)
               /\ Moving(h)' <=> Moving(h)
               /\ Listed(h)' <=> Listed(h)
               /\ ~Invoked(h)' /\ ~Invoked(h)
    BY <2>1 DEF Waiting, Moving, Listed, Invoked, Has
  <2>3. OnePlace'
    BY <2>1, <2>2 DEF OnePlace, Apart, Off, Once, ListOnce
  <2> QED
    BY <1>1, <2>1, <2>2, <2>3 DEF Kept, Somewhere
<1>3. CASE Swap
  <2>1. /\ UNCHANGED <<m_events, m_uid, next>> /\ spc = "swap" /\ spc' = "insert"
        /\ swapped = <<>> /\ swapped' = m_eventsWithContext /\ m_eventsWithContext' = <<>>
    BY <1>3 DEF Swap, OnePlace
  <2>2. \A h : /\ ~Waiting(h)' /\ ~Moving(h)
               /\ Moving(h)' <=> Waiting(h)
               /\ Listed(h)' <=> Listed(h)
               /\ ~Invoked(h)' /\ ~Invoked(h)
    BY <2>1, EmptyHas DEF Waiting, Moving, Listed, Invoked, Has
  <2>3. OnePlace'
    BY <2>1, <2>2, EmptyOnce DEF OnePlace, Apart, Off, Once, ListOnce
  <2> QED
    BY <1>1, <2>1, <2>2, <2>3 DEF Kept, Somewhere
<1>4. CASE InsertHanded /\ swapped = <<>>
  <2>1. UNCHANGED <<m_events, m_eventsWithContext, m_uid, swapped, next>>
          /\ spc = "insert" /\ spc' = "loop"
    BY <1>4 DEF InsertHanded
  <2>2. \A h : /\ Waiting(h)' <=> Waiting(h)
               /\ Moving(h)' <=> Moving(h)
               /\ Listed(h)' <=> Listed(h)
               /\ ~Invoked(h)' /\ ~Invoked(h)
    BY <2>1 DEF Waiting, Moving, Listed, Invoked, Has
  <2>3. OnePlace'
    BY <1>4, <2>1, <2>2 DEF OnePlace, Apart, Off, Once, ListOnce
  <2> QED
    BY <1>1, <2>1, <2>2, <2>3 DEF Kept, Somewhere
<1>5. CASE InsertHanded /\ swapped # <<>>
  <2>1. swapped \in Seq(OwnedHanded) /\ Head(swapped) \in OwnedHanded
    <3> HIDE DEF OwnedHanded
    <3> QED
      BY <1>5 DEF TypeInv, QueueType
  <2>2. PICK g \in Gnbs, delay \in Nat :
          Head(swapped).g = g /\ Schedule(delay, "report", g)
    BY <1>5, <2>1 DEF InsertHanded, OwnedHanded, Handed
  <2>3. UNCHANGED <<m_eventsWithContext, next, spc>> /\ spc = "insert" /\ swapped' = Tail(swapped)
    BY <1>5 DEF InsertHanded
  <2>4. /\ \A h : Moving(h) <=> h = g \/ Moving(h)'
        /\ Once(swapped)' /\ ~Moving(g)'
    <3> HIDE DEF OwnedHanded
    <3>1. /\ \A h : Has(swapped, h) <=> h = g \/ Has(Tail(swapped), h)
          /\ Once(Tail(swapped)) /\ ~Has(Tail(swapped), g)
      BY <1>5, <2>1, <2>2, TailHas DEF OnePlace
    <3> QED
      BY <2>3, <3>1 DEF Moving, Has, Once
  <2>5. \A h : /\ Waiting(h)' <=> Waiting(h)
               /\ ~Invoked(h)' /\ ~Invoked(h)
    BY <2>3 DEF Waiting, Invoked, Has
  <2>6. m_isReportingEnabled[g] /\ ~Listed(g) /\ ~Waiting(g)
    BY <2>2, <2>4 DEF OnePlace, Apart, Off
  <2>7. /\ ListOnce'
        /\ \A h \in Gnbs \ {g} : Listed(h)' <=> Listed(h)
        /\ (\A e \in m_events : e.uid < m_uid)
             => Listed(g)' /\ \A e \in m_events' : e.uid < m_uid'
    BY <2>2, <2>6, ScheduleReport DEF OnePlace
  <2>8. OnePlace'
    BY <2>2, <2>3, <2>4, <2>5, <2>6, <2>7 DEF OnePlace, Apart, Off, Once
  <2>9. Kept'
    BY <1>1, <2>2, <2>4, <2>5, <2>7 DEF Kept, Somewhere
  <2> QED
    BY <2>8, <2>9
<1>6. CASE RemoveNext
  <2>1. /\ next' \in m_events /\ m_events' = m_events \ {next'}
        /\ spc = "loop" /\ spc' = "removed"
        /\ UNCHANGED <<m_eventsWithContext, swapped, m_uid>>
    BY <1>6 DEF RemoveNext
  <2>2. \A h \in Gnbs : /\ Waiting(h)' <=> Waiting(h)
                        /\ Moving(h)' <=> Moving(h)
                        /\ Listed(h) <=> Listed(h)' \/ Invoked(h)'
                        /\ ~(Listed(h)' /\ Invoked(h)')
                        /\ ~Invoked(h)
    BY <2>1 DEF Waiting, Moving, Listed, Invoked, Has, OnePlace, ListOnce, IsReport
  <2>3. OnePlace'
    BY <2>1, <2>2 DEF OnePlace, Apart, Off, Once, ListOnce
  <2> QED
    BY <1>1, <2>1, <2>2, <2>3 DEF Kept, Somewhere
<1>7. CASE SetTime
  <2>1. /\ UNCHANGED <<m_events, m_eventsWithContext, m_uid, swapped, next>>
        /\ spc = "removed" /\ spc' = "invoke"
    BY <1>7 DEF SetTime
  <2>2. \A h : /\ Waiting(h)' <=> Waiting(h)
               /\ Moving(h)' <=> Moving(h)
               /\ Listed(h)' <=> Listed(h)
               /\ Invoked(h)' <=> Invoked(h)
    BY <2>1 DEF Waiting, Moving, Listed, Invoked, Has
  <2>3. OnePlace'
    BY <2>1, <2>2 DEF OnePlace, Apart, Off, Once, ListOnce
  <2> QED
    BY <1>1, <2>1, <2>2, <2>3 DEF Kept, Somewhere
<1> QED
  BY <1>2, <1>3, <1>4, <1>5, <1>6, <1>7 DEF RunStep

-----------------------------------------------------------------------------
\* The steps of the e2sim threads.

LEMMA EnableCycle ==
  ASSUME TypeInv, CycleInv, Running, NEW g \in Gnbs, EnableReporting(g)
  PROVE  CycleInv'
<1> USE DEF CycleInv
<1> DEFINE x == [delay |-> Period, kind |-> "report", g |-> g]
<1>1. /\ UNCHANGED <<m_events, m_uid, spc, swapped, next, process, raced>>
      /\ m_eventsWithContext' = Append(m_eventsWithContext, x)
      /\ m_isReportingEnabled' = [m_isReportingEnabled EXCEPT ![g] = TRUE]
      /\ epc[g] = "handover" /\ epc' = [epc EXCEPT ![g] = "recv"]
  BY DEF EnableReporting, HandOver, Goes
<1>2. ~m_isReportingEnabled[g] /\ ~Waiting(g) /\ ~Moving(g) /\ ~Listed(g) /\ ~Invoked(g)
  BY <1>1 DEF OnePlace, Off
<1>3. x \in OwnedHanded
  BY PeriodAssumption DEF OwnedHanded, Handed, Kinds, Owners
<1>4. /\ \A h : Waiting(h)' <=> Waiting(h) \/ h = g
      /\ Once(m_eventsWithContext)'
  <2> HIDE DEF OwnedHanded
  <2>1. m_eventsWithContext \in Seq(OwnedHanded) /\ x.g = g
    BY DEF TypeInv, QueueType
  <2> HIDE DEF x
  <2>2. /\ \A h : Has(Append(m_eventsWithContext, x), h)
                    <=> Has(m_eventsWithContext, h) \/ h = g
        /\ Once(Append(m_eventsWithContext, x))
    BY <1>2, <1>3, <2>1, AppendHas DEF OnePlace, Waiting
  <2> QED
    BY <1>1, <2>2 DEF Waiting, Has, Once
<1>5. \A h \in Gnbs : /\ Moving(h)' <=> Moving(h)
                      /\ Listed(h)' <=> Listed(h)
                      /\ Invoked(h)' <=> Invoked(h)
  BY <1>1 DEF Moving, Has, Listed, Invoked
<1>6. /\ m_isReportingEnabled'[g] /\ epc'[g] = "recv"
      /\ \A h \in Gnbs \ {g} : /\ epc'[h] = epc[h]
                               /\ m_isReportingEnabled'[h] = m_isReportingEnabled[h]
  BY <1>1 DEF TypeInv, PcType, ReportingType
<1>7. OnePlace'
  BY <1>1, <1>2, <1>4, <1>5, <1>6 DEF OnePlace, Apart, Off, Once, ListOnce
<1>8. Kept'
  BY <1>1, <1>4, <1>5, <1>6 DEF Kept, Somewhere
<1> QED
  BY <1>7, <1>8

LEMMA ForeignCycle ==
  ASSUME TypeInv, CycleInv, Running, NEW g \in Gnbs, ForeignInsert(g)
  PROVE  CycleInv'
<1> USE DEF CycleInv
<1> DEFINE e0 == [ts |-> key[g].ts, uid |-> key[g].uid, kind |-> "command", g |-> g]
<1>1. /\ UNCHANGED <<m_eventsWithContext, spc, swapped, next, m_isReportingEnabled>>
      /\ m_events' \in {m_events, m_events \cup {e0}}
      /\ epc[g] = "schedule" /\ epc' = [epc EXCEPT ![g] = "reply"]
  BY DEF ForeignInsert, Inserted, Goes
<1>2. ~IsReport(e0, g) /\ \A h \in Gnbs : ~IsReport(e0, h)
  BY DEF IsReport
<1>3. ~raced' => ~raced /\ e0.uid = m_uid /\ m_uid' = m_uid + 1
  <2> SUFFICES ASSUME ~raced' PROVE ~raced /\ e0.uid = m_uid /\ m_uid' = m_uid + 1
    OBVIOUS
  <2>1. raced' = (raced \/ OutOfDate(g))
    BY DEF ForeignInsert
  <2>2. ~raced
    BY <2>1
  <2>3. key[g] = [ts |-> m_currentTs, uid |-> m_uid]
    BY <2>1 DEF OutOfDate
  <2>4. key[g].uid = m_uid
    BY <2>3
  <2> QED
    BY <2>2, <2>4 DEF ForeignInsert
<1> HIDE DEF e0
<1>4. \A h \in Gnbs : /\ Waiting(h)' <=> Waiting(h)
                      /\ Moving(h)' <=> Moving(h)
                      /\ Listed(h)' <=> Listed(h)
                      /\ Invoked(h)' <=> Invoked(h)
  BY <1>1, <1>2 DEF Waiting, Moving, Has, Listed, Invoked
<1>5. ListOnce'
  BY <1>1, <1>2 DEF OnePlace, ListOnce
<1>6. \A h \in Gnbs : epc'[h] \in {"report", "handover"} => epc'[h] = epc[h]
  BY <1>1 DEF TypeInv, PcType
<1>7. OnePlace'
  BY <1>1, <1>4, <1>5, <1>6 DEF OnePlace, Apart, Off, Once
<1>8. ~raced' => \A e \in m_events' : e.uid < m_uid'
  <2>1. m_uid \in Nat /\ \A e \in m_events : e.uid \in Nat
    BY DEF TypeInv, ListType, OwnedEvent, Event
  <2> QED
    BY <1>1, <1>3, <2>1 DEF Kept
<1>9. Kept'
  BY <1>1, <1>3, <1>4, <1>8 DEF Kept, Somewhere, Running
<1> QED
  BY <1>7, <1>9

LEMMA E2ThreadCycle ==
  ASSUME TypeInv, CycleInv, Running, NEW g \in Gnbs, E2Thread(g) \/ Lose(g)
  PROVE  CycleInv'
<1>1. CASE EnableReporting(g)
  BY <1>1, EnableCycle
<1>2. CASE ForeignInsert(g)
  BY <1>2, ForeignCycle
<1>3. CASE ~EnableReporting(g) /\ ~ForeignInsert(g)
  <2>1. UNCHANGED <<m_events, m_uid, m_eventsWithContext, swapped, spc, next, m_isReportingEnabled>>
    BY <1>3, E2ThreadKeeps
  <2>2. UNCHANGED raced
    BY <1>3 DEF E2Thread, Lose, Connect, Sends, Receive, PeerClosed, RecvFails, Respond,
                FirstReport, ForeignKey
  <2>3. \A h \in Gnbs : epc'[h] \in {"report", "handover"} =>
          epc[h] \in {"report", "handover"} \/ ~m_isReportingEnabled[h]
    BY <1>3 DEF E2Thread, Lose, Connect, Sends, Receive, PeerClosed, RecvFails, Respond,
                FirstReport, ForeignKey, Goes, TypeInv, PcType
  <2>4. \A h \in Gnbs : /\ Waiting(h)' <=> Waiting(h)
                        /\ Moving(h)' <=> Moving(h)
                        /\ Listed(h)' <=> Listed(h)
                        /\ Invoked(h)' <=> Invoked(h)
    BY <2>1 DEF Waiting, Moving, Has, Listed, Invoked
  <2>5. OnePlace'
    BY <2>1, <2>3, <2>4 DEF CycleInv, OnePlace, Apart, Off, Once, ListOnce
  <2>6. Kept'
    BY <2>1, <2>2, <2>4 DEF CycleInv, Kept, Somewhere, Running
  <2> QED
    BY <2>5, <2>6 DEF CycleInv
<1> QED
  BY <1>1, <1>2, <1>3

LEMMA NextCycle == TypeInv /\ CycleInv /\ [Next]_vars => CycleInv'
<1> SUFFICES ASSUME TypeInv, CycleInv, [Next]_vars PROVE CycleInv'
  OBVIOUS
<1>1. CASE UNCHANGED vars
  <2>1. UNCHANGED <<m_events, m_uid, m_eventsWithContext, swapped, spc, next,
                    m_isReportingEnabled, epc, raced, process>>
    BY <1>1 DEF vars, eventVars, nodeVars
  <2>2. \A h : /\ Waiting(h)' <=> Waiting(h)
               /\ Moving(h)' <=> Moving(h)
               /\ Listed(h)' <=> Listed(h)
               /\ Invoked(h)' <=> Invoked(h)
    BY <2>1 DEF Waiting, Moving, Has, Listed, Invoked
  <2> QED
    BY <2>1, <2>2
       DEF CycleInv, OnePlace, Apart, Off, Once, ListOnce, Kept, Somewhere
<1> QED
  BY <1>1, NextCases, InvokeCycle, RunCycle, E2ThreadCycle

LEMMA CycleAlways == Spec => [](TypeInv /\ CycleInv)
  BY InitType, InitCycle, NextType, NextCycle, PTL DEF Spec

-----------------------------------------------------------------------------
\* The places as E2Node names them.

LEMMA PlaceIs ==
  ASSUME TypeInv, NEW g \in Gnbs, NEW p \in Places(g)
  PROVE  \/ p = <<"thread", 0>> /\ epc[g] = "handover"
         \/ Waiting(g) /\ \E i \in DOMAIN m_eventsWithContext :
              p = <<"handed", i>> /\ m_eventsWithContext[i].g = g
         \/ Moving(g) /\ \E i \in DOMAIN swapped : p = <<"swapped", i>> /\ swapped[i].g = g
         \/ Listed(g) /\ \E e \in m_events : p = <<"list", e>> /\ IsReport(e, g)
         \/ p = <<"invoked", 0>> /\ Invoked(g)
  BY DEF Places, ReportOf, Waiting, Moving, Has, Listed, Invoked, IsReport

LEMMA PlaceExists ==
  ASSUME TypeInv, NEW g \in Gnbs, Somewhere(g)
  PROVE  Places(g) # {}
<1>1. /\ \A i \in DOMAIN m_eventsWithContext : m_eventsWithContext[i].kind = "report"
      /\ \A i \in DOMAIN swapped : swapped[i].kind = "report"
  BY DEF TypeInv, QueueType, OwnedHanded
<1>2. CASE Waiting(g)
  BY <1>1, <1>2 DEF Waiting, Has, Places, ReportOf
<1>3. CASE Moving(g)
  BY <1>1, <1>3 DEF Moving, Has, Places, ReportOf
<1>4. CASE Listed(g)
  BY <1>4 DEF Listed, IsReport, Places
<1>5. CASE Invoked(g)
  BY <1>5 DEF Invoked, IsReport, Places
<1> QED
  BY <1>2, <1>3, <1>4, <1>5 DEF Somewhere

LEMMA CycleImplies == TypeInv /\ CycleInv => OneReportCycle
<1> SUFFICES ASSUME TypeInv, CycleInv, NEW g \in Gnbs
             PROVE  /\ \A p, q \in Places(g) : p = q
                    /\ ~(m_isReportingEnabled[g] \/ epc[g] = "handover") => Places(g) = {}
                    /\ m_isReportingEnabled[g] /\ process # "died" /\ ~raced => Places(g) # {}
  BY DEF OneReportCycle
<1>1. Apart(g) /\ Off(g) /\ Once(m_eventsWithContext) /\ Once(swapped) /\ ListOnce
  BY DEF CycleInv, OnePlace
<1>2. ASSUME NEW p \in Places(g), NEW q \in Places(g) PROVE p = q
  <2>1. CASE epc[g] = "handover"
    BY <1>1, <2>1, PlaceIs DEF Apart, Off
  <2>2. CASE Waiting(g)
    BY <1>1, <2>2, PlaceIs DEF Apart, Off, Once
  <2>3. CASE Moving(g)
    BY <1>1, <2>3, PlaceIs DEF Apart, Off, Once
  <2>4. CASE Listed(g)
    BY <1>1, <2>4, PlaceIs DEF Apart, Off, ListOnce
  <2>5. CASE Invoked(g)
    BY <1>1, <2>5, PlaceIs DEF Apart, Off
  <2> QED
    BY <2>1, <2>2, <2>3, <2>4, <2>5, PlaceIs
<1>3. ~(m_isReportingEnabled[g] \/ epc[g] = "handover") => Places(g) = {}
  BY <1>1, PlaceIs DEF Off
<1>4. m_isReportingEnabled[g] /\ process # "died" /\ ~raced => Places(g) # {}
  BY PlaceExists DEF CycleInv, Kept
<1> QED
  BY <1>2, <1>3, <1>4

\* However many subscriptions come and whatever threads interleave, a gNB has one cycle
\* of reports, and one that was started is kept while the event list is not disturbed.
THEOREM OneReportCycleCorrect == Spec => []OneReportCycle
  BY CycleAlways, CycleImplies, PTL

-----------------------------------------------------------------------------
\* Time.

InPeriod(q) == \A i \in DOMAIN q : q[i].delay = Period

Timely ==
  /\ ~raced => \A e \in m_events : e.ts >= m_currentTs
  /\ spc = "invoke" => next.ts = m_currentTs
  /\ spc = "removed" /\ ~raced
       => next.ts >= m_currentTs /\ \A e \in m_events : e.ts >= next.ts
  /\ InPeriod(m_eventsWithContext) /\ InPeriod(swapped)

LEMMA InitTimely == Init => Timely
  BY HorizonAssumption DEF Init, Timely, Configured, StopEvent, InPeriod

LEMMA ScheduleTimely ==
  ASSUME TypeInv, Timely, NEW delay \in Nat, NEW kind, NEW g, Schedule(delay, kind, g)
  PROVE  ~raced => \A e \in m_events' : e.ts >= m_currentTs
<1> DEFINE e0 == [ts |-> m_currentTs + delay, uid |-> m_uid, kind |-> kind, g |-> g]
<1>1. m_events' \subseteq m_events \cup {e0} /\ e0.ts >= m_currentTs
  BY DEF Schedule, Inserted, TypeInv, ListType
<1> HIDE DEF e0
<1> QED
  BY <1>1 DEF Timely

LEMMA RunTimely ==
  ASSUME TypeInv, Timely, RunStep, UNCHANGED raced
  PROVE  Timely'
<1>1. CASE Check \/ Swap \/ Finish
  BY <1>1 DEF Check, Swap, Finish, Timely, InPeriod
<1>2. CASE InsertHanded /\ swapped = <<>>
  BY <1>2 DEF InsertHanded, Timely, InPeriod
<1>3. CASE InsertHanded /\ swapped # <<>>
  <2>1. swapped \in Seq(OwnedHanded) /\ Head(swapped) \in OwnedHanded
    <3> HIDE DEF OwnedHanded
    <3> QED
      BY <1>3 DEF TypeInv, QueueType
  <2>2. PICK delay \in Nat : \E kind, g : Schedule(delay, kind, g)
    BY <1>3, <2>1 DEF InsertHanded, OwnedHanded, Handed
  <2>3. /\ UNCHANGED <<m_eventsWithContext, next, spc, m_currentTs>> /\ spc = "insert"
        /\ swapped' = Tail(swapped)
    BY <1>3 DEF InsertHanded
  <2>4. InPeriod(Tail(swapped))
    <3> HIDE DEF OwnedHanded
    <3>1. \A i \in DOMAIN Tail(swapped) :
            i + 1 \in DOMAIN swapped /\ Tail(swapped)[i] = swapped[i + 1]
      BY <1>3, <2>1
    <3> QED
      BY <3>1 DEF Timely, InPeriod
  <2>5. ~raced' => \A e \in m_events' : e.ts >= m_currentTs'
    BY <2>2, <2>3, ScheduleTimely
  <2> QED
    BY <2>3, <2>4, <2>5 DEF Timely, InPeriod
<1>4. CASE RemoveNext
  <2>1. /\ next' \in m_events /\ IsFirst(next') /\ m_events' = m_events \ {next'}
        /\ spc' = "removed" /\ UNCHANGED <<m_currentTs, m_eventsWithContext, swapped>>
    BY <1>4 DEF RemoveNext
  <2>2. \A e \in m_events' : e.ts >= next'.ts
    <3>1. \A e \in m_events : e.ts \in Nat
      BY DEF TypeInv, ListType, OwnedEvent, Event
    <3> QED
      BY <2>1, <3>1 DEF IsFirst, Before
  <2> QED
    BY <2>1, <2>2 DEF Timely, InPeriod
<1>5. CASE SetTime
  <2>1. /\ UNCHANGED <<m_events, next, m_eventsWithContext, swapped>>
        /\ spc = "removed" /\ spc' = "invoke" /\ m_currentTs' = next.ts
    BY <1>5 DEF SetTime
  <2> QED
    BY <2>1 DEF Timely, InPeriod
<1> QED
  BY <1>1, <1>2, <1>3, <1>4, <1>5 DEF RunStep

LEMMA NextTimely == TypeInv /\ Timely /\ [Next]_vars => Timely'
<1> SUFFICES ASSUME TypeInv, Timely, [Next]_vars PROVE Timely'
  OBVIOUS
<1>1. CASE Invoke /\ EventCalls /\ UNCHANGED raced
  <2>1. UNCHANGED <<m_eventsWithContext, swapped, m_currentTs>> /\ spc' = "check"
    BY <1>1 DEF Invoke
  <2>2. UNCHANGED m_events \/ \E delay \in Nat : \E kind, g : Schedule(delay, kind, g)
    BY <1>1, PeriodAssumption
       DEF EventCalls, StartE2, SaveActiveUes, BuildAndSendReportMessage, Command, Stop
  <2>3. ~raced => \A e \in m_events' : e.ts >= m_currentTs
    BY <2>2, ScheduleTimely DEF Timely
  <2> QED
    BY <1>1, <2>1, <2>3 DEF Timely, InPeriod
<1>2. ASSUME NEW g \in Gnbs, E2Thread(g) \/ Lose(g) PROVE Timely'
  <2>1. UNCHANGED <<m_currentTs, spc, swapped, next>>
    BY <1>2, E2ThreadKeeps
  <2>2. InPeriod(m_eventsWithContext)'
    <3>1. CASE EnableReporting(g)
      <4> DEFINE x == [delay |-> Period, kind |-> "report", g |-> g]
      <4>1. m_eventsWithContext' = Append(m_eventsWithContext, x)
        BY <3>1 DEF EnableReporting, HandOver
      <4> HIDE DEF OwnedHanded
      <4>2. m_eventsWithContext \in Seq(OwnedHanded) /\ x.delay = Period
        BY DEF TypeInv, QueueType
      <4> HIDE DEF x
      <4>3. \A i \in DOMAIN m_eventsWithContext' :
              \/ i \in DOMAIN m_eventsWithContext
                   /\ m_eventsWithContext'[i] = m_eventsWithContext[i]
              \/ m_eventsWithContext'[i] = x
        BY <4>1, <4>2
      <4> QED
        BY <4>2, <4>3 DEF Timely, InPeriod
    <3> QED
      BY <1>2, <3>1, E2ThreadKeeps DEF Timely, InPeriod
  <2>3. ~raced' => /\ ~raced
                   /\ \A e \in m_events' : \/ e \in m_events
                                           \/ /\ e.ts = m_currentTs
                                              /\ spc = "removed" => next.ts = m_currentTs
    <3>1. CASE ForeignInsert(g)
      <4> SUFFICES ASSUME ~raced', NEW e \in m_events'
                   PROVE  /\ ~raced
                          /\ \/ e \in m_events
                             \/ /\ e.ts = m_currentTs
                                /\ spc = "removed" => next.ts = m_currentTs
        BY <3>1 DEF ForeignInsert
      <4>1. raced' = (raced \/ OutOfDate(g))
        BY <3>1 DEF ForeignInsert
      <4>2. ~raced
        BY <4>1
      <4>3. /\ key[g] = [ts |-> m_currentTs, uid |-> m_uid]
            /\ spc = "removed" => next.ts = m_currentTs
        BY <4>1 DEF OutOfDate
      <4>4. key[g].ts = m_currentTs /\ m_currentTs \in Nat
        BY <4>3 DEF TypeInv, ListType
      <4>5. e \in m_events \/ e.ts = key[g].ts
        BY <3>1 DEF ForeignInsert, Inserted
      <4> QED
        BY <4>2, <4>3, <4>4, <4>5
    <3>2. CASE ~ForeignInsert(g)
      <4>1. UNCHANGED <<m_events, raced>>
        BY <1>2, <3>2, E2ThreadKeeps
           DEF E2Thread, Lose, Connect, Sends, Receive, PeerClosed, RecvFails, Respond,
               FirstReport, EnableReporting, ForeignKey
      <4> QED
        BY <4>1
    <3> QED
      BY <3>1, <3>2
  <2>4. m_currentTs \in Nat
    BY DEF TypeInv, ListType
  <2>5. ~raced' => \A e \in m_events' : e.ts >= m_currentTs
    BY <2>3, <2>4 DEF Timely
  <2>6. spc = "removed" /\ ~raced'
          => next.ts >= m_currentTs /\ \A e \in m_events' : e.ts >= next.ts
    BY <2>3, <2>4 DEF Timely
  <2> QED
    BY <2>1, <2>2, <2>5, <2>6 DEF Timely, InPeriod
<1>3. CASE UNCHANGED vars
  BY <1>3 DEF vars, eventVars, nodeVars, Timely, InPeriod
<1> QED
  BY <1>1, <1>2, <1>3, RunTimely, NextCases

-----------------------------------------------------------------------------
\* Phase and due time as functions of the places.

PhaseOf(g) ==
  IF Listed(g) \/ Invoked(g) THEN "on"
  ELSE IF Waiting(g) \/ Moving(g) \/ epc[g] = "handover" THEN "first" ELSE "off"

PhaseDue ==
  /\ phase = [g \in Gnbs |-> PhaseOf(g)]
  /\ due = [g \in Gnbs |-> due[g]]
  /\ \A g \in Gnbs : /\ \A e \in m_events : IsReport(e, g) => due[g] = e.ts
                     /\ Invoked(g) => due[g] = next.ts
                     /\ ~Listed(g) /\ ~Invoked(g) => due[g] = 0

LEMMA OnPlaces ==
  ASSUME TypeInv, NEW g \in Gnbs
  PROVE  /\ (\E p \in Places(g) : p[1] = "list") <=> Listed(g)
         /\ (\E p \in Places(g) : p[1] = "invoked") <=> Invoked(g)
         /\ Places(g) = {} <=> ~Somewhere(g) /\ epc[g] # "handover"
<1>1. Listed(g) => \E p \in Places(g) : p[1] = "list"
  <2> SUFFICES ASSUME NEW e \in m_events, IsReport(e, g) PROVE \E p \in Places(g) : p[1] = "list"
    BY DEF Listed
  <2>1. <<"list", e>> \in Places(g)
    BY DEF Places, IsReport
  <2> QED
    BY <2>1
<1>2. Invoked(g) => \E p \in Places(g) : p[1] = "invoked"
  <2> SUFFICES ASSUME Invoked(g) PROVE \E p \in Places(g) : p[1] = "invoked"
    OBVIOUS
  <2>1. <<"invoked", 0>> \in Places(g)
    BY DEF Places, Invoked, IsReport
  <2> QED
    BY <2>1
<1>3. epc[g] = "handover" => Places(g) # {}
  BY DEF Places
<1>4. (\E p \in Places(g) : p[1] = "list") => Listed(g)
  BY PlaceIs
<1>5. (\E p \in Places(g) : p[1] = "invoked") => Invoked(g)
  BY PlaceIs
<1>6. Places(g) # {} => Somewhere(g) \/ epc[g] = "handover"
  BY PlaceIs DEF Somewhere
<1> QED
  BY <1>1, <1>2, <1>3, <1>4, <1>5, <1>6, PlaceExists

LEMMA PhaseDueHolds == TypeInv /\ CycleInv => PhaseDue
<1> SUFFICES ASSUME TypeInv, CycleInv PROVE PhaseDue
  OBVIOUS
<1>1. ASSUME NEW g \in Gnbs PROVE phase[g] = PhaseOf(g)
  <2>1. (\E p \in Places(g) : p[1] \in {"list", "invoked"}) <=> Listed(g) \/ Invoked(g)
    BY OnPlaces
  <2> QED
    BY <2>1, OnPlaces DEF phase, PhaseOf, Somewhere
<1>2. phase = [g \in Gnbs |-> PhaseOf(g)]
  <2>1. phase = [g \in Gnbs |-> phase[g]]
    BY DEF phase
  <2> QED
    BY <1>1, <2>1
<1>3. due = [g \in Gnbs |-> due[g]]
  BY DEF due
<1>4. ASSUME NEW g \in Gnbs, NEW e \in m_events, IsReport(e, g) PROVE due[g] = e.ts
  <2>1. \A f \in m_events : f.kind = "report" /\ f.g = g => f = e
    BY <1>4 DEF CycleInv, OnePlace, ListOnce, IsReport
  <2>2. (CHOOSE f \in m_events : f.kind = "report" /\ f.g = g) = e
    BY <1>4, <2>1 DEF IsReport
  <2>3. Listed(g)
    BY <1>4 DEF Listed
  <2> QED
    BY <2>2, <2>3, OnPlaces DEF due
<1>5. ASSUME NEW g \in Gnbs, Invoked(g) PROVE due[g] = next.ts
  <2>1. ~Listed(g)
    BY <1>5 DEF CycleInv, OnePlace, Apart
  <2> QED
    BY <1>5, <2>1, OnPlaces DEF due
<1>6. ASSUME NEW g \in Gnbs, ~Listed(g), ~Invoked(g) PROVE due[g] = 0
  BY <1>6, OnPlaces DEF due
<1> QED
  BY <1>2, <1>3, <1>4, <1>5, <1>6 DEF PhaseDue

LEMMA PhaseDueNext == (TypeInv /\ CycleInv)' => PhaseDue'
  BY PhaseDueHolds, PTL

-----------------------------------------------------------------------------
\* Each step of E2Node is one of ReportCycle, or stutters, while nothing has disturbed
\* the list.

Disturbed == raced \/ process = "died"

\* Where every gNB's next report keeps its phase and time, ReportCycle stutters.
LEMMA Stutters ==
  ASSUME PhaseDue, PhaseDue', m_events \subseteq m_events',
         \A g \in Gnbs : /\ Listed(g)' <=> Listed(g)
                         /\ Invoked(g)' <=> Invoked(g)
                         /\ Invoked(g) => next' = next
                         /\ (Waiting(g) \/ Moving(g) \/ epc[g] = "handover")'
                              <=> Waiting(g) \/ Moving(g) \/ epc[g] = "handover"
  PROVE  phase' = phase /\ due' = due
<1>1. ASSUME NEW g \in Gnbs PROVE PhaseOf(g)' = PhaseOf(g) /\ due'[g] = due[g]
  <2>1. PhaseOf(g)' = PhaseOf(g)
    BY DEF PhaseOf
  <2>2. due'[g] = due[g]
    <3>1. CASE Listed(g)
      <4>1. PICK e \in m_events : IsReport(e, g)
        BY <3>1 DEF Listed
      <4> QED
        BY <4>1 DEF PhaseDue
    <3> QED
      BY <3>1 DEF PhaseDue
  <2> QED
    BY <2>1, <2>2
<1> HIDE DEF phase, due
<1> QED
  BY <1>1 DEF PhaseDue

\* A report that has come into the list for the present time plus Period.
LEMMA Scheduled ==
  ASSUME PhaseDue, PhaseDue', NEW g \in Gnbs, NEW e0 \in m_events',
         IsReport(e0, g), e0.ts = m_currentTs + Period,
         m_events \subseteq m_events',
         \A h \in Gnbs \ {g} : /\ Listed(h)' <=> Listed(h)
                               /\ ~Invoked(h) /\ ~Invoked(h)'
                               /\ (Waiting(h) \/ Moving(h) \/ epc[h] = "handover")'
                                    <=> Waiting(h) \/ Moving(h) \/ epc[h] = "handover"
  PROVE  /\ phase' = [phase EXCEPT ![g] = "on"]
         /\ due' = [due EXCEPT ![g] = m_currentTs + Period]
<1>1. ASSUME NEW h \in Gnbs \ {g} PROVE PhaseOf(h)' = PhaseOf(h) /\ due'[h] = due[h]
  <2>1. PhaseOf(h)' = PhaseOf(h)
    BY DEF PhaseOf
  <2>2. due'[h] = due[h]
    <3>1. CASE Listed(h)
      <4>1. PICK e \in m_events : IsReport(e, h)
        BY <3>1 DEF Listed
      <4> QED
        BY <4>1 DEF PhaseDue
    <3> QED
      BY <3>1 DEF PhaseDue
  <2> QED
    BY <2>1, <2>2
<1>2. PhaseOf(g)' = "on"
  BY DEF PhaseOf, Listed
<1>3. due'[g] = m_currentTs + Period
  BY DEF PhaseDue
<1> HIDE DEF phase, due
<1> QED
  BY <1>1, <1>2, <1>3 DEF PhaseDue

LEMMA InvokeRefines ==
  ASSUME TypeInv, StartOnce, CycleInv, Timely, Invoke, EventCalls, PhaseDue, PhaseDue',
         ~raced, ~Disturbed'
  PROVE  \/ phase' = phase /\ due' = due /\ m_currentTs' = m_currentTs
         \/ \E g \in Gnbs : Cycle!Report(g)
<1>1. /\ spc = "invoke" /\ spc' = "check" /\ m_currentTs' = m_currentTs
      /\ next.ts = m_currentTs
      /\ \A h \in Gnbs : (Waiting(h)' <=> Waiting(h)) /\ (Moving(h)' <=> Moving(h))
      /\ \A h \in Gnbs : ~Invoked(h)'
  BY DEF Invoke, Waiting, Moving, Invoked, Has, Timely
<1>2. \A h \in Gnbs : epc'[h] = "handover" <=> epc[h] = "handover"
  <2>1. CASE StartE2
    <3>1. epc[next.g] = "off"
      BY <1>1, <2>1 DEF StartE2, StartOnce, IsStart
    <3> QED
      BY <2>1, <3>1 DEF StartE2, TypeInv, PcType
  <2> QED
    BY <2>1 DEF EventCalls, SaveActiveUes, BuildAndSendReportMessage, Command, Stop
<1>3. CASE next.kind # "report"
  <2>1. m_events \subseteq m_events' /\ \A h \in Gnbs : Listed(h)' <=> Listed(h)
    <3>1. CASE SaveActiveUes
      <4>1. next.g \in Gnbs
        BY <3>1 DEF SaveActiveUes, TypeInv, ListType, OwnedEvent
      <4> QED
        BY <3>1, <4>1, ScheduleOther
           DEF SaveActiveUes, Kinds, CycleInv, OnePlace, Schedule, Inserted
    <3>2. CASE UNCHANGED m_events
      BY <3>2 DEF Listed
    <3> QED
      BY <1>3, <3>1, <3>2 DEF EventCalls, StartE2, BuildAndSendReportMessage, Command, Stop
  <2>2. \A h \in Gnbs : ~Invoked(h)
    BY <1>3 DEF Invoked, IsReport
  <2> QED
    BY <1>1, <1>2, <2>1, <2>2, Stutters
<1>4. CASE BuildAndSendReportMessage
  <2>1. PICK g \in Gnbs : next.g = g
    BY <1>4 DEF BuildAndSendReportMessage, TypeInv, ListType, OwnedEvent
  <2>2. Invoked(g) /\ \A h \in Gnbs \ {g} : ~Invoked(h)
    BY <1>1, <1>4, <2>1 DEF BuildAndSendReportMessage, Invoked, IsReport
  <2>3. Schedule(Period, "report", g)
    BY <1>4, <2>1 DEF BuildAndSendReportMessage, Dies, Disturbed
  <2> DEFINE e0 == [ts |-> m_currentTs + Period, uid |-> m_uid, kind |-> "report", g |-> g]
  <2>4. m_events' = m_events \cup {e0}
    BY <2>3 DEF Schedule, Inserted, CycleInv, Kept, TypeInv, ListType, OwnedEvent, Event
  <2>5. e0 \in m_events' /\ IsReport(e0, g) /\ e0.ts = m_currentTs + Period
          /\ \A h \in Gnbs \ {g} : ~IsReport(e0, h)
    BY <2>4 DEF IsReport
  <2> HIDE DEF e0
  <2>6. \A h \in Gnbs \ {g} : Listed(h)' <=> Listed(h)
    BY <2>4, <2>5 DEF Listed
  <2>7. /\ phase' = [phase EXCEPT ![g] = "on"]
        /\ due' = [due EXCEPT ![g] = m_currentTs + Period]
    BY <1>1, <1>2, <2>2, <2>4, <2>5, <2>6, Scheduled
  <2>8. phase[g] = "on" /\ due[g] = m_currentTs
    BY <1>1, <2>2 DEF PhaseDue, PhaseOf
  <2>9. phase' = phase
    <3> HIDE DEF phase
    <3> QED
      BY <2>7, <2>8 DEF PhaseDue
  <2> QED
    BY <1>1, <2>7, <2>8, <2>9 DEF Cycle!Report
<1> QED
  BY <1>3, <1>4 DEF EventCalls, StartE2, SaveActiveUes, Command, Stop

LEMMA RunRefines ==
  ASSUME TypeInv, CycleInv, Timely, RunStep, UNCHANGED epc, PhaseDue, PhaseDue', ~raced
  PROVE  \/ phase' = phase /\ due' = due /\ m_currentTs' = m_currentTs
         \/ Cycle!Advance
         \/ \E g \in Gnbs : Cycle!Learn(g)
<1>1. CASE Check \/ Finish \/ Swap \/ (InsertHanded /\ swapped = <<>>)
  <2>1. /\ UNCHANGED <<m_events, m_currentTs, next>>
        /\ spc \notin {"removed", "invoke"} /\ spc' \notin {"removed", "invoke"}
    BY <1>1 DEF Check, Finish, Swap, InsertHanded
  <2>2. \A h \in Gnbs : /\ Listed(h)' <=> Listed(h)
                        /\ ~Invoked(h) /\ ~Invoked(h)'
    BY <2>1 DEF Listed, Invoked
  <2>3. \A h \in Gnbs : (Waiting(h) \/ Moving(h))' <=> Waiting(h) \/ Moving(h)
    <3>1. CASE Swap
      <4>1. swapped = <<>> /\ swapped' = m_eventsWithContext /\ m_eventsWithContext' = <<>>
        BY <3>1 DEF Swap, CycleInv, OnePlace
      <4> QED
        BY <4>1, EmptyHas DEF Waiting, Moving, Has
    <3>2. CASE ~Swap
      BY <1>1, <3>2 DEF Check, Finish, InsertHanded, Waiting, Moving, Has
    <3> QED
      BY <3>1, <3>2
  <2> QED
    BY <2>1, <2>2, <2>3, Stutters
<1>2. CASE InsertHanded /\ swapped # <<>>
  <2>1. swapped \in Seq(OwnedHanded) /\ Head(swapped) \in OwnedHanded
    <3> HIDE DEF OwnedHanded
    <3> QED
      BY <1>2 DEF TypeInv, QueueType
  <2>2. Head(swapped).delay = Period
    <3> HIDE DEF OwnedHanded
    <3> QED
      BY <1>2, <2>1 DEF Timely, InPeriod
  <2>3. PICK g \in Gnbs : Head(swapped).g = g /\ Schedule(Period, "report", g)
    BY <1>2, <2>1, <2>2 DEF InsertHanded, OwnedHanded, Handed
  <2>4. UNCHANGED <<m_eventsWithContext, next, spc, m_currentTs>> /\ spc = "insert"
          /\ swapped' = Tail(swapped)
    BY <1>2 DEF InsertHanded
  <2>5. \A h : Moving(h) <=> h = g \/ Moving(h)'
    <3> HIDE DEF OwnedHanded
    <3>1. \A h : Has(swapped, h) <=> h = g \/ Has(Tail(swapped), h)
      BY <1>2, <2>1, <2>3, TailHas
    <3> QED
      BY <2>4, <3>1 DEF Moving, Has
  <2>6. \A h : /\ Waiting(h)' <=> Waiting(h)
               /\ ~Invoked(h)' /\ ~Invoked(h)
    BY <2>4 DEF Waiting, Invoked, Has
  <2> DEFINE e0 == [ts |-> m_currentTs + Period, uid |-> m_uid, kind |-> "report", g |-> g]
  <2>7. m_events' = m_events \cup {e0}
    BY <2>3 DEF Schedule, Inserted, CycleInv, Kept, TypeInv, ListType, OwnedEvent, Event
  <2>8. e0 \in m_events' /\ IsReport(e0, g) /\ e0.ts = m_currentTs + Period
          /\ \A h \in Gnbs \ {g} : ~IsReport(e0, h)
    BY <2>7 DEF IsReport
  <2> HIDE DEF e0
  <2>9. \A h \in Gnbs \ {g} : Listed(h)' <=> Listed(h)
    BY <2>7, <2>8 DEF Listed
  <2>10. /\ phase' = [phase EXCEPT ![g] = "on"]
         /\ due' = [due EXCEPT ![g] = m_currentTs + Period]
    BY <2>5, <2>6, <2>7, <2>8, <2>9, Scheduled
  <2>11. phase[g] = "first"
    BY <2>5, <2>6 DEF PhaseDue, PhaseOf, CycleInv, OnePlace, Apart
  <2> QED
    BY <2>4, <2>10, <2>11 DEF Cycle!Learn
<1>3. CASE RemoveNext
  <2>1. /\ next' \in m_events /\ IsFirst(next') /\ m_events' = m_events \ {next'}
        /\ spc = "loop" /\ spc' = "removed"
        /\ UNCHANGED <<m_currentTs, m_eventsWithContext, swapped>>
    BY <1>3 DEF RemoveNext
  <2>2. ASSUME NEW g \in Gnbs
        PROVE  /\ (Listed(g) \/ Invoked(g))' <=> Listed(g) \/ Invoked(g)
               /\ (Waiting(g) \/ Moving(g) \/ epc[g] = "handover")'
                    <=> Waiting(g) \/ Moving(g) \/ epc[g] = "handover"
               /\ ~Invoked(g)
    BY <2>1 DEF Listed, Invoked, Waiting, Moving, Has
  <2>3. ASSUME NEW g \in Gnbs PROVE PhaseOf(g)' = PhaseOf(g) /\ due'[g] = due[g]
    <3>1. PhaseOf(g)' = PhaseOf(g)
      BY <2>2 DEF PhaseOf
    <3>2. due'[g] = due[g]
      <4>1. CASE Listed(g)
        <5>1. PICK e \in m_events : IsReport(e, g)
          BY <4>1 DEF Listed
        <5>2. CASE e = next'
          BY <2>1, <5>1, <5>2 DEF PhaseDue, Invoked
        <5>3. CASE e # next'
          BY <2>1, <5>1, <5>3 DEF PhaseDue
        <5> QED
          BY <5>2, <5>3
      <4>2. CASE ~Listed(g)
        BY <2>2, <4>2 DEF PhaseDue
      <4> QED
        BY <4>1, <4>2
    <3> QED
      BY <3>1, <3>2
  <2>4. phase' = phase /\ due' = due
    <3> HIDE DEF phase, due
    <3> QED
      BY <2>3 DEF PhaseDue
  <2> QED
    BY <2>1, <2>4
<1>4. CASE SetTime
  <2>1. /\ UNCHANGED <<m_events, next, m_eventsWithContext, swapped>>
        /\ spc = "removed" /\ spc' = "invoke" /\ m_currentTs' = next.ts
    BY <1>4 DEF SetTime
  <2>2. \A h \in Gnbs : /\ Listed(h)' <=> Listed(h)
                        /\ Invoked(h)' <=> Invoked(h)
                        /\ Waiting(h)' <=> Waiting(h)
                        /\ Moving(h)' <=> Moving(h)
    BY <2>1 DEF Listed, Invoked, Waiting, Moving, Has
  <2>3. phase' = phase /\ due' = due
    BY <2>1, <2>2, Stutters
  <2>4. /\ m_currentTs \in Nat /\ m_currentTs' \in Nat /\ m_currentTs' >= m_currentTs
        /\ \A e \in m_events : e.ts >= m_currentTs'
    BY <2>1 DEF TypeInv, ListType, OwnedEvent, Event, Timely
  <2>5. ASSUME NEW g \in Gnbs, phase[g] = "on" PROVE m_currentTs' <= due[g]
    <3>1. Listed(g) \/ Invoked(g)
      BY <2>5 DEF PhaseDue, PhaseOf
    <3>2. CASE Listed(g)
      <4>1. PICK e \in m_events : IsReport(e, g)
        BY <3>2 DEF Listed
      <4>2. due[g] = e.ts
        BY <4>1 DEF PhaseDue
      <4>3. e.ts >= m_currentTs' /\ e.ts \in Nat
        BY <2>4, <4>1 DEF TypeInv, ListType, OwnedEvent, Event
      <4> QED
        BY <2>4, <4>2, <4>3
    <3>3. CASE Invoked(g)
      <4>1. due[g] = m_currentTs'
        BY <2>1, <3>3 DEF PhaseDue
      <4> QED
        BY <2>4, <4>1
    <3> QED
      BY <3>1, <3>2, <3>3
  <2> QED
    BY <2>3, <2>4, <2>5 DEF Cycle!Advance
<1> QED
  BY <1>1, <1>2, <1>3, <1>4 DEF RunStep

LEMMA ThreadRefines ==
  ASSUME TypeInv, CycleInv, NEW g \in Gnbs, E2Thread(g) \/ Lose(g), PhaseDue, PhaseDue'
  PROVE  /\ m_currentTs' = m_currentTs
         /\ (phase' = phase /\ due' = due) \/ Cycle!First(g)
<1>1. UNCHANGED <<m_currentTs, spc, swapped, next>>
  BY E2ThreadKeeps
<1>2. m_events \subseteq m_events' /\ \A h \in Gnbs : Listed(h)' <=> Listed(h)
  <2>1. CASE ForeignInsert(g)
    BY <2>1 DEF ForeignInsert, Inserted, Listed, IsReport
  <2> QED
    BY <2>1, E2ThreadKeeps DEF Listed
<1>3. \A h \in Gnbs : (Invoked(h)' <=> Invoked(h)) /\ (Moving(h)' <=> Moving(h))
  BY <1>1 DEF Invoked, Moving, Has
<1>4. CASE FirstReport(g)
  <2>1. /\ epc[g] = "report" /\ epc' = [epc EXCEPT ![g] = "handover"]
        /\ UNCHANGED m_eventsWithContext /\ m_currentTs' = m_currentTs
    BY <1>4 DEF FirstReport, Goes, eventVars
  <2>2. ~Waiting(g) /\ ~Moving(g) /\ ~Listed(g) /\ ~Invoked(g)
    BY <2>1 DEF CycleInv, OnePlace, Off
  <2>3. \A h \in Gnbs : Waiting(h)' <=> Waiting(h)
    BY <2>1 DEF Waiting, Has
  <2>4. epc'[g] = "handover" /\ \A h \in Gnbs \ {g} : epc'[h] = epc[h]
    BY <2>1 DEF TypeInv, PcType
  <2>5. PhaseOf(g) = "off" /\ PhaseOf(g)' = "first" /\ due[g] = 0 /\ due'[g] = 0
    BY <1>2, <1>3, <2>1, <2>2, <2>4 DEF PhaseOf, PhaseDue
  <2>6. ASSUME NEW h \in Gnbs \ {g} PROVE PhaseOf(h)' = PhaseOf(h) /\ due'[h] = due[h]
    <3>1. PhaseOf(h)' = PhaseOf(h)
      BY <1>2, <1>3, <2>3, <2>4 DEF PhaseOf
    <3>2. CASE Listed(h)
      <4>1. PICK e \in m_events : IsReport(e, h)
        BY <3>2 DEF Listed
      <4>2. due'[h] = due[h]
        BY <1>2, <4>1 DEF PhaseDue
      <4> QED
        BY <3>1, <4>2
    <3>3. CASE ~Listed(h)
      <4>1. due'[h] = due[h]
        BY <1>1, <1>2, <1>3, <3>3 DEF PhaseDue
      <4> QED
        BY <3>1, <4>1
    <3> QED
      BY <3>2, <3>3
  <2>7. phase[g] = "off" /\ phase' = [phase EXCEPT ![g] = "first"] /\ due' = due
    <3> HIDE DEF phase, due
    <3> QED
      BY <2>5, <2>6 DEF PhaseDue
  <2> QED
    BY <2>1, <2>7 DEF Cycle!First
<1>5. CASE ~FirstReport(g)
  <2>1. \A h \in Gnbs : (Waiting(h) \/ epc[h] = "handover")'
                          <=> Waiting(h) \/ epc[h] = "handover"
    <3>1. CASE EnableReporting(g)
      <4> DEFINE x == [delay |-> Period, kind |-> "report", g |-> g]
      <4>1. /\ m_eventsWithContext' = Append(m_eventsWithContext, x)
            /\ epc[g] = "handover" /\ epc' = [epc EXCEPT ![g] = "recv"]
        BY <3>1 DEF EnableReporting, HandOver, Goes
      <4>2. x \in OwnedHanded
        BY PeriodAssumption DEF OwnedHanded, Handed, Kinds, Owners
      <4>3. \A h : Waiting(h)' <=> Waiting(h) \/ h = g
        <5> HIDE DEF OwnedHanded
        <5>1. m_eventsWithContext \in Seq(OwnedHanded) /\ x.g = g
          BY DEF TypeInv, QueueType
        <5> HIDE DEF x
        <5>2. \A h : Has(Append(m_eventsWithContext, x), h)
                       <=> Has(m_eventsWithContext, h) \/ h = g
          BY <4>2, <5>1, AppendHas
        <5> QED
          BY <4>1, <5>2 DEF Waiting, Has
      <4> QED
        BY <4>1, <4>3 DEF TypeInv, PcType
    <3>2. CASE ~EnableReporting(g)
      <4>1. UNCHANGED m_eventsWithContext
        BY <3>2, E2ThreadKeeps
      <4>2. \A h \in Gnbs : epc'[h] = "handover" <=> epc[h] = "handover"
        BY <1>5, <3>2
           DEF E2Thread, Lose, Connect, Sends, Receive, PeerClosed, RecvFails, Respond,
               ForeignKey, ForeignInsert, Goes, TypeInv, PcType
      <4> QED
        BY <4>1, <4>2 DEF Waiting, Has
    <3> QED
      BY <3>1, <3>2
  <2> QED
    BY <1>1, <1>2, <1>3, <2>1, Stutters
<1> QED
  BY <1>1, <1>4, <1>5

CyclesInv == TypeInv /\ StartOnce /\ CycleInv /\ Timely

LEMMA CyclesAlways == Spec => []CyclesInv
<1>1. Init => CyclesInv
  BY InitType, InitStart, InitCycle, InitTimely DEF CyclesInv
<1>2. CyclesInv /\ [Next]_vars => CyclesInv'
  BY NextType, NextStart, NextCycle, NextTimely DEF CyclesInv
<1> QED
  BY <1>1, <1>2, PTL DEF Spec

LEMMA InitRefines == Init => Cycle!Init
<1> SUFFICES ASSUME Init PROVE Cycle!Init
  OBVIOUS
<1>1. PhaseDue
  BY InitType, InitCycle, PhaseDueHolds
<1>2. \A g \in Gnbs : ~Waiting(g) /\ ~Moving(g) /\ ~Listed(g) /\ ~Invoked(g) /\ epc[g] = "off"
  BY EmptyHas DEF Init, Waiting, Moving, Listed, Invoked, IsReport, Configured, StopEvent
<1>3. phase = [g \in Gnbs |-> "off"] /\ due = [g \in Gnbs |-> 0]
  <2>1. \A g \in Gnbs : PhaseOf(g) = "off" /\ due[g] = 0
    BY <1>1, <1>2 DEF PhaseDue, PhaseOf
  <2> HIDE DEF phase, due
  <2> QED
    BY <1>1, <2>1 DEF PhaseDue
<1>4. m_currentTs = 0 /\ ~(raced \/ process = "died")
  BY DEF Init
<1> QED
  BY <1>3, <1>4 DEF Cycle!Init

LEMMA NextRefines == CyclesInv /\ CyclesInv' /\ [Next]_vars => [Cycle!Next]_Cycle!vars
<1> SUFFICES ASSUME CyclesInv, CyclesInv', [Next]_vars PROVE [Cycle!Next]_Cycle!vars
  OBVIOUS
<1> USE DEF CyclesInv
<1>1. PhaseDue /\ PhaseDue'
  BY PhaseDueHolds, PhaseDueNext
<1>2. CASE Disturbed'
  BY <1>2 DEF Disturbed, Cycle!Next
<1>3. CASE ~Disturbed' /\ Running /\ Invoke /\ EventCalls /\ UNCHANGED raced
  <2>1. ~raced /\ ~Disturbed
    BY <1>3 DEF Disturbed, Running
  <2> QED
    BY <1>1, <1>3, <2>1, InvokeRefines DEF Disturbed, Cycle!Next, Cycle!vars
<1>4. CASE ~Disturbed' /\ Running /\ RunStep /\ UNCHANGED <<epc, raced>>
  <2>1. ~raced /\ ~Disturbed
    BY <1>4 DEF Disturbed, Running
  <2> QED
    BY <1>1, <1>4, <2>1, RunRefines DEF Disturbed, Cycle!Next, Cycle!vars
<1>5. CASE ~Disturbed' /\ Running /\ \E g \in Gnbs : E2Thread(g) \/ Lose(g)
  <2>1. PICK g \in Gnbs : E2Thread(g) \/ Lose(g)
    BY <1>5
  <2>2. ~Disturbed
    BY <1>5, <2>1 DEF Disturbed, Running, E2Thread, Lose, Connect, Sends, Receive, PeerClosed,
                      RecvFails, Respond, FirstReport, EnableReporting, ForeignKey, ForeignInsert
  <2> QED
    BY <1>1, <1>5, <2>1, <2>2, ThreadRefines DEF Disturbed, Cycle!Next, Cycle!vars
<1>6. CASE UNCHANGED vars
  <2>1. UNCHANGED <<m_events, m_eventsWithContext, swapped, spc, next, epc, m_currentTs, raced,
                    process>>
    BY <1>6 DEF vars, eventVars, nodeVars
  <2>2. \A h : /\ Listed(h)' <=> Listed(h)
               /\ Invoked(h)' <=> Invoked(h)
               /\ Waiting(h)' <=> Waiting(h)
               /\ Moving(h)' <=> Moving(h)
    BY <2>1 DEF Listed, Invoked, Waiting, Moving, Has
  <2>3. phase' = phase /\ due' = due
    BY <1>1, <2>1, <2>2, Stutters
  <2> QED
    BY <2>1, <2>3 DEF Cycle!vars
<1> QED
  BY <1>2, <1>3, <1>4, <1>5, <1>6, NextCases

\* The simulator's list, the queue between the threads and the e2sim threads implement
\* periodic reporting: after its first report a gNB reports once every Period of
\* simulated time, for any set of cells, until the list is disturbed.
THEOREM ReportCycleCorrect == Spec => IsReportCycle
<1>1. CyclesInv /\ CyclesInv' /\ [Next]_vars => [Cycle!Next]_Cycle!vars
  BY NextRefines
<1> QED
  BY <1>1, InitRefines, CyclesAlways, PTL DEF Spec, IsReportCycle, Cycle!Spec
============================================================================
