----------------------------- MODULE EventList -----------------------------
(***************************************************************************)
(* ns-3's DefaultSimulatorImpl over a MapScheduler: the list of events,    *)
(* which only the thread in Run() may touch, and the queue through which   *)
(* other threads hand events to it (ScheduleWithContext).  A module that   *)
(* says what the events do EXTENDS this one.                               *)
(***************************************************************************)
EXTENDS Integers, Sequences, FiniteSets

CONSTANTS
  Gnbs,        \* cell ids
  Horizon      \* simulated time of the scenario's Simulator::Stop

VARIABLES
  m_events,                  \* MapScheduler::m_list, as a set with one event per key
  m_eventsWithContext,       \* handed over by other threads, under the mutex
  m_eventsWithContextEmpty,  \* read without the mutex
  m_currentTs, m_uid, m_stop,
  spc,                       \* where the thread in Run() is
  swapped,                   \* eventsWithContext, the local queue
  next                       \* the event being processed, or the last one

eventVars == <<m_events, m_eventsWithContext, m_eventsWithContextEmpty, m_currentTs,
               m_uid, m_stop, spc, swapped, next>>

ASSUME GnbsAssumption == Gnbs \subseteq Nat
ASSUME HorizonAssumption == Horizon \in Nat \ {0}

\* No device: the scenario's own events.
Scenario == -1
Owners   == Gnbs \cup {Scenario}

\* What an event calls: E2Termination::Start, SaveActiveUes, BuildAndSendReportMessage,
\* the lambda of a control message, Simulator::Stop.
Kinds    == {"start", "save", "report", "command", "stop"}

\* An event's key is (ts, uid); delay is relative, as threads hand it over.
Event    == [ts : Nat, uid : Nat, kind : Kinds, g : Owners]
Handed   == [delay : Nat, kind : Kinds, g : Owners]

Before(e, f) == e.ts < f.ts \/ (e.ts = f.ts /\ e.uid < f.uid)
IsFirst(e)   == \A f \in m_events \ {e} : Before(e, f)

\* std::map::insert keeps the event that has the key already (NS_ASSERT is off in
\* the optimised build that the repository's guides use).
Inserted(events, e) ==
  IF \E f \in events : f.ts = e.ts /\ f.uid = e.uid THEN events ELSE events \cup {e}

\* Schedule, or ScheduleWithContext, by the thread in Run().
Schedule(delay, kind, g) ==
  /\ m_events' = Inserted(m_events, [ts |-> m_currentTs + delay, uid |-> m_uid,
                                     kind |-> kind, g |-> g])
  /\ m_uid' = m_uid + 1

\* ScheduleWithContext by any other thread: queue and flag under the mutex.
HandOver(delay, kind, g) ==
  /\ m_eventsWithContext' =
       Append(m_eventsWithContext, [delay |-> delay, kind |-> kind, g |-> g])
  /\ m_eventsWithContextEmpty' = FALSE

-----------------------------------------------------------------------------
\* ProcessEventsWithContext: the flag, the swap, one insertion after another.
Check ==
  /\ spc = "check"
  /\ spc' = IF m_eventsWithContextEmpty THEN "loop" ELSE "swap"
  /\ UNCHANGED <<m_events, m_eventsWithContext, m_eventsWithContextEmpty, m_currentTs,
                 m_uid, m_stop, swapped, next>>

Swap ==
  /\ spc = "swap"
  /\ swapped' = m_eventsWithContext
  /\ m_eventsWithContext' = <<>>
  /\ m_eventsWithContextEmpty' = TRUE
  /\ spc' = "insert"
  /\ UNCHANGED <<m_events, m_currentTs, m_uid, m_stop, next>>

\* Mutant: the emptied queue is cleared again, and marked empty, at the end.
InsertHandedClears ==
  /\ spc = "insert"
  /\ \/ /\ swapped # <<>>
        /\ Schedule(Head(swapped).delay, Head(swapped).kind, Head(swapped).g)
        /\ swapped' = Tail(swapped)
        /\ UNCHANGED <<spc, m_eventsWithContextEmpty>>
     \/ /\ swapped = <<>>
        /\ spc' = "loop"
        /\ m_eventsWithContextEmpty' = TRUE
        /\ UNCHANGED <<m_events, m_uid, swapped>>
  /\ UNCHANGED <<m_eventsWithContext, m_currentTs, m_stop, next>>

\* Mutant: the delay is taken for an absolute time.
InsertHandedAbsolute ==
  /\ spc = "insert"
  /\ \/ /\ swapped # <<>>
        /\ m_events' = Inserted(m_events, [ts |-> Head(swapped).delay, uid |-> m_uid,
                                kind |-> Head(swapped).kind, g |-> Head(swapped).g])
        /\ m_uid' = m_uid + 1
        /\ swapped' = Tail(swapped)
        /\ UNCHANGED spc
     \/ /\ swapped = <<>>
        /\ spc' = "loop"
        /\ UNCHANGED <<m_events, m_uid, swapped>>
  /\ UNCHANGED <<m_eventsWithContext, m_eventsWithContextEmpty, m_currentTs, m_stop, next>>

InsertHanded ==
  /\ spc = "insert"
  /\ \/ /\ swapped # <<>>
        /\ Schedule(Head(swapped).delay, Head(swapped).kind, Head(swapped).g)
        /\ swapped' = Tail(swapped)
        /\ UNCHANGED spc
     \/ /\ swapped = <<>>
        /\ spc' = "loop"
        /\ UNCHANGED <<m_events, m_uid, swapped>>
  /\ UNCHANGED <<m_eventsWithContext, m_eventsWithContextEmpty, m_currentTs, m_stop, next>>

\* The first event leaves the list; the simulated time is still the one before ...
RemoveNext ==
  /\ spc = "loop"
  /\ ~m_stop
  /\ \E e \in m_events :
       /\ IsFirst(e)
       /\ next' = e
       /\ m_events' = m_events \ {e}
  /\ spc' = "removed"
  /\ UNCHANGED <<m_eventsWithContext, m_eventsWithContextEmpty, m_currentTs, m_uid, m_stop,
                 swapped>>

\* ... until it becomes the event's own, just before the call.
SetTime ==
  /\ spc = "removed"
  /\ m_currentTs' = next.ts
  /\ spc' = "invoke"
  /\ UNCHANGED <<m_events, m_eventsWithContext, m_eventsWithContextEmpty, m_uid, m_stop,
                 swapped, next>>

\* Run() returns.
Finish ==
  /\ spc = "loop"
  /\ m_stop \/ m_events = {}
  /\ spc' = "done"
  /\ UNCHANGED <<m_events, m_eventsWithContext, m_eventsWithContextEmpty, m_currentTs,
                 m_uid, m_stop, swapped, next>>

RunStep == Check \/ Swap \/ InsertHanded \/ RemoveNext \/ SetTime \/ Finish
============================================================================
