# A TLA+ model of simulator-bridge

simulator-bridge joins an ns-3 simulation of an O-RAN network to a near-real-time RIC and an
external AI. Measurements (KPIs) go from the simulator to the AI, control commands come back:

    ns-3 gNB --E2--> RIC --RMR--> xApp --TCP 5000--> relay --TCP 6000--> external AI
         <--E2-- RIC <--RMR-- xApp <--TCP 5000-- relay <--TCP 6000-- (and port 5002: commands)

This directory holds TLA+ modules for the parts that are concurrent and written for this
project (the xApp, the relay, the simulator as an E2 node, the control files), TLC configurations,
and proofs for TLAPS. Source paths below are relative to `src/`; `XAPP` is
`colosseum-near-rt-ric/setup/xapp-sm-connector/src`, `NS3` is `ns-3-mmwave-oran`.

## 1. Inventory

| component | source | state | operations | talks to |
|---|---|---|---|---|
| AI client | `XAPP/xapp-mgmt/ai_tcp_client.{h,cc}` | `sock_`, `mtx_`, the handler, the listener's counter | `SendKpi`, `GetRecommendation`, `StartControlCommandListener`, `configListenerLoop`, `ensureConnected`, `reset` | relay (TCP), message processor (calls), control handler (callback) |
| relay | `ai_relay_server.py` | `xapp_connections`, `ai_connection`, `connections_lock` | `handle_xapp_connection`, `receive_from_ai`, `connect_to_external_ai`, `handle_command_interface` | xApps, AI, test scripts (TCP) |
| subscriptions | `XAPP/xapp-mgmt/subs_mgmt.{hpp,cc}` | `status_table`, `_data_lock`, `_cv` | `manage_subscription_request`, `manage_subscription_response` | RMR (transmit), receiver thread |
| RMR wrapper | `XAPP/xapp-utils/xapp_rmr.{hpp,cc}` | `_xapp_send_buff`, `_xapp_received_buff` | `xapp_rmr_send`, `xapp_rmr_receive` | the RMR library, every sending thread |
| xApp core, main | `XAPP/xapp.cc`, `XAPP/hw_xapp_main.cc` | `rnib_gnblist`, threads, agent maps | `startup`, `send_ric_control_request`, external control | all of the above |
| message processor | `XAPP/xapp-mgmt/msgs_proc.cc` | the resend flag | `operator()` | AI client, subscriptions |
| agent connector | `XAPP/agent_connector.cc` | `agentIp_socket`, `agentIp_gnbId` | open, close, find, send | DRL agent |
| config receiver, file writer | `XAPP/xapp-mgmt/ai_config_receiver.cc`, `ns3_control_writer.cc` | a listening socket; seven CSV files | accept, receive a frame, truncate and write a file | the reader, through the files; not started by main any more |
| file reader | `NS3/src/lte/model/lte-enb-net-device.cc` (`ReadControlFile`) | `m_controlFileMtimes` | stat, read, apply, truncate | simulator events |
| event list | `NS3/src/core/model/default-simulator-impl.cc`, `map-scheduler.cc` | `m_events`, `m_currentTs`, `m_uid`, the queue for other threads and its flag | `Run`, `Schedule`, `ScheduleNow`, `ScheduleWithContext`, `Stop` | every model of the simulation; e2sim threads |
| oran-interface | `NS3/contrib/oran-interface/model/` | `m_e2sim`, the RIC's address | `E2Termination::Start`, `ProcessRicSubscriptionRequest`, `SendE2Message`, `RicControlMessage::ApplySimpleCommand` | e2sim thread (callbacks), event list |
| gNB device | `NS3/src/mmwave/model/mmwave-enb-net-device.cc` | `m_isReportingEnabled`, report settings | `KpmSubscriptionCallback`, `ControlMessageReceivedCallback`, `BuildAndSendReportMessage`, `SaveActiveUes` | oran-interface, event list |
| e2sim | `oran-e2sim/e2sim/src/` | `client_fd`, callbacks | `run_loop`, `encode_and_send_sctp_data`, `e2ap_handle_sctp_data` | RIC (SCTP), devices (callbacks) |
| RIC platform, ns-3's other core and models, dashboard | `colosseum-near-rt-ric/setup/{e2,e2mgr,dbaas}`, `NS3/src`, `ai-dashboard` | | | third party, numerical or presentation code |

What is hard in it:

- **Shared sockets.** The client's `sock_` is written to by receiver threads, read by the
  listener and replaced by `ensureConnected`, which three kinds of thread call, two of them without
  the mutex. The relay reads the AI's socket from two threads.
- **Locks across blocking calls.** `mtx_` is held over `send` and `recv`, `connections_lock` over
  `sendall` and `recv`, on both sides of the same connection.
- **Reconnection.** Either end may go away between any two steps; a receiver thread in the relay
  ends by starting the thread that will start its successor.
- **A table keyed by pointer and searched by text**, changed by a thread that takes no lock, with
  time-outs that count as success.
- **One send buffer** for all sending threads, and one resend flag for all messages.
- **Start-up order.** The control listener is running before the list that it needs is filled.
- **Two kinds of thread around one event list.** Reports start on a gNB's e2sim thread and go on as events of the
  simulation, through a queue whose flag is read without the mutex. Commands call `ScheduleNow` on the e2sim thread,
  which no lock orders with `Run`.
- **Descriptors.** A closed association's number stays in `client_fd`, and reports go on.
- **Files as messages.** Writer and reader truncate the same file; times have whole seconds; the reader runs twice.

`PROJECT.json` lists the hazards line by line with the properties that cover them.

## 2. Modules

| module | models | composed in |
|---|---|---|
| `TcpLink` | TCP connections between client and relay: both ends' states, bounded FIFO buffers | `AiTcpClient`, `AiRelay` (`EXTENDS`) |
| `AiTcpClient` | the AI client, all its threads; a peer that accepts, reads, sends, closes | `ControlLoop` |
| `AiRelay` | the relay, all its threads; the AI; xApps | `ControlLoop` |
| `ControlLoop` | client and relay over one `TcpLink`, each in the place of the other's environment (`EXTENDS` both) | |
| `ControlChannel` | what xApp and AI are promised of each other's messages; implemented by `ControlLoop` | `ControlLoop` (`INSTANCE`) |
| `SubscriptionHandler` | the subscription table, requesters, responders, the clock | `XappCore` |
| `XappCore` | main's start-up, the receive loop and dispatch, control requests, termination; the table by `INSTANCE SubscriptionHandler` | |
| `XappRmr` | `xapp_rmr_send` on the shared buffer | |
| `EventList` | ns-3's event list, its keys, the queue for other threads, `Run` | `E2Node` (`EXTENDS`) |
| `E2Node` | gNB devices, E2 terminations, e2sim threads with descriptors and failures, over the event list; the RIC | |
| `ReportCycle` | what a subscriber is promised: a report every period; implemented by `E2Node` | `E2Node` (`INSTANCE`) |
| `ControlFile` | one control file between the writer's thread and `ReadControlFile`, with file times | |
| `*Proofs` | theorems | |
| `MC*` | model values and symmetry for the configurations | |

### Correspondence of state and actions

Each thread has a program counter whose labels lie at the points where another thread can
interfere: a lock acquisition, a blocking call, a read or a write of shared state. What lies between
two such points is one action.

- **`AiTcpClient`**: `sock`, `mtx`, `handler`, `listener_running`, `current_sock` and
  `no_connection` are the members and locals of the same names. `check`/`connect` are the two halves
  of `ensureConnected`; `reset_*` and `clear_*` the two statements of `reset()`, `close(sock_)` and
  `sock_ = -1`, with a suffix that says where control goes next. What the relay also has is named `Client...` (`ClientInit`,
  `ClientTypeOK`). A frame to the relay is two units,
  length and body, because `sendFramed` reads `sock_` for each. `wrote`, `handled` are histories.
- **`AiRelay`**: threads are named by the connection or the command that they serve. `lock` is
  `connections_lock`; a `with` block that does not block inside is one guarded step, one that does is an
  `Acquire`, steps, and a `Release`. `sendall` of a frame to the AI or to an xApp is one step that waits for
  room. `recv_framed` is two steps (length, body), because two threads read the AI's socket and an
  xApp may break off between them. A unit that is read out of step (a body taken for a
  length) is above `MAX_FRAME`, which ends the connection.
- **`ControlLoop`** takes the client's threads from one module, the relay's threads and the AI from the other. `Peer` and
  `Xapps`, the environments that stood for the other program, do not act; their bounds (`MaxFrames`, `MaxSends`) and
  variables (`frames`, `sends`, `cut`) stay as they start. `Steady` and `KpiOnly` name what the runs and theorems assume.
- **`SubscriptionHandler`**: `status_table` is a function on the buffers (pointers) that are
  keys; `text` gives the bytes in each buffer. `Entries(id)` is `find_transaction`.
  `wait_for` is `start_wait` (release, join the waiters), `wait`, and `Wake`; `expired` is the
  clock.
- **`XappRmr`**: buffers are numbered, 0 is null. Each statement of `xapp_rmr_send` that reads or
  writes `_xapp_send_buff` is a step. Writing through null leads to `crashed`.
- **`XappCore`**: `main` walks through the calls of `main()` and `startup()`. The receive loop's
  `rmr_rcv_msg` is the environment's choice of a message. `process` becomes `crashed` where the
  code's behaviour is undefined (the vector copied during a `push_back`, an end iterator read) and
  `stopped` at SIGTERM.
- **`EventList`, `E2Node`**: `m_events` is the map of `MapScheduler`: a set in which no two events have one key
  (`Inserted` keeps the old one, as `std::map::insert` does). The thread in `Run` takes one step per point at which another
  thread's step makes a difference: the flag (`Check`), the swap under the mutex, each insertion, the removal of the first event
  (`RemoveNext`), the new time (`SetTime`), the event's call (`Invoke`).
  `epc` is where a gNB's e2sim thread is: connect, setup, `recv`, and the callback it is in.
  `ScheduleNow` on that thread is two steps, the key that it reads (`ForeignKey`) and the insertion (`ForeignInsert`). `table`
  is the process's descriptor table, `client_fd` the number that the termination keeps. `process` ends by `exit` on any
  failed `send`, `recv` or `connect`. `reported` and `raced` are histories; `raced` says that an event was inserted
  with a key that was no longer the present one, or while `Run` was about to set a later time (`OutOfDate`).
- **`ControlFile`**: `Stat`, `Read`, `Truncate`, `Restat` are the four points at which `ReadControlFile` touches the
  file; `WriteOpen` (truncating) and `WriteClose` (the buffer's flush) those of the writer. `seen` is
  `m_controlFileMtimes[filename]`. `window`, `touched`, `flushed`, `overwritten` are histories.

### Abstractions

- A message is a number and a kind. Encodings, ASN.1, JSON text, CSV files and logging are left out.
- The client's `recv` of a frame and the relay's sends of a frame are one step: only one thread
  reads or writes at that place, or a lock is held.
- Reading from a descriptor that another thread closes is taken as an error of that read.
- A send to a peer that has gone may be accepted and lost, or fail. That SIGPIPE would kill the
  xApp (no `MSG_NOSIGNAL`) is a listed hazard, not a behaviour of the model.
- Delays (`sleep`, back-off) are not modelled: any time may pass between two steps.
- `get_request_status` reads through an iterator into a destroyed copy of the map; the model gives
  it the value that the freed node still holds.
- `SubscriptionHandler::status_table` is an `unordered_map` that responders change without `_data_lock`
  (`subs_mgmt.cc:131`, `153-176`) while a requester copies it or inserts (`82-94`). That is a data race; the model takes each access as one
  step, so it shows every order of the accesses but not a copy or a bucket list broken in the middle.
- E2 messages come to the xApp only from gNBs that it has asked to report (`ReceiveNext`). This is an assumption about the gNBs:
  indications that an earlier run of the xApp subscribed to, and messages without a MEID, are left out.
  `ReactionFindsList` rests on it.
- The two threads' unordered access to the event list (a data race) is modelled by what it can leave: a key that is out of
  date, a uid that is written back late, or the end of the process. Insertion into the map itself is one step.
- A gNB's reports are sent or not: `m_sendCuUp`, `m_sendCuCp` and `m_sendDu` are attributes that a scenario sets before `Run`. Where
  all three are off (`Quiet`) the cycle goes on without a message, also on a closed descriptor. The up to three indications
  of one report, their contents and the races on the statistics they are built from are left out. A period is a number of `SaveActiveUes`' 10 ms.
- A control file carries one command, named by the write; a write of several lines is applied as
  one. `ReadControlFile`'s semaphore mode, in which an external program answers each reading, is left out, as are the radio
  parameters that a line changes. Lines are well formed: `std::stoll` and `std::stod` on another one throw, nobody catches it, and the
  process ends (`lte-enb-net-device.cc:368`, `436`; in the writer `ns3_control_writer.cc:185`).
- In `XappRmr`, the pointer tests and uses inside one step see one value of `_xapp_send_buff`.
- The operators marked "Mutant" in the modules are seeded faults: each is a variant of the definition that follows
  it. No specification uses them; they show that each property notices a fault in the code.

## 3. Runs

All runs are finite because calls, messages and connections are bounded; when the bounds are used
up nothing more happens, so the configurations set `CHECK_DEADLOCK FALSE`. A hang is found by
the liveness properties instead.

| run | question | bounds | result |
|---|---|---|---|
| `client_faults` | with the relay absent, closing, or failing under `poll`, and calls before the listener: is the mutex always released, `sock_` never stale for longer than one step of `reset()`, and the handler's order kept? | 1 worker, 2 connections, 2 calls, 2 frames | holds |
| `client_split_frame` | "length-prefixed frames": do both parts of a frame go to one connection if the relay is not up at first? | 1 worker | **violated** |
| `relay_faults` | with xApps and AI going away and frames broken off: lock discipline, no write after close, one AI connection, order | 2 xApp and 2 AI connections, 2 frames, 1 control | holds |
| `relay_reply` | "Wait for response from AI and forward back to xApp": does the answer come? | 1 request | **violated** |
| `subs` | is an entry its requester's own, success earned or timed out, the table left clean, no first request refused, and does every call return? | 2 requesters, 1 responder, 3 calls, 2 responses, 2 gNBs | holds |
| `rmr` | do calls that do not overlap send exactly once or not at all, and do all calls end? | 2 senders, 2 calls, 3 attempts | holds |
| `xapp` | start-up against messages, control and termination; `XappCore` implements `SubscriptionHandler!Spec` | 0 or 2 gNBs, 2 messages of any kind, 1 control | holds |
| `loop_steady` | client and relay together, the relay up: are frames whole and on one connection, nothing leaked, does the listener never block with the mutex, do KPIs and controls get from end to end once and in order (`ControlLoop` implements `ControlChannel`), are commands answered, does every call return? | 1 receiver thread, 2 connections, 1 KPI, 2 controls, 1 command | holds |
| `loop_wedged` | "non-blocking, fire-and-forget": does `SendKpi` return when the socket to the xApp holds one frame? | 1 worker, 2 KPIs, 2 controls | **violated** |
| `e2` | two gNBs against the thread in `Run`: one report cycle each, none lost on the way between the threads, the period kept (`E2Node` implements `ReportCycle`), reports on their own association? | 2 gNBs, one of them quiet, 2 messages of any kind, 1 loss, 3 units of time, period 1 | holds |
| `e2_control` | "`Simulator::ScheduleNow` Thread-unsafe invocation!", `NS_ASSERT (next.key.m_ts >= m_currentTs)`: does simulated time never go back? | 1 gNB, 1 control message | **violated** |
| `files` | is a command applied once, lost only in the reader's window, and noticed if it comes in a later second? | 2 reader chains, 4 writes, 4 seconds, both modes | holds |

Why the bounds are enough: two connections allow every order of one being replaced by
another; two workers, requesters or senders every order of two critical sections; buffers of one or two frames make every
send block at some point; a second call or message finds what the first left behind. Three of
anything only repeats these situations, and most safety properties are proved for all numbers (section 4). The
xApp starts one receiver thread (`start_xapp_receiver(1)`), so `loop_steady` has one. In `e2`, two gNBs make one descriptor number
pass from one to the other (the reports of one show where they go; the other is `Quiet`, so both ways of a report occur), two messages a second subscription while the first is on its way or a command between
the steps of a report, and three units of time a report before and after each. In `files`, four writes and seconds let a command meet each
step of a pass in the same, the next and a later second.

### What the violations show

- `client_split_frame`. `ensureConnected` is called outside the mutex because, the
  comments say, it locks itself. It does not. The starter or the listener can thus replace
  `sock_` between the two sends of a worker's frame. This needs a relay that is absent at first.
- `relay_reply`. A handler that waits for the AI's answer reads the socket that
  `receive_from_ai` also reads, without a lock. If the latter takes the answer, the handler
  waits for ever and holds `connections_lock`. The current xApp does not send recommendation requests
  (`msgs_proc.cc` no longer calls `RequestRecommendation`), so `loop_*` have KPIs only.
- `loop_wedged`. Four parties wait in a circle when both directions of the xApp's connection are
  full: the client's `send` (holding `mtx_`) for the relay's handler, the handler for `connections_lock`, its
  holder's `sendall` for the client's listener, the listener for `mtx_`.

- `e2_control`. A command's `ScheduleNow` runs on the e2sim thread. The key that it computes may be out of date when the event is
  inserted. In a debug build the assertion ends the process; in the optimised build time goes back, an event that
  has the same key is dropped, and a report cycle can end that way (`OneReportCycle` therefore excepts `raced`).

### Fairness

Weak fairness for every thread's steps: the operating system runs every runnable thread. For a lock
this is enough although the lock is not fair, because the number of calls is bounded, so no thread can be overtaken for ever.
The peers are fair only where a property says "while the peer reads": in
`loop_*` the AI and whoever types commands read what they are sent; client and relay are each other's
peers and fair as threads. In `subs` a waiter must be woken only when it is notified or its time is up; spurious wake-ups
may happen and are never owed. In `xapp` only main and the clock are fair: start-up must end even if the receiver
is blocked or has ended. In `files`, `ReadControlFile` is fair because it is a periodic event (in schedule mode, until
its chains have come); neither the writer nor the clock is. `e2` checks safety and a refinement and assumes no fairness.

## 4. Proofs

TLAPS checks the theorems below for every value of the constants that satisfies the modules'
named assumptions (`LinkAssumption`, `ClientAssumption`, `RelayAssumption`,
`SubscriptionAssumption`, `RmrAssumption`, `XappAssumption`, and those of `EventList`, `E2Node` and `ControlFile`: kinds of names are
disjoint, bounds are naturals, gNBs are finitely many numbers, buffers hold at least one item). TLC
evaluates those assumptions in every run. Each theorem has the form `Spec => []Inv`, but for the refinements `UsesSubscriptionHandlerCorrect`, `ReportCycleCorrect` and `ControlChannelCorrect`;
those of `ControlLoopProofs` have hypotheses (see below); each property, `TypeOK` of `XappRmr` and `XappCore` excepted, is also a property of a run.

| module | theorem | property | inductive with |
|---|---|---|---|
| `AiTcpClientProofs` | `TypeCorrect` | `ClientTypeOK` | itself |
| | `MutexCorrect` | `MutexDiscipline` | `ClientTypeOK` |
| | `SockCorrect` | `SockIsOpen` | `ClientTypeOK`, `ListenerOff` |
| | `ControlOrderCorrect` | `ControlInOrder` | `ClientTypeOK`, `OrderInv` |
| `SubscriptionHandlerProofs` | `SubsTypeCorrect` | `TypeOK` | `Bounded` |
| | `OneRequestPerIdCorrect`, `OwnEntryCorrect`, `CleanUpCorrect` | `OneRequestPerId`, `OwnEntryStays`, `ReturnCleansUp` | `TableInv` |
| | `EarlySuccessCorrect` | `EarlySuccessIsAnswered` | `AnsweredInv` |
| | `FirstNotRefusedCorrect` | `FirstNotRefused` | `CountInv`, `RefusedInv` |
| `AiRelayProofs` | `RelayTypeCorrect`, `LockCorrect`, `OneAiConnectionCorrect` | `TypeOK`, `LockDiscipline`, `OneAiConnection` | `CoreInv` |
| | `NoWriteAfterCloseCorrect` | `NoWriteAfterClose` | `CoreInv`, `EndsInv`, `RegisteredInv` |
| | `InOrderCorrect` | `InOrder` | `AiOrderInv`, `ConnsInOrder` |
| `ControlLoopProofs` | `FrameOnOneSocketCorrect`, `NoLeakedConnectionCorrect` | `FrameOnOneSocket`, `NoLeakedConnection` | `LoopTyped`, `SteadyInv` |
| | `RecvFindsDataCorrect` | `RecvFindsData` | and `KpiInv` |
| | `LoopInOrderCorrect` | `LoopInOrder` | and `FrameOnce`, `ControlOrder` |
| | `ControlChannelCorrect` | `IsControlChannel`: `LoopSpec => Channel!Spec` | and `HeardOnSock` |
| `XappCoreProofs` | `XappTypeCorrect` | `TypeOK` | `TypeInv` |
| | `UsesSubscriptionHandlerCorrect` | `UsesSubscriptionHandler`: `Spec => Subs!Spec` | `TypeInv` |
| | `EveryGnbCorrect` | `EveryGnbIsAsked` | `ListInv`, `ReactInv`, `AskInv` |
| | `ReactionCorrect` | `ReactionFindsList` | `ReactInv` |
| | `ReturnedCorrect` | `ReturnedExactly` | `ReturnInv` |
| `XappRmrProofs` | `RmrTypeCorrect` | `TypeOK` | `TypeInv` |
| | `SerialSendCorrect` | `SerialSendIsExact` | `TypeInv`, `SerialInv` |
| `ControlFileProofs` | `AppliedOnceCorrect`, `LostOnlyInWindowCorrect` | `AppliedOnce`, `LostOnlyInWindow` | `FileInv` |
| `E2NodeProofs` | `NodeTypeCorrect` | `TypeOK` | `TypeInv` |
| | `HandedIsFlaggedCorrect` | `HandedIsFlagged` | itself, `TypeInv` |
| | `OwnAssociationCorrect` | `OwnAssociation` | `StartOnce`, `OwnSocket` |
| | `OneReportCycleCorrect` | `OneReportCycle` | `StartOnce`, `CycleInv` |
| | `ReportCycleCorrect` | `IsReportCycle`: `Spec => Cycle!Spec` | `StartOnce`, `CycleInv`, `Timely` |

Why the strengthenings are needed:

- **Client.** The mutex discipline is inductive given the types. `SockIsOpen` needs `ListenerOff`: starting the
  listener must not overwrite the place of a listener that is between `close(sock_)` and `sock_ = -1`.
  For `ControlInOrder`, the history of handled
  frames says nothing of what is still to come, so `OrderInv` adds that each stream is in increasing order and
  beyond everything handled from its connection (`StreamsInOrder`), that handled frames are among those sent
  (`HandledIsPast`), and that the frame in the listener's hand lies between the two
  (`InHandInOrder`).
- **Subscription handler.** `Bounded` relates the counters, and says that a thread under way has a
  buffer with an identifier in it. `TableInv` adds that a requester's buffer is a key exactly while its
  request is in progress. With that, "no entry matches" under the lock means that nobody with that identifier is in progress,
  although the lock is released right after. `AnsweredInv` follows the mark: an entry marked as a success, and a
  responder under way, have an identifier that was answered. It survives the responders' missing lock
  because a mark once earned stays true of the identifier, whoever stores it. `CountInv` counts the calls for an
  identifier: one if a call is under way or was transmitted, two if two callers have it or a new call meets an old
  transmission. Entries left behind by late responses have identifiers that were transmitted, so a
  refused call is never the first.
- **Relay.** The type of an answer depends on the AI connection being there (`WaitInv`), which depends on the lock
  (nothing forgets the connection while a handler holds it), which depends on no receiver being
  started twice (`ConnInv`), which is typed. So these are one induction, `CoreInv`. `ConnInv` says that
  there is one connecting thread or one receiver, and that `ai_connection` is its socket until it forgets
  it. For `NoWriteAfterClose`, `EndsInv` ties the socket's state to its handler's place and
  `RegisteredInv` the dict and the broadcasts' snapshots to it; a snapshot stays within the dict because
  deregistering needs the lock that the broadcast holds. `InOrder` follows a frame from the xApp's stream
  (`UpInOrder`) through the handler's hand to the AI's stream and what the AI has read (`AiOrderInv`): a handler is past
  everything it has sent on (`HandlerIsPast`), and one that finds itself in the middle of a frame reads no more. The order
  is per AI connection. When the relay has reconnected although the AI has not closed
  the old connection (a stolen reply put the receiver out of step), the AI may
  read what is left on the old socket after newer frames.
- **Control loop.** `FrameOnOneSocket` and `NoLeakedConnection` fail when the relay may be absent or calls come before the listener
  (`client_split_frame` shows it), so the theorems assume `Steady`: no refused connection, no failing `poll`, listener first. The
  relay and the AI may still do anything else, and all numbers are free. `LoopTyped` is the client's types and mutex with the relay's
  `CoreInv`, each kept by the other program's steps too. `SteadyInv` says that then nobody resets: the starter connects before anyone
  calls (`StartFirst`), later calls find that connection (`OnlyConn`), which is what `wrote` remembers (`SockRemembered`).
  The relay's handler reads whole frames in turn, because length and body alternate in the socket and a body is due exactly while
  a worker is between its two sends (`WholeFrames`), so it never gives up (`HandlersStay`).
  `RecvFindsData` and the order of control messages also need `KpiOnly`: a call that waits for a recommendation reads the
  listener's frames. With `Ops = {"reco"}`, TLC refutes `LoopInOrder` too: the call takes a later control message for its answer
  while the listener still holds the earlier one. `KpiInv` says that no call reads and that no handler asks the AI, so
  what `poll` saw is there when the listener has the mutex. At most once is `FrameOnce`: a frame is in exactly one of five places (worker, socket, handler,
  the AI's stream, read), once there, and each step moves it from one to the next. Order is `ControlOrder`: the numbers that are
  handled, in the listener's hand, on the socket, in the receiver's hand and on the AI's socket increase in this direction. A second
  AI connection has only numbers that were not yet made when it was set up (`NotMadeYet`), and commands have none.
  For the refinement, `HeardOnSock` says that all that was heard came over the connection that `sock_` names, so the order on it is the order of all;
  `Begin` is an `Ask`, `AiReads` a `Read`, `AiControls` a `Make`, `Handle` a `Hear` or `HearCommand`, every other step a stutter.
- **xApp core.** Every step is a step of the table by main or by the receiver, or leaves the table alone (`SubCases`);
  that needs only the types. For `EveryGnbIsAsked`, `ListInv` says that what main has pushed and what is left
  make one inventory, in which no gNB occurs twice, and `AskInv` that an entry which is not main's, and the response in the
  receiver's hand, name gNBs to which a request was sent, all of them earlier in the list (`SentInv`); so no entry is in
  the way of the next request (`NotPresent`), and main's own entry is there when it wakes. `ReactInv` is the chain from
  a reaction back to start-up: no reaction without a published KPI, no KPI without a transmitted request, no transmission
  before the list is complete. `ReturnInv` says when the resend flag may be set, and that the message in hand is later than all returned.
- **RMR.** While no calls overlap, `TurnInv` names the one call in progress and makes its number the greatest, so a message on the
  wire is told from those of earlier calls. `ProgressInv` follows the message: not on the wire before the send; after it, the
  returned buffer's state says whether it is (`Told`), and a refused buffer still has this call's header and payload.
- **Control file.** A pass takes four steps in which the writer may act, so `Known` relates the recorded time and that of
  the stat to the file's content, and `Written` orders commands, clock and histories.
- **E2 node.** `StartOnce` says that a gNB has at most one start event and none once its thread exists; without it two
  threads would share an `epc`. `OwnSocket` says that an open descriptor is that of its gNB, which the type of `client_fd` does not.
  `CycleInv` splits `OneReportCycle` into `OnePlace` (at most one place for a gNB's next report, and none before its
  first) and `Kept` (it is somewhere, and no key of the list is taken, while nothing is disturbed). For the refinement, `Timely` adds
  that no event of the list is earlier than the clock unless disturbed, that none is earlier than an event just removed, that an event
  being called is at the clock, and that handed-over delays are the period. So `RemoveNext` changes nothing of the cycle, `SetTime`
  is an `Advance` that passes no due report, a report event's call is a `Report`, and `InsertHanded` is a `Learn`.

Left to TLC: the liveness properties `KpiReturns`, `ControlReachesHandler`, `KpiReachesAi`, `CommandAnswered` and those of the other
runs (fairness and `ENABLED` are out of the prover's reach), and the four violations. Every safety property of a
passing run is a theorem.

## 5. Not modelled

- `StopControlCommandListener`, `~AiTcpClient`, `~Xapp`, the signal handler's `exit()`: process exit.
- Functions without a caller: `Xapp::stop`, `Run`, `handle_rx_msg`, `startup_get_policies`,
  `send_socket`, `find_agent_ip_from_gnb`; the delete requests, `clear` and `set_timeout` of the subscription handler. Since
  `find_agent_ip_from_gnb` is never called, `agentIp_gnbId` stays empty: an agent's message
  is always dropped, and `terminate_du_reporting` reads an end iterator if an agent is connected.
- `procRicIndication` and what it calls: decoding; it succeeds or fails.
- The relay's CSV output, `init_csv_files`, port checks.
- The RIC platform, ns-3's models, the dashboard, `temp/`, the example peers: third party,
  numerical, presentation or test code. The AI is the environment of `AiRelay`.
- `ControlGateway`: no file includes it.
- The LTE device's own E2 callbacks and reports: the same code shape as the mmWave device's, with different report contents; its
  control callback decodes traffic-steering lists, which is data. Both devices' file-logging mode, in which no e2sim thread exists.
- `AiConfigReceiver::Start` and `Stop`; `~E2Termination`, which deletes an `E2Sim` that a detached
  thread may still use: both at the end of a process or of a class that is not used.
- ns-3's `Cancel`, `Remove`, `ScheduleDestroy`: not called by the E2 code.

## 6. Plan

Done: the client, the relay and their composition with its refinement; the subscription handler and its use by the core; the RMR sender; the E2
node with its refinement; the control files; the proofs of section 4.

What could follow:

1. The number of times a command is heard in `ControlChannel`, which needs an induction over the history.
2. `E2Node` and `XappCore` over one RIC, once the platform's routing is described well enough to model it.
