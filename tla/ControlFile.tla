---------------------------- MODULE ControlFile ----------------------------
(***************************************************************************)
(* One control file between two processes that share no lock: the xApp's   *)
(* AiConfigReceiver thread writes commands into it (Ns3ControlWriter), and *)
(* the LTE device's ReadControlFile, an event of the simulation, reads,    *)
(* applies and truncates it.  A command is the number of the write that    *)
(* carries it.  File times have whole seconds, as st_mtime.                *)
(***************************************************************************)
EXTENDS Naturals, Sequences, FiniteSets

CONSTANTS
  Chains,      \* how often ReadControlFile is scheduled at start-up
  MaxWrites,   \* bound: calls of WriteControl that open the file
  MaxClock     \* bound: seconds

ASSUME ChainsAssumption == Chains \in Nat \ {0}
ASSUME BoundsAssumption == MaxWrites \in Nat /\ MaxClock \in Nat

VARIABLES
  m_scheduleControlMessages,
  exists, content, mtime,    \* the file: 0 is empty
  clock,                     \* wall clock
  wpc, writes,               \* the receiver thread, and its commands so far
  rpc, fileStat,             \* ReadControlFile, and the st_mtime it has found
  seen,                      \* m_controlFileMtimes[filename], 0 if absent
  left,                      \* chains that still come (schedule mode)
  applied,                   \* commands applied, in order
  flushed, overwritten,      \* commands that reached the file; those a later write cleared
  window, touched            \* commands flushed while the reader was past its stat;
                             \* when the reader last read, truncated or recorded

fileVars   == <<exists, content, mtime>>
writerVars == <<wpc, writes, flushed, window, overwritten>>
readerVars == <<rpc, fileStat, seen, left, applied, touched>>
vars == <<m_scheduleControlMessages, fileVars, clock, writerVars, readerVars>>

Command == 1..MaxWrites

Init ==
  /\ m_scheduleControlMessages \in BOOLEAN
  /\ exists = FALSE /\ content = 0 /\ mtime = 0
  /\ clock = 1
  /\ wpc = "idle" /\ writes = 0
  /\ rpc = "idle" /\ fileStat = 0 /\ seen = 0 /\ left = Chains
  /\ applied = <<>>
  /\ flushed = {} /\ window = {} /\ overwritten = {}
  /\ touched = 0

Tick ==
  /\ clock < MaxClock
  /\ clock' = clock + 1
  /\ UNCHANGED <<m_scheduleControlMessages, fileVars, writerVars, readerVars>>

-----------------------------------------------------------------------------
\* The receiver handles one connection at a time.  A frame that fails, an unknown
\* type or a list without commands never opens the file.

\* std::ofstream csv(file, out | trunc)
WriteOpen ==
  /\ wpc = "idle" /\ writes < MaxWrites
  /\ writes' = writes + 1
  /\ overwritten' = IF content = 0 THEN overwritten ELSE overwritten \cup {content}
  /\ exists' = TRUE /\ content' = 0 /\ mtime' = clock
  /\ wpc' = "writing"
  /\ UNCHANGED <<m_scheduleControlMessages, clock, flushed, window, readerVars>>

\* csv.close(): the lines leave the buffer, unless every command was skipped.
WriteClose ==
  /\ wpc = "writing"
  /\ wpc' = "idle"
  /\ \/ /\ content' = writes /\ mtime' = clock
        /\ flushed' = flushed \cup {writes}
        /\ window' = IF rpc = "idle" THEN window ELSE window \cup {writes}
     \/ UNCHANGED <<content, mtime, flushed, window>>
  /\ UNCHANGED <<m_scheduleControlMessages, exists, clock, writes, overwritten, readerVars>>

-----------------------------------------------------------------------------
\* ReadControlFile, on one file.

\* Mutant: a file whose time is recorded is not looked at again.
UnchangedIfKnown == seen # 0

\* The file is not newer than the time recorded.
Unchanged == seen # 0 /\ seen >= mtime

\* Nothing to do: no file, an empty one (whose entry is erased), or an unchanged one.
Skip ==
  /\ rpc = "idle" /\ left > 0
  /\ ~exists \/ content = 0 \/ Unchanged
  /\ seen' = IF exists /\ content = 0 THEN 0 ELSE seen
  /\ left' = IF m_scheduleControlMessages THEN left - 1 ELSE left
  /\ UNCHANGED <<m_scheduleControlMessages, fileVars, clock, writerVars, rpc, fileStat, applied,
                 touched>>

\* Mutant: no comparison with the recorded time.
StatAlways ==
  /\ rpc = "idle" /\ left > 0
  /\ exists /\ content # 0
  /\ fileStat' = mtime
  /\ rpc' = "read"
  /\ UNCHANGED <<m_scheduleControlMessages, fileVars, clock, writerVars, seen, left, applied,
                 touched>>

\* Mutant: the file is cleared before it is read.
StatClears ==
  /\ rpc = "idle" /\ left > 0
  /\ exists /\ content # 0 /\ ~Unchanged
  /\ fileStat' = mtime
  /\ rpc' = "truncate"
  /\ UNCHANGED <<m_scheduleControlMessages, fileVars, clock, writerVars, seen, left, applied,
                 touched>>

Stat ==
  /\ rpc = "idle" /\ left > 0
  /\ exists /\ content # 0 /\ ~Unchanged
  /\ fileStat' = mtime
  /\ rpc' = "read"
  /\ UNCHANGED <<m_scheduleControlMessages, fileVars, clock, writerVars, seen, left, applied,
                 touched>>

\* Every line is applied as it is read; the time recorded is that of the stat.  In
\* schedule mode the file stays and this chain does not come again.
Read ==
  /\ rpc = "read"
  /\ applied' = IF content = 0 THEN applied ELSE Append(applied, content)
  /\ seen' = fileStat /\ touched' = clock
  /\ IF m_scheduleControlMessages
       THEN rpc' = "idle" /\ left' = left - 1
       ELSE rpc' = "truncate" /\ UNCHANGED left
  /\ UNCHANGED <<m_scheduleControlMessages, fileVars, clock, writerVars, fileStat>>

\* csvDelete.open(filename, trunc)
Truncate ==
  /\ rpc = "truncate"
  /\ content' = 0 /\ mtime' = clock /\ touched' = clock
  /\ rpc' = "restat"
  /\ UNCHANGED <<m_scheduleControlMessages, exists, clock, writerVars, fileStat, seen, left,
                 applied>>

Restat ==
  /\ rpc = "restat"
  /\ seen' = mtime /\ touched' = clock
  /\ rpc' = "idle"
  /\ UNCHANGED <<m_scheduleControlMessages, fileVars, clock, writerVars, fileStat, left,
                 applied>>

ReadControlFile == Skip \/ Stat \/ Read \/ Truncate \/ Restat

Next == Tick \/ WriteOpen \/ WriteClose \/ ReadControlFile

Spec == Init /\ [][Next]_vars
FairSpec == Spec /\ WF_vars(ReadControlFile)

-----------------------------------------------------------------------------
WasApplied(n) == \E i \in DOMAIN applied : applied[i] = n

\* The time that ReadControlFile records, that of its stat, is there to prevent "re-reading
\* same file".  With either mode and any number of reader chains, a command acts on the
\* simulation once, unless it came between a reader's stat and the end of its pass: then
\* in schedule mode the next chain takes the file for a new one.
AppliedOnce ==
  \A i, j \in DOMAIN applied : i # j /\ applied[i] = applied[j] => applied[i] \in window

\* Writer and reader each truncate the file the other is using.  A command that reached
\* the file is applied, still there, or was cleared by the next write, unless it came
\* between the reader's stat and the end of its pass.
LostOnlyInWindow ==
  \A n \in flushed : WasApplied(n) \/ content = n \/ n \in overwritten \/ n \in window

\* With times of one second, a command is noticed if it comes outside that window and in
\* a later second than the reader's last access: it is applied, unless the next write
\* clears it first.
SpacedCommandApplied ==
  \A n \in Command :
    (content = n /\ n \notin window /\ mtime > touched /\ left > 0)
      ~> (WasApplied(n) \/ n \in overwritten)
============================================================================
