------------------------- MODULE ControlFileProofs -------------------------
(***************************************************************************)
(* Theorems about ControlFile, for any number of reader chains, writes and *)
(* seconds.                                                                *)
(***************************************************************************)
EXTENDS ControlFile, TLAPS

-----------------------------------------------------------------------------
\* The inductive invariant.

TypeInv ==
  /\ m_scheduleControlMessages \in BOOLEAN
  /\ exists \in BOOLEAN /\ content \in Nat /\ mtime \in Nat
  /\ clock \in Nat \ {0}
  /\ wpc \in {"idle", "writing"} /\ writes \in Nat
  /\ rpc \in {"idle", "read", "truncate", "restat"}
  /\ fileStat \in Nat /\ seen \in Nat /\ touched \in Nat
  /\ left \in Nat /\ (rpc # "idle" => left > 0)
  /\ applied \in Seq(Nat)

\* Commands are numbered as they are written, and reach the file before anyone
\* applies them; an open file is empty.
Written ==
  /\ \A n \in flushed : n \in 1..writes
  /\ window \subseteq flushed
  /\ wpc = "writing" => content = 0 /\ writes \notin flushed /\ writes # 0
  /\ content # 0 => content \in flushed /\ mtime # 0
  /\ \A i \in DOMAIN applied : applied[i] \in flushed

\* What the reader knows, at each of its steps, of a command that did not come in
\* its window: once applied, the time recorded covers it; while it is about to be
\* read, it has not been applied.
Known ==
  /\ rpc = "idle" /\ content # 0 /\ content \notin window /\ WasApplied(content)
       => seen # 0 /\ seen >= mtime
  /\ rpc = "read" /\ content # 0 /\ content \notin window
       => ~WasApplied(content) /\ fileStat = mtime
  /\ rpc = "truncate" /\ content # 0 => WasApplied(content) \/ content \in window
  /\ rpc = "restat" /\ content # 0 => content \in window

FileInv == TypeInv /\ Written /\ Known

-----------------------------------------------------------------------------
LEMMA InitFile == Init => FileInv
<1> SUFFICES ASSUME Init PROVE FileInv
  OBVIOUS
<1>1. TypeInv
  <2>1. m_scheduleControlMessages \in BOOLEAN /\ exists \in BOOLEAN
    BY DEF Init
  <2>2. applied \in Seq(Nat)
    BY DEF Init
  <2>3. /\ content \in Nat /\ mtime \in Nat /\ clock \in Nat \ {0} /\ writes \in Nat
        /\ fileStat \in Nat /\ seen \in Nat /\ touched \in Nat /\ left \in Nat
    BY ChainsAssumption DEF Init
  <2>4. wpc = "idle" /\ rpc = "idle"
    BY DEF Init
  <2> QED
    BY <2>1, <2>2, <2>3, <2>4 DEF TypeInv
<1>2. Written /\ Known
  BY DEF Init, Written, Known
<1> QED
  BY <1>1, <1>2 DEF FileInv

\* Every step keeps the invariant.
LEMMA NextFile == FileInv /\ [Next]_vars => FileInv'
<1> SUFFICES ASSUME FileInv, [Next]_vars PROVE FileInv'
  OBVIOUS
<1> USE DEF FileInv
<1>1. CASE Tick
  BY <1>1 DEF Tick, fileVars, writerVars, readerVars, TypeInv, Written, Known, WasApplied
<1>2. CASE WriteOpen
  <2> USE <1>2 DEF WriteOpen, readerVars, TypeInv
  <2>1. TypeInv'
    OBVIOUS
  <2>2. Written'
    BY DEF Written
  <2>3. Known'
    BY DEF Known, WasApplied
  <2> QED
    BY <2>1, <2>2, <2>3
<1>3. CASE WriteClose
  <2> USE <1>3 DEF WriteClose, readerVars
  <2>1. TypeInv'
    BY DEF TypeInv
  <2>2. CASE content' = writes /\ mtime' = clock /\ flushed' = flushed \cup {writes}
             /\ window' = IF rpc = "idle" THEN window ELSE window \cup {writes}
    <3>1. Written'
      BY <2>2 DEF Written, TypeInv
    <3>2. ~WasApplied(writes)
      BY DEF Written, WasApplied
    <3>3. Known'
      BY <2>2, <3>2 DEF Known, WasApplied, TypeInv
    <3> QED
      BY <2>1, <3>1, <3>3
  <2>3. CASE UNCHANGED <<content, mtime, flushed, window>>
    BY <2>1, <2>3 DEF Written, Known, WasApplied, TypeInv
  <2> QED
    BY <2>2, <2>3
<1>4. CASE Skip
  BY <1>4 DEF Skip, Unchanged, fileVars, writerVars, TypeInv, Written, Known, WasApplied
<1>5. CASE Stat
  BY <1>5 DEF Stat, Unchanged, fileVars, writerVars, TypeInv, Written, Known, WasApplied
<1>6. CASE Read
  <2> USE <1>6 DEF Read, fileVars, writerVars
  <2>1. TypeInv'
    BY DEF TypeInv
  <2>2. Written'
    BY DEF Written, TypeInv
  <2>3. content # 0 => WasApplied(content)'
    <3> HAVE content # 0
    <3>1. applied' = Append(applied, content) /\ applied \in Seq(Nat) /\ content \in Nat
      BY DEF TypeInv
    <3>2. Len(applied) + 1 \in DOMAIN applied' /\ applied'[Len(applied) + 1] = content
      BY <3>1
    <3> QED
      BY <3>2 DEF WasApplied
  <2>4. Known'
    BY <2>3 DEF Known, Written, TypeInv
  <2> QED
    BY <2>1, <2>2, <2>4
<1>7. CASE Truncate
  BY <1>7 DEF Truncate, writerVars, TypeInv, Written, Known, WasApplied
<1>8. CASE Restat
  BY <1>8 DEF Restat, fileVars, writerVars, TypeInv, Written, Known, WasApplied
<1>9. CASE UNCHANGED vars
  BY <1>9 DEF vars, fileVars, writerVars, readerVars, TypeInv, Written, Known, WasApplied
<1> QED
  BY <1>1, <1>2, <1>3, <1>4, <1>5, <1>6, <1>7, <1>8, <1>9 DEF Next, ReadControlFile

\* The invariant holds throughout.
THEOREM FileCorrect == Spec => []FileInv
<1>1. Init => FileInv
  BY InitFile
<1>2. FileInv /\ [Next]_vars => FileInv'
  BY NextFile
<1> QED
  BY <1>1, <1>2, PTL DEF Spec

-----------------------------------------------------------------------------
LEMMA InitOnce == Init => AppliedOnce
  BY DEF Init, AppliedOnce

\* Only Read applies a command, and not one that was applied before, unless it came
\* in the window.
LEMMA NextOnce == FileInv /\ AppliedOnce /\ [Next]_vars => AppliedOnce'
<1> SUFFICES ASSUME FileInv, AppliedOnce, [Next]_vars PROVE AppliedOnce'
  OBVIOUS
<1>1. window \subseteq window'
  BY DEF Next, ReadControlFile, Tick, WriteOpen, WriteClose, Skip, Stat, Read, Truncate, Restat,
         vars, writerVars
<1>2. CASE applied' = applied
  BY <1>1, <1>2 DEF AppliedOnce
<1>3. CASE applied' # applied
  <2>1. Read /\ applied' = Append(applied, content) /\ content # 0 /\ window' = window
    BY <1>3 DEF Next, ReadControlFile, Tick, WriteOpen, WriteClose, Skip, Stat, Read, Truncate,
                Restat, vars, readerVars, writerVars
  <2>2. applied \in Seq(Nat) /\ content \in Nat
    BY DEF FileInv, TypeInv
  <2>3. content \in window \/ \A i \in DOMAIN applied : applied[i] # content
    BY <2>1 DEF FileInv, Known, WasApplied, Read
  <2>4. \A i \in DOMAIN applied' :
          \/ i \in DOMAIN applied /\ applied'[i] = applied[i]
          \/ i = Len(applied) + 1 /\ applied'[i] = content
    BY <2>1, <2>2
  <2> QED
    BY <2>1, <2>3, <2>4 DEF AppliedOnce
<1> QED
  BY <1>2, <1>3

\* A command acts on the simulation at most once, unless it came in the window, for
\* any number of chains, commands and seconds and in either mode.
THEOREM AppliedOnceCorrect == Spec => []AppliedOnce
<1>1. Init => AppliedOnce
  BY InitOnce
<1>2. FileInv /\ AppliedOnce /\ [Next]_vars => AppliedOnce'
  BY NextOnce
<1> QED
  BY <1>1, <1>2, FileCorrect, PTL DEF Spec

-----------------------------------------------------------------------------
LEMMA InitLost == Init => LostOnlyInWindow
  BY DEF Init, LostOnlyInWindow

\* A command leaves the file by the next write, which is recorded, or by Truncate,
\* which comes after Read.
LEMMA NextLost == FileInv /\ LostOnlyInWindow /\ [Next]_vars => LostOnlyInWindow'
<1> SUFFICES ASSUME FileInv, LostOnlyInWindow, [Next]_vars,
                    NEW n \in flushed'
             PROVE  WasApplied(n)' \/ content' = n \/ n \in overwritten' \/ n \in window'
  BY DEF LostOnlyInWindow
<1> USE DEF FileInv
<1>1. CASE n \notin flushed
  BY <1>1 DEF Next, ReadControlFile, Tick, WriteOpen, WriteClose, Skip, Stat, Read, Truncate,
              Restat, vars, writerVars
<1>2. CASE n \in flushed
  <2>1. n # 0
    BY <1>2 DEF Written, TypeInv
  <2>2. WasApplied(n) \/ content = n \/ n \in overwritten \/ n \in window
    BY <1>2 DEF LostOnlyInWindow
  <2>3. window \subseteq window' /\ overwritten \subseteq overwritten'
    BY DEF Next, ReadControlFile, Tick, WriteOpen, WriteClose, Skip, Stat, Read, Truncate,
           Restat, vars, writerVars
  <2>4. WasApplied(n) => WasApplied(n)'
    <3>1. applied' = applied \/ applied' = Append(applied, content)
      BY DEF Next, ReadControlFile, Tick, WriteOpen, WriteClose, Skip, Stat, Read, Truncate,
             Restat, vars, readerVars
    <3>2. applied \in Seq(Nat) /\ content \in Nat
      BY DEF TypeInv
    <3>3. \A i \in DOMAIN applied : i \in DOMAIN applied' /\ applied'[i] = applied[i]
      BY <3>1, <3>2
    <3> QED
      BY <3>3 DEF WasApplied
  <2>5. CASE content = n
    <3>1. CASE WriteOpen
      BY <3>1, <2>1, <2>5 DEF WriteOpen
    <3>2. CASE Truncate
      BY <3>2, <2>1, <2>3, <2>4, <2>5 DEF Truncate, Known
    <3>3. CASE WriteClose
      BY <3>3, <2>1, <2>5 DEF WriteClose, Written
    <3>4. CASE ~WriteOpen /\ ~Truncate /\ ~WriteClose
      BY <3>4, <2>5 DEF Next, ReadControlFile, Tick, Skip, Stat, Read, Restat, vars, fileVars
    <3> QED
      BY <3>1, <3>2, <3>3, <3>4
  <2> QED
    BY <2>2, <2>3, <2>4, <2>5
<1> QED
  BY <1>1, <1>2

\* No command that reached the file is lost outside the window, except to the next
\* write.
THEOREM LostOnlyInWindowCorrect == Spec => []LostOnlyInWindow
<1>1. Init => LostOnlyInWindow
  BY InitLost
<1>2. FileInv /\ LostOnlyInWindow /\ [Next]_vars => LostOnlyInWindow'
  BY NextLost
<1> QED
  BY <1>1, <1>2, FileCorrect, PTL DEF Spec
============================================================================
