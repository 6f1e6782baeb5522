--------------------------- MODULE RunCycleSafety ---------------------------
(***************************************************************************)
(* What holds of RunCycle for every number of processes, logs, sections    *)
(* and lines, checked by TLAPS: its types, one process past the lock at a  *)
(* time, that no hit is lost (RunCycle!NoHitLost), and that RunCycle       *)
(* implements the promise, AtLeastOnce (RunCycle!KeepsPromise).            *)
(*                                                                         *)
(* The last speaks of the state file; what makes it inductive is what the  *)
(* memory of the one process past the lock promises of the file it would   *)
(* write (RunCycle!MemoryOK).                                              *)
(***************************************************************************)
EXTENDS RunCycle, TLAPS

-----------------------------------------------------------------------------
(* Types, and one process past the lock *)

\* What the two endings of a section make of a state is a state; what a mail adds is counted.
LEMMA AdvancedType == ASSUME TypeOK, NEW p \in Procs PROVE Advanced(p) \in States
<1> SUFFICES ASSUME NEW f \in Files, f \in WereRead(p) PROVE AtEnd(p, f) \in Entry
  BY DEF Advanced, States, TypeOK
<1> end[p][f] \in Offsets
  BY DEF WereRead, TypeOK
<1> QED
  BY DEF AtEnd, Entry, TypeOK

LEMMA KeptType == ASSUME TypeOK, ReadsStarted, NEW p \in Procs PROVE Kept(p) \in States
<1> SUFFICES ASSUME NEW f \in Files PROVE Kept(p)[f] \in Entry \cup {None}
  BY DEF Kept, States
<1>1. mem[p][f] \in Entry \cup {None}
  BY DEF TypeOK, States
<1>2. f \in WereRead(p) => end[p][f] \in Offsets /\ AtEnd(p, f) \in Entry
  BY DEF WereRead, AtEnd, Entry, TypeOK
<1>3. f \in Contributing(p) => start[p][f] \in Offsets /\ AtStart(p, f) \in Entry
  BY DEF Contributing, WereRead, AtStart, Entry, TypeOK, ReadsStarted
<1> QED
  BY <1>1, <1>2, <1>3 DEF Kept, TypeOK, Entry

LEMMA MailOutType == ASSUME TypeOK, NEW p \in Procs, MailOut(p)
                     PROVE copies' \in [Files -> [Lines -> 0..MaxCopies]]
BY ConstantsAssumption DEF MailOut, TypeOK

\* Every variable stays in its type: the first part of each argument below.
LEMMA TypeInit == Init => TypeOK
BY ConstantsAssumption DEF Init, TypeOK, Nothing, States, Offsets, Lines, Days, PCs

LEMMA TypeStep == TypeOK /\ ReadsStarted /\ [Next]_vars => TypeOK'
<1> SUFFICES ASSUME TypeOK, ReadsStarted, [Next]_vars PROVE TypeOK'
  OBVIOUS
<1> USE ConstantsAssumption DEF TypeOK, env, locals, ghosts
<1>a. ASSUME NEW f \in Files, Append(f) PROVE TypeOK'
  <2>1. len' \in [Files -> Offsets] /\ len[f] + 1 \in Lines
    BY <1>a DEF Append, Offsets, Lines
  <2>2. hits' \in [Files -> SUBSET Lines]
    <3>1. hits \in [Files -> SUBSET Lines]
      OBVIOUS
    <3>2. hits[f] \cup {len[f] + 1} \in SUBSET Lines
      BY <2>1
    <3>3. [hits EXCEPT ![f] = @ \cup {len[f] + 1}] \in [Files -> SUBSET Lines]
      BY <3>1, <3>2
    <3>4. hits' = hits \/ hits' = [hits EXCEPT ![f] = @ \cup {len[f] + 1}]
      BY <1>a DEF Append
    <3> HIDE DEF TypeOK
    <3> QED
      BY <3>1, <3>3, <3>4
  <2> QED
    BY <1>a, <2>1, <2>2 DEF Append
<1>b. CASE RoomFreed
  BY <1>b DEF RoomFreed
<1>c. CASE RoomLost
  BY <1>c DEF RoomLost, Mishap
<1>d. CASE NextDay
  BY <1>d DEF NextDay, Days
<1>1. ASSUME NEW p \in Procs, TurnedAway(p) PROVE TypeOK'
  BY <1>1 DEF TurnedAway, PCs
<1>2. ASSUME NEW p \in Procs, Acquire(p) PROVE TypeOK'
  BY <1>2 DEF Acquire, PCs, Holding
<1>3. ASSUME NEW p \in Procs, Load(p) PROVE TypeOK'
  BY <1>3 DEF Load, Expired, PCs, Holding, States
<1>4. ASSUME NEW p \in Procs, LoadFails(p) PROVE TypeOK'
  BY <1>4 DEF LoadFails, PCs, Holding
<1>5. ASSUME NEW p \in Procs, OpeningSave(p) PROVE TypeOK'
  BY <1>5 DEF OpeningSave, Write, PCs, Holding, States
<1>6. ASSUME NEW p \in Procs, OpeningSaveFails(p) PROVE TypeOK'
  BY <1>6 DEF OpeningSaveFails, PCs, Holding
<1>7. ASSUME NEW p \in Procs, ClearMarker(p) PROVE TypeOK'
  BY <1>7 DEF ClearMarker, PCs, Holding
<1>8. ASSUME NEW p \in Procs, BeginSection(p) PROVE TypeOK'
  BY <1>8 DEF BeginSection, PCs, Holding
<1>9. ASSUME NEW p \in Procs, AllSectionsDone(p) PROVE TypeOK'
  BY <1>9 DEF AllSectionsDone, PCs, Holding
<1>10. ASSUME NEW p \in Procs, ReadFile(p) PROVE TypeOK'
  <2>1. cur[p] \in Files /\ len[cur[p]] \in Offsets
    BY <1>10 DEF ReadFile, ReadsStarted
  <2>2. end' \in [Procs -> [Files -> Offsets \cup {None}]]
    BY <1>10, <2>1 DEF ReadFile
  <2> QED
    BY <1>10, <2>2 DEF ReadFile, PCs, Holding
<1>11. ASSUME NEW p \in Procs, ReadFails(p) PROVE TypeOK'
  <2>1. cur[p] \in Files /\ AtStart(p, cur[p]) \in Entry
    BY <1>11 DEF ReadFails, ReadsStarted, AtStart, Entry
  <2>2. mem' \in [Procs -> States]
    BY <1>11, <2>1 DEF ReadFails, States
  <2> QED
    BY <1>11, <2>2 DEF ReadFails, PCs, Holding
<1>12. ASSUME NEW p \in Procs, Quiet(p) PROVE TypeOK'
  BY <1>12, AdvancedType DEF Quiet, ReadAll, PCs, Holding
<1>13. ASSUME NEW p \in Procs, Accepted(p) PROVE TypeOK'
  <2>1. copies' \in [Files -> [Lines -> 0..MaxCopies]]
    BY <1>13, MailOutType DEF Accepted
  <2> QED
    BY <1>13, <2>1, AdvancedType DEF Accepted, ReadAll, PCs, Holding
<1>14. ASSUME NEW p \in Procs, Refused(p) PROVE TypeOK'
  BY <1>14, KeptType DEF Refused, NotDelivered, ReadAll, PCs, Holding
<1>15. ASSUME NEW p \in Procs, AnswerLost(p) PROVE TypeOK'
  <2>1. copies' \in [Files -> [Lines -> 0..MaxCopies]]
    BY <1>15, MailOutType DEF AnswerLost
  <2>2. mishaps' \in 0..MaxMishaps
    BY <1>15 DEF AnswerLost, Mishap
  <2>3. mem' \in [Procs -> States] /\ failed' \in [Procs -> BOOLEAN]
    BY <1>15, KeptType DEF AnswerLost, NotDelivered
  <2>4. pc' \in [Procs -> PCs]
    <3>1. "saveKept" \in PCs
      BY DEF PCs, Holding
    <3>2. pc' = [pc EXCEPT ![p] = "saveKept"]
      BY <1>15 DEF AnswerLost, NotDelivered
    <3> QED
      BY <3>1, <3>2
  <2>5. holder' = holder
    BY <1>15 DEF AnswerLost, NotDelivered
  <2> QED
    BY <1>15, <2>1, <2>2, <2>3, <2>4, <2>5 DEF AnswerLost, NotDelivered
<1>16. ASSUME NEW p \in Procs, SectionSave(p) PROVE TypeOK'
  <2>1. disk' \in States
    BY <1>16 DEF SectionSave, Write
  <2>2. since' \in [Files -> Offsets \cup {None}]
    BY <1>16 DEF SectionSave, Write
  <2>3. reached' \in [Files -> Days]
    BY <1>16 DEF SectionSave
  <2>4. pc' \in [Procs -> PCs]
    BY <1>16 DEF SectionSave, PCs, Holding
  <2> QED
    BY <1>16, <2>1, <2>2, <2>3, <2>4 DEF SectionSave
<1>17. ASSUME NEW p \in Procs, SectionSaveFails(p) PROVE TypeOK'
  BY <1>17 DEF SectionSaveFails, PCs, Holding
<1>18. ASSUME NEW p \in Procs, MarkUnsaved(p) PROVE TypeOK'
  <2>1. Unsaved(p) \in Nat
    BY SizeAssumption DEF Unsaved, Bigger
  <2> QED
    BY <1>18, <2>1 DEF MarkUnsaved, PCs, Holding
<1>19. ASSUME NEW p \in Procs, MarkFails(p) PROVE TypeOK'
  <2>1. Unsaved(p) \in Nat
    BY SizeAssumption DEF Unsaved, Bigger
  <2>2. known' \in [Procs -> Nat \cup {None}]
    BY <1>19, <2>1 DEF MarkFails
  <2>3. pc' \in [Procs -> PCs] /\ mishaps' \in 0..MaxMishaps
    BY <1>19 DEF MarkFails, Mishap, PCs, Holding
  <2> QED
    BY <1>19, <2>2, <2>3 DEF MarkFails
<1>20. ASSUME NEW p \in Procs, ResetLoad(p) PROVE TypeOK'
  <2>1. mem' \in [Procs -> States]
    <3>1. /\ Nothing \in States
          /\ \A F \in SUBSET Files : [f \in Files |-> IF f \in F THEN None ELSE disk[f]] \in States
      BY DEF Nothing, States
    <3>2. \/ mem' = [mem EXCEPT ![p] = Nothing]
          \/ \E F \in SUBSET Files :
               mem' = [mem EXCEPT ![p] = [f \in Files |-> IF f \in F THEN None ELSE disk[f]]]
      BY <1>20 DEF ResetLoad
    <3>3. CASE mem' = [mem EXCEPT ![p] = Nothing]
      BY <3>1, <3>3
    <3>4. ASSUME NEW F \in SUBSET Files,
                 mem' = [mem EXCEPT ![p] = [f \in Files |-> IF f \in F THEN None ELSE disk[f]]]
          PROVE mem' \in [Procs -> States]
      BY <3>1, <3>4
    <3> QED
      BY <3>2, <3>3, <3>4
  <2>2. pc' \in [Procs -> PCs]
    BY <1>20, ZenonT(40) DEF ResetLoad, PCs, Holding
  <2>3. /\ holder' \in Procs \cup {None}
        /\ known' \in [Procs -> Nat \cup {None}]
        /\ sec' \in [Procs -> 0..Sections]
    BY <1>20 DEF ResetLoad
  <2> QED
    BY <1>20, <2>1, <2>2, <2>3 DEF ResetLoad
<1>21. ASSUME NEW p \in Procs, ResetSave(p) PROVE TypeOK'
  BY <1>21, SMTT(30) DEF ResetSave, Resetting, Write, PCs, Holding, States
<1>22. ASSUME NEW p \in Procs, ResetSaveFails(p) PROVE TypeOK'
  BY <1>22 DEF ResetSaveFails, PCs, Holding
<1>23. ASSUME NEW p \in Procs, Release(p) PROVE TypeOK'
  BY <1>23 DEF Release, Gone, Nothing, PCs, States
<1>24. ASSUME NEW p \in Procs, StartRun(p) PROVE TypeOK'
  BY <1>24 DEF StartRun, PCs
<1>25. ASSUME NEW p \in Procs, StartReset(p) PROVE TypeOK'
  BY <1>25 DEF StartReset, Mishap, PCs
<1>26. ASSUME NEW p \in Procs, Kill(p) PROVE TypeOK'
  BY <1>26 DEF Kill, Gone, Nothing, Mishap, PCs, States
<1>27. ASSUME NEW p \in Procs, NEW f \in Files, OpenFile(p, f) PROVE TypeOK'
  <2>1. StartOf(p, f) \in Offsets
    BY DEF StartOf, States, Entry, Offsets
  <2>2. start' \in [Procs -> [Files -> Offsets \cup {None}]]
    BY <1>27, <2>1 DEF OpenFile
  <2> QED
    BY <1>27, <2>2 DEF OpenFile, PCs, Holding
<1>28. ASSUME NEW p \in Procs, NEW f \in Files, SkipFile(p, f) PROVE TypeOK'
  BY <1>28 DEF SkipFile
<1>29. CASE UNCHANGED vars
  BY <1>29 DEF vars
<1> QED
  BY <1>a, <1>b, <1>c, <1>d, <1>1, <1>2, <1>3, <1>4, <1>5, <1>6, <1>7, <1>8, <1>9, <1>10, <1>11, <1>12, <1>13, <1>14, <1>15, <1>16, <1>17, <1>18, <1>19, <1>20, <1>21, <1>22, <1>23, <1>24, <1>25, <1>26, <1>27, <1>28, <1>29 DEF Next, World, Step

\* What a read leaves behind is complete: see ReadsStarted.
LEMMA ReadsStep == TypeOK /\ ReadsStarted /\ [Next]_vars => ReadsStarted'
<1> SUFFICES ASSUME TypeOK, ReadsStarted, [Next]_vars PROVE ReadsStarted'
  OBVIOUS
<1> USE DEF TypeOK, ReadsStarted, env, locals, ghosts
<1>1. CASE World
  BY <1>1 DEF World, Append, RoomFreed, RoomLost, NextDay
<1>2. ASSUME NEW p \in Procs,
             \/ StartRun(p) \/ StartReset(p) \/ TurnedAway(p) \/ Acquire(p)
             \/ Load(p) \/ LoadFails(p) \/ OpeningSave(p) \/ OpeningSaveFails(p)
             \/ ClearMarker(p) \/ BeginSection(p) \/ AllSectionsDone(p)
      PROVE ReadsStarted'
  BY <1>2 DEF StartRun, StartReset, TurnedAway, Acquire, Load, LoadFails, OpeningSave,
    OpeningSaveFails, ClearMarker, BeginSection, AllSectionsDone
<1>3. ASSUME NEW p \in Procs,
             \/ Quiet(p) \/ Accepted(p) \/ Refused(p) \/ AnswerLost(p)
             \/ SectionSave(p) \/ SectionSaveFails(p) \/ MarkUnsaved(p) \/ MarkFails(p)
             \/ ResetLoad(p) \/ ResetSave(p) \/ ResetSaveFails(p)
      PROVE ReadsStarted'
  BY <1>3 DEF Quiet, Accepted, Refused, AnswerLost, NotDelivered, SectionSave,
    SectionSaveFails, MarkUnsaved, MarkFails, ResetLoad, ResetSave, ResetSaveFails
<1>4. ASSUME NEW p \in Procs, Release(p) \/ Kill(p) PROVE ReadsStarted'
  <2>1. /\ pc' = [pc EXCEPT ![p] = "idle"]
        /\ cur' = [cur EXCEPT ![p] = None]
        /\ start' = [start EXCEPT ![p] = Nothing]
        /\ end' = [end EXCEPT ![p] = Nothing]
    BY <1>4 DEF Release, Kill, Gone
  <2>2. \A q \in Procs : q # p => /\ pc'[q] = pc[q] /\ cur'[q] = cur[q]
                                  /\ start'[q] = start[q] /\ end'[q] = end[q]
    BY <2>1
  <2>3. pc'[p] = "idle" /\ \A f \in Files : end'[p][f] = None
    BY <2>1 DEF Nothing
  <2> SUFFICES ASSUME NEW q \in Procs
               PROVE  /\ pc'[q] = "read" => cur'[q] \in Files /\ start'[q][cur'[q]] # None
                      /\ \A f \in Files : end'[q][f] # None => start'[q][f] # None
    OBVIOUS
  <2>4. CASE q = p
    BY <2>3, <2>4
  <2>5. CASE q # p
    BY <2>2, <2>5
  <2> QED
    BY <2>4, <2>5
<1>5. ASSUME NEW p \in Procs, NEW f \in Files, OpenFile(p, f) PROVE ReadsStarted'
  <2>1. StartOf(p, f) \in Offsets /\ None \notin Offsets
    BY ConstantsAssumption DEF StartOf, States, Entry, Offsets
  <2> QED
    BY <1>5, <2>1 DEF OpenFile
<1>6. ASSUME NEW p \in Procs, NEW f \in Files, SkipFile(p, f) PROVE ReadsStarted'
  BY <1>6 DEF SkipFile
<1>7. ASSUME NEW p \in Procs, ReadFile(p) \/ ReadFails(p) PROVE ReadsStarted'
  <2>1. CASE ReadFile(p)
    <3>1. cur[p] \in Files /\ start[p][cur[p]] # None
      BY <2>1 DEF ReadFile
    <3> QED
      BY <2>1, <3>1 DEF ReadFile
  <2>2. CASE ReadFails(p)
    BY <2>2 DEF ReadFails
  <2> QED
    BY <1>7, <2>1, <2>2
<1>8. CASE UNCHANGED vars
  BY <1>8 DEF vars
<1> QED
  BY <1>1, <1>2, <1>3, <1>4, <1>5, <1>6, <1>7, <1>8 DEF Next, Step

\* Type correctness: every reachable state of every instance is well typed.
THEOREM TypeCorrect == Spec => []TypeOK
<1>1. Init => TypeOK /\ ReadsStarted
  BY TypeInit DEF Init, ReadsStarted, Nothing
<1>2. TypeOK /\ ReadsStarted /\ [Next]_vars => TypeOK' /\ ReadsStarted'
  BY TypeStep, ReadsStep
<1> QED
  BY <1>1, <1>2, PTL DEF Spec

-----------------------------------------------------------------------------
(* The lock *)

LEMMA HolderInit == Init => HolderHolds
BY ConstantsAssumption DEF Init, HolderHolds, Holding

\* Only taking the lock brings a process past it, only leaving takes it from there.
LEMMA HolderStep == TypeOK /\ HolderHolds /\ [Next]_vars => HolderHolds'
<1> SUFFICES ASSUME TypeOK, HolderHolds, [Next]_vars PROVE HolderHolds'
  OBVIOUS
<1> USE ConstantsAssumption DEF HolderHolds, Holding, env, locals, ghosts
<1>t. pc \in [Procs -> PCs]
  BY DEF TypeOK
<1>1. CASE World
  BY <1>1 DEF World, Append, RoomFreed, RoomLost, NextDay
<1>2. ASSUME NEW p \in Procs, StartRun(p) \/ StartReset(p) \/ TurnedAway(p) PROVE HolderHolds'
  BY <1>t, <1>2 DEF StartRun, StartReset, TurnedAway
<1>3. ASSUME NEW p \in Procs, Acquire(p) PROVE HolderHolds'
  BY <1>t, <1>3 DEF Acquire
<1>4. ASSUME NEW p \in Procs, ResetLoad(p) PROVE HolderHolds'
  <2>1. /\ pc[p] = "resetting" /\ holder = None /\ holder' = p
        /\ \E to \in {"resetAll", "resetOne", "release"} : pc' = [pc EXCEPT ![p] = to]
    BY <1>4 DEF ResetLoad
  <2> QED
    BY <1>t, <2>1
<1>5. ASSUME NEW p \in Procs,
             \/ Load(p) \/ LoadFails(p) \/ OpeningSave(p) \/ OpeningSaveFails(p)
             \/ ClearMarker(p) \/ BeginSection(p) \/ AllSectionsDone(p)
             \/ ReadFile(p) \/ ReadFails(p) \/ MarkUnsaved(p) \/ MarkFails(p)
             \/ \E f \in Files : OpenFile(p, f)
      PROVE HolderHolds'
  BY <1>t, <1>5 DEF Load, LoadFails, OpeningSave, OpeningSaveFails, ClearMarker,
    BeginSection, AllSectionsDone, ReadFile, ReadFails, MarkUnsaved, MarkFails, OpenFile
<1>6. ASSUME NEW p \in Procs,
             \/ Quiet(p) \/ Accepted(p) \/ Refused(p) \/ AnswerLost(p)
             \/ SectionSave(p) \/ SectionSaveFails(p) \/ ResetSave(p) \/ ResetSaveFails(p)
      PROVE HolderHolds'
  BY <1>t, <1>6 DEF Quiet, Accepted, Refused, AnswerLost, NotDelivered, ReadAll, Saving,
    SectionSave, SectionSaveFails, ResetSave, ResetSaveFails, Resetting
<1>7. ASSUME NEW p \in Procs, NEW f \in Files, SkipFile(p, f) PROVE HolderHolds'
  BY <1>7 DEF SkipFile
<1>8. ASSUME NEW p \in Procs, Release(p) \/ Kill(p) PROVE HolderHolds'
  BY <1>t, <1>8 DEF Release, Kill, Gone
<1>9. CASE UNCHANGED vars
  BY <1>9 DEF vars
<1> QED
  BY <1>1, <1>2, <1>3, <1>4, <1>5, <1>6, <1>7, <1>8, <1>9 DEF Next, Step

LEMMA HolderExcludes == HolderHolds => MutualExclusion
BY DEF HolderHolds, MutualExclusion

\* Two processes are never past the lock at once, however many overlap or die.
THEOREM OneRunAtATime == Spec => []MutualExclusion
<1>1. TypeOK /\ HolderHolds /\ [Next]_vars => HolderHolds'
  BY HolderStep
<1> QED
  BY <1>1, HolderInit, HolderExcludes, TypeCorrect, PTL DEF Spec

-----------------------------------------------------------------------------
(* No hit is lost *)

Inv == TypeOK /\ Safe

LEMMA NoneIsNone == None \notin Offsets /\ None \notin Entry
BY ConstantsAssumption DEF Offsets, Entry

LEMMA EntryType == ASSUME NEW off \in Offsets, TypeOK
                   PROVE [off |-> off, day |-> day] \in Entry
BY DEF Entry, TypeOK

\* A process that does not hold the lock promises nothing but the shape of its reads.
LEMMA Bystander ==
  ASSUME NEW q \in Procs, MemoryOK(q),
         pc'[q] \notin Holding,
         start'[q] = start[q], end'[q] = end[q], sec'[q] = sec[q], todo'[q] = todo[q],
         len' = len
  PROVE  MemoryOK(q)'
<1>1. MemDelivered(q)' /\ MemAhead(q)' /\ SectionOK(q)'
  BY DEF MemDelivered, MemAhead, SectionOK, Working, Holding
<1>2. ReadsOK(q)'
  BY DEF MemoryOK, ReadsOK
<1> QED
  BY <1>1, <1>2 DEF MemoryOK

\* Beside a process past the lock there is no other.
LEMMA Alone ==
  ASSUME HolderHolds, NEW p \in Procs, pc[p] \in Holding \/ holder = None,
         NEW q \in Procs, q # p
  PROVE  pc[q] \notin Holding
BY ConstantsAssumption DEF HolderHolds

\* An unchanged process over unchanged logs, state file and history promises what it did.
LEMMA Unmoved ==
  ASSUME NEW q \in Procs, MemoryOK(q),
         pc'[q] = pc[q], mem'[q] = mem[q], cur'[q] = cur[q],
         start'[q] = start[q], end'[q] = end[q], sec'[q] = sec[q], todo'[q] = todo[q],
         UNCHANGED <<len, hits, disk, day, copies, since>>
  PROVE  MemoryOK(q)'
<1>1. MemDelivered(q)'
  BY DEF MemoryOK, MemDelivered, Base, Delivered
<1>2. MemAhead(q)'
  BY DEF MemoryOK, MemAhead, Age
<1>3. ReadsOK(q)' /\ SectionOK(q)'
  BY DEF MemoryOK, ReadsOK, SectionOK
<1> QED
  BY <1>1, <1>2, <1>3 DEF MemoryOK

LEMMA SafeInit == Init => Safe
<1> SUFFICES ASSUME Init PROVE Safe
  OBVIOUS
<1>1. ReadsStarted /\ HolderHolds
  BY HolderInit DEF Init, ReadsStarted, Nothing
<1>2. LogsOK /\ NoHitLost
  BY DEF Init, LogsOK, NoHitLost, Nothing
<1>3. \A p \in Procs : MemoryOK(p)
  BY ConstantsAssumption DEF Init, MemoryOK, MemDelivered, MemAhead, ReadsOK, SectionOK, Nothing, Working, Holding
<1> QED
  BY <1>1, <1>2, <1>3 DEF Safe

-----------------------------------------------------------------------------
(* The steps that leave the state file, and the history of it, alone *)

\* Logs and history only grow: nothing is taken back.
LEMMA AppendSafe == ASSUME Inv, NEW g \in Files, Append(g) PROVE LogsOK' /\ NoHitLost' /\ \A p \in Procs : MemoryOK(p)'
<1> USE DEF Inv, Safe
<1>1. /\ \A f \in Files : len[f] \in Nat /\ len'[f] \in Nat /\ len[f] <= len'[f]
      /\ \A f \in Files : \A i \in hits'[f] : i \in hits[f] \/ (i = len[f] + 1 /\ i = len'[f])
      /\ UNCHANGED <<room, day, disk, marker, holder, pc, locals, ghosts>>
  <2> USE DEF Append, TypeOK, Offsets
  <2>1. \A f \in Files : len[f] \in Nat /\ len'[f] \in Nat /\ len[f] <= len'[f]
    BY ConstantsAssumption
  <2>2. \A f \in Files : \A i \in hits'[f] : i \in hits[f] \/ (i = len[f] + 1 /\ i = len'[f])
    OBVIOUS
  <2> QED
    BY <2>1, <2>2
<1>2. ASSUME NEW f \in Files, NEW a \in Offsets, NEW b \in Offsets, b <= len[f], Delivered(f, a, b)
      PROVE  Delivered(f, a, b)'
  BY <1>1, <1>2 DEF Delivered, ghosts, TypeOK, Offsets
<1>3. LogsOK'
  <2> SUFFICES ASSUME NEW f \in Files
               PROVE  /\ \A i \in hits'[f] : i <= len'[f]
                      /\ (disk'[f] # None => disk'[f].off <= len'[f])
                      /\ (disk'[f] = None => since'[f] = None)
    BY DEF LogsOK
  <2>1. \A i \in hits'[f] : i <= len'[f]
    <3> SUFFICES ASSUME NEW i \in hits'[f] PROVE i <= len'[f]
      OBVIOUS
    <3>1. i \in hits[f] \/ i = len'[f]
      BY <1>1
    <3>2. \A j \in hits[f] : j \in Int /\ j <= len[f]
      BY DEF LogsOK, TypeOK, Lines
    <3> QED
      BY <1>1, <3>1, <3>2
  <2>2. disk'[f] # None => disk'[f].off <= len'[f]
    BY <1>1 DEF LogsOK, TypeOK, States, Entry, Offsets
  <2>3. disk'[f] = None => since'[f] = None
    BY <1>1 DEF LogsOK, ghosts
  <2> QED
    BY <2>1, <2>2, <2>3
<1>4. NoHitLost'
  BY <1>1, <1>2 DEF NoHitLost, LogsOK, ghosts, TypeOK, States, Entry
<1>5. ASSUME NEW p \in Procs PROVE MemoryOK(p)'
  <2>1. /\ pc'[p] = pc[p] /\ mem'[p] = mem[p] /\ cur'[p] = cur[p] /\ start'[p] = start[p]
        /\ end'[p] = end[p] /\ sec'[p] = sec[p] /\ todo'[p] = todo[p]
        /\ UNCHANGED <<disk, day, copies, since>>
    BY <1>1 DEF locals, ghosts
  <2>2. MemDelivered(p)'
    <3> SUFFICES ASSUME pc[p] \in Working, NEW f \in Files, mem[p][f] # None
                 PROVE  /\ Base(p, f)' # None
                        /\ Base(p, f)' <= mem[p][f].off
                        /\ mem[p][f].off <= len'[f]
                        /\ Delivered(f, Base(p, f), mem[p][f].off)'
      BY <2>1 DEF MemDelivered
    <3>1. /\ Base(p, f) # None /\ Base(p, f) <= mem[p][f].off /\ mem[p][f].off <= len[f]
          /\ Delivered(f, Base(p, f), mem[p][f].off)
      BY DEF MemoryOK, MemDelivered
    <3>2. Base(p, f)' = Base(p, f)
      BY <2>1 DEF Base
    <3>3. Base(p, f) \in Offsets /\ mem[p][f].off \in Offsets
      BY <3>1 DEF Base, TypeOK, States, Entry
    <3>4. Delivered(f, Base(p, f), mem[p][f].off)'
      BY <1>1, <2>1, <3>1, <3>2, <3>3 DEF Delivered, Offsets
    <3> QED
      BY <1>1, <3>1, <3>2, <3>3, <3>4 DEF Offsets
  <2>3. MemAhead(p)'
    BY <2>1 DEF MemoryOK, MemAhead, Age
  <2>4. ReadsOK(p)'
    <3>1. ASSUME NEW f \in Files
          PROVE  /\ (start[p][f] # None => start[p][f] <= len'[f])
                 /\ (end[p][f] # None => start[p][f] <= end[p][f] /\ end[p][f] <= len'[f])
      <4>1. start[p][f] \in Offsets \cup {None} /\ end[p][f] \in Offsets \cup {None}
        BY DEF TypeOK
      <4> QED
        BY <1>1, <4>1 DEF MemoryOK, ReadsOK, Offsets
    <3> QED
      BY <2>1, <3>1 DEF MemoryOK, ReadsOK
  <2>5. SectionOK(p)'
    BY <2>1 DEF MemoryOK, SectionOK
  <2> QED
    BY <2>2, <2>3, <2>4, <2>5 DEF MemoryOK
<1> QED
  BY <1>3, <1>4, <1>5

\* A process moves on with its memory as it was.
LEMMA TurnSafe ==
  ASSUME Inv, NEW p \in Procs, NEW to \in PCs \ {"files", "read"},
         pc' = [pc EXCEPT ![p] = to],
         to \in Working => pc[p] \in Working \ (Resetting \cup {"opening"}),
         UNCHANGED <<len, hits, day, disk, mem, sec, todo, cur, start, end, copies, since>>
  PROVE  LogsOK' /\ NoHitLost' /\ \A q \in Procs : MemoryOK(q)'
<1> USE DEF Inv, Safe
<1>1. LogsOK' /\ NoHitLost'
  BY DEF LogsOK, NoHitLost, Delivered
<1>2. ASSUME NEW q \in Procs, q # p PROVE MemoryOK(q)'
  <2>1. pc'[q] = pc[q]
    BY <1>2 DEF TypeOK
  <2> QED
    BY <1>2, <2>1, Unmoved
<1>3. MemoryOK(p)'
  <2>1. pc'[p] = to
    BY DEF TypeOK
  <2>2. MemDelivered(p)'
    BY <2>1 DEF MemoryOK, MemDelivered, Base, Delivered
  <2>3. MemAhead(p)'
    BY <2>1 DEF MemoryOK, MemAhead, Age
  <2>4. ReadsOK(p)' /\ SectionOK(p)'
    BY <2>1 DEF MemoryOK, ReadsOK, SectionOK
  <2> QED
    BY <2>2, <2>3, <2>4 DEF MemoryOK
<1> QED
  BY <1>1, <1>2, <1>3

\* The date changes while nobody is past the lock.
LEMMA DaySafe == ASSUME Inv, NextDay PROVE LogsOK' /\ NoHitLost' /\ \A q \in Procs : MemoryOK(q)'
<1> USE DEF Inv, Safe, NextDay, locals, ghosts
<1>1. LogsOK' /\ NoHitLost'
  BY DEF LogsOK, NoHitLost, Delivered
<1>2. ASSUME NEW q \in Procs PROVE MemoryOK(q)'
  <2>1. /\ pc'[q] \notin Holding /\ start'[q] = start[q] /\ end'[q] = end[q]
        /\ sec'[q] = sec[q] /\ todo'[q] = todo[q] /\ len' = len
    BY ConstantsAssumption DEF HolderHolds
  <2> QED
    BY <2>1, Bystander
<1> QED
  BY <1>1, <1>2

\* A process that leaves takes its promises with it.
LEMMA GoneSafe ==
  ASSUME Inv, NEW p \in Procs, pc[p] \in Holding, Gone(p),
         UNCHANGED <<env, disk, ghosts>>
  PROVE  LogsOK' /\ NoHitLost' /\ \A q \in Procs : MemoryOK(q)'
<1> USE DEF Inv, Safe, Gone, env, ghosts
<1>1. LogsOK' /\ NoHitLost'
  BY DEF LogsOK, NoHitLost, Delivered
<1>2. ASSUME NEW q \in Procs, q # p PROVE MemoryOK(q)'
  <2>1. /\ pc'[q] = pc[q] /\ start'[q] = start[q] /\ end'[q] = end[q]
        /\ sec'[q] = sec[q] /\ todo'[q] = todo[q]
    BY <1>2 DEF TypeOK
  <2>2. pc[q] \notin Holding
    BY <1>2, Alone
  <2> QED
    BY <2>1, <2>2, Bystander
<1>3. MemoryOK(p)'
  <2>1. pc'[p] = "idle" /\ start'[p] = Nothing /\ end'[p] = Nothing
    BY DEF TypeOK
  <2>2. MemDelivered(p)' /\ MemAhead(p)' /\ SectionOK(p)'
    BY <2>1 DEF MemDelivered, MemAhead, SectionOK, Working, Holding
  <2>3. ReadsOK(p)'
    BY <2>1, ConstantsAssumption DEF ReadsOK, Nothing
  <2> QED
    BY <2>2, <2>3 DEF MemoryOK
<1> QED
  BY <1>1, <1>2, <1>3

\* The state file as loaded, less what expired, promises what the file did.
LEMMA LoadSafe == ASSUME Inv, NEW p \in Procs, Load(p) PROVE LogsOK' /\ NoHitLost' /\ \A q \in Procs : MemoryOK(q)'
<1> USE DEF Inv, Safe
<1>0. /\ pc[p] = "load" /\ pc' = [pc EXCEPT ![p] = "opening"] /\ mem' = [mem EXCEPT ![p] = Expired(disk)]
      /\ UNCHANGED <<len, hits, day, disk, sec, todo, cur, start, end, copies, since>>
  BY DEF Load, env, ghosts
<1>1. LogsOK' /\ NoHitLost'
  BY <1>0 DEF LogsOK, NoHitLost, Delivered
<1>2. ASSUME NEW q \in Procs, q # p PROVE MemoryOK(q)'
  <2>1. pc[q] \notin Holding
    BY <1>0, <1>2, Alone DEF Holding
  <2>2. pc'[q] = pc[q]
    BY <1>0, <1>2 DEF TypeOK
  <2> QED
    BY <1>0, <2>1, <2>2, Bystander
<1>3. MemoryOK(p)'
  <2>1. pc'[p] = "opening" /\ mem'[p] = Expired(disk)
    BY <1>0 DEF TypeOK
  <2>2. MemDelivered(p)'
    BY <1>0, <2>1 DEF MemDelivered, Base, Expired, NoHitLost, LogsOK, Delivered
  <2>3. MemAhead(p)'
    BY <1>0, <2>1 DEF MemAhead, Expired, Age, TypeOK, States, Entry, Offsets
  <2>4. ReadsOK(p)' /\ SectionOK(p)'
    BY <1>0, <2>1 DEF MemoryOK, ReadsOK, SectionOK
  <2> QED
    BY <2>2, <2>3, <2>4 DEF MemoryOK
<1> QED
  BY <1>1, <1>2, <1>3

\* What a process past the lock does to its own memory moves no other's.
LEMMA Beside ==
  ASSUME Inv, NEW p \in Procs, pc[p] \in Holding \/ holder = None, len' = len,
         \A q \in Procs \ {p} :
           /\ pc'[q] = pc[q] /\ start'[q] = start[q] /\ end'[q] = end[q]
           /\ sec'[q] = sec[q] /\ todo'[q] = todo[q]
  PROVE  \A q \in Procs \ {p} : MemoryOK(q)'
<1> SUFFICES ASSUME NEW q \in Procs, q # p PROVE MemoryOK(q)'
  OBVIOUS
<1>1. pc[q] \notin Holding
  BY Alone DEF Inv, Safe
<1> QED
  BY <1>1, Bystander DEF Inv, Safe

LEMMA ResetLoadSafe == ASSUME Inv, NEW p \in Procs, ResetLoad(p)
                       PROVE LogsOK' /\ NoHitLost' /\ \A q \in Procs : MemoryOK(q)'
<1> USE DEF Inv, Safe
<1>0. /\ pc[p] = "resetting" /\ holder = None
      /\ sec' = [sec EXCEPT ![p] = Sections]
      /\ UNCHANGED <<len, hits, day, disk, todo, cur, start, end, copies, since>>
  BY DEF ResetLoad, env, ghosts
<1>1. LogsOK' /\ NoHitLost'
  BY <1>0 DEF LogsOK, NoHitLost, Delivered
<1>2. \E to \in Resetting \cup {"release"} :
        /\ pc' = [pc EXCEPT ![p] = to]
        /\ \A f \in Files : mem'[p][f] = None \/ mem'[p][f] = disk[f]
  <2>1. CASE mem' = [mem EXCEPT ![p] = Nothing] /\ pc' = [pc EXCEPT ![p] = "resetAll"]
    BY <2>1 DEF Nothing, Resetting, TypeOK
  <2>2. ASSUME NEW F \in SUBSET Files,
               mem' = [mem EXCEPT ![p] = [f \in Files |-> IF f \in F THEN None ELSE disk[f]]],
               pc' = [pc EXCEPT ![p] = IF \A f \in F : disk[f] = None THEN "release" ELSE "resetOne"]
        PROVE  \E to \in Resetting \cup {"release"} :
                 /\ pc' = [pc EXCEPT ![p] = to]
                 /\ \A f \in Files : mem'[p][f] = None \/ mem'[p][f] = disk[f]
    BY <2>2 DEF Resetting, TypeOK, States
  <2> QED
    BY <2>1, <2>2 DEF ResetLoad
<1>3. PICK to \in Resetting \cup {"release"} :
        /\ pc' = [pc EXCEPT ![p] = to]
        /\ \A f \in Files : mem'[p][f] = None \/ mem'[p][f] = disk[f]
  BY <1>2
<1>4. \A q \in Procs \ {p} : MemoryOK(q)'
  BY <1>0, <1>3, Beside DEF TypeOK
<1>5. MemoryOK(p)'
  <2>1. pc'[p] = to /\ sec'[p] = Sections
    BY <1>0, <1>3 DEF TypeOK
  <2>2. MemDelivered(p)'
    BY <1>0, <1>3, <2>1 DEF MemDelivered, Base, NoHitLost, LogsOK, Delivered
  <2>3. MemAhead(p)'
    BY <1>0, <1>3, <2>1 DEF MemAhead, Working, Resetting, TypeOK, States, Entry, Offsets
  <2>4. ReadsOK(p)'
    BY <1>0, <2>1, ConstantsAssumption DEF MemoryOK, ReadsOK, TypeOK
  <2>5. SectionOK(p)'
    BY <2>1 DEF SectionOK, Resetting
  <2> QED
    BY <2>2, <2>3, <2>4, <2>5 DEF MemoryOK
<1> QED
  BY <1>1, <1>4, <1>5

-----------------------------------------------------------------------------
(* Reading a section *)

LEMMA BeginSafe == ASSUME Inv, NEW p \in Procs, BeginSection(p)
                   PROVE LogsOK' /\ NoHitLost' /\ \A q \in Procs : MemoryOK(q)'
<1> USE DEF Inv, Safe
<1>0. /\ pc[p] = "section" /\ sec[p] < Sections
      /\ pc' = [pc EXCEPT ![p] = "files"]
      /\ sec' = [sec EXCEPT ![p] = @ + 1]
      /\ todo' = [todo EXCEPT ![p] = FilesOf[sec[p] + 1]]
      /\ UNCHANGED <<len, hits, day, disk, mem, cur, start, end, copies, since>>
  BY DEF BeginSection, env, ghosts
<1>1. LogsOK' /\ NoHitLost'
  BY <1>0 DEF LogsOK, NoHitLost, Delivered
<1>2. \A q \in Procs \ {p} : MemoryOK(q)'
  BY <1>0, Beside DEF TypeOK, Holding
<1>3. MemoryOK(p)'
  <2>1. /\ pc'[p] = "files" /\ sec'[p] = sec[p] + 1 /\ todo'[p] = FilesOf[sec[p] + 1]
        /\ sec[p] \in 0..Sections /\ sec[p] + 1 \in 1..Sections
    BY <1>0, ConstantsAssumption DEF TypeOK
  <2>2. MemDelivered(p)' /\ MemAhead(p)'
    BY <1>0, <2>1 DEF MemoryOK, MemDelivered, MemAhead, Base, Delivered, Age, Working, Holding, Resetting
  <2>3. \A s \in 1..Sections : \A f \in FilesOf[s] :
          s >= sec[p] + 1 => start[p][f] = None /\ end[p][f] = None
    BY <2>1, ConstantsAssumption DEF MemoryOK, ReadsOK
  <2>4. ReadsOK(p)'
    BY <1>0, <2>1, <2>3 DEF MemoryOK, ReadsOK
  <2>5. SectionOK(p)'
    BY <1>0, <2>1, <2>3 DEF SectionOK
  <2> QED
    BY <2>2, <2>4, <2>5 DEF MemoryOK
<1> QED
  BY <1>1, <1>2, <1>3

\* Sections do not share items.
LEMMA OneSection ==
  ASSUME NEW s \in 1..Sections, NEW t \in 1..Sections, NEW f \in FilesOf[s], f \in FilesOf[t]
  PROVE  s = t /\ f \in Files
BY ConstantsAssumption

LEMMA OpenSafe == ASSUME Inv, NEW p \in Procs, NEW g \in Files, OpenFile(p, g)
                  PROVE LogsOK' /\ NoHitLost' /\ \A q \in Procs : MemoryOK(q)'
<1> USE DEF Inv, Safe
<1>0. /\ pc[p] = "files" /\ g \in todo[p]
      /\ pc' = [pc EXCEPT ![p] = "read"]
      /\ cur' = [cur EXCEPT ![p] = g]
      /\ todo' = [todo EXCEPT ![p] = @ \ {g}]
      /\ start' = [start EXCEPT ![p][g] = StartOf(p, g)]
      /\ UNCHANGED <<len, hits, day, disk, mem, sec, end, copies, since>>
  BY DEF OpenFile, env, ghosts
<1>1. LogsOK' /\ NoHitLost'
  BY <1>0 DEF LogsOK, NoHitLost, Delivered
<1>2. \A q \in Procs \ {p} : MemoryOK(q)'
  BY <1>0, Beside DEF TypeOK, Holding
<1>3. MemoryOK(p)'
  <2>1. /\ pc'[p] = "read" /\ cur'[p] = g /\ todo'[p] = todo[p] \ {g}
        /\ start'[p][g] = StartOf(p, g)
        /\ \A f \in Files : f # g => start'[p][f] = start[p][f]
    BY <1>0 DEF TypeOK
  <2>2. /\ sec[p] \in 1..Sections /\ g \in FilesOf[sec[p]] /\ todo[p] \subseteq FilesOf[sec[p]]
        /\ start[p][g] = None /\ end[p][g] = None
    BY <1>0 DEF MemoryOK, SectionOK, ReadsOK
  <2>3. StartOf(p, g) \in Offsets /\ StartOf(p, g) <= len[g]
        /\ (mem[p][g] # None => StartOf(p, g) = mem[p][g].off)
    <3>1. len[g] \in Offsets /\ 0 \in Offsets /\ 0 <= len[g]
      BY ConstantsAssumption DEF TypeOK, Offsets
    <3>2. mem[p][g] # None => mem[p][g].off \in Offsets /\ mem[p][g].off <= len[g]
      <4>1. mem[p][g] \in Entry \cup {None}
        BY DEF TypeOK, States
      <4>2. mem[p][g] # None => mem[p][g].off <= len[g]
        BY <1>0 DEF MemoryOK, MemDelivered, Working, Holding
      <4> QED
        BY <4>1, <4>2 DEF Entry
    <3>3. CASE mem[p][g] # None
      BY <3>2, <3>3 DEF StartOf
    <3>4. CASE mem[p][g] = None
      BY <3>1, <3>4 DEF StartOf, Offsets
    <3> QED
      BY <3>3, <3>4
  <2>4. MemDelivered(p)'
    <3> SUFFICES ASSUME NEW f \in Files, mem[p][f] # None
                 PROVE  /\ Base(p, f)' # None
                        /\ Base(p, f)' <= mem[p][f].off
                        /\ mem[p][f].off <= len[f]
                        /\ Delivered(f, Base(p, f)', mem[p][f].off)
      BY <1>0 DEF MemDelivered, Delivered
    <3>1. /\ Base(p, f) # None /\ Base(p, f) <= mem[p][f].off /\ mem[p][f].off <= len[f]
          /\ Delivered(f, Base(p, f), mem[p][f].off)
      BY <1>0 DEF MemoryOK, MemDelivered, Working, Holding
    <3>2. Base(p, f)' = Base(p, f)
      BY <1>0, <2>1, <2>2, <3>1 DEF Base
    <3> QED
      BY <3>1, <3>2
  <2>5. MemAhead(p)'
    BY <1>0, <2>1 DEF MemoryOK, MemAhead, Age, Working, Holding, Resetting
  <2>6. ReadsOK(p)'
    <3>1. ASSUME NEW f \in Files
          PROVE  /\ (start'[p][f] # None => start'[p][f] <= len[f])
                 /\ (end[p][f] # None => start'[p][f] <= end[p][f] /\ end[p][f] <= len[f])
      BY <2>1, <2>2, <2>3 DEF MemoryOK, ReadsOK
    <3>2. ASSUME NEW s \in 1..Sections, NEW f \in FilesOf[s],
                 s > sec[p] \/ (s = sec[p] /\ f \in todo'[p])
          PROVE  start'[p][f] = None /\ end[p][f] = None
      <4>1. f # g
        BY <2>1, <2>2, <3>2, OneSection
      <4>2. f \in Files
        BY ConstantsAssumption
      <4> QED
        BY <2>1, <3>2, <4>1, <4>2 DEF MemoryOK, ReadsOK
    <3> QED
      BY <1>0, <3>1, <3>2 DEF ReadsOK
  <2>7. SectionOK(p)'
    <3>1. ASSUME NEW f \in FilesOf[sec[p]], start'[p][f] # None
          PROVE  /\ (mem[p][f] # None => mem[p][f].off = start'[p][f])
                 /\ (mem[p][f] # None \/ end[p][f] # None \/ f = g)
      <4>1. f \in Files
        BY <2>2, ConstantsAssumption
      <4> QED
        BY <1>0, <2>1, <2>3, <3>1, <4>1 DEF MemoryOK, SectionOK
    <3> QED
      BY <1>0, <2>1, <2>2, <3>1 DEF SectionOK
  <2> QED
    BY <2>4, <2>5, <2>6, <2>7 DEF MemoryOK
<1> QED
  BY <1>1, <1>2, <1>3

LEMMA SkipSafe == ASSUME Inv, NEW p \in Procs, NEW g \in Files, SkipFile(p, g)
                  PROVE LogsOK' /\ NoHitLost' /\ \A q \in Procs : MemoryOK(q)'
<1> USE DEF Inv, Safe
<1>0. /\ pc[p] = "files"
      /\ todo' = [todo EXCEPT ![p] = @ \ {g}]
      /\ UNCHANGED <<len, hits, day, disk, pc, mem, cur, sec, start, end, copies, since>>
  BY DEF SkipFile, env, ghosts
<1>1. LogsOK' /\ NoHitLost'
  BY <1>0 DEF LogsOK, NoHitLost, Delivered
<1>2. \A q \in Procs \ {p} : MemoryOK(q)'
  BY <1>0, Beside DEF TypeOK, Holding
<1>3. MemoryOK(p)'
  <2>1. todo'[p] = todo[p] \ {g}
    BY <1>0 DEF TypeOK
  <2>2. MemDelivered(p)'
    BY <1>0 DEF MemoryOK, MemDelivered, Base, Delivered
  <2>3. MemAhead(p)'
    BY <1>0 DEF MemoryOK, MemAhead, Age
  <2>4. ReadsOK(p)' /\ SectionOK(p)'
    BY <1>0, <2>1 DEF MemoryOK, ReadsOK, SectionOK
  <2> QED
    BY <2>2, <2>3, <2>4 DEF MemoryOK
<1> QED
  BY <1>1, <1>2, <1>3

LEMMA ReadSafe == ASSUME Inv, NEW p \in Procs, ReadFile(p)
                  PROVE LogsOK' /\ NoHitLost' /\ \A q \in Procs : MemoryOK(q)'
<1> USE DEF Inv, Safe
<1> DEFINE g == cur[p]
<1>0. /\ pc[p] = "read"
      /\ pc' = [pc EXCEPT ![p] = "files"]
      /\ end' = [end EXCEPT ![p][g] = len[g]]
      /\ UNCHANGED <<len, hits, day, disk, mem, sec, todo, start, copies, since>>
  BY DEF ReadFile, env, ghosts
<1>1. LogsOK' /\ NoHitLost'
  BY <1>0 DEF LogsOK, NoHitLost, Delivered
<1>2. \A q \in Procs \ {p} : MemoryOK(q)'
  BY <1>0, Beside DEF TypeOK, Holding
<1>3. MemoryOK(p)'
  <2>1. /\ g \in Files /\ start[p][g] # None /\ sec[p] \in 1..Sections /\ g \in FilesOf[sec[p]]
    BY <1>0 DEF ReadsStarted, MemoryOK, SectionOK
  <2>2. /\ pc'[p] = "files" /\ end'[p][g] = len[g] /\ len[g] # None
        /\ \A f \in Files : f # g => end'[p][f] = end[p][f]
    BY <1>0, <2>1, NoneIsNone DEF TypeOK
  <2>3. MemDelivered(p)'
    BY <1>0, <2>2 DEF MemoryOK, MemDelivered, Base, Delivered, Working, Holding
  <2>4. MemAhead(p)'
    BY <1>0, <2>2 DEF MemoryOK, MemAhead, Age, Working, Holding, Resetting
  <2>5. ReadsOK(p)'
    <3>1. ASSUME NEW f \in Files
          PROVE  /\ (start[p][f] # None => start[p][f] <= len[f])
                 /\ (end'[p][f] # None => start[p][f] <= end'[p][f] /\ end'[p][f] <= len[f])
      <4>1. CASE f = g
        <5>1. start[p][g] <= len[g] /\ len[g] \in Int
          BY <2>1 DEF MemoryOK, ReadsOK, TypeOK, Offsets
        <5> QED
          BY <2>2, <4>1, <5>1
      <4>2. CASE f # g
        BY <2>2, <4>2 DEF MemoryOK, ReadsOK
      <4> QED
        BY <4>1, <4>2
    <3>2. ASSUME NEW s \in 1..Sections, NEW f \in FilesOf[s],
                 s > sec[p] \/ (s = sec[p] /\ f \in todo[p])
          PROVE  start[p][f] = None /\ end'[p][f] = None
      <4>1. start[p][f] = None /\ end[p][f] = None /\ f \in Files
        BY <3>2, ConstantsAssumption DEF MemoryOK, ReadsOK
      <4> QED
        BY <2>1, <2>2, <4>1
    <3> QED
      BY <1>0, <3>1, <3>2 DEF ReadsOK
  <2>6. SectionOK(p)'
    <3>1. ASSUME NEW f \in FilesOf[sec[p]], start[p][f] # None
          PROVE  /\ (mem[p][f] # None => mem[p][f].off = start[p][f])
                 /\ (mem[p][f] # None \/ end'[p][f] # None)
      <4>1. f \in Files
        BY <2>1, ConstantsAssumption
      <4> QED
        BY <1>0, <2>2, <3>1, <4>1 DEF MemoryOK, SectionOK
    <3> QED
      BY <1>0, <2>2, <3>1 DEF MemoryOK, SectionOK
  <2> QED
    BY <2>3, <2>4, <2>5, <2>6 DEF MemoryOK
<1> QED
  BY <1>1, <1>2, <1>3

\* A read that failed leaves a first sight an entry where it began.
LEMMA ReadFailsSafe == ASSUME Inv, NEW p \in Procs, ReadFails(p)
                       PROVE LogsOK' /\ NoHitLost' /\ \A q \in Procs : MemoryOK(q)'
<1> USE DEF Inv, Safe
<1> DEFINE g == cur[p]
<1>0. /\ pc[p] = "read"
      /\ pc' = [pc EXCEPT ![p] = "files"]
      /\ mem' = IF mem[p][g] = None THEN [mem EXCEPT ![p][g] = AtStart(p, g)] ELSE mem
      /\ UNCHANGED <<len, hits, day, disk, sec, todo, start, end, copies, since>>
  BY DEF ReadFails, env, ghosts
<1>1. LogsOK' /\ NoHitLost'
  BY <1>0 DEF LogsOK, NoHitLost, Delivered
<1>2. \A q \in Procs \ {p} : MemoryOK(q)'
  BY <1>0, Beside DEF TypeOK, Holding
<1>3. MemoryOK(p)'
  <2>1. /\ g \in Files /\ start[p][g] # None /\ start[p][g] \in Offsets /\ start[p][g] <= len[g]
        /\ sec[p] \in 1..Sections /\ g \in FilesOf[sec[p]]
    BY <1>0 DEF ReadsStarted, MemoryOK, SectionOK, ReadsOK, TypeOK
  <2>2. AtStart(p, g) \in Entry /\ AtStart(p, g) # None /\ AtStart(p, g).off = start[p][g]
    BY <2>1, EntryType, NoneIsNone DEF AtStart
  <2>3. /\ pc'[p] = "files"
        /\ mem'[p][g] # None
        /\ (mem[p][g] = None => mem'[p][g].off = start[p][g])
        /\ (mem[p][g] # None => mem'[p][g] = mem[p][g])
        /\ \A f \in Files : f # g => mem'[p][f] = mem[p][f]
    BY <1>0, <2>1, <2>2 DEF TypeOK, States
  <2>4. \A f \in Files : Base(p, f)' = Base(p, f)
    BY <1>0 DEF Base
  <2>5. \A f \in Files, a, b \in Offsets : Delivered(f, a, b)' = Delivered(f, a, b)
    BY <1>0 DEF Delivered
  <2>6. mem[p][g] = None => since[g] = None
    BY <1>0, <2>1 DEF MemoryOK, MemAhead, LogsOK, Working, Holding, Resetting
  <2>7. MemDelivered(p)'
    <3> SUFFICES ASSUME NEW f \in Files, mem'[p][f] # None
                 PROVE  /\ Base(p, f) # None /\ Base(p, f) <= mem'[p][f].off /\ mem'[p][f].off <= len[f]
                        /\ Delivered(f, Base(p, f), mem'[p][f].off)
      BY <1>0, <2>4 DEF MemDelivered, Delivered
    <3>1. CASE f = g /\ mem[p][g] = None
      <4>1. Base(p, f) = start[p][g] /\ mem'[p][f].off = start[p][g]
        BY <2>3, <2>6, <3>1 DEF Base
      <4>2. Delivered(f, start[p][g], start[p][g])
        BY <2>1 DEF Delivered, TypeOK, Lines, Offsets
      <4> QED
        BY <2>1, <3>1, <4>1, <4>2 DEF Offsets
    <3>2. CASE ~(f = g /\ mem[p][g] = None)
      BY <1>0, <2>3, <3>2 DEF MemoryOK, MemDelivered, Working, Holding
    <3> QED
      BY <3>1, <3>2
  <2>8. MemAhead(p)'
    <3> SUFFICES ASSUME NEW f \in Files, disk[f] # None
                 PROVE  mem'[p][f] # None /\ disk[f].off <= mem'[p][f].off
      BY <1>0 DEF MemAhead
    <3>1. mem[p][f] # None /\ disk[f].off <= mem[p][f].off
      BY <1>0 DEF MemoryOK, MemAhead, Working, Holding, Resetting
    <3> QED
      BY <2>3, <3>1
  <2>9. ReadsOK(p)'
    BY <1>0 DEF MemoryOK, ReadsOK
  <2>10. SectionOK(p)'
    <3>1. ASSUME NEW f \in FilesOf[sec[p]], start[p][f] # None
          PROVE  /\ (mem'[p][f] # None => mem'[p][f].off = start[p][f])
                 /\ (mem'[p][f] # None \/ end[p][f] # None)
      <4>1. f \in Files
        BY <2>1, ConstantsAssumption
      <4> QED
        BY <1>0, <2>3, <3>1, <4>1 DEF MemoryOK, SectionOK
    <3> QED
      BY <1>0, <2>3, <3>1 DEF MemoryOK, SectionOK
  <2> QED
    BY <2>7, <2>8, <2>9, <2>10 DEF MemoryOK
<1> QED
  BY <1>1, <1>2, <1>3

-----------------------------------------------------------------------------
(* The two endings of a section *)

\* What an ending may make of an entry: leave its place, begin it where the read began,
\* or move it to the end of the read when every hit of the read is in a mail.
Settled(p, f, e) ==
  \/ mem[p][f] # None /\ e.off = mem[p][f].off
  \/ mem[p][f] = None /\ start[p][f] # None /\ e.off = start[p][f]
  \/ /\ f \in WereRead(p) /\ e.off = end[p][f]
     /\ \A i \in Brought(p, f) : copies'[f][i] > 0

LEMMA EndSafe ==
  ASSUME Inv, NEW p \in Procs, pc[p] = "files",
         NEW to \in Saving, pc' = [pc EXCEPT ![p] = to],
         NEW new \in States, mem' = [mem EXCEPT ![p] = new],
         \A f \in Files : new[f] # None => Settled(p, f, new[f]),
         \A f \in Files : mem[p][f] # None => new[f] # None,
         \A f \in Files, i \in Lines : copies[f][i] > 0 => copies'[f][i] > 0,
         UNCHANGED <<len, hits, day, disk, sec, todo, cur, start, end, since>>
  PROVE  LogsOK' /\ NoHitLost' /\ \A q \in Procs : MemoryOK(q)'
<1> USE DEF Inv, Safe
<1>1. \A f \in Files : \A a, b : Delivered(f, a, b) => Delivered(f, a, b)'
  BY DEF Delivered, TypeOK
<1>2. LogsOK' /\ NoHitLost'
  BY <1>1 DEF LogsOK, NoHitLost
<1>3. \A q \in Procs \ {p} : MemoryOK(q)'
  BY Beside DEF TypeOK, Holding
<1>4. MemoryOK(p)'
  <2>1. /\ pc'[p] = to /\ mem'[p] = new /\ sec[p] \in 1..Sections
        /\ \A f \in Files : Base(p, f)' = Base(p, f)
    BY DEF TypeOK, MemoryOK, SectionOK, Base
  <2>2. \A f \in Files : mem[p][f] = None => since[f] = None
    BY DEF MemoryOK, MemAhead, LogsOK, Working, Holding, Resetting
  <2>3. ASSUME NEW f \in Files
        PROVE  mem[p][f] # None => /\ Base(p, f) # None /\ Base(p, f) <= mem[p][f].off
                                   /\ mem[p][f].off <= len[f]
                                   /\ Delivered(f, Base(p, f), mem[p][f].off)
    BY DEF MemoryOK, MemDelivered, Working, Holding
  <2>4. ASSUME NEW f \in Files, new[f] # None
        PROVE  /\ Base(p, f) # None /\ Base(p, f) <= new[f].off /\ new[f].off <= len[f]
               /\ Delivered(f, Base(p, f), new[f].off)'
               /\ (mem[p][f] # None => mem[p][f].off <= new[f].off)
    <3>t. /\ start[p][f] \in Offsets \cup {None} /\ end[p][f] \in Offsets \cup {None}
          /\ mem[p][f] # None => mem[p][f].off \in Offsets
          /\ new[f].off \in Offsets /\ Base(p, f) \in Offsets \cup {None}
          /\ hits[f] \subseteq Int
      <4>1. mem[p][f] \in Entry \cup {None} /\ new[f] \in Entry
        BY <2>4 DEF TypeOK, States
      <4>2. hits[f] \subseteq Lines /\ Lines \subseteq Int
        BY DEF TypeOK, Lines
      <4> QED
        BY <4>1, <4>2, ZenonT(40) DEF Entry, TypeOK, Base
    <3>r. /\ start[p][f] # None => start[p][f] <= len[f]
          /\ end[p][f] # None => start[p][f] <= end[p][f] /\ end[p][f] <= len[f]
      BY DEF MemoryOK, ReadsOK
    <3>1. CASE mem[p][f] # None /\ new[f].off = mem[p][f].off
      <4>1. Delivered(f, Base(p, f), new[f].off)'
        BY <2>1, <2>3, <3>1 DEF Delivered, TypeOK
      <4>2. new[f].off <= new[f].off
        BY <3>t DEF Offsets
      <4> QED
        BY <2>3, <3>1, <4>1, <4>2
    <3>2. CASE mem[p][f] = None /\ start[p][f] # None /\ new[f].off = start[p][f]
      <4>1. Base(p, f) = start[p][f]
        BY <2>2, <3>2 DEF Base
      <4>2. Delivered(f, start[p][f], start[p][f])'
        BY <3>2, <3>t DEF Delivered, Offsets
      <4>3. start[p][f] <= start[p][f]
        BY <3>2, <3>t DEF Offsets
      <4>4. Delivered(f, Base(p, f), new[f].off)'
        BY <2>1, <3>2, <4>1, <4>2 DEF Delivered
      <4> QED
        BY <3>2, <3>r, <4>1, <4>3, <4>4
    <3>3. CASE /\ f \in WereRead(p) /\ new[f].off = end[p][f]
               /\ \A i \in Brought(p, f) : copies'[f][i] > 0
      <4>1. /\ f \in FilesOf[sec[p]] /\ end[p][f] # None /\ start[p][f] # None
        BY <3>3 DEF WereRead, ReadsStarted
      <4>2. start[p][f] \in Int /\ end[p][f] \in Int /\ start[p][f] <= end[p][f] /\ end[p][f] <= len[f]
        BY <3>t, <3>r, <4>1 DEF Offsets
      <4>3. mem[p][f] # None => mem[p][f].off = start[p][f]
        BY <4>1 DEF MemoryOK, SectionOK
      <4>4. Base(p, f) # None /\ Base(p, f) \in Int /\ Base(p, f) <= start[p][f]
        BY <2>2, <2>3, <3>t, <4>1, <4>2, <4>3 DEF Base, Offsets
      <4>5. \A i \in hits[f] : Base(p, f) < i /\ i <= start[p][f] => copies'[f][i] > 0
        <5>1. CASE mem[p][f] # None
          <6>1. Delivered(f, Base(p, f), start[p][f])
            BY <2>3, <4>3, <5>1
          <6>2. hits[f] \subseteq Lines
            BY DEF TypeOK
          <6> QED
            BY <6>1, <6>2 DEF Delivered
        <5>2. CASE mem[p][f] = None
          <6>1. Base(p, f) = start[p][f]
            BY <2>2, <5>2 DEF Base
          <6> QED
            BY <3>t, <4>2, <6>1
        <5> QED
          BY <5>1, <5>2
      <4>6. \A i \in hits[f] : start[p][f] < i /\ i <= end[p][f] => copies'[f][i] > 0
        BY <3>3 DEF Brought
      <4>7. \A i \in hits[f] : Base(p, f) < i /\ i <= end[p][f] => copies'[f][i] > 0
        BY <3>t, <4>2, <4>4, <4>5, <4>6
      <4>8. Delivered(f, Base(p, f), new[f].off)'
        BY <2>1, <3>3, <4>7 DEF Delivered
      <4> QED
        BY <3>3, <4>2, <4>3, <4>4, <4>8
    <3> QED
      BY <2>4, <3>1, <3>2, <3>3 DEF Settled
  <2>5. MemDelivered(p)'
    BY <2>1, <2>4 DEF MemDelivered, Delivered
  <2>6. MemAhead(p)'
    <3> SUFFICES ASSUME NEW f \in Files, disk[f] # None
                 PROVE  new[f] # None /\ disk[f].off <= new[f].off
      BY <2>1 DEF MemAhead
    <3>1. mem[p][f] # None /\ disk[f].off <= mem[p][f].off
      BY DEF MemoryOK, MemAhead, Working, Holding, Resetting
    <3>2. mem[p][f].off <= new[f].off
      BY <2>4, <3>1
    <3>3. disk[f].off \in Int /\ mem[p][f].off \in Int /\ new[f].off \in Int
      <4>1. disk[f] \in Entry /\ mem[p][f] \in Entry /\ new[f] \in Entry
        BY <3>1 DEF TypeOK, States
      <4> QED
        BY <4>1 DEF Entry, Offsets
    <3> QED
      BY <3>1, <3>2, <3>3
  <2>7. ReadsOK(p)' /\ SectionOK(p)'
    BY <2>1 DEF MemoryOK, ReadsOK, SectionOK, Saving
  <2> QED
    BY <2>5, <2>6, <2>7 DEF MemoryOK
<1> QED
  BY <1>2, <1>3, <1>4

LEMMA EndEntry == ASSUME TypeOK, NEW p \in Procs, NEW f \in Files, f \in WereRead(p)
                  PROVE AtEnd(p, f) # None /\ AtEnd(p, f).off = end[p][f]
<1>1. end[p][f] \in Offsets
  BY DEF WereRead, TypeOK
<1>2. AtEnd(p, f) \in Entry
  BY <1>1, EntryType DEF AtEnd
<1> QED
  BY <1>2, NoneIsNone DEF AtEnd

\* Files read to the end move there, once their hits are in a mail (or there are none).
LEMMA AdvancedSettles ==
  ASSUME Inv, NEW p \in Procs, pc[p] = "files",
         \A f \in Files : \A i \in Brought(p, f) : f \in Contributing(p) => copies'[f][i] > 0
  PROVE  /\ \A f \in Files : Advanced(p)[f] # None => Settled(p, f, Advanced(p)[f])
         /\ \A f \in Files : mem[p][f] # None => Advanced(p)[f] # None
<1> USE DEF Inv, Safe
<1>1. \A f \in Files : f \in WereRead(p) => AtEnd(p, f) # None /\ AtEnd(p, f).off = end[p][f]
  BY EndEntry
<1>2. \A f \in WereRead(p) : \A i \in Brought(p, f) : f \in Contributing(p)
  BY DEF Contributing
<1>3. \A f \in Files : f \in WereRead(p) => Settled(p, f, Advanced(p)[f])
  BY <1>1, <1>2 DEF Advanced, Settled
<1>4. \A f \in Files : f \notin WereRead(p) => Advanced(p)[f] = mem[p][f]
  BY DEF Advanced
<1> QED
  BY <1>1, <1>3, <1>4 DEF Advanced, Settled

\* Under a refused mail the quiet files move, the others keep or begin their place.
LEMMA KeptSettles ==
  ASSUME Inv, NEW p \in Procs, pc[p] = "files"
  PROVE  /\ \A f \in Files : Kept(p)[f] # None => Settled(p, f, Kept(p)[f])
         /\ \A f \in Files : mem[p][f] # None => Kept(p)[f] # None
<1> USE DEF Inv, Safe
<1>1. ASSUME NEW f \in Files
      PROVE  /\ Kept(p)[f] # None => Settled(p, f, Kept(p)[f])
             /\ mem[p][f] # None => Kept(p)[f] # None
  <2>1. CASE f \in WereRead(p) \ Contributing(p)
    <3>1. AtEnd(p, f) # None /\ AtEnd(p, f).off = end[p][f]
      BY <2>1, EndEntry
    <3>2. Kept(p)[f] = AtEnd(p, f)
      BY <2>1 DEF Kept, Contributing
    <3>3. Brought(p, f) = {}
      BY <2>1 DEF Contributing
    <3> QED
      BY <2>1, <3>1, <3>2, <3>3 DEF Settled
  <2>2. CASE f \in Contributing(p) /\ mem[p][f] = None
    <3>1. start[p][f] # None /\ start[p][f] \in Offsets
      BY <2>2 DEF Contributing, WereRead, ReadsStarted, TypeOK
    <3>2. AtStart(p, f) # None /\ AtStart(p, f).off = start[p][f]
      BY <3>1, EntryType, NoneIsNone DEF AtStart
    <3>3. Kept(p)[f] = AtStart(p, f)
      BY <2>2 DEF Kept
    <3> QED
      BY <2>2, <3>1, <3>2, <3>3 DEF Settled
  <2>3. CASE mem[p][f] # None /\ ~(f \in WereRead(p) \ Contributing(p))
    <3>1. mem[p][f] \in Entry
      BY <2>3 DEF TypeOK, States
    <3>2. /\ [mem[p][f] EXCEPT !.day = day] \in Entry
          /\ [mem[p][f] EXCEPT !.day = day].off = mem[p][f].off
      BY <3>1 DEF Entry, TypeOK
    <3>3. Kept(p)[f] = mem[p][f] \/ Kept(p)[f] = [mem[p][f] EXCEPT !.day = day]
      BY <2>3 DEF Kept
    <3> QED
      BY <2>3, <3>1, <3>2, <3>3, NoneIsNone DEF Settled
  <2>4. CASE mem[p][f] = None /\ f \notin WereRead(p)
    <3>1. Kept(p)[f] = None
      BY <2>4 DEF Kept, Contributing
    <3> QED
      BY <2>4, <3>1
  <2> QED
    BY <2>1, <2>2, <2>3, <2>4 DEF Contributing
<1> QED
  BY <1>1

\* A mail is delivered to every line it carries, and takes none back.
LEMMA MailOutCounts ==
  ASSUME TypeOK, NEW p \in Procs, MailOut(p)
  PROVE  /\ \A f \in Files : \A i \in Brought(p, f) : f \in Contributing(p) => copies'[f][i] > 0
         /\ \A f \in Files, i \in Lines : copies[f][i] > 0 => copies'[f][i] > 0
<1>1. ASSUME NEW f \in Files, NEW i \in Lines
      PROVE  /\ f \in Contributing(p) /\ i \in Brought(p, f) => copies'[f][i] > 0
             /\ copies[f][i] > 0 => copies'[f][i] > 0
  <2>1. copies[f][i] \in 0..MaxCopies
    BY DEF TypeOK
  <2> QED
    BY <2>1, ConstantsAssumption DEF MailOut
<1>2. \A f \in Files : Brought(p, f) \subseteq Lines
  BY DEF Brought, TypeOK
<1> QED
  BY <1>1, <1>2

LEMMA QuietSafe == ASSUME Inv, NEW p \in Procs, Quiet(p)
                   PROVE LogsOK' /\ NoHitLost' /\ \A q \in Procs : MemoryOK(q)'
<1>1. /\ pc[p] = "files" /\ Contributing(p) = {}
      /\ pc' = [pc EXCEPT ![p] = "saveKept"] /\ "saveKept" \in Saving
      /\ mem' = [mem EXCEPT ![p] = Advanced(p)]
      /\ UNCHANGED <<len, hits, day, disk, sec, todo, cur, start, end, since, copies>>
  BY DEF Quiet, ReadAll, Saving, env, ghosts
<1>2. Advanced(p) \in States
  BY AdvancedType DEF Inv
<1>3. /\ \A f \in Files : Advanced(p)[f] # None => Settled(p, f, Advanced(p)[f])
      /\ \A f \in Files : mem[p][f] # None => Advanced(p)[f] # None
  BY <1>1, AdvancedSettles
<1> QED
  BY <1>1, <1>2, <1>3, EndSafe

LEMMA AcceptedSafe == ASSUME Inv, NEW p \in Procs, Accepted(p)
                      PROVE LogsOK' /\ NoHitLost' /\ \A q \in Procs : MemoryOK(q)'
<1>1. /\ pc[p] = "files" /\ MailOut(p)
      /\ pc' = [pc EXCEPT ![p] = "saveSent"] /\ "saveSent" \in Saving
      /\ mem' = [mem EXCEPT ![p] = Advanced(p)]
      /\ UNCHANGED <<len, hits, day, disk, sec, todo, cur, start, end, since>>
  BY DEF Accepted, ReadAll, Saving, env
<1>2. Advanced(p) \in States
  BY AdvancedType DEF Inv
<1>3. /\ \A f \in Files : \A i \in Brought(p, f) : f \in Contributing(p) => copies'[f][i] > 0
      /\ \A f \in Files, i \in Lines : copies[f][i] > 0 => copies'[f][i] > 0
  BY <1>1, MailOutCounts DEF Inv
<1>4. /\ \A f \in Files : Advanced(p)[f] # None => Settled(p, f, Advanced(p)[f])
      /\ \A f \in Files : mem[p][f] # None => Advanced(p)[f] # None
  BY <1>1, <1>3, AdvancedSettles
<1> QED
  BY <1>1, <1>2, <1>3, <1>4, EndSafe

LEMMA NotDeliveredSafe == ASSUME Inv, NEW p \in Procs, Refused(p) \/ AnswerLost(p)
                          PROVE LogsOK' /\ NoHitLost' /\ \A q \in Procs : MemoryOK(q)'
<1>1. /\ pc[p] = "files"
      /\ pc' = [pc EXCEPT ![p] = "saveKept"] /\ "saveKept" \in Saving
      /\ mem' = [mem EXCEPT ![p] = Kept(p)]
      /\ UNCHANGED <<len, hits, day, disk, sec, todo, cur, start, end, since>>
      /\ copies' = copies \/ MailOut(p)
  BY DEF Refused, AnswerLost, NotDelivered, ReadAll, Saving, env
<1>2. Kept(p) \in States
  BY KeptType DEF Inv, Safe
<1>3. \A f \in Files, i \in Lines : copies[f][i] > 0 => copies'[f][i] > 0
  BY <1>1, MailOutCounts DEF Inv
<1>4. /\ \A f \in Files : Kept(p)[f] # None => Settled(p, f, Kept(p)[f])
      /\ \A f \in Files : mem[p][f] # None => Kept(p)[f] # None
  BY <1>1, KeptSettles
<1> QED
  BY <1>1, <1>2, <1>3, <1>4, EndSafe

-----------------------------------------------------------------------------
(* Saving *)

\* The state file becomes the state in memory: its promises become the file's.
LEMMA WriteSafe ==
  ASSUME Inv, NEW p \in Procs, pc[p] \in Working, Write(p),
         NEW to \in PCs \ {"files", "read"}, pc' = [pc EXCEPT ![p] = to],
         UNCHANGED <<len, hits, day, mem, sec, todo, cur, start, end, copies>>
  PROVE  LogsOK' /\ NoHitLost' /\ \A q \in Procs : MemoryOK(q)'
<1> USE DEF Inv, Safe
<1>1. ASSUME NEW f \in Files
      PROVE  /\ disk'[f] = mem[p][f]
             /\ mem[p][f] = None => since'[f] = None
             /\ mem[p][f] # None => /\ since'[f] = Base(p, f)
                                    /\ Base(p, f) # None
                                    /\ Base(p, f) <= mem[p][f].off
                                    /\ mem[p][f].off <= len[f]
                                    /\ Delivered(f, Base(p, f), mem[p][f].off)
  BY DEF Write, Base, MemoryOK, MemDelivered
<1>2. LogsOK'
  BY <1>1 DEF LogsOK
<1>3. NoHitLost'
  BY <1>1 DEF NoHitLost, Delivered
<1>4. \A q \in Procs \ {p} : MemoryOK(q)'
  BY Beside DEF TypeOK, Working
<1>5. MemoryOK(p)'
  <2>1. pc'[p] = to
    BY DEF TypeOK
  <2>2. MemDelivered(p)'
    BY <1>1 DEF MemDelivered, Base, Delivered
  <2>3. MemAhead(p)'
    <3>1. \A f \in Files : disk'[f] # None => disk'[f] \in Entry
      BY <1>1 DEF TypeOK, States
    <3> QED
      BY <1>1, <3>1 DEF MemAhead, Entry, Offsets
  <2>4. ReadsOK(p)' /\ SectionOK(p)'
    BY <2>1 DEF MemoryOK, ReadsOK, SectionOK
  <2> QED
    BY <2>2, <2>3, <2>4 DEF MemoryOK
<1> QED
  BY <1>2, <1>3, <1>4, <1>5

-----------------------------------------------------------------------------
(* Every step keeps the invariant *)

LEMMA SafeStep == Inv /\ [Next]_vars => Safe'
<1> SUFFICES ASSUME Inv, [Next]_vars PROVE LogsOK' /\ NoHitLost' /\ \A q \in Procs : MemoryOK(q)'
  BY ReadsStep, HolderStep DEF Inv, Safe
<1> DEFINE Goal == LogsOK' /\ NoHitLost' /\ \A q \in Procs : MemoryOK(q)'
<1>a. ASSUME NEW f \in Files, Append(f) PROVE Goal
  BY <1>a, AppendSafe
<1>b. CASE RoomFreed \/ RoomLost \/ UNCHANGED vars
  <2>1. /\ pc' = pc /\ mem' = mem /\ cur' = cur
        /\ start' = start /\ end' = end /\ sec' = sec /\ todo' = todo
        /\ UNCHANGED <<len, hits, disk, day, copies, since>>
    BY <1>b DEF RoomFreed, RoomLost, vars, env, locals, ghosts
  <2>2. LogsOK' /\ NoHitLost'
    BY <2>1 DEF Inv, Safe, LogsOK, NoHitLost, Delivered
  <2>3. ASSUME NEW q \in Procs PROVE MemoryOK(q)'
    BY <2>1, Unmoved DEF Inv, Safe
  <2> QED
    BY <2>2, <2>3
<1>c. CASE NextDay
  BY <1>c, DaySafe
<1>1. ASSUME NEW p \in Procs,
             \/ StartRun(p) \/ StartReset(p) \/ TurnedAway(p) \/ Acquire(p)
             \/ LoadFails(p) \/ OpeningSaveFails(p) \/ ClearMarker(p) \/ AllSectionsDone(p)
             \/ SectionSaveFails(p) \/ MarkUnsaved(p) \/ MarkFails(p) \/ ResetSaveFails(p)
      PROVE  Goal
  <2>1. UNCHANGED <<len, hits, day, disk, mem, sec, todo, cur, start, end, copies, since>>
    BY <1>1 DEF StartRun, StartReset, TurnedAway, Acquire, LoadFails, OpeningSaveFails, ClearMarker,
      AllSectionsDone, SectionSaveFails, MarkUnsaved, MarkFails, ResetSaveFails, env, locals, ghosts
  <2>2. \E to \in PCs \ {"files", "read"} :
          /\ pc' = [pc EXCEPT ![p] = to]
          /\ to \in Working => pc[p] \in Working \ (Resetting \cup {"opening"})
    <3> USE DEF PCs, Holding, Working, Resetting
    <3>0. \A to \in {"idle", "locking", "resetting"} : to \in PCs \ {"files", "read"} /\ to \notin Working
      OBVIOUS
    <3>1. CASE StartRun(p)
      BY <3>0, <3>1 DEF StartRun
    <3>2. CASE StartReset(p)
      BY <3>0, <3>2 DEF StartReset
    <3>3. CASE TurnedAway(p)
      BY <3>0, <3>3 DEF TurnedAway
    <3>4. CASE Acquire(p)
      BY <3>4 DEF Acquire
    <3>5. CASE LoadFails(p) \/ OpeningSaveFails(p) \/ AllSectionsDone(p) \/ ResetSaveFails(p)
      BY <3>5 DEF LoadFails, OpeningSaveFails, AllSectionsDone, ResetSaveFails
    <3>6. CASE ClearMarker(p) \/ MarkUnsaved(p) \/ MarkFails(p)
      BY <3>6 DEF ClearMarker, MarkUnsaved, MarkFails
    <3>7. CASE SectionSaveFails(p)
      BY <3>7 DEF SectionSaveFails, Saving
    <3> QED
      BY <1>1, <3>1, <3>2, <3>3, <3>4, <3>5, <3>6, <3>7
  <2> QED
    BY <2>1, <2>2, TurnSafe
<1>2. ASSUME NEW p \in Procs, Release(p) \/ Kill(p) PROVE Goal
  <2>1. pc[p] \in Holding /\ Gone(p) /\ UNCHANGED <<env, disk, ghosts>>
    BY <1>2 DEF Release, Kill, Holding
  <2> QED
    BY <2>1, GoneSafe
<1>3. ASSUME NEW p \in Procs, Load(p) PROVE Goal
  BY <1>3, LoadSafe
<1>4. ASSUME NEW p \in Procs, OpeningSave(p) \/ SectionSave(p) \/ ResetSave(p) PROVE Goal
  <2>1. /\ pc[p] \in Working /\ Write(p)
        /\ UNCHANGED <<len, hits, day, mem, sec, todo, cur, start, end, copies>>
    BY <1>4 DEF OpeningSave, SectionSave, ResetSave, Saving, Resetting, Working, Holding, env, locals
  <2>2. \E to \in PCs \ {"files", "read"} : pc' = [pc EXCEPT ![p] = to]
    BY <1>4 DEF OpeningSave, SectionSave, ResetSave, Resetting, PCs, Holding
  <2> QED
    BY <2>1, <2>2, WriteSafe
<1>5. ASSUME NEW p \in Procs, BeginSection(p) PROVE Goal
  BY <1>5, BeginSafe
<1>6. ASSUME NEW p \in Procs, NEW f \in Files, OpenFile(p, f) \/ SkipFile(p, f) PROVE Goal
  BY <1>6, OpenSafe, SkipSafe
<1>7. ASSUME NEW p \in Procs, ReadFile(p) \/ ReadFails(p) PROVE Goal
  BY <1>7, ReadSafe, ReadFailsSafe
<1>8. ASSUME NEW p \in Procs, Quiet(p) \/ Accepted(p) \/ Refused(p) \/ AnswerLost(p) PROVE Goal
  BY <1>8, QuietSafe, AcceptedSafe, NotDeliveredSafe
<1>9. ASSUME NEW p \in Procs, ResetLoad(p) PROVE Goal
  BY <1>9, ResetLoadSafe
<1> QED
  BY <1>a, <1>b, <1>c, <1>1, <1>2, <1>3, <1>4, <1>5, <1>6, <1>7, <1>8, <1>9 DEF Next, World, Step

LEMMA InvInit == Init => Inv
BY TypeInit, SafeInit DEF Inv

LEMMA InvStep == Inv /\ [Next]_vars => Inv'
BY TypeStep, SafeStep DEF Inv, Safe

LEMMA Invariance == Spec => []Inv
BY InvInit, InvStep, PTL DEF Spec

\* No hit is lost: whatever is refused, killed or left unsaved, by however many processes,
\* every hit between where tracking of a log began and its saved place has been mailed.
THEOREM NothingLost == Spec => []NoHitLost
<1>1. Inv => NoHitLost
  BY DEF Inv, Safe
<1> QED
  BY <1>1, Invariance, PTL

-----------------------------------------------------------------------------
(* Every file a section opened leaves it with an entry *)

LEMMA AdvancedTracks ==
  ASSUME Inv, NEW p \in Procs, pc[p] = "files",
         NEW f \in Files, f \in FilesOf[sec[p]], start[p][f] # None
  PROVE  Advanced(p)[f] # None /\ Kept(p)[f] # None
<1> USE DEF Inv, Safe
<1>1. mem[p][f] # None \/ f \in WereRead(p)
  BY DEF MemoryOK, SectionOK, WereRead
<1>2. f \in WereRead(p) => AtEnd(p, f) # None
  BY EndEntry
<1>3. AtStart(p, f) # None
  <2>1. start[p][f] \in Offsets
    BY DEF TypeOK
  <2> QED
    BY <2>1, EntryType, NoneIsNone DEF AtStart
<1>4. Advanced(p)[f] # None
  BY <1>1, <1>2 DEF Advanced
<1>5. Kept(p)[f] # None
  <2>1. CASE mem[p][f] # None
    BY <2>1, KeptSettles
  <2>2. CASE mem[p][f] = None
    BY <1>1, <1>2, <1>3, <2>2 DEF Kept
  <2> QED
    BY <2>1, <2>2
<1> QED
  BY <1>4, <1>5

LEMMA TrackedStep == Inv /\ OpenedFilesTracked /\ [Next]_vars => OpenedFilesTracked'
<1> SUFFICES ASSUME Inv, OpenedFilesTracked, [Next]_vars PROVE OpenedFilesTracked'
  OBVIOUS
<1> USE DEF Inv, TypeOK, Saving, env, locals, ghosts
<1>1. CASE World \/ UNCHANGED vars
  BY <1>1 DEF World, Append, RoomFreed, RoomLost, NextDay, vars, OpenedFilesTracked
<1>2. ASSUME NEW p \in Procs, Quiet(p) \/ Accepted(p) \/ Refused(p) \/ AnswerLost(p)
      PROVE  OpenedFilesTracked'
  <2>1. /\ pc[p] = "files"
        /\ mem' = [mem EXCEPT ![p] = Advanced(p)] \/ mem' = [mem EXCEPT ![p] = Kept(p)]
        /\ UNCHANGED <<sec, start>>
        /\ \A q \in Procs : q # p => pc'[q] = pc[q]
    BY <1>2 DEF Quiet, Accepted, Refused, AnswerLost, NotDelivered, ReadAll
  <2> SUFFICES ASSUME NEW q \in Procs, pc'[q] \in Saving, NEW f \in FilesOf[sec[q]], start[q][f] # None
               PROVE  mem'[q][f] # None
    BY <2>1 DEF OpenedFilesTracked
  <2>2. CASE q = p
    <3>1. f \in Files
      BY <2>1, <2>2, ConstantsAssumption DEF Safe, MemoryOK, SectionOK
    <3>2. mem'[p] = Advanced(p) \/ mem'[p] = Kept(p)
      BY <2>1
    <3> QED
      BY <2>1, <2>2, <3>1, <3>2, AdvancedTracks
  <2>3. CASE q # p
    BY <2>1, <2>3 DEF OpenedFilesTracked
  <2> QED
    BY <2>2, <2>3
<1>3. ASSUME NEW p \in Procs, Step(p) \/ StartRun(p) \/ StartReset(p) \/ Kill(p),
             ~(Quiet(p) \/ Accepted(p) \/ Refused(p) \/ AnswerLost(p))
      PROVE  OpenedFilesTracked'
  <2>1. pc'[p] \notin Saving \/ UNCHANGED <<pc, mem, sec, start>>
    BY <1>3 DEF Step, StartRun, StartReset, TurnedAway, Acquire, Load, LoadFails, OpeningSave,
      OpeningSaveFails, ClearMarker, BeginSection, AllSectionsDone, OpenFile, SkipFile, ReadFile,
      ReadFails, SectionSave, SectionSaveFails, MarkUnsaved, MarkFails, ResetLoad, ResetSave,
      ResetSaveFails, Release, Kill, Gone
  <2>2. \A q \in Procs : q # p => /\ pc'[q] = pc[q] /\ mem'[q] = mem[q]
                                  /\ sec'[q] = sec[q] /\ start'[q] = start[q]
    BY <1>3 DEF Step, StartRun, StartReset, TurnedAway, Acquire, Load, LoadFails, OpeningSave,
      OpeningSaveFails, ClearMarker, BeginSection, AllSectionsDone, OpenFile, SkipFile, ReadFile,
      ReadFails, SectionSave, SectionSaveFails, MarkUnsaved, MarkFails, ResetLoad, ResetSave,
      ResetSaveFails, Release, Kill, Gone
  <2> SUFFICES ASSUME NEW q \in Procs, pc'[q] \in Saving, NEW f \in FilesOf[sec'[q]], start'[q][f] # None
               PROVE  mem'[q][f] # None
    BY DEF OpenedFilesTracked
  <2>3. pc[q] \in Saving /\ sec'[q] = sec[q] /\ start'[q] = start[q] /\ mem'[q] = mem[q]
    <3>1. CASE q = p
      BY <2>1, <3>1
    <3>2. CASE q # p
      BY <2>2, <3>2
    <3> QED
      BY <3>1, <3>2
  <2> QED
    BY <2>3 DEF OpenedFilesTracked
<1> QED
  BY <1>1, <1>2, <1>3 DEF Next, Step

\* No file a run opened leaves its section without an entry, for the next run to sight afresh.
THEOREM OpenedAreTracked == Spec => []OpenedFilesTracked
<1>1. Init => OpenedFilesTracked
  BY DEF Init, OpenedFilesTracked, Saving
<1> QED
  BY <1>1, TrackedStep, Invariance, PTL DEF Spec

-----------------------------------------------------------------------------
(* Places only advance *)

LEMMA AdvanceStep ==
  ASSUME Inv, [Next]_vars, NEW f \in Files, disk[f] # None, disk' # disk
  PROVE  \/ disk'[f] # None /\ disk'[f].off >= disk[f].off
         \/ disk'[f] = None /\ \/ Age(disk[f]) > TTL
                               \/ \E p \in Procs : pc[p] \in Resetting
<1>1. \E p \in Procs : pc[p] \in Working /\ disk' = mem[p]
  <2>1. \E p \in Procs : OpeningSave(p) \/ SectionSave(p) \/ ResetSave(p)
    BY DEF Next, World, Append, RoomFreed, RoomLost, NextDay, vars, StartRun, StartReset, Kill, Step,
      TurnedAway, Acquire, Load, LoadFails, OpeningSaveFails, ClearMarker, BeginSection,
      AllSectionsDone, OpenFile, SkipFile, ReadFile, ReadFails, Quiet, Accepted, Refused, AnswerLost,
      NotDelivered, SectionSaveFails, MarkUnsaved, MarkFails, ResetLoad, ResetSaveFails, Release
  <2> QED
    BY <2>1 DEF OpeningSave, SectionSave, ResetSave, Write, Working, Holding, Resetting, Saving
<1>2. PICK p \in Procs : pc[p] \in Working /\ disk' = mem[p]
  BY <1>1
<1>3. \/ mem[p][f] # None /\ disk[f].off <= mem[p][f].off
      \/ mem[p][f] = None /\ Age(disk[f]) > TTL
      \/ mem[p][f] = None /\ pc[p] \in Resetting
  BY <1>2 DEF Inv, Safe, MemoryOK, MemAhead
<1>4. disk[f] \in Entry /\ mem[p][f] \in Entry \cup {None}
  BY DEF Inv, TypeOK, States
<1> QED
  BY <1>2, <1>3, <1>4 DEF Entry, Offsets

\* A saved place never goes back, and is dropped only by a reset or for age.
THEOREM PlacesAdvance == Spec => PlacesOnlyAdvance
<1>1. Inv /\ [Next]_vars =>
        [\A f \in Files : disk[f] # None =>
           \/ disk'[f] # None /\ disk'[f].off >= disk[f].off
           \/ disk'[f] = None /\ \/ Age(disk[f]) > TTL
                                 \/ \E p \in Procs : pc[p] \in Resetting]_disk
  BY AdvanceStep
<1> QED
  BY <1>1, Invariance, PTL DEF Spec, PlacesOnlyAdvance

-----------------------------------------------------------------------------
(* The run implements the promise: every behaviour of RunCycle, seen as saved places and   *)
(* mailed lines, is one of AtLeastOnce.                                                    *)

\* A process that has opened nothing yet.
Unopened == {"idle", "locking", "resetting", "load", "opening"} \cup Resetting

\* What the promise needs beyond Inv: a log whose section says start = beginning is tracked
\* from its first line on, because its first read began there.
FreshStarts(p) == pc[p] \in Unopened => \A f \in Files : start[p][f] = None
FromTheStart(p) ==
  \A f \in FromStart : since[f] = None /\ start[p][f] # None => start[p][f] = 0
StartsOK == \A p \in Procs : FreshStarts(p) /\ FromTheStart(p)

LEMMA StartsInit == Init => StartsOK
BY ConstantsAssumption DEF Init, StartsOK, FreshStarts, FromTheStart, Nothing

\* A save drops the record of a log only before the process has opened anything.
LEMMA WriteStarts ==
  ASSUME Inv, StartsOK, NEW p \in Procs, pc[p] \in Working, Write(p),
         NEW to \in PCs \ Unopened, pc' = [pc EXCEPT ![p] = to], start' = start
  PROVE  StartsOK'
<1> USE DEF Inv, Safe, StartsOK
<1>1. ASSUME NEW q \in Procs PROVE FreshStarts(q)'
  BY DEF FreshStarts, TypeOK
<1>2. ASSUME NEW q \in Procs, NEW f \in FromStart, since'[f] = None, start[q][f] # None
      PROVE  start[q][f] = 0
  <2>1. f \in Files
    BY ConstantsAssumption
  <2>2. CASE q # p
    <3>1. pc[q] \notin Holding
      BY <2>2, Alone DEF Working
    <3>2. pc[q] \in Unopened
      BY <3>1 DEF Unopened, TypeOK, PCs
    <3> QED
      BY <1>2, <2>1, <3>2 DEF FreshStarts
  <2>3. CASE q = p
    <3>1. pc[p] \notin Unopened
      BY <1>2, <2>1, <2>3 DEF FreshStarts
    <3>2. mem[p][f] = None => since[f] = None
      BY <2>1, <3>1 DEF MemoryOK, MemAhead, LogsOK, Unopened
    <3>3. since[f] = None
      BY <1>2, <2>1, <2>3, <3>2 DEF Write
    <3> QED
      BY <1>2, <2>3, <3>3 DEF FromTheStart
  <2> QED
    BY <2>2, <2>3
<1>3. ASSUME NEW q \in Procs PROVE FromTheStart(q)'
  BY <1>2 DEF FromTheStart
<1> QED
  BY <1>1, <1>3

LEMMA StartsStep == Inv /\ StartsOK /\ [Next]_vars => StartsOK'
<1> SUFFICES ASSUME Inv, StartsOK, [Next]_vars PROVE StartsOK'
  OBVIOUS
<1> USE DEF Inv, TypeOK, env, locals, ghosts
<1>1. CASE World \/ UNCHANGED vars
  BY <1>1 DEF World, Append, RoomFreed, RoomLost, NextDay, vars, StartsOK, FreshStarts, FromTheStart
<1>2. ASSUME NEW p \in Procs, OpeningSave(p) \/ SectionSave(p) \/ ResetSave(p) PROVE StartsOK'
  <2>1. pc[p] \in Working /\ Write(p) /\ start' = start
    BY <1>2 DEF OpeningSave, SectionSave, ResetSave, Saving, Resetting, Working, Holding
  <2>2. \E to \in PCs \ Unopened : pc' = [pc EXCEPT ![p] = to]
    BY <1>2 DEF OpeningSave, SectionSave, ResetSave, Resetting, PCs, Holding, Unopened
  <2> QED
    BY <2>1, <2>2, WriteStarts
<1>3. ASSUME NEW p \in Procs, Release(p) \/ Kill(p) PROVE StartsOK'
  <2>1. /\ start' = [start EXCEPT ![p] = Nothing] /\ since' = since
        /\ \A q \in Procs : q # p => pc'[q] = pc[q]
    BY <1>3 DEF Release, Kill, Gone
  <2>2. /\ start'[p] = Nothing
        /\ \A q \in Procs : q # p => start'[q] = start[q]
    BY <2>1
  <2>3. ASSUME NEW q \in Procs PROVE (FreshStarts(q) /\ FromTheStart(q))'
    <3>1. CASE q = p
      BY <2>2, <3>1, ConstantsAssumption DEF FreshStarts, FromTheStart, Nothing
    <3>2. CASE q # p
      BY <2>1, <2>2, <3>2 DEF StartsOK, FreshStarts, FromTheStart
    <3> QED
      BY <3>1, <3>2
  <2> QED
    BY <2>3 DEF StartsOK
<1>4. ASSUME NEW p \in Procs, NEW g \in Files, OpenFile(p, g) PROVE StartsOK'
  <2>1. /\ pc[p] = "files" /\ g \in todo[p] /\ since' = since
        /\ pc' = [pc EXCEPT ![p] = "read"]
        /\ start' = [start EXCEPT ![p][g] = StartOf(p, g)]
    BY <1>4 DEF OpenFile
  <2>2. since[g] = None => mem[p][g] = None
    <3>1. start[p][g] = None
      <4>1. SectionOK(p) /\ ReadsOK(p)
        BY DEF Safe, MemoryOK
      <4>2. sec[p] \in 1..Sections /\ g \in FilesOf[sec[p]]
        BY <2>1, <4>1 DEF SectionOK
      <4> QED
        BY <2>1, <4>1, <4>2 DEF ReadsOK
    <3>2. mem[p][g] # None => Base(p, g) # None
      BY <2>1 DEF Safe, MemoryOK, MemDelivered, Working, Holding
    <3> QED
      BY <3>1, <3>2 DEF Base
  <2>3. g \in FromStart /\ since[g] = None => StartOf(p, g) = 0
    BY <2>2 DEF StartOf
  <2>4. ASSUME NEW q \in Procs PROVE FreshStarts(q)'
    <3>1. CASE q = p
      BY <2>1, <3>1 DEF FreshStarts, Unopened, Resetting
    <3>2. CASE q # p
      BY <2>1, <3>2 DEF StartsOK, FreshStarts
    <3> QED
      BY <3>1, <3>2
  <2>5. ASSUME NEW q \in Procs, NEW f \in FromStart, since[f] = None, start'[q][f] # None
        PROVE  start'[q][f] = 0
    <3>1. f \in Files
      BY ConstantsAssumption
    <3>2. CASE q = p /\ f = g
      BY <2>1, <2>3, <2>5, <3>2
    <3>3. CASE ~(q = p /\ f = g)
      BY <2>1, <2>5, <3>1, <3>3 DEF StartsOK, FromTheStart
    <3> QED
      BY <3>2, <3>3
  <2>6. ASSUME NEW q \in Procs PROVE FromTheStart(q)'
    BY <2>1, <2>5 DEF FromTheStart
  <2> QED
    BY <2>4, <2>6 DEF StartsOK
<1>5. ASSUME NEW p \in Procs, Step(p) \/ StartRun(p) \/ StartReset(p),
             ~(OpeningSave(p) \/ SectionSave(p) \/ ResetSave(p) \/ Release(p)),
             ~\E f \in Files : OpenFile(p, f)
      PROVE  StartsOK'
  <2>1. UNCHANGED <<start, since>> /\ \A q \in Procs : q # p => pc'[q] = pc[q]
    BY <1>5 DEF Step, StartRun, StartReset, TurnedAway, Acquire, Load, LoadFails,
      OpeningSaveFails, ClearMarker, BeginSection, AllSectionsDone, SkipFile, ReadFile,
      ReadFails, Quiet, Accepted, Refused, AnswerLost, NotDelivered, SectionSaveFails, MarkUnsaved,
      MarkFails, ResetLoad, ResetSaveFails
  <2>2. pc'[p] \in Unopened => pc[p] \in Unopened
    BY <1>5 DEF Unopened, Resetting, Step, StartRun, StartReset, TurnedAway, Acquire, Load, LoadFails,
      OpeningSaveFails, ClearMarker, BeginSection, AllSectionsDone, SkipFile, ReadFile,
      ReadFails, Quiet, Accepted, Refused, AnswerLost, NotDelivered, SectionSaveFails, MarkUnsaved,
      MarkFails, ResetLoad, ResetSaveFails
  <2> QED
    BY <2>1, <2>2 DEF StartsOK, FreshStarts, FromTheStart
<1> QED
  BY <1>1, <1>2, <1>3, <1>4, <1>5 DEF Next, Step

-----------------------------------------------------------------------------
(* Every step is one of the promise's, or none *)

LEMMA RecordStep ==
  ASSUME Inv, Inv', StartsOK, NEW p \in Procs, pc[p] \in Working, Write(p),
         UNCHANGED <<len, hits, copies>>
  PROVE  Promise!Record
<1> USE DEF Inv, Safe
<1> DEFINE place == [f \in Files |-> IF disk[f] = None THEN None ELSE disk[f].off]
<1>1. ASSUME NEW f \in Files
      PROVE  /\ place[f] \in Offsets \cup {None} /\ place[f]' \in Offsets \cup {None}
             /\ since[f] \in Offsets \cup {None} /\ since'[f] \in Offsets \cup {None}
             /\ len[f] \in Offsets /\ hits[f] \subseteq Lines
             /\ (disk[f] = None <=> place[f] = None) /\ (disk'[f] = None <=> place[f]' = None)
             /\ (disk[f] # None => place[f] = disk[f].off)
             /\ (disk'[f] # None => place[f]' = disk'[f].off)
    BY NoneIsNone DEF TypeOK, States, Entry
<1>2. ASSUME NEW f \in Files, NEW a \in Offsets, NEW b \in Offsets, Delivered(f, a, b)
      PROVE  Promise!AllMailed(f, a, b)
  BY <1>1, <1>2 DEF Delivered, Promise!AllMailed
<1>3. ASSUME NEW f \in Files
      PROVE  Promise!Stays(f) \/ Promise!MovesOn(f) \/ Promise!Begins(f) \/ Promise!Forgotten(f)
  <2>1. CASE mem[p][f] = None
    BY <1>1, <2>1 DEF Write, Promise!Forgotten
  <2>2. CASE mem[p][f] # None
    <3>1. /\ disk'[f] = mem[p][f] /\ since'[f] = Base(p, f)
          /\ Base(p, f) # None /\ Base(p, f) <= mem[p][f].off /\ mem[p][f].off <= len[f]
          /\ Delivered(f, Base(p, f), mem[p][f].off)
      BY <2>2 DEF Write, Base, MemoryOK, MemDelivered
    <3>2. CASE disk[f] # None
      <4>1. /\ since[f] # None /\ since'[f] = since[f] /\ Base(p, f) = since[f]
            /\ since[f] <= disk[f].off /\ disk[f].off <= mem[p][f].off
        BY <2>2, <3>1, <3>2 DEF Base, NoHitLost, MemoryOK, MemAhead
      <4>2. place[f]' \in place[f] .. len[f]
        BY <1>1, <2>2, <3>1, <3>2, <4>1 DEF Offsets
      <4>3. Delivered(f, disk[f].off, mem[p][f].off)
        <5>1. hits[f] \subseteq Int /\ since[f] \in Int /\ disk[f].off \in Int
          BY <1>1, <3>2, <4>1 DEF Lines, Offsets
        <5> QED
          BY <3>1, <4>1, <5>1 DEF Delivered
      <4>4. Promise!AllMailed(f, place[f], place[f]')
        BY <1>1, <1>2, <2>2, <3>1, <3>2, <4>3
      <4> QED
        BY <1>1, <3>2, <4>1, <4>2, <4>4 DEF Promise!MovesOn
    <3>3. CASE disk[f] = None
      <4>1. since[f] = None /\ since'[f] = start[p][f]
        BY <3>1, <3>3 DEF LogsOK, Base
      <4>2. f \in FromStart => since'[f] = 0
        BY <3>1, <4>1 DEF StartsOK, FromTheStart, Base
      <4>3. place[f]' \in 0 .. len[f] /\ since'[f] \in 0 .. place[f]'
        BY <1>1, <2>2, <3>1 DEF Offsets
      <4>4. Promise!AllMailed(f, since'[f], place[f]')
        BY <1>1, <1>2, <2>2, <3>1
      <4> QED
        BY <1>1, <3>3, <4>2, <4>3, <4>4 DEF Promise!Begins
    <3> QED
      BY <3>2, <3>3
  <2> QED
    BY <2>1, <2>2
<1>4. /\ since' \in [Files -> 0..MaxLines \cup {None}]
      /\ place' \in [Files -> 0..MaxLines \cup {None}]
  BY <1>1 DEF TypeOK, Offsets
<1> QED
  BY <1>3, <1>4 DEF Promise!Record

LEMMA MailStep ==
  ASSUME Inv, Inv', NEW p \in Procs, MailOut(p), UNCHANGED <<len, hits, disk, since>>
  PROVE  Promise!Mail
<1> USE DEF Inv
<1>1. ASSUME NEW f \in Files, NEW i \in Lines
      PROVE  /\ copies[f][i] > 0 => copies'[f][i] > 0
             /\ copies'[f][i] > 0 => copies[f][i] > 0 \/ i \in hits[f]
  <2>1. copies[f][i] \in Nat
    BY DEF TypeOK
  <2>2. copies'[f][i] = copies[f][i] \/ (i \in hits[f] /\ copies'[f][i] = copies[f][i] + 1)
    BY DEF MailOut, Brought
  <2> QED
    BY <2>1, <2>2
<1> QED
  BY <1>1 DEF Promise!Mail, Lines

LEMMA PromiseStep == Inv /\ Inv' /\ StartsOK /\ [Next]_vars => [Promise!AbsNext]_Promise!absVars
<1> SUFFICES ASSUME Inv, Inv', StartsOK, [Next]_vars
             PROVE  Promise!AbsNext \/ UNCHANGED <<len, hits, disk, since, copies>>
  BY DEF Promise!absVars
<1> USE DEF env, locals, ghosts
<1>1. ASSUME NEW f \in Files, Append(f) PROVE Promise!AbsNext
  <2>1. Promise!Write(f)
    BY <1>1 DEF Append, Promise!Write
  <2> QED
    BY <2>1 DEF Promise!AbsNext
<1>2. ASSUME NEW p \in Procs, OpeningSave(p) \/ SectionSave(p) \/ ResetSave(p) PROVE Promise!AbsNext
  <2>1. pc[p] \in Working /\ Write(p) /\ UNCHANGED <<len, hits, copies>>
    BY <1>2 DEF OpeningSave, SectionSave, ResetSave, Saving, Resetting, Working, Holding
  <2> QED
    BY <2>1, RecordStep DEF Promise!AbsNext
<1>3. ASSUME NEW p \in Procs, Accepted(p) \/ AnswerLost(p) PROVE Promise!AbsNext
  <2>1. MailOut(p) /\ UNCHANGED <<len, hits, disk, since>>
    BY <1>3 DEF Accepted, AnswerLost, NotDelivered
  <2> QED
    BY <2>1, MailStep DEF Promise!AbsNext
<1>4. ASSUME NEW p \in Procs, Step(p) \/ StartRun(p) \/ StartReset(p) \/ Kill(p),
             ~(OpeningSave(p) \/ SectionSave(p) \/ ResetSave(p) \/ Accepted(p) \/ AnswerLost(p))
      PROVE  UNCHANGED <<len, hits, disk, since, copies>>
  BY <1>4 DEF Step, StartRun, StartReset, TurnedAway, Acquire, Load, LoadFails,
      OpeningSaveFails, ClearMarker, BeginSection, AllSectionsDone, OpenFile, SkipFile, ReadFile,
      ReadFails, Quiet, Refused, NotDelivered, SectionSaveFails, MarkUnsaved,
      MarkFails, ResetLoad, ResetSaveFails, Release, Kill
<1>5. CASE RoomFreed \/ RoomLost \/ NextDay \/ UNCHANGED vars
  BY <1>5 DEF RoomFreed, RoomLost, NextDay, vars
<1> QED
  BY <1>1, <1>2, <1>3, <1>4, <1>5 DEF Next, World

\* logalert keeps what AtLeastOnce promises: under any interleaving of runs and resets, kills,
\* refusals, lost answers and a full disk, a saved place passes mailed hits only.
THEOREM RunKeepsPromise == Spec => KeepsPromise
<1>1. Init => Promise!AbsInit
  BY ConstantsAssumption DEF Init, Promise!AbsInit, Nothing
<1>2. Init => Inv /\ StartsOK
  BY InvInit, StartsInit
<1>3. Inv /\ StartsOK /\ [Next]_vars => Inv' /\ StartsOK'
  BY InvStep, StartsStep
<1>4. Inv /\ Inv' /\ StartsOK /\ [Next]_vars => [Promise!AbsNext]_Promise!absVars
  BY PromiseStep
<1> QED
  BY <1>1, <1>2, <1>3, <1>4, PTL DEF Spec, KeepsPromise, Promise!AbsSpec
=============================================================================
