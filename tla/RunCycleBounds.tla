---------------------------- MODULE RunCycleBounds ----------------------------
(***************************************************************************)
(* How good the places of RunCycle are, for every number of processes,     *)
(* logs, sections and lines, checked by TLAPS: a clean run has saved every *)
(* place it read to, only an unreached log's place expires, and a hit goes *)
(* out twice at most unless something went wrong from outside.             *)
(*                                                                         *)
(* Each is an invariant of its own over RunCycleSafety!Inv.                *)
(***************************************************************************)
EXTENDS RunCycleSafety, FiniteSetTheorems

-----------------------------------------------------------------------------
(* What a step of one process leaves to the others *)

Does(p) == StartRun(p) \/ StartReset(p) \/ Step(p) \/ Kill(p)

LEMMA OthersUnmoved ==
  ASSUME TypeOK, NEW p \in Procs, Does(p), NEW q \in Procs, q # p
  PROVE  /\ pc'[q] = pc[q] /\ mem'[q] = mem[q] /\ known'[q] = known[q] /\ sec'[q] = sec[q]
         /\ start'[q] = start[q] /\ end'[q] = end[q] /\ failed'[q] = failed[q]
BY DEF TypeOK, locals, Does, StartRun, StartReset, Kill, Gone, Step, TurnedAway, Acquire, Load,
  LoadFails, OpeningSave, OpeningSaveFails, ClearMarker, BeginSection, AllSectionsDone, OpenFile,
  SkipFile, ReadFile, ReadFails, Quiet, Accepted, Refused, AnswerLost, NotDelivered, SectionSave,
  SectionSaveFails, MarkUnsaved, MarkFails, ResetLoad, ResetSave, ResetSaveFails, Release

\* Only a process past the lock writes the state file.
LEMMA WritersHold ==
  ASSUME NEW p \in Procs, Does(p), pc[p] \notin Holding
  PROVE  UNCHANGED disk
BY DEF Holding, Saving, Resetting, Does, StartRun, StartReset, Kill, Step, TurnedAway, Acquire, Load,
  LoadFails, OpeningSave, OpeningSaveFails, ClearMarker, BeginSection, AllSectionsDone, OpenFile,
  SkipFile, ReadFile, ReadFails, Quiet, Accepted, Refused, AnswerLost, NotDelivered, SectionSave,
  SectionSaveFails, MarkUnsaved, MarkFails, ResetLoad, ResetSave, ResetSaveFails, Release, ReadAll

-----------------------------------------------------------------------------
(* A clean run is saved *)

\* The state st has f at the end of p's read of it.
HasEnd(st, p, f) == st[f] # None /\ st[f].off = end[p][f]

\* The files p may have read and not saved yet: those of the section it is in.
Unsettled(p) ==
  IF pc[p] \in {"files", "read"} \cup Saving THEN FilesOf[sec[p]] ELSE {}

\* Until something fails, every read that ended before this section is in memory and on
\* disk, and what a section is about to save has its own.
CleanSoFar(p) ==
  /\ pc[p] \notin Holding => \A f \in Files : end[p][f] = None
  /\ pc[p] \in Holding /\ ~failed[p] =>
       /\ pc[p] # "mark"
       /\ \A f \in Files : end[p][f] # None =>
            /\ pc[p] \notin {"load", "opening"} \cup Resetting
            /\ f \notin Unsettled(p) => HasEnd(disk, p, f) /\ HasEnd(mem[p], p, f)
            /\ pc[p] \in Saving => HasEnd(mem[p], p, f)

AllClean == \A p \in Procs : CleanSoFar(p)

LEMMA CleanBeside ==
  ASSUME Inv, AllClean, NEW p \in Procs, Does(p), NEW q \in Procs, q # p
  PROVE  CleanSoFar(q)'
<1>1. /\ pc'[q] = pc[q] /\ mem'[q] = mem[q] /\ sec'[q] = sec[q]
      /\ end'[q] = end[q] /\ failed'[q] = failed[q]
  BY OthersUnmoved DEF Inv
<1>2. pc[q] \in Holding => UNCHANGED disk
  BY WritersHold, Alone DEF Inv, Safe
<1> QED
  BY <1>1, <1>2 DEF AllClean, CleanSoFar, Unsettled, HasEnd

\* A section's ending has every read of it in memory: see Advanced.
LEMMA CleanEnding ==
  ASSUME Inv, NEW p \in Procs, CleanSoFar(p), Quiet(p) \/ Accepted(p)
  PROVE  CleanSoFar(p)'
<1>1. /\ pc[p] = "files" /\ pc'[p] \in Saving /\ mem'[p] = Advanced(p)
      /\ failed'[p] = failed[p] \/ failed'[p]
      /\ UNCHANGED <<disk, sec, end>>
  BY DEF Inv, TypeOK, Quiet, Accepted, ReadAll, Saving
<1>2. ASSUME NEW f \in Files, end[p][f] # None, f \in FilesOf[sec[p]] PROVE HasEnd(Advanced(p), p, f)
  <2>1. f \in WereRead(p) /\ Advanced(p)[f] = AtEnd(p, f)
    BY <1>2 DEF WereRead, Advanced
  <2> QED
    BY <2>1, EndEntry DEF HasEnd, AtEnd, Inv
<1>3. ASSUME NEW f \in Files, f \notin FilesOf[sec[p]] PROVE Advanced(p)[f] = mem[p][f]
  BY <1>3 DEF Advanced, WereRead
<1> SUFFICES ASSUME ~failed[p], NEW f \in Files, end[p][f] # None
             PROVE  /\ f \notin FilesOf[sec[p]] => HasEnd(disk, p, f)
                    /\ HasEnd(Advanced(p), p, f)
  BY <1>1 DEF CleanSoFar, Unsettled, HasEnd, Saving, Holding, Resetting
<1> QED
  BY <1>1, <1>2, <1>3 DEF CleanSoFar, Unsettled, HasEnd, Holding

LEMMA CleanStep == Inv /\ AllClean /\ [Next]_vars => AllClean'
<1> SUFFICES ASSUME Inv, AllClean, [Next]_vars PROVE AllClean'
  OBVIOUS
<1> USE DEF env, locals, ghosts
<1>1. CASE World \/ UNCHANGED vars
  <2>1. UNCHANGED <<disk, pc, locals>>
    BY <1>1 DEF World, Append, RoomFreed, RoomLost, NextDay, vars
  <2> QED
    BY <2>1 DEF AllClean, CleanSoFar, Unsettled, HasEnd
<1> SUFFICES ASSUME NEW p \in Procs, Does(p) PROVE CleanSoFar(p)'
  BY <1>1, CleanBeside DEF Next, Does, AllClean
<1> USE DEF CleanSoFar, Unsettled, HasEnd, Saving, Holding, Resetting
<1>c. CleanSoFar(p)
  BY DEF AllClean
<1>2. CASE StartRun(p) \/ StartReset(p) \/ TurnedAway(p)
  BY <1>c, <1>2 DEF StartRun, StartReset, TurnedAway, Inv, TypeOK
<1>3. CASE Release(p) \/ Kill(p)
  BY <1>3 DEF Release, Kill, Gone, Nothing, Inv, TypeOK
<1>4. CASE Acquire(p) \/ Load(p)
  BY <1>c, <1>4 DEF Acquire, Load, Inv, TypeOK
<1>5. CASE LoadFails(p) \/ OpeningSaveFails(p) \/ SectionSaveFails(p) \/ ReadFails(p)
  BY <1>c, <1>5 DEF LoadFails, OpeningSaveFails, SectionSaveFails, ReadFails, Inv, TypeOK
<1>6. CASE Refused(p) \/ AnswerLost(p)
  BY <1>c, <1>6 DEF Refused, AnswerLost, NotDelivered, ReadAll, Inv, TypeOK
<1>7. CASE OpeningSave(p) \/ ClearMarker(p) \/ AllSectionsDone(p)
  BY <1>c, <1>7 DEF OpeningSave, Write, ClearMarker, AllSectionsDone, Inv, TypeOK
<1>8. CASE MarkUnsaved(p) \/ MarkFails(p)
  BY <1>c, <1>8 DEF MarkUnsaved, MarkFails, Inv, TypeOK
<1>9. CASE BeginSection(p)
  BY <1>c, <1>9 DEF BeginSection, Inv, TypeOK
<1>10. ASSUME NEW g \in Files, OpenFile(p, g) \/ SkipFile(p, g) PROVE CleanSoFar(p)'
  BY <1>c, <1>10 DEF OpenFile, SkipFile, Inv, TypeOK
<1>11. CASE ReadFile(p)
  <2>1. cur[p] \in FilesOf[sec[p]]
    BY <1>11 DEF ReadFile, Inv, Safe, MemoryOK, SectionOK
  <2> QED
    BY <1>c, <1>11, <2>1 DEF ReadFile, Inv, TypeOK
<1>12. CASE Quiet(p) \/ Accepted(p)
  BY <1>c, <1>12, CleanEnding
<1>13. CASE SectionSave(p)
  BY <1>c, <1>13 DEF SectionSave, Write, Inv, TypeOK
<1>14. CASE ResetLoad(p)
  BY <1>c, <1>14 DEF ResetLoad, Inv, TypeOK
<1>15. CASE ResetSave(p) \/ ResetSaveFails(p)
  BY <1>c, <1>15 DEF ResetSave, Write, ResetSaveFails, Inv, TypeOK
<1> QED
  BY <1>2, <1>3, <1>4, <1>5, <1>6, <1>7, <1>8, <1>9, <1>10, <1>11, <1>12, <1>13, <1>14, <1>15
  DEF Does, Step

\* A run that ends with nothing failed has put every place it read to on disk.
THEOREM CleanIsSaved == Spec => []CleanRunIsSaved
<1>1. Init => AllClean
  BY DEF Init, AllClean, CleanSoFar, Nothing, Holding
<1>2. AllClean => CleanRunIsSaved
  BY DEF AllClean, CleanSoFar, CleanRunIsSaved, Unsettled, HasEnd, Holding, Resetting, Saving
<1> QED
  BY <1>1, <1>2, CleanStep, Invariance, PTL DEF Spec

-----------------------------------------------------------------------------
(* Only the unreached expire *)

\* An entry was taken within half the time to live of the day.
Within(e, today) == 2 * (today - e.day) <= TTL

\* No entry in the memory of a run is older than half the time to live on the day its log
\* was last reached; what is about to be saved of a file that was read is that fresh today.
TouchedBy(p) ==
  pc[p] \in Working =>
    \A f \in Files : mem[p][f] # None =>
      /\ Within(mem[p][f], reached[f])
      /\ pc[p] \in Saving /\ f \in WereRead(p) => Within(mem[p][f], day)

\* Nor is any on disk.
Touched ==
  /\ \A f \in Files : reached[f] <= day
  /\ \A f \in Files : disk[f] # None => Within(disk[f], reached[f])
  /\ \A p \in Procs : TouchedBy(p)

\* What is taken today is fresh on any day up to today.
LEMMA TakenToday ==
  ASSUME TypeOK, NEW e, e.day = day, NEW d \in Days, d <= day
  PROVE  Within(e, d)
BY ConstantsAssumption DEF Within, TypeOK, Days

LEMMA TouchedBeside ==
  ASSUME Inv, Touched, NEW p \in Procs, Does(p), UNCHANGED day, NEW q \in Procs, q # p
  PROVE  TouchedBy(q)'
<1>1. pc'[q] = pc[q] /\ mem'[q] = mem[q] /\ sec'[q] = sec[q] /\ end'[q] = end[q]
  BY OthersUnmoved DEF Inv
<1>2. pc[q] \in Working => UNCHANGED reached
  <2> SUFFICES ASSUME pc[q] \in Working PROVE UNCHANGED reached
    OBVIOUS
  <2>1. pc[p] \notin Holding
    BY Alone DEF Inv, Safe, Working
  <2> QED
    BY <2>1 DEF Holding, Saving, Resetting, ghosts, Does, StartRun, StartReset, Kill, Step,
      TurnedAway, Acquire, Load, LoadFails, OpeningSave, OpeningSaveFails, ClearMarker, BeginSection,
      AllSectionsDone, OpenFile, SkipFile, ReadFile, ReadFails, Quiet, Accepted, Refused, AnswerLost,
      NotDelivered, ReadAll, SectionSave, SectionSaveFails, MarkUnsaved, MarkFails, ResetLoad,
      ResetSave, ResetSaveFails, Release
<1> QED
  BY <1>1, <1>2 DEF Touched, TouchedBy, WereRead

\* Either ending of a section takes a new sighting of what it read, unless the one it has
\* is younger than half the time to live.
LEMMA TouchedEnding ==
  ASSUME Inv, Touched, NEW p \in Procs, pc[p] = "files",
         NEW st, st = Advanced(p) \/ st = Kept(p),
         NEW f \in Files, st[f] # None
  PROVE  /\ Within(st[f], reached[f])
         /\ f \in WereRead(p) => Within(st[f], day)
<1> USE DEF Inv
<1>1. reached[f] \in Days /\ reached[f] <= day /\ day \in Days /\ day <= day
  BY ConstantsAssumption DEF Touched, TypeOK, Days
<1>2. mem[p][f] # None => Within(mem[p][f], reached[f])
  BY DEF Touched, TouchedBy, Working, Holding
<1>3. \/ st[f] = AtEnd(p, f) \/ st[f] = AtStart(p, f)
      \/ mem[p][f] # None /\ st[f] = [mem[p][f] EXCEPT !.day = day]
      \/ mem[p][f] # None /\ st[f] = mem[p][f] /\ (f \in WereRead(p) => 2 * Age(mem[p][f]) <= TTL)
  <2>1. mem[p][f] # None => mem[p][f].day \in Int /\ Age(mem[p][f]) \in Int
    BY DEF TypeOK, States, Entry, Days, Age
  <2>2. CASE st = Advanced(p)
    BY <2>2 DEF Advanced
  <2>3. CASE st = Kept(p)
    BY <2>1, <2>3, ConstantsAssumption DEF Kept, Contributing
  <2> QED
    BY <2>2, <2>3
<1>4. CASE st[f] = AtEnd(p, f) \/ st[f] = AtStart(p, f)
  BY <1>1, <1>4, TakenToday DEF AtEnd, AtStart
<1>5. CASE mem[p][f] # None /\ st[f] = [mem[p][f] EXCEPT !.day = day]
  <2>1. st[f].day = day
    BY <1>5 DEF TypeOK, States, Entry
  <2> QED
    BY <1>1, <2>1, TakenToday
<1>6. CASE /\ mem[p][f] # None /\ st[f] = mem[p][f]
           /\ f \in WereRead(p) => 2 * Age(mem[p][f]) <= TTL
  BY <1>2, <1>6 DEF Within, Age
<1> QED
  BY <1>3, <1>4, <1>5, <1>6

LEMMA TouchedStep == Inv /\ Touched /\ [Next]_vars => Touched'
<1> SUFFICES ASSUME Inv, Touched, [Next]_vars PROVE Touched'
  OBVIOUS
<1> USE DEF env, locals, ghosts
<1>1. CASE UNCHANGED <<day, disk, pc, locals, reached>>
  BY <1>1 DEF Touched, TouchedBy, WereRead
<1>2. CASE NextDay
  <2>1. /\ day' = day + 1 /\ UNCHANGED <<disk, reached, pc>>
        /\ \A p \in Procs : pc[p] \notin Working
    BY <1>2, ConstantsAssumption DEF NextDay, Inv, Safe, HolderHolds, Working
  <2> QED
    BY <2>1 DEF Touched, TouchedBy, Inv, TypeOK, Days
<1>3. ASSUME NEW p \in Procs, Does(p) PROVE Touched'
  <2>1. UNCHANGED day
    BY <1>3 DEF Does, StartRun, StartReset, Kill, Step, TurnedAway, Acquire, Load, LoadFails,
      OpeningSave, OpeningSaveFails, ClearMarker, BeginSection, AllSectionsDone, OpenFile, SkipFile,
      ReadFile, ReadFails, Quiet, Accepted, Refused, AnswerLost, NotDelivered, SectionSave,
      SectionSaveFails, MarkUnsaved, MarkFails, ResetLoad, ResetSave, ResetSaveFails, Release
  <2>2. \A q \in Procs \ {p} : TouchedBy(q)'
    BY <1>3, <2>1, TouchedBeside
  <2> SUFFICES /\ \A f \in Files : reached'[f] <= day
               /\ \A f \in Files : disk'[f] # None => Within(disk'[f], reached'[f])
               /\ TouchedBy(p)'
    BY <2>1, <2>2 DEF Touched
  <2>t. TouchedBy(p)
    BY DEF Touched
  <2> USE DEF Touched, TouchedBy, Working, Holding
  <2>3. CASE StartRun(p) \/ StartReset(p) \/ TurnedAway(p) \/ Acquire(p) \/ Release(p) \/ Kill(p)
    BY <2>t, <2>3 DEF StartRun, StartReset, TurnedAway, Acquire, Release, Kill, Gone, Inv, TypeOK
  <2>4. CASE Load(p)
    BY <2>t, <2>4 DEF Load, Expired, Inv, TypeOK, Saving
  <2>5. CASE LoadFails(p) \/ OpeningSaveFails(p) \/ ClearMarker(p) \/ AllSectionsDone(p)
    BY <2>t, <2>5 DEF LoadFails, OpeningSaveFails, ClearMarker, AllSectionsDone, Inv, TypeOK, Saving
  <2>6. CASE SectionSaveFails(p) \/ MarkUnsaved(p) \/ MarkFails(p) \/ ResetSaveFails(p)
    BY <2>t, <2>6 DEF SectionSaveFails, MarkUnsaved, MarkFails, ResetSaveFails, Inv, TypeOK, Saving, Resetting
  <2>7. CASE BeginSection(p) \/ ReadFile(p) \/ \E f \in Files : OpenFile(p, f) \/ SkipFile(p, f)
    BY <2>t, <2>7 DEF BeginSection, ReadFile, OpenFile, SkipFile, Inv, TypeOK, Saving
  <2>8. CASE ReadFails(p)
    <3>1. \A f \in Files : Within(AtStart(p, f), reached[f])
      <4>1. \A f \in Files : reached[f] \in Days
        BY DEF Inv, TypeOK
      <4> QED
        BY <4>1, TakenToday DEF AtStart, Inv
    <3>2. /\ pc[p] = "read" /\ pc'[p] = "files" /\ UNCHANGED <<disk, reached, day>>
          /\ \A f \in Files : mem'[p][f] = mem[p][f] \/ mem'[p][f] = AtStart(p, f)
      BY <2>8 DEF ReadFails, Inv, TypeOK, States
    <3> QED
      BY <2>t, <3>1, <3>2 DEF Saving
  <2>9. CASE Quiet(p) \/ Accepted(p) \/ Refused(p) \/ AnswerLost(p)
    <3>1. /\ pc[p] = "files"
          /\ mem'[p] = Advanced(p) \/ mem'[p] = Kept(p)
          /\ UNCHANGED <<disk, reached, sec, end>>
      BY <2>9 DEF Quiet, Accepted, Refused, AnswerLost, NotDelivered, ReadAll, Inv, TypeOK
    <3>2. ASSUME NEW f \in Files, mem'[p][f] # None
          PROVE  Within(mem'[p][f], reached[f]) /\ (f \in WereRead(p) => Within(mem'[p][f], day))
      BY <3>1, <3>2, TouchedEnding
    <3> QED
      BY <2>1, <2>t, <3>1, <3>2 DEF WereRead
  <2>10. CASE OpeningSave(p) \/ ResetSave(p)
    BY <2>t, <2>10 DEF OpeningSave, ResetSave, Write, Resetting, Inv, TypeOK, Saving
  <2>11. CASE SectionSave(p)
    <3>1. /\ pc[p] \in Saving /\ disk' = mem[p] /\ UNCHANGED <<day, mem, sec, end>>
          /\ pc'[p] \in {"section", "clear"}
          /\ reached' = [f \in Files |-> IF f \in WereRead(p) THEN day ELSE reached[f]]
      BY <2>11 DEF SectionSave, Write, Inv, TypeOK
    <3>2. ASSUME NEW f \in Files, mem[p][f] # None PROVE Within(mem[p][f], reached'[f])
      BY <3>1, <3>2 DEF Saving
    <3>3. \A f \in Files : reached'[f] <= day
      BY <3>1 DEF Inv, TypeOK, Days
    <3> QED
      BY <2>1, <2>t, <3>1, <3>2, <3>3 DEF Saving
  <2>12. CASE ResetLoad(p)
    <3>1. /\ pc'[p] \in Resetting \cup {"release"} /\ UNCHANGED <<disk, reached, day>>
          /\ \A f \in Files : mem'[p][f] = None \/ mem'[p][f] = disk[f]
      BY <2>12 DEF ResetLoad, Nothing, Resetting, Inv, TypeOK, States
    <3> QED
      BY <3>1 DEF Resetting, Saving
  <2> QED
    BY <1>3, <2>3, <2>4, <2>5, <2>6, <2>7, <2>8, <2>9, <2>10, <2>11, <2>12 DEF Does, Step
<1> QED
  BY <1>1, <1>2, <1>3 DEF Next, Does, World, Append, RoomFreed, RoomLost, vars

\* An entry dropped for age is one no saved section has reached for half the time to live.
THEOREM ExpiryIsUnreached == Spec => OnlyUnreachedExpire
<1>1. Init => Touched
  BY ConstantsAssumption DEF Init, Touched, TouchedBy, Nothing, Working, Holding
<1>2. Inv /\ Touched /\ [Next]_vars =>
        [\A f \in Files : ExpiredNow(f) => 2 * (day - reached[f]) > TTL]_disk
  <2> SUFFICES ASSUME Inv, Touched, [Next]_vars, disk' # disk, NEW f \in Files, ExpiredNow(f)
               PROVE  2 * (day - reached[f]) > TTL
    OBVIOUS
  <2>1. Age(disk[f]) > TTL
    BY AdvanceStep DEF ExpiredNow
  <2>2. Within(disk[f], reached[f])
    BY DEF ExpiredNow, Touched
  <2>3. disk[f] \in Entry /\ day \in Nat /\ reached[f] \in Nat
    BY DEF ExpiredNow, Inv, TypeOK, States, Days
  <2> QED
    BY <2>1, <2>2, <2>3, ConstantsAssumption, SMTT(30) DEF Age, Within, Entry, Days
<1> QED
  BY <1>1, <1>2, TouchedStep, Invariance, PTL DEF Spec, OnlyUnreachedExpire

-----------------------------------------------------------------------------
(* Copies are bounded *)

\* No entry outlives state_ttl: nothing is forgotten for age.
NothingExpires == \A f \in Files : disk[f] # None => Age(disk[f]) <= TTL

\* The state files that did not fit, and those a section saves, differ by a block at most.
GrowsWithin(low) ==
  \A p \in Procs : /\ pc[p] = "mark" => low <= Size(mem[p])
                   /\ pc[p] \in Saving => Size(mem[p]) <= low + Headroom

\* Resets that have not written yet: their mishap is still to be used.
Pending == {p \in Procs : pc[p] \in {"resetting"} \cup Resetting}
Spent == mishaps - Cardinality(Pending)
PendingOK == IsFiniteSet(Pending) /\ Cardinality(Pending) <= mishaps

\* What gives a mishap its use: a reset that is over, one way or another, or a fault.
Uses(p) ==
  \/ pc[p] \in {"resetting"} \cup Resetting /\ pc'[p] \notin {"resetting"} \cup Resetting
  \/ mishaps' = mishaps + 1 /\ ~StartReset(p)

LEMMA SpentStep ==
  ASSUME TypeOK, PendingOK, NEW p \in Procs, Does(p)
  PROVE  /\ PendingOK'
         /\ Spent \in Nat /\ Spent' \in Nat /\ Spent <= Spent'
         /\ Uses(p) => Spent + 1 <= Spent'
<1> DEFINE Kind == {"resetting"} \cup Resetting
<1>1. Cardinality(Pending) \in Nat /\ mishaps \in Nat
  BY FS_CardinalityType DEF PendingOK, TypeOK
<1>2. Pending' = IF pc'[p] \in Kind THEN Pending \cup {p} ELSE Pending \ {p}
  <2>1. \A q \in Procs : q # p => pc'[q] = pc[q]
    BY OthersUnmoved
  <2>2. \A q : q \in Pending' <=> q \in Procs /\ pc'[q] \in Kind
    BY DEF Pending, Resetting
  <2>3. \A q : q \in Pending <=> q \in Procs /\ pc[q] \in Kind
    BY DEF Pending
  <2>4. \A q : q \in Pending' <=> q \in (IF pc'[p] \in Kind THEN Pending \cup {p} ELSE Pending \ {p})
    BY <2>1, <2>2, <2>3
  <2> QED
    BY <2>4
<1>3. /\ IsFiniteSet(Pending')
      /\ Cardinality(Pending') = IF pc'[p] \in Kind
                                 THEN IF p \in Pending THEN Cardinality(Pending) ELSE Cardinality(Pending) + 1
                                 ELSE IF p \in Pending THEN Cardinality(Pending) - 1 ELSE Cardinality(Pending)
  <2>1. CASE pc'[p] \in Kind
    BY <1>2, <2>1, FS_AddElement DEF PendingOK
  <2>2. CASE pc'[p] \notin Kind
    BY <1>2, <2>2, FS_RemoveElement DEF PendingOK
  <2> QED
    BY <2>1, <2>2
<1>4. p \in Pending <=> pc[p] \in Kind
  BY DEF Pending
<1>5. /\ mishaps' = mishaps \/ mishaps' = mishaps + 1
      /\ StartReset(p) => mishaps' = mishaps + 1 /\ pc[p] \notin Kind
      /\ ~StartReset(p) => pc'[p] \notin Kind \/ pc[p] \in Kind
  BY DEF TypeOK, Resetting, Does, StartRun, StartReset, Kill, Gone, Mishap, Step, TurnedAway, Acquire, Load,
    LoadFails, OpeningSave, OpeningSaveFails, ClearMarker, BeginSection, AllSectionsDone, OpenFile,
    SkipFile, ReadFile, ReadFails, Quiet, Accepted, Refused, AnswerLost, NotDelivered, SectionSave,
    SectionSaveFails, MarkUnsaved, MarkFails, ResetLoad, ResetSave, ResetSaveFails, Release
<1>6. Uses(p) => \/ pc[p] \in Kind /\ pc'[p] \notin Kind
                 \/ mishaps' = mishaps + 1 /\ ~StartReset(p)
  BY DEF Uses
<1>7. Spent = mishaps - Cardinality(Pending) /\ Spent' = mishaps' - Cardinality(Pending')
  BY DEF Spent
<1>8. PendingOK' <=> IsFiniteSet(Pending') /\ Cardinality(Pending') <= mishaps'
  BY DEF PendingOK
<1> HIDE DEF Kind
<1> QED
  BY <1>1, <1>3, <1>4, <1>5, <1>6, <1>7, <1>8 DEF PendingOK

\* The room for every state a section will save; a save that fails for want of it is free once.
Fits(low) == low + Headroom <= room
Spare(low) == IF Fits(low) THEN 1 ELSE 0

\* The state st has line i of f behind its place.
Behind(st, f, i) == st[f] # None /\ i <= st[f].off

\* A marker is the size of a state that did not fit, and a run knows the one it found;
\* one is cleared right after a save.
MarkersAbove(low) ==
  /\ marker # None => low <= marker
  /\ \A p \in Procs :
       /\ known[p] # None => low <= known[p]
       /\ pc[p] \in {"load", "opening"} => known[p] = marker
       /\ pc[p] = "clear" => disk = mem[p]

\* Past the opening save of a run.
Underway == Working \ ({"opening"} \cup Resetting)

\* A mailed line that is not behind the saved place is still in someone's hand: about to be
\* saved, or (the disk full) marked, and whoever is past the opening save has it in memory.
InHand(low, f, i) ==
  \/ \E p \in Procs : pc[p] = "saveSent" /\ Behind(mem[p], f, i)
  \/ /\ ~Fits(low)
     /\ \/ \E p \in Procs : pc[p] = "mark" /\ Behind(mem[p], f, i)
        \/ /\ marker # None
           /\ \A p \in Procs : pc[p] \in Underway => Behind(mem[p], f, i)

\* A line has gone out once for every mishap that was used, and once more if it is behind the
\* saved place or in hand; and once more if the disk is past being too small for the state.
Accounted(low, f, i) ==
  \/ copies[f][i] <= Spent + Spare(low)
  \/ /\ copies[f][i] <= Spent + Spare(low) + 1
     /\ Behind(disk, f, i) \/ InHand(low, f, i)

AllAccounted(low) ==
  /\ PendingOK
  /\ MarkersAbove(low)
  /\ \A f \in Files, i \in Lines : Accounted(low, f, i)

LEMMA MarkersStep ==
  ASSUME Inv, NEW low \in Nat, MarkersAbove(low), GrowsWithin(low), NEW p \in Procs, Does(p)
  PROVE  MarkersAbove(low)'
<1> USE DEF Inv, locals, ghosts
<1>1. ASSUME NEW q \in Procs, q # p, UNCHANGED marker \/ pc[q] \notin Holding
      PROVE  /\ known'[q] # None => low <= known'[q]
             /\ pc'[q] \in {"load", "opening"} => known'[q] = marker'
             /\ pc'[q] = "clear" => disk' = mem'[q]
  <2>1. pc'[q] = pc[q] /\ known'[q] = known[q] /\ mem'[q] = mem[q]
    BY <1>1, OthersUnmoved
  <2>2. pc[q] \in Holding => UNCHANGED disk
    BY <1>1, WritersHold, Alone DEF Safe
  <2> QED
    BY <1>1, <2>1, <2>2 DEF MarkersAbove, Holding
<1>2. pc[p] \in Holding => \A q \in Procs : q # p => pc[q] \notin Holding
  BY Alone DEF Safe
<1>3. pc[p] = "mark" => Unsaved(p) \in Nat /\ low <= Unsaved(p)
  <2>1. Size(mem[p]) \in Nat /\ known[p] \in Nat \cup {None}
    BY SizeAssumption DEF TypeOK
  <2> QED
    BY <2>1 DEF GrowsWithin, Unsaved, Bigger
<1> SUFFICES /\ UNCHANGED marker \/ (pc[p] \in Holding /\ (marker' # None => low <= marker'))
             /\ known'[p] # None => low <= known'[p]
             /\ pc'[p] \in {"load", "opening"} => known'[p] = marker'
             /\ pc'[p] = "clear" => disk' = mem'[p]
  BY <1>1, <1>2 DEF MarkersAbove
<1> USE DEF MarkersAbove, TypeOK
<1>4. CASE StartRun(p) \/ StartReset(p) \/ TurnedAway(p) \/ Acquire(p) \/ Load(p) \/ LoadFails(p)
  BY <1>4 DEF StartRun, StartReset, TurnedAway, Acquire, Load, LoadFails, Holding
<1>5. CASE OpeningSave(p) \/ OpeningSaveFails(p) \/ ClearMarker(p) \/ SectionSave(p) \/ SectionSaveFails(p)
  BY <1>5 DEF OpeningSave, OpeningSaveFails, ClearMarker, SectionSave, SectionSaveFails, Write, Holding
<1>6. CASE MarkUnsaved(p) \/ MarkFails(p)
  BY <1>3, <1>6 DEF MarkUnsaved, MarkFails, Holding
<1>7. CASE ResetLoad(p) \/ ResetSave(p) \/ ResetSaveFails(p)
  BY <1>7 DEF ResetLoad, ResetSave, ResetSaveFails, Write, Resetting
<1>8. CASE \/ BeginSection(p) \/ AllSectionsDone(p) \/ ReadFile(p) \/ ReadFails(p)
           \/ \E f \in Files : OpenFile(p, f) \/ SkipFile(p, f)
  BY <1>8 DEF BeginSection, AllSectionsDone, ReadFile, ReadFails, OpenFile, SkipFile
<1>9. CASE Quiet(p) \/ Accepted(p) \/ Refused(p) \/ AnswerLost(p)
  BY <1>9 DEF Quiet, Accepted, Refused, AnswerLost, NotDelivered, ReadAll
<1>10. CASE Release(p) \/ Kill(p)
  BY <1>10 DEF Release, Kill, Gone
<1> QED
  BY <1>4, <1>5, <1>6, <1>7, <1>8, <1>9, <1>10 DEF Does, Step

-----------------------------------------------------------------------------
(* What becomes of one line *)

LEMMA Counts ==
  ASSUME TypeOK, PendingOK, NEW f \in Files, NEW i \in Lines, NEW low \in Nat
  PROVE  /\ copies[f][i] \in Nat /\ Spent \in Nat
         /\ Spare(low) \in {0, 1} /\ (Fits(low) <=> Spare(low) = 1)
<1>1. Cardinality(Pending) \in Nat /\ mishaps \in Nat
  BY FS_CardinalityType DEF PendingOK, TypeOK
<1>2. Spent \in Nat
  BY <1>1 DEF Spent, PendingOK
<1> QED
  BY <1>2 DEF Spare, TypeOK

\* A use of a mishap pays for whatever else the step spoils.
LEMMA Paid ==
  ASSUME TypeOK, PendingOK, TypeOK', NEW f \in Files, NEW i \in Lines, NEW low \in Nat,
         Accounted(low, f, i), Spent' \in Nat, Spent + 1 <= Spent',
         UNCHANGED room,
         copies'[f][i] <= copies[f][i]
           \/ (copies'[f][i] <= copies[f][i] + 1 /\ copies[f][i] <= Spent + Spare(low))
  PROVE  Accounted(low, f, i)'
<1>1. Spare(low)' = Spare(low)
  BY DEF Spare, Fits
<1>2. copies'[f][i] \in Nat
  BY DEF TypeOK
<1> QED
  BY <1>1, <1>2, Counts DEF Accounted

\* What is behind the saved place or in hand stays so, or the room is there now.
LEMMA StillAccounted ==
  ASSUME TypeOK, PendingOK, TypeOK', NEW f \in Files, NEW i \in Lines, NEW low \in Nat,
         Accounted(low, f, i), Spent' \in Nat, Spent <= Spent', room <= room',
         copies'[f][i] = copies[f][i],
         Behind(disk, f, i) \/ InHand(low, f, i) =>
           \/ Behind(disk, f, i)' \/ InHand(low, f, i)'
           \/ ~Fits(low) /\ Fits(low)'
  PROVE  Accounted(low, f, i)'
<1>1. room \in Nat /\ room' \in Nat /\ low + Headroom \in Nat
  BY ConstantsAssumption DEF TypeOK
<1>2. Spare(low)' \in {0, 1} /\ (Fits(low)' <=> Spare(low)' = 1) /\ (Fits(low) => Fits(low)')
  BY <1>1 DEF Spare, Fits
<1> QED
  BY <1>2, Counts DEF Accounted

\* The whole of InHand is with the one process past the lock.
OwnHand(p, low, f, i) ==
  \/ pc[p] = "saveSent" /\ Behind(mem[p], f, i)
  \/ /\ ~Fits(low)
     /\ \/ pc[p] = "mark" /\ Behind(mem[p], f, i)
        \/ marker # None /\ (pc[p] \in Underway => Behind(mem[p], f, i))

LEMMA HandIsOwn ==
  ASSUME Inv, NEW p \in Procs, pc[p] \in Holding \/ holder = None,
         NEW f \in Files, NEW i \in Lines, NEW low \in Nat
  PROVE  InHand(low, f, i) => OwnHand(p, low, f, i)
<1>1. \A q \in Procs : q # p => pc[q] \notin Holding
  BY Alone DEF Inv, Safe
<1> QED
  BY <1>1 DEF InHand, OwnHand, Holding

LEMMA OwnIsHand ==
  ASSUME Inv, NEW p \in Procs, pc[p] \in Holding \/ holder = None, Does(p),
         NEW f \in Files, NEW i \in Lines, NEW low \in Nat, OwnHand(p, low, f, i)'
  PROVE  InHand(low, f, i)'
<1>1. \A q \in Procs : q # p => pc'[q] \notin Underway
  BY Alone, OthersUnmoved DEF Inv, Safe, Underway, Working
<1> QED
  BY <1>1 DEF InHand, OwnHand

\* A run reads on from its place: no line behind it is in a mail again.
LEMMA Unbrought ==
  ASSUME Inv, NEW p \in Procs, pc[p] = "files", NEW f \in Files, NEW i \in Lines,
         Behind(mem[p], f, i)
  PROVE  ~(f \in Contributing(p) /\ i \in Brought(p, f))
<1> SUFFICES ASSUME f \in Contributing(p), i \in Brought(p, f) PROVE FALSE
  OBVIOUS
<1>1. f \in FilesOf[sec[p]] /\ start[p][f] # None
  BY DEF Contributing, WereRead, Inv, Safe, ReadsStarted
<1>2. mem[p][f].off = start[p][f]
  BY <1>1 DEF Inv, Safe, MemoryOK, SectionOK, Behind
<1>3. start[p][f] < i /\ i <= start[p][f]
  BY <1>2 DEF Brought, Behind
<1>4. start[p][f] \in Nat /\ i \in Nat
  BY <1>1 DEF Inv, TypeOK, Offsets, Lines
<1> QED
  BY <1>3, <1>4

\* What was behind a place is behind the next, under either ending; a mail's lines are too.
LEMMA EndingKeeps ==
  ASSUME Inv, NEW p \in Procs, pc[p] = "files", NEW f \in Files, NEW i \in Lines,
         Behind(mem[p], f, i)
  PROVE  Behind(Advanced(p), f, i) /\ Behind(Kept(p), f, i)
<1>1. Advanced(p)[f] # None /\ Kept(p)[f] # None
  <2>1. mem[p][f] # None
    BY DEF Behind
  <2>2. CASE f \in WereRead(p)
    BY <2>1, <2>2, KeptSettles, EndEntry DEF Advanced, Inv
  <2>3. CASE f \notin WereRead(p)
    BY <2>1, <2>3, KeptSettles DEF Advanced
  <2> QED
    BY <2>2, <2>3
<1>2. mem[p][f] \in Entry /\ i \in Nat
  BY DEF Behind, Inv, TypeOK, States, Lines
<1>3. f \in WereRead(p) => AtEnd(p, f).off = end[p][f] /\ mem[p][f].off <= end[p][f] /\ end[p][f] \in Nat
  <2> SUFFICES ASSUME f \in WereRead(p) PROVE mem[p][f].off <= end[p][f] /\ end[p][f] \in Nat
    BY DEF AtEnd
  <2>1. start[p][f] # None /\ start[p][f] <= end[p][f] /\ end[p][f] \in Offsets
    BY DEF WereRead, Inv, Safe, ReadsStarted, MemoryOK, ReadsOK, TypeOK
  <2>2. mem[p][f].off = start[p][f]
    BY <2>1 DEF WereRead, Inv, Safe, MemoryOK, SectionOK, Behind
  <2> QED
    BY <2>1, <2>2 DEF Offsets
<1>4. Advanced(p)[f] = mem[p][f] \/ (f \in WereRead(p) /\ Advanced(p)[f] = AtEnd(p, f))
  BY DEF Advanced
<1>5. \/ Kept(p)[f] = mem[p][f] \/ (f \in WereRead(p) /\ Kept(p)[f] = AtEnd(p, f))
      \/ Kept(p)[f] = [mem[p][f] EXCEPT !.day = day]
  BY DEF Kept, Behind
<1>6. [mem[p][f] EXCEPT !.day = day].off = mem[p][f].off
  BY <1>2 DEF Entry
<1>7. \A e : (e = mem[p][f] \/ (f \in WereRead(p) /\ e = AtEnd(p, f)) \/ e = [mem[p][f] EXCEPT !.day = day])
             => i <= e.off
  BY <1>2, <1>3, <1>6 DEF Behind, Entry, Offsets
<1> QED
  BY <1>1, <1>4, <1>5, <1>7 DEF Behind

\* With nothing forgotten for age, a run's memory is never behind the saved place.
LEMMA MemoryAhead ==
  ASSUME Inv, NothingExpires, NEW p \in Procs, pc[p] \in Working \ Resetting,
         NEW f \in Files, NEW i \in Lines, Behind(disk, f, i)
  PROVE  Behind(mem[p], f, i)
<1>1. disk[f] \in Entry /\ mem[p][f] \in Entry \cup {None} /\ Age(disk[f]) <= TTL /\ i \in Nat
  BY DEF Behind, NothingExpires, Inv, TypeOK, States, Lines
<1>2. Age(disk[f]) \in Int
  BY <1>1 DEF Age, Entry, Days, Inv, TypeOK
<1>3. mem[p][f] # None /\ disk[f].off <= mem[p][f].off
  BY <1>1, <1>2, ConstantsAssumption DEF Behind, Inv, Safe, MemoryOK, MemAhead
<1> QED
  BY <1>1, <1>3 DEF Behind, Entry, Offsets

LEMMA Mailed ==
  ASSUME TypeOK, NEW p \in Procs, MailOut(p), NEW f \in Files, NEW i \in Lines
  PROVE  \/ copies'[f][i] = copies[f][i]
         \/ f \in Contributing(p) /\ i \in Brought(p, f) /\ copies'[f][i] = copies[f][i] + 1
BY DEF MailOut

\* What a step leaves alone, unless it is one of these.
LEMMA Untouched ==
  ASSUME NEW p \in Procs, Does(p)
  PROVE  /\ UNCHANGED room
         /\ Accepted(p) \/ AnswerLost(p) \/ UNCHANGED copies
         /\ OpeningSave(p) \/ SectionSave(p) \/ ResetSave(p) \/ UNCHANGED disk
BY DEF env, ghosts, Does, StartRun, StartReset, Kill, Step, TurnedAway, Acquire, Load,
  LoadFails, OpeningSave, OpeningSaveFails, ClearMarker, BeginSection, AllSectionsDone, OpenFile,
  SkipFile, ReadFile, ReadFails, Quiet, Accepted, Refused, AnswerLost, NotDelivered, SectionSave,
  SectionSaveFails, MarkUnsaved, MarkFails, ResetLoad, ResetSave, ResetSaveFails, Release

\* A step that uses no mishap drops nothing from behind the saved place ...
LEMMA DiskKeeps ==
  ASSUME Inv, NothingExpires, NEW p \in Procs, Does(p), ~Uses(p),
         NEW f \in Files, NEW i \in Lines, Behind(disk, f, i)
  PROVE  Behind(disk, f, i)'
<1>1. CASE OpeningSave(p) \/ SectionSave(p)
  <2>1. pc[p] \in Working \ Resetting /\ disk' = mem[p]
    BY <1>1 DEF OpeningSave, SectionSave, Write, Working, Holding, Resetting, Saving
  <2> QED
    BY <2>1, MemoryAhead DEF Behind
<1>2. CASE ResetSave(p)
  BY <1>2 DEF ResetSave, Uses, Resetting, Inv, TypeOK
<1>3. CASE UNCHANGED disk
  BY <1>3 DEF Behind
<1> QED
  BY <1>1, <1>2, <1>3, Untouched

\* ... and lets nothing out of hand, but onto the disk.
LEMMA HandKeeps ==
  ASSUME Inv, NEW low \in Nat, AllAccounted(low), GrowsWithin(low), NEW p \in Procs, Does(p), ~Uses(p),
         NEW f \in Files, NEW i \in Lines, InHand(low, f, i)
  PROVE  InHand(low, f, i)' \/ Behind(disk, f, i)'
<1> USE DEF Inv, locals, ghosts, env
<1>0. Fits(low)' <=> Fits(low)
  BY Untouched DEF Fits
<1>1. CASE StartRun(p) \/ StartReset(p) \/ TurnedAway(p)
  <2>1. /\ pc[p] \notin Holding /\ pc'[p] \notin Holding /\ UNCHANGED <<mem, marker>>
        /\ \A q \in Procs : q # p => pc'[q] = pc[q]
    BY <1>1 DEF StartRun, StartReset, TurnedAway, Holding, TypeOK
  <2> QED
    BY <1>0, <2>1 DEF InHand, Behind, Holding, Underway, Working
<1> SUFFICES ASSUME pc[p] \in Holding \/ holder = None, OwnHand(p, low, f, i),
                    ~(StartRun(p) \/ StartReset(p) \/ TurnedAway(p))
             PROVE  OwnHand(p, low, f, i)' \/ Behind(disk, f, i)'
  <2>1. CASE StartRun(p) \/ StartReset(p) \/ TurnedAway(p)
    BY <1>1, <2>1
  <2>2. CASE ~(StartRun(p) \/ StartReset(p) \/ TurnedAway(p))
    <3>1. pc[p] \in Holding \/ holder = None
      BY <2>2 DEF Does, Kill, Step, Acquire, Load, LoadFails, OpeningSave, OpeningSaveFails,
        ClearMarker, BeginSection, AllSectionsDone, OpenFile, SkipFile, ReadFile, ReadFails, Quiet,
        Accepted, Refused, AnswerLost, NotDelivered, ReadAll, SectionSave, SectionSaveFails,
        MarkUnsaved, MarkFails, ResetLoad, ResetSave, ResetSaveFails, Release, Holding, Saving, Resetting
    <3> QED
      BY <2>2, <3>1, HandIsOwn, OwnIsHand
  <2> QED
    BY <2>1, <2>2
<1> USE DEF OwnHand, Underway, Working, Holding, Resetting
<1>2. CASE Acquire(p) \/ ResetLoad(p)
  BY <1>0, <1>2 DEF Acquire, ResetLoad, TypeOK
<1>3. CASE Load(p) \/ LoadFails(p) \/ OpeningSaveFails(p) \/ AllSectionsDone(p) \/ Release(p)
  BY <1>0, <1>3 DEF Load, LoadFails, OpeningSaveFails, AllSectionsDone, Release, Gone, TypeOK
<1>4. CASE OpeningSave(p)
  <2>1. pc[p] = "opening" /\ Proof(p) <= room
    BY <1>4 DEF OpeningSave
  <2>2. marker # None /\ known[p] = marker /\ low <= marker /\ marker \in Nat
    BY <2>1 DEF AllAccounted, MarkersAbove, TypeOK
  <2>3. Proof(p) >= known[p] + Headroom
    <3>1. Size(mem[p]) \in Nat
      BY SizeAssumption DEF TypeOK
    <3> QED
      BY <2>2, <3>1, ConstantsAssumption DEF Proof, Bigger
  <2>4. room \in Nat /\ Headroom \in Nat /\ Proof(p) \in Nat
    <3>1. Size(mem[p]) \in Nat
      BY SizeAssumption DEF TypeOK
    <3> QED
      BY <2>2, <3>1, ConstantsAssumption DEF Proof, Bigger, TypeOK
  <2>5. Fits(low)
    BY <2>1, <2>2, <2>3, <2>4 DEF Fits
  <2> QED
    BY <2>1, <2>5
<1>5. CASE ClearMarker(p)
  <2>1. pc[p] = "clear" /\ disk = mem[p] /\ UNCHANGED disk
    BY <1>5 DEF ClearMarker, AllAccounted, MarkersAbove
  <2> QED
    BY <2>1 DEF Behind
<1>6. CASE BeginSection(p) \/ ReadFile(p) \/ \E g \in Files : OpenFile(p, g) \/ SkipFile(p, g)
  BY <1>0, <1>6 DEF BeginSection, ReadFile, OpenFile, SkipFile, TypeOK, Behind
<1>7. CASE ReadFails(p)
  <2>1. mem[p][f] # None => mem'[p][f] = mem[p][f]
    BY <1>7 DEF ReadFails, TypeOK, States
  <2> QED
    BY <1>0, <1>7, <2>1 DEF ReadFails, TypeOK, Behind
<1>8. CASE Quiet(p) \/ Accepted(p) \/ Refused(p)
  <2>1. /\ pc[p] = "files" /\ UNCHANGED marker
        /\ mem'[p] = Advanced(p) \/ mem'[p] = Kept(p)
    BY <1>8 DEF Quiet, Accepted, Refused, NotDelivered, ReadAll, TypeOK
  <2>2. ~Fits(low) /\ marker # None /\ Behind(mem[p], f, i)
    BY <2>1
  <2>3. Behind(mem'[p], f, i)
    BY <2>1, <2>2, EndingKeeps
  <2> QED
    BY <1>0, <2>1, <2>2, <2>3 DEF Behind
<1>9. CASE SectionSave(p)
  <2>1. Behind(mem[p], f, i) /\ disk' = mem[p]
    BY <1>9 DEF SectionSave, Write, Saving
  <2> QED
    BY <2>1 DEF Behind
<1>10. CASE SectionSaveFails(p)
  <2>1. pc[p] \in Saving /\ room < Size(mem[p]) /\ Size(mem[p]) <= low + Headroom
    BY <1>10 DEF SectionSaveFails, GrowsWithin, TypeOK
  <2>2. room \in Nat /\ Size(mem[p]) \in Nat /\ low + Headroom \in Nat
    BY SizeAssumption, ConstantsAssumption DEF TypeOK
  <2>3. ~Fits(low)
    BY <2>1, <2>2 DEF Fits
  <2>4. UNCHANGED <<mem, marker>> /\ (pc[p] = "saveSent" => pc'[p] = "mark")
    BY <1>10 DEF SectionSaveFails, TypeOK
  <2> QED
    BY <1>0, <2>1, <2>3, <2>4 DEF Behind, Saving
<1>11. CASE MarkUnsaved(p)
  <2>1. Unsaved(p) # None
    BY SizeAssumption, ConstantsAssumption DEF Unsaved, Bigger, TypeOK
  <2>2. pc[p] = "mark" /\ marker' = Unsaved(p) /\ UNCHANGED mem
    BY <1>11 DEF MarkUnsaved
  <2> QED
    BY <1>0, <2>1, <2>2 DEF Behind
<1>12. CASE Kill(p) \/ AnswerLost(p) \/ MarkFails(p) \/ ResetSave(p) \/ ResetSaveFails(p)
  BY <1>12 DEF Uses, Kill, AnswerLost, MarkFails, Mishap, ResetSave, ResetSaveFails, TypeOK
<1> QED
  BY <1>2, <1>3, <1>4, <1>5, <1>6, <1>7, <1>8, <1>9, <1>10, <1>11, <1>12 DEF Does, Step

LEMMA AccountedStep ==
  ASSUME Inv, TypeOK', NEW low \in Nat, AllAccounted(low), GrowsWithin(low), NothingExpires,
         NEW p \in Procs, Does(p), NEW f \in Files, NEW i \in Lines
  PROVE  Accounted(low, f, i)'
<1> USE DEF Inv
<1>1. /\ Accounted(low, f, i) /\ PendingOK /\ Spent \in Nat /\ Spent' \in Nat /\ Spent <= Spent'
      /\ Uses(p) => Spent + 1 <= Spent'
  BY SpentStep DEF AllAccounted
<1>2. UNCHANGED room /\ room <= room' /\ copies[f][i] \in Nat
  BY Untouched DEF TypeOK
<1>3. \* In a mail again only what is neither behind the saved place nor in hand.
      ASSUME pc[p] = "files", f \in Contributing(p), i \in Brought(p, f)
      PROVE  copies[f][i] <= Spent + Spare(low)
  <2>1. ~Behind(mem[p], f, i)
    BY <1>3, Unbrought
  <2>2. ~Behind(disk, f, i)
    BY <1>3, <2>1, MemoryAhead DEF Working, Holding, Resetting
  <2>3. ~InHand(low, f, i)
    BY <1>3, <2>1, HandIsOwn DEF OwnHand, Underway, Working, Holding, Resetting
  <2> QED
    BY <1>1, <2>2, <2>3 DEF Accounted
<1>4. CASE Uses(p) /\ UNCHANGED copies
  BY <1>1, <1>2, <1>4, Paid
<1>5. CASE AnswerLost(p)
  <2>1. pc[p] = "files" /\ MailOut(p) /\ Uses(p)
    BY <1>5 DEF AnswerLost, NotDelivered, ReadAll, Mishap, Uses, StartReset
  <2>2. \/ copies'[f][i] <= copies[f][i]
        \/ copies'[f][i] <= copies[f][i] + 1 /\ copies[f][i] <= Spent + Spare(low)
    BY <1>2, <1>3, <2>1, Mailed
  <2> QED
    BY <1>1, <1>2, <2>1, <2>2, Paid
<1>6. CASE ~Uses(p) /\ copies'[f][i] = copies[f][i]
  BY <1>1, <1>2, <1>6, DiskKeeps, HandKeeps, StillAccounted
<1>7. CASE Accepted(p) /\ copies'[f][i] # copies[f][i]
  <2>1. /\ pc[p] = "files" /\ MailOut(p) /\ pc'[p] = "saveSent" /\ mem'[p] = Advanced(p)
    BY <1>7 DEF Accepted, ReadAll, TypeOK
  <2>2. /\ f \in Contributing(p) /\ i \in Brought(p, f)
        /\ copies'[f][i] = copies[f][i] + 1 /\ copies[f][i] <= Spent + Spare(low)
    BY <1>3, <1>7, <2>1, Mailed
  <2>3. Behind(Advanced(p), f, i)
    <3>1. f \in WereRead(p) /\ Advanced(p)[f] = AtEnd(p, f)
      BY <2>2 DEF Contributing, Advanced
    <3> QED
      BY <2>2, <3>1, EndEntry DEF Behind, Brought
  <2>4. InHand(low, f, i)'
    BY <2>1, <2>3 DEF InHand, Behind
  <2>5. Spare(low)' = Spare(low) /\ Spare(low) \in {0, 1}
    BY <1>2 DEF Spare, Fits
  <2> QED
    BY <1>1, <1>2, <2>2, <2>4, <2>5 DEF Accounted
<1>8. Accepted(p) => ~Uses(p)
  BY ConstantsAssumption DEF Accepted, Uses, ReadAll, Resetting, TypeOK
<1> QED
  BY <1>4, <1>5, <1>6, <1>7, <1>8, Untouched

\* The world outside: a disk that fills up is a mishap, and takes the spare copy with it.
LEMMA WorldAccounted ==
  ASSUME Inv, TypeOK', NEW low \in Nat, AllAccounted(low), World \/ UNCHANGED vars
  PROVE  AllAccounted(low)'
<1> USE DEF Inv, env, locals, ghosts
<1>1. UNCHANGED <<pc, mem, known, marker, disk, copies>>
  BY DEF World, Append, RoomFreed, RoomLost, NextDay, vars
<1>2. /\ UNCHANGED <<room, mishaps>> \/ (room <= room' /\ UNCHANGED mishaps) \/ (mishaps' = mishaps + 1)
  BY DEF World, Append, RoomFreed, RoomLost, NextDay, Mishap, vars, TypeOK
<1>3. Pending' = Pending
  BY <1>1 DEF Pending
<1>4. /\ PendingOK /\ PendingOK' /\ Spent \in Nat
      /\ mishaps' = mishaps => Spent' = Spent
      /\ mishaps' = mishaps + 1 => Spent' = Spent + 1
  <2>1. Cardinality(Pending) \in Nat /\ mishaps \in Nat /\ PendingOK
    BY FS_CardinalityType DEF AllAccounted, PendingOK, TypeOK
  <2>2. Spent' = mishaps' - Cardinality(Pending)
    BY <1>3 DEF Spent
  <2> QED
    BY <1>2, <1>3, <2>1, <2>2 DEF PendingOK, Spent
<1>5. MarkersAbove(low)'
  BY <1>1 DEF AllAccounted, MarkersAbove
<1>6. ASSUME NEW f \in Files, NEW i \in Lines PROVE Accounted(low, f, i)'
  <2>1. Accounted(low, f, i) /\ copies[f][i] \in Nat /\ copies'[f][i] = copies[f][i]
    BY <1>1 DEF AllAccounted, TypeOK
  <2>2. Behind(disk, f, i)' <=> Behind(disk, f, i)
    BY <1>1 DEF Behind
  <2>3. InHand(low, f, i) => InHand(low, f, i)' \/ (~Fits(low) /\ Fits(low)')
    BY <1>1 DEF InHand, Behind
  <2>4. CASE (UNCHANGED <<room, mishaps>>) \/ (room <= room' /\ UNCHANGED mishaps)
    <3>1. room <= room' /\ Spent' \in Nat /\ Spent <= Spent'
      BY <1>4, <2>4 DEF TypeOK
    <3> QED
      BY <1>4, <2>1, <2>2, <2>3, <3>1, StillAccounted
  <2>5. CASE mishaps' = mishaps + 1
    <3>1. Spent' = Spent + 1
      BY <1>4, <2>5
    <3>2. Spare(low) \in {0, 1} /\ Spare(low)' \in {0, 1} /\ (Fits(low) <=> Spare(low) = 1)
      BY DEF Spare
    <3>3. Fits(low) /\ InHand(low, f, i) => InHand(low, f, i)'
      BY <1>1 DEF InHand, Behind
    <3> QED
      BY <1>4, <2>1, <2>2, <3>1, <3>2, <3>3 DEF Accounted
  <2> QED
    BY <1>2, <2>4, <2>5
<1> QED
  BY <1>4, <1>5, <1>6 DEF AllAccounted

LEMMA AllAccountedStep ==
  ASSUME NEW low \in Nat
  PROVE  /\ Inv /\ Inv' /\ AllAccounted(low) /\ GrowsWithin(low) /\ NothingExpires /\ [Next]_vars
         => AllAccounted(low)'
<1> SUFFICES ASSUME Inv, Inv', AllAccounted(low), GrowsWithin(low), NothingExpires, [Next]_vars
             PROVE  AllAccounted(low)'
  OBVIOUS
<1>1. CASE World \/ UNCHANGED vars
  BY <1>1, WorldAccounted DEF Inv
<1>2. ASSUME NEW p \in Procs, Does(p) PROVE AllAccounted(low)'
  <2>1. PendingOK' /\ MarkersAbove(low)'
    BY <1>2, SpentStep, MarkersStep DEF AllAccounted, Inv
  <2>2. \A f \in Files, i \in Lines : Accounted(low, f, i)'
    BY <1>2, AccountedStep DEF Inv
  <2> QED
    BY <2>1, <2>2 DEF AllAccounted
<1> QED
  BY <1>1, <1>2 DEF Next, Does

LEMMA AllAccountedInit == ASSUME NEW low \in Nat PROVE Init => AllAccounted(low)
<1> SUFFICES ASSUME Init PROVE AllAccounted(low)
  OBVIOUS
<1>1. Pending = {}
  BY DEF Init, Pending, Resetting
<1>2. PendingOK /\ Spent = 0
  BY <1>1, FS_EmptySet DEF PendingOK, Spent, Init
<1>3. MarkersAbove(low)
  BY DEF MarkersAbove, Init
<1>4. ASSUME NEW f \in Files, NEW i \in Lines PROVE Accounted(low, f, i)
  BY <1>2 DEF Accounted, Spare, Init
<1> QED
  BY <1>2, <1>3, <1>4 DEF AllAccounted

LEMMA AccountedBounds ==
  ASSUME NEW low \in Nat
  PROVE  TypeOK /\ AllAccounted(low) => CopiesBounded
<1> SUFFICES ASSUME TypeOK, AllAccounted(low), NEW f \in Files, NEW i \in Lines
             PROVE  copies[f][i] <= 2 + mishaps
  BY DEF CopiesBounded
<1>1. Cardinality(Pending) \in Nat /\ mishaps \in Nat
  BY FS_CardinalityType DEF AllAccounted, PendingOK, TypeOK
<1>2. Accounted(low, f, i) /\ Spent <= mishaps /\ Spent \in Nat
  BY <1>1 DEF AllAccounted, PendingOK, Spent
<1> QED
  BY <1>1, <1>2, Counts DEF Accounted, AllAccounted

\* A hit goes out twice at most, and once more for every mishap from outside, as long as the
\* state grows by STATE_HEADROOM at most between the saves concerned and nothing is forgotten
\* for age: the window a full disk leaves open is one run (issue #70).
THEOREM CopiesAreBounded ==
  ASSUME NEW low \in Nat
  PROVE  Spec /\ []GrowsWithin(low) /\ []NothingExpires => []CopiesBounded
<1>1. Init => AllAccounted(low)
  BY AllAccountedInit
<1>2. Inv /\ Inv' /\ AllAccounted(low) /\ GrowsWithin(low) /\ NothingExpires /\ [Next]_vars => AllAccounted(low)'
  BY AllAccountedStep
<1>3. Inv /\ AllAccounted(low) => CopiesBounded
  BY AccountedBounds DEF Inv
<1> QED
  BY <1>1, <1>2, <1>3, Invariance, PTL DEF Spec

\* Nothing is forgotten for age within state_ttl days.
LEMMA ShortLifeKeeps == TypeOK /\ MaxDay <= TTL => NothingExpires
<1> SUFFICES ASSUME TypeOK, MaxDay <= TTL, NEW f \in Files, disk[f] # None PROVE Age(disk[f]) <= TTL
  BY DEF NothingExpires
<1>1. disk[f].day \in Days /\ day \in Days
  BY DEF TypeOK, States, Entry
<1> QED
  BY <1>1, ConstantsAssumption DEF Age, Days

\* The same over a stretch of at most state_ttl days, in which nothing can expire.
COROLLARY CopiesAreBoundedShort ==
  ASSUME NEW low \in Nat, MaxDay <= TTL
  PROVE  Spec /\ []GrowsWithin(low) => []CopiesBounded
<1>1. TypeOK => NothingExpires
  BY ShortLifeKeeps
<1> QED
  BY <1>1, TypeCorrect, CopiesAreBounded, PTL
=============================================================================
