--------------------------- MODULE NewFilesProofs ---------------------------
(***************************************************************************)
(* What holds of NewFiles for every list of globs and paths, every tree of *)
(* directories and every number of troubles and edits, checked by TLAPS.   *)
(***************************************************************************)
EXTENDS NewFiles, TLAPS

-----------------------------------------------------------------------------
(* The invariants *)

\* The files the run under way has listed, by name or by a glob.
Looked(p) == p \in ToSet(files) \/ globsOf[p] # {}

\* A process has memory during a run only, a file is judged after the last listing, and one
\* that was read to some line was read from one.
InShape ==
  /\ ~Running => /\ state = Nothing /\ unlisted = <<>> /\ todo = <<>> /\ globsOf = NoGlobs
                 /\ seen = {} /\ starts = NoPlace /\ cursors = NoPlace
  /\ whole # None => unlisted = <<>> /\ todo # <<>>
  /\ \A p \in Paths : cursors[p] # None <=> starts[p] # None

\* What a run holds in memory is the saved state and what it has found since.
MemoryOK ==
  /\ Running => began <= now /\ state.moment = disk.moment
  /\ since <= now /\ ToSet(unlisted) \subseteq ToSet(files)
  /\ \A p \in Paths :
       /\ mtime[p] <= now /\ (born[p] # None => born[p] <= mtime[p])
       /\ born[p] = None => length[p] = 0
       /\ Running => state.entry[p] = disk.entry[p] \/ (disk.entry[p] = None /\ Looked(p))
       /\ globsOf[p] \subseteq GlobsFor(p)
       /\ globsOf[p] # {} => born[p] # None
       /\ p \in ToSet(todo) \/ starts[p] # None => Looked(p)

\* What a file held before anything was promised of it is behind where it is read from.
PastOf(p) ==
  /\ past[p] <= length[p]
  /\ mailed[p] \cap 1..past[p] = {}
  /\ disk.entry[p] # None => past[p] <= disk.entry[p]
  /\ disk.entry[p] = None => past[p] = 0 \/ Unpromised(p, disk)
  /\ state.entry[p] # None => past[p] <= state.entry[p]
  /\ starts[p] # None => past[p] <= starts[p]
  /\ cursors[p] # None => past[p] <= cursors[p]
  /\ todo # <<>> /\ File = p /\ whole = TRUE => past[p] = 0

PastOK == \A p \in Paths : p \notin missed => PastOf(p)

\* Between a run's first listing and its last, unlisted is what is left of `files`.
RestOK ==
  Running => /\ Len(unlisted) <= Len(files)
             /\ \A i \in 1..Len(unlisted) : unlisted[i] = files[Len(files) - Len(unlisted) + i]

Expanded(e) == \E i \in 1..(Len(files) - Len(unlisted)) : files[i] = e
InReach(p) == born[p] # None /\ dir[DirOf[p]] = "there"

\* Every glob a file is of finds it, or none does.
AllOrNone(p) ==
  /\ Listing => \A g \in GlobsFor(p) : Expanded(g) => (g \in globsOf[p] <=> InReach(p))
  /\ Running /\ unlisted = <<>> /\ globsOf[p] # {} => GlobsFor(p) \subseteq globsOf[p]

\* A glob of a file that is listed has found it, or the file has come since.
SeenOrLater(p) ==
  \A g \in GlobsFor(p) \cap seen : g \notin globsOf[p] => born[p] = None \/ born[p] >= began

\* Nothing is seen or found by a glob that is still to be expanded.
FromExpanded ==
  Running => /\ \A g \in seen : Expanded(g)
             /\ \A p \in Paths : \A g \in globsOf[p] : Expanded(g)

\* A file that was found is in reach until it is opened; then it has been read, or has a
\* place, or the moments of its globs wait for it.
OpenedOrWaiting(p) ==
  globsOf[p] # {} =>
    IF p \in ToSet(todo) THEN InReach(p)
    ELSE /\ unlisted = <<>>
         /\ \/ cursors[p] # None \/ state.entry[p] # None
            \/ \A g \in seen \cap globsOf[p] : state.moment[g] = None

\* A new file is read from its beginning.
FromItsBeginning(p) ==
  Running /\ New(p) =>
    /\ state.entry[p] \in {None, 0} /\ starts[p] \in {None, 0}
    /\ todo # <<>> /\ File = p /\ whole = FALSE => state.entry[p] # None

NewOK ==
  /\ RestOK /\ FromExpanded
  /\ \A p \in Paths : AllOrNone(p) /\ SeenOrLater(p) /\ OpenedOrWaiting(p) /\ FromItsBeginning(p)

-----------------------------------------------------------------------------
(* Sequences and numbers *)

LEMMA InOrder ==
  ASSUME NEW paths \in SUBSET Paths, NEW s \in ByName(paths)
  PROVE  s \in Seq(Paths) /\ ToSet(s) = paths
<1>1. Len(Sorted) \in Nat
  BY FilesAssumption
<1>2. PICK n \in 0..Len(Sorted) : s \in [1..n -> paths]
  BY DEF ByName, SeqOf
<1>3. s \in Seq(paths)
  BY <1>1, <1>2
<1> QED
  BY <1>3 DEF ByName

LEMMA SetOf == ASSUME NEW S, NEW s \in Seq(S) PROVE ToSet(s) = {s[i] : i \in 1..Len(s)}
  BY DEF ToSet

LEMMA JoinedSet ==
  ASSUME NEW s \in Seq(Paths), NEW t \in Seq(Paths)
  PROVE  s \o t \in Seq(Paths) /\ ToSet(s \o t) = ToSet(s) \cup ToSet(t)
<1>1. /\ s \o t \in Seq(Paths) /\ Len(s \o t) = Len(s) + Len(t)
      /\ Len(s) \in Nat /\ Len(t) \in Nat
      /\ \A i \in 1..Len(s) + Len(t) : (s \o t)[i] = IF i <= Len(s) THEN s[i] ELSE t[i - Len(s)]
  OBVIOUS
<1>2. ASSUME NEW i \in 1..Len(t) PROVE t[i] = (s \o t)[i + Len(s)] /\ i + Len(s) \in 1..Len(s \o t)
  BY <1>1
<1>3. /\ ToSet(s) = {s[i] : i \in 1..Len(s)} /\ ToSet(t) = {t[i] : i \in 1..Len(t)}
      /\ ToSet(s \o t) = {(s \o t)[i] : i \in 1..Len(s \o t)}
  BY <1>1, SetOf
<1>4. ASSUME NEW p \in ToSet(s \o t) PROVE p \in ToSet(s) \cup ToSet(t)
  <2>1. PICK i \in 1..Len(s \o t) : (s \o t)[i] = p
    BY <1>3, <1>4
  <2>2. CASE i <= Len(s)
    BY <1>1, <1>3, <2>1, <2>2
  <2>3. CASE ~(i <= Len(s))
    <3>1. i - Len(s) \in 1..Len(t) /\ t[i - Len(s)] = p
      BY <1>1, <2>1, <2>3
    <3> QED
      BY <1>3, <3>1
  <2> QED
    BY <2>2, <2>3
<1>5. ASSUME NEW i \in 1..Len(s) PROVE i \in 1..Len(s \o t) /\ (s \o t)[i] = s[i]
  BY <1>1
<1>6. ToSet(s) \subseteq ToSet(s \o t) /\ ToSet(t) \subseteq ToSet(s \o t)
  BY <1>2, <1>3, <1>5
<1> QED
  BY <1>1, <1>4, <1>6

LEMMA TakenSet ==
  ASSUME NEW S, NEW s \in Seq(S), s # <<>>
  PROVE  /\ Head(s) \in S /\ Tail(s) \in Seq(S)
         /\ ToSet(s) = {Head(s)} \cup ToSet(Tail(s))
         /\ Len(Tail(s)) = Len(s) - 1
         /\ \A i \in 1..Len(Tail(s)) : Tail(s)[i] = s[i + 1]
<1>1. /\ Head(s) = s[1] /\ Tail(s) \in Seq(S) /\ Len(s) \in Nat \ {0}
      /\ Len(Tail(s)) = Len(s) - 1
      /\ \A i \in 1..Len(Tail(s)) : Tail(s)[i] = s[i + 1]
  OBVIOUS
<1>2. /\ ToSet(s) = {s[i] : i \in 1..Len(s)}
      /\ ToSet(Tail(s)) = {Tail(s)[i] : i \in 1..Len(Tail(s))}
  <2>1. Tail(s) \in Seq(S)
    BY <1>1
  <2> QED
    BY <2>1, SetOf, ZenonT(30)
<1>3. ASSUME NEW i \in 1..Len(s), i # 1 PROVE i - 1 \in 1..Len(Tail(s)) /\ Tail(s)[i - 1] = s[i]
  BY <1>1, <1>3
<1>4. ASSUME NEW i \in 1..Len(Tail(s)) PROVE i + 1 \in 1..Len(s)
  BY <1>1
<1>5. ASSUME NEW e \in ToSet(s) PROVE e \in {Head(s)} \cup ToSet(Tail(s))
  <2>1. PICK i \in 1..Len(s) : s[i] = e
    BY <1>2, <1>5
  <2> QED
    BY <1>1, <1>2, <1>3, <2>1
<1>6. Head(s) \in ToSet(s) /\ ToSet(Tail(s)) \subseteq ToSet(s)
  BY <1>1, <1>2, <1>4
<1> QED
  BY <1>1, <1>5, <1>6

LEMMA Divided ==
  ASSUME NEW t \in Nat, NEW d \in Nat \ {0}
  PROVE  /\ t \div d \in Nat /\ t % d \in 0..(d - 1)
         /\ t = (t \div d) * d + (t % d)
<1>1. t \div d \in Int
  OBVIOUS
<1>2. t % d \in 0..(d - 1)
  OBVIOUS
<1>3. t = d * (t \div d) + (t % d)
  OBVIOUS
<1>4. t \div d >= 0
  OBVIOUS
<1> QED
  BY <1>1, <1>2, <1>3, <1>4

LEMMA MomentIsBefore ==
  ASSUME NEW t \in Nat
  PROVE  Moment(t) \in Nat /\ Moment(t) * Second <= t
<1>1. /\ t \div Second \in Nat /\ t % Second \in 0..(Second - 1)
      /\ t = (t \div Second) * Second + (t % Second)
  BY FilesAssumption, Divided
<1>2. (t \div Second) * Second \in Nat /\ Second \in Nat
  BY <1>1, FilesAssumption
<1> QED
  BY <1>1, <1>2 DEF Moment

LEMMA DividesInOrder ==
  ASSUME NEW t \in Nat, NEW u \in Nat, t <= u, NEW d \in Nat \ {0}
  PROVE  t \div d <= u \div d
<1> DEFINE q == t \div d
           r == u \div d
<1>1. /\ q \in Nat /\ r \in Nat /\ t % d \in 0..(d - 1) /\ u % d \in 0..(d - 1)
      /\ t = q * d + (t % d) /\ u = r * d + (u % d)
  BY Divided
<1>2. SUFFICES ASSUME r + 1 <= q PROVE FALSE
  BY <1>1
<1> HIDE DEF q, r
<1>3. (r + 1) * d <= q * d
  BY <1>1, <1>2
<1>4. (r + 1) * d = r * d + d
  BY <1>1
<1>5. q * d \in Nat /\ r * d \in Nat
  BY <1>1
<1> QED
  BY <1>1, <1>3, <1>4, <1>5

LEMMA MomentIsASecond == \A t \in 0..MaxTicks : Moment(t) \in Seconds
<1>1. MaxTicks \div Second \in Nat
  BY FilesAssumption, Divided
<1>2. ASSUME NEW t \in 0..MaxTicks
      PROVE  t \div Second \in Nat /\ t \div Second <= MaxTicks \div Second
  <2>1. t \in Nat /\ MaxTicks \in Nat /\ t <= MaxTicks /\ Second \in Nat \ {0}
    BY FilesAssumption
  <2> QED
    BY <2>1, Divided, DividesInOrder
<1> QED
  BY <1>1, <1>2 DEF Moment, Seconds

-----------------------------------------------------------------------------
(* Types *)

LEMMA LinesAre ==
  /\ Lines \subseteq Nat
  /\ \A p \in Paths : 0..MaxLines[p] \subseteq Lines /\ 0 \in Lines /\ 1 \in Lines
  /\ \A l \in Lines : 0..l \subseteq Lines
  /\ None \notin Lines /\ None \notin Paths /\ None \notin Nat
  BY FilesAssumption DEF Lines

LEMMA NothingIsAState == Nothing \in States /\ NoPlace \in [Paths -> Lines \cup {None}]
  BY DEF Nothing, States, NoPlace, NoMoment

LEMMA InitTyped == Init => TypeOK
<1> SUFFICES ASSUME Init PROVE TypeOK
  OBVIOUS
<1>1. /\ 0 \in 0..MaxTicks /\ 0 \in 0..MaxTroubles /\ 0 \in 0..MaxEdits
      /\ <<>> \in Seq(Globs \cup Paths) /\ <<>> \in Seq(Paths)
  BY FilesAssumption
<1>2. length \in [Paths -> Lines] /\ past \in [Paths -> Lines] /\ mailed \in [Paths -> SUBSET Lines]
  BY LinesAre DEF Init, NoGlobs
<1>3. /\ born \in [Paths -> 0..MaxTicks \cup {None}] /\ mtime \in [Paths -> 0..MaxTicks]
      /\ dir \in [Dirs -> {"there", "barred", "away"}]
      /\ globsOf \in [Paths -> SUBSET Globs]
  BY <1>1 DEF Init, NoPlace, NoGlobs
<1> QED
  BY <1>1, <1>2, <1>3, NothingIsAState DEF Init, TypeOK

\* Every action but Expand and those that end a run leaves most of a run's memory alone.
LEMMA TroubleCounted == TypeOK /\ Trouble => troubles' \in 0..MaxTroubles
  BY FilesAssumption DEF TypeOK, Trouble

LEMMA WorldTyped ==
  ASSUME TypeOK,
         \/ Tick \/ Edit
         \/ \E p \in Paths : Appear(p) \/ Write(p) \/ Bar(p) \/ Unbar(p)
         \/ \E d \in Dirs : Leave(d, "away") \/ Leave(d, "barred") \/ Return(d)
  PROVE  TypeOK'
<1> USE DEF TypeOK, around, reach, inRun, history
<1>1. CASE Tick
  BY <1>1, FilesAssumption DEF Tick
<1>2. CASE Edit
  <2>1. past' \in [Paths -> Lines] /\ edits' \in 0..MaxEdits
    BY <1>2, LinesAre, FilesAssumption DEF Edit
  <2> QED
    BY <1>2, <2>1 DEF Edit
<1>3. ASSUME NEW p \in Paths, Appear(p) PROVE TypeOK'
  <2>1. born' \in [Paths -> 0..MaxTicks \cup {None}] /\ mtime' \in [Paths -> 0..MaxTicks]
    BY <1>3 DEF Appear
  <2>2. length' \in [Paths -> Lines]
    BY <1>3, LinesAre DEF Appear
  <2> QED
    BY <1>3, <2>1, <2>2 DEF Appear
<1>4. ASSUME NEW p \in Paths, Write(p) PROVE TypeOK'
  <2>1. length[p] + 1 \in Lines
    <3>1. length[p] \in Nat /\ MaxLines[p] \in Nat /\ 0..MaxLines[p] \subseteq Lines
      <4>1. MaxLines \in [Paths -> Nat \ {0}]
        BY FilesAssumption
      <4> QED
        BY <4>1, LinesAre
    <3>2. length[p] < MaxLines[p]
      BY <1>4 DEF Write
    <3>3. length[p] + 1 \in 0..MaxLines[p]
      BY <3>1, <3>2
    <3> QED
      BY <3>1, <3>3
  <2>2. length' \in [Paths -> Lines]
    BY <1>4, <2>1 DEF Write
  <2>3. mtime' \in [Paths -> 0..MaxTicks]
    BY <1>4 DEF Write
  <2> QED
    BY <1>4, <2>2, <2>3 DEF Write
<1>5. ASSUME NEW p \in Paths, Bar(p) \/ Unbar(p) PROVE TypeOK'
  <2>1. troubles' \in 0..MaxTroubles
    BY <1>5, TroubleCounted DEF Bar, Unbar
  <2>2. barred' \subseteq Paths
    BY <1>5 DEF Bar, Unbar
  <2>3. UNCHANGED <<now, around, dir, disk, inRun, history>>
    BY <1>5 DEF Bar, Unbar
  <2> QED
    BY <2>1, <2>2, <2>3
<1>6. ASSUME NEW d \in Dirs, Leave(d, "away") \/ Leave(d, "barred") \/ Return(d) PROVE TypeOK'
  <2>1. dir' \in [Dirs -> {"there", "barred", "away"}]
    <3>1. \E how \in {"there", "barred", "away"} : dir' = [dir EXCEPT ![d] = how]
      BY <1>6 DEF Leave, Return
    <3> QED
      BY <3>1
  <2>2. troubles' \in 0..MaxTroubles
    BY <1>6, TroubleCounted DEF Leave, Return
  <2>3. UNCHANGED <<now, around, barred, disk, inRun, history>>
    BY <1>6 DEF Leave, Return
  <2> QED
    BY <2>1, <2>2, <2>3
<1> QED
  BY <1>1, <1>2, <1>3, <1>4, <1>5, <1>6

LEMMA EndsTyped ==
  ASSUME TypeOK, Ends
  PROVE  /\ began' \in 0..MaxTicks \cup {None} /\ state' \in States
         /\ unlisted' \in Seq(Globs \cup Paths) /\ todo' \in Seq(Paths)
         /\ globsOf' \in [Paths -> SUBSET Globs] /\ seen' \subseteq Globs
         /\ whole' \in BOOLEAN \cup {None}
         /\ starts' \in [Paths -> Lines \cup {None}] /\ cursors' \in [Paths -> Lines \cup {None}]
<1>1. <<>> \in Seq(Globs \cup Paths) /\ <<>> \in Seq(Paths)
  OBVIOUS
<1>2. NoGlobs \in [Paths -> SUBSET Globs]
  BY DEF NoGlobs
<1> QED
  BY <1>1, <1>2, NothingIsAState DEF Ends

LEMMA EntryReplaced ==
  ASSUME NEW s \in States, NEW e
  PROVE  [s EXCEPT !.entry = e] = [entry |-> e, moment |-> s.moment]
  BY DEF States

LEMMA AdvancedTyped ==
  ASSUME TypeOK, Running
  PROVE  Advanced \in States /\ Kept \in States
<1>1. began \in 0..MaxTicks
  BY DEF TypeOK, Running
<1>2. Moment(began) \in Seconds
  BY <1>1, MomentIsASecond
<1> DEFINE to == [p \in Paths |-> IF p \in WereRead THEN cursors[p] ELSE state.entry[p]]
           moments == [g \in Globs |-> IF g \notin ToSet(files) THEN None
                                       ELSE IF g \in seen THEN Moment(began) ELSE state.moment[g]]
<1>3. to \in [Paths -> Lines \cup {None}]
  BY DEF TypeOK, States
<1>4. moments \in [Globs -> Seconds \cup {None}]
  BY <1>2 DEF TypeOK, States
<1>5. Advanced = [entry |-> to, moment |-> moments]
  <2>1. [state EXCEPT !.entry = to] = [entry |-> to, moment |-> state.moment]
    BY EntryReplaced DEF TypeOK
  <2>2. Advanced = Recorded([entry |-> to, moment |-> state.moment])
    BY <2>1 DEF Advanced
  <2> QED
    BY <2>2 DEF Recorded
<1> DEFINE kept == [p \in Paths |->
     IF p \in WereRead \ Contributing THEN cursors[p]
     ELSE IF p \in Contributing /\ state.entry[p] = None THEN starts[p] ELSE state.entry[p]]
<1>6. kept \in [Paths -> Lines \cup {None}]
  BY DEF TypeOK, States
<1>7. Kept = [entry |-> kept, moment |-> state.moment]
  <2>1. [state EXCEPT !.entry = kept] = [entry |-> kept, moment |-> state.moment]
    BY EntryReplaced DEF TypeOK
  <2>2. Kept = [state EXCEPT !.entry = kept]
    BY DEF Kept
  <2> QED
    BY <2>1, <2>2
<1>8. state.moment \in [Globs -> Seconds \cup {None}]
  BY DEF TypeOK, States
<1> HIDE DEF to, moments, kept
<1> QED
  BY <1>3, <1>4, <1>5, <1>6, <1>7, <1>8 DEF States


LEMMA MailsTyped == TypeOK /\ InShape /\ Mails => mailed' \in [Paths -> SUBSET Lines]
<1> SUFFICES ASSUME TypeOK, InShape, Mails, NEW p \in Paths, p \in Contributing
             PROVE  (starts[p] + 1)..cursors[p] \subseteq Lines
  BY DEF Mails
<1>1. cursors[p] \in Lines /\ starts[p] \in Lines \cup {None} /\ starts[p] < cursors[p]
  BY LinesAre DEF Contributing, WereRead, TypeOK, InShape
<1>2. 0..cursors[p] \subseteq Lines /\ cursors[p] \in Nat /\ starts[p] \in Nat
  BY <1>1, LinesAre DEF Contributing, WereRead, InShape
<1> QED
  BY <1>2

LEMMA RunTyped ==
  ASSUME TypeOK, InShape,
         \/ \E at \in since..now : StartRun(at)
         \/ Expand \/ Judge \/ OpenFails \/ Absent \/ Read \/ ReadFails
  PROVE  TypeOK' /\ InShape'
<1> USE DEF TypeOK, InShape, around, reach, inRun, history, NextFile, Running
<1>1. ASSUME NEW at \in since..now, StartRun(at) PROVE TypeOK' /\ InShape'
  <2>1. past' \in [Paths -> Lines]
    BY <1>1 DEF StartRun
  <2>2. mailed' \in [Paths -> SUBSET Lines]
    BY <1>1 DEF StartRun, NoGlobs
  <2>3. unlisted' \in Seq(Globs \cup Paths) /\ missed' \subseteq Paths /\ began' \in 0..MaxTicks
    BY <1>1, FilesAssumption DEF StartRun
  <2>4. InShape'
    <3>1. whole' = None /\ began' # None /\ UNCHANGED <<starts, cursors>>
      BY <1>1, <2>3, FilesAssumption DEF StartRun, InShape
    <3> QED
      BY <3>1 DEF InShape
  <2> QED
    BY <1>1, <2>1, <2>2, <2>3, <2>4 DEF StartRun
<1>2. CASE Expand
  <2> DEFINE entry == Head(unlisted)
             found == IF IsGlob(entry) THEN Found(entry) ELSE {entry}
  <2>1. entry \in Globs \cup Paths /\ Tail(unlisted) \in Seq(Globs \cup Paths)
    BY <1>2, TakenSet DEF Expand
  <2>2. found \ ToSet(todo) \in SUBSET Paths
    BY <2>1, FilesAssumption DEF IsGlob, Found
  <2>3. PICK next \in ByName(found \ ToSet(todo)) : todo' = todo \o next
    BY <1>2 DEF Expand
  <2> HIDE DEF found
  <2>4. todo' \in Seq(Paths)
    BY <2>2, <2>3, InOrder, JoinedSet
  <2>5. globsOf' \in [Paths -> SUBSET Globs] /\ seen' \subseteq Globs
    <3>1. /\ globsOf' = [p \in Paths |-> IF IsGlob(entry) /\ p \in found \ ToSet(files)
                                         THEN globsOf[p] \cup {entry} ELSE globsOf[p]]
          /\ (seen' = seen \cup {entry} /\ IsGlob(entry)) \/ seen' = seen
      BY <1>2 DEF Expand, found
    <3>2. IsGlob(entry) => entry \in Globs
      BY DEF IsGlob
    <3> HIDE DEF entry
    <3> QED
      BY <3>1, <3>2
  <2>6. whole = None
    BY <1>2 DEF Expand
  <2> QED
    BY <1>2, <2>1, <2>4, <2>5, <2>6 DEF Expand
<1>3. CASE Judge
  BY <1>3 DEF Judge
<1>4. todo # <<>> => File \in Paths /\ Tail(todo) \in Seq(Paths)
  BY TakenSet DEF File
<1>5. ASSUME Judged PROVE todo # <<>> /\ whole \in BOOLEAN
  BY <1>5 DEF Judged
<1>6. CASE OpenFails
  BY <1>4, <1>5, <1>6 DEF OpenFails
<1>7. CASE Absent
  BY <1>4, <1>5, <1>7 DEF Absent
<1>8. Opens => length[File] \in Lines /\ StartOf(File) \in Lines
  BY <1>4, <1>5, LinesAre DEF Opens, StartOf, States
<1>9. CASE Read
  <2>1. Opens /\ File \in Paths
    BY <1>4, <1>5, <1>9 DEF Read, Opens
  <2>2. /\ starts' \in [Paths -> Lines \cup {None}] /\ cursors' \in [Paths -> Lines \cup {None}]
        /\ \A p \in Paths : cursors'[p] # None <=> starts'[p] # None
    BY <1>8, <1>9, <2>1, LinesAre DEF Read
  <2> QED
    BY <1>4, <1>5, <1>9, <2>1, <2>2 DEF Read, Opens
<1>10. CASE ReadFails
  <2>1. Opens /\ File \in Paths
    BY <1>4, <1>5, <1>10 DEF ReadFails, Opens
  <2>2. state' \in States
    BY <1>8, <1>10, <2>1 DEF ReadFails, States
  <2>t. troubles' \in 0..MaxTroubles
    BY <1>10, TroubleCounted DEF ReadFails
  <2>3. whole' = None /\ todo' = Tail(todo) /\ began' = began
    BY <1>10 DEF ReadFails
  <2>4. UNCHANGED <<now, around, reach, disk, unlisted, globsOf, seen, starts, cursors, history>>
    BY <1>10 DEF ReadFails
  <2>5. todo' \in Seq(Paths)
    BY <1>4, <1>5, <2>1, <2>3 DEF Opens
  <2>6. InShape'
    BY <1>5, <2>1, <2>3, <2>4 DEF Opens, InShape
  <2> QED
    BY <2>2, <2>3, <2>4, <2>5, <2>6, <2>t
<1> QED
  BY <1>1, <1>2, <1>3, <1>6, <1>7, <1>9, <1>10

LEMMA EndingTyped ==
  ASSUME TypeOK, InShape, Accepted \/ Refused \/ SaveFails \/ Kill \/ ResetOne \/ ResetAll
  PROVE  TypeOK' /\ InShape'
<1> USE DEF around, reach, history, inRun, Trouble
<1>1. Ends => /\ InShape'
              /\ began' \in 0..MaxTicks \cup {None} /\ state' \in States
              /\ unlisted' \in Seq(Globs \cup Paths) /\ todo' \in Seq(Paths)
              /\ globsOf' \in [Paths -> SUBSET Globs] /\ seen' \subseteq Globs
              /\ whole' \in BOOLEAN \cup {None}
              /\ starts' \in [Paths -> Lines \cup {None}] /\ cursors' \in [Paths -> Lines \cup {None}]
  <2>1. Ends => InShape'
    BY DEF Ends, InShape, Running, NoPlace
  <2> QED
    BY <2>1, EndsTyped
<1>2. Mails => mailed' \in [Paths -> SUBSET Lines]
  BY MailsTyped
<1>3. Running => Advanced \in States /\ Kept \in States
  BY AdvancedTyped
<1>4. \A s \in States : Saved(s) => disk' \in States /\ missed' \subseteq Paths
  BY DEF Saved, TypeOK
<1>5. CASE Accepted
  BY <1>1, <1>2, <1>3, <1>4, <1>5 DEF Accepted, AllRead, TypeOK
<1>6. CASE Refused
  <2>1. troubles' \in 0..MaxTroubles
    BY <1>6, FilesAssumption DEF Refused, TypeOK
  <2>2. Ends /\ Saved(Kept) /\ Running /\ UNCHANGED <<now, around, reach, mailed, past>>
    BY <1>6 DEF Refused, AllRead
  <2> QED
    BY <1>1, <1>3, <1>4, <2>1, <2>2 DEF TypeOK
<1>7. CASE SaveFails \/ Kill
  <2>1. troubles' \in 0..MaxTroubles
    <3>1. troubles < MaxTroubles /\ troubles' = troubles + 1
      BY <1>7 DEF SaveFails, Kill
    <3> QED
      BY <3>1, FilesAssumption DEF TypeOK
  <2>2. Ends /\ (Mails \/ mailed' = mailed) /\ UNCHANGED <<now, around, reach, disk, past, missed>>
    BY <1>7 DEF SaveFails, Kill
  <2> QED
    BY <1>1, <1>2, <2>1, <2>2 DEF TypeOK
<1>8. ASSUME NEW those \in SUBSET Paths, Reset(those) PROVE TypeOK' /\ InShape'
  <2>1. disk' \in States
    BY <1>8 DEF Reset, Forgotten, TypeOK, States, NoMoment
  <2>2. past' \in [Paths -> Lines] /\ mailed' \in [Paths -> SUBSET Lines] /\ missed' \subseteq Paths
    BY <1>8 DEF Reset, TypeOK, NoGlobs
  <2>3. edits' \in 0..MaxEdits
    BY <1>8, FilesAssumption DEF Reset, TypeOK
  <2>4. UNCHANGED <<now, born, mtime, length, files, since, reach, troubles, inRun>>
    BY <1>8 DEF Reset
  <2> QED
    BY <2>1, <2>2, <2>3, <2>4 DEF TypeOK, InShape, Running
<1> QED
  BY <1>5, <1>6, <1>7, <1>8 DEF ResetOne, ResetAll

LEMMA TypesKept == TypeOK /\ InShape /\ [Next]_vars => TypeOK' /\ InShape'
<1> SUFFICES ASSUME TypeOK, InShape, [Next]_vars PROVE TypeOK' /\ InShape'
  OBVIOUS
<1>1. CASE \/ Tick \/ Edit
           \/ \E p \in Paths : Appear(p) \/ Write(p) \/ Bar(p) \/ Unbar(p)
           \/ \E d \in Dirs : Leave(d, "away") \/ Leave(d, "barred") \/ Return(d)
  <2>1. UNCHANGED inRun
    BY <1>1 DEF Tick, Edit, Appear, Write, Bar, Unbar, Leave, Return
  <2> QED
    BY <1>1, <2>1, WorldTyped DEF inRun, InShape, Running
<1>2. CASE UNCHANGED vars
  BY <1>2 DEF vars, around, reach, inRun, history, TypeOK, InShape, Running
<1> QED
  BY <1>1, <1>2, RunTyped, EndingTyped DEF Next

\* Every variable stays in its type.
THEOREM TypeCorrect == Spec => []TypeOK
<1>1. Init => InShape
  BY DEF Init, InShape, Running, NoPlace
<1>2. Spec => [](TypeOK /\ InShape)
  BY <1>1, InitTyped, TypesKept, PTL DEF Spec
<1> QED
  BY <1>2, PTL

-----------------------------------------------------------------------------
(* What a run holds in memory *)

World ==
  \/ Tick \/ Edit
  \/ \E p \in Paths : Appear(p) \/ Write(p) \/ Bar(p) \/ Unbar(p)
  \/ \E d \in Dirs : Leave(d, "away") \/ Leave(d, "barred") \/ Return(d)

LEMMA WorldLeaves == World => UNCHANGED <<disk, inRun, mailed, missed>>
  BY DEF World, Tick, Edit, Appear, Write, Bar, Unbar, Leave, Return, around, reach, inRun, history

\* The file at the head of todo.
LEMMA FileTaken ==
  ASSUME TypeOK, InShape, Judged
  PROVE  /\ Running /\ unlisted = <<>> /\ todo # <<>> /\ whole \in BOOLEAN
         /\ File \in Paths /\ ToSet(todo) = {File} \cup ToSet(Tail(todo))
<1>1. whole # None /\ todo # <<>> /\ todo \in Seq(Paths)
  BY DEF TypeOK, InShape, Judged
<1>2. File \in Paths /\ ToSet(todo) = {File} \cup ToSet(Tail(todo))
  BY <1>1, TakenSet DEF File
<1> QED
  BY <1>1, <1>2 DEF TypeOK, InShape

\* What an expansion adds.
LEMMA Expands ==
  ASSUME TypeOK, Expand
  PROVE  /\ Running /\ unlisted # <<>> /\ unlisted' = Tail(unlisted) /\ Head(unlisted) \in Globs \cup Paths
         /\ \A p \in Paths :
              /\ p \in ToSet(todo') <=>
                   \/ p \in ToSet(todo) \/ p = Head(unlisted)
                   \/ Head(unlisted) \in Globs /\ p \in Found(Head(unlisted))
              /\ globsOf'[p] = IF /\ Head(unlisted) \in Globs
                                  /\ p \in Found(Head(unlisted)) \ ToSet(files)
                               THEN globsOf[p] \cup {Head(unlisted)} ELSE globsOf[p]
         /\ UNCHANGED <<now, around, reach, disk, began, state, whole, starts, cursors, history>>
<1> DEFINE entry == Head(unlisted)
           found == IF IsGlob(entry) THEN Found(entry) ELSE {entry}
<1>1. /\ Running /\ unlisted # <<>> /\ unlisted' = Tail(unlisted)
      /\ UNCHANGED <<now, around, reach, disk, began, state, whole, starts, cursors, history>>
  BY DEF Expand
<1>2. entry \in Globs \cup Paths /\ Globs \cap Paths = {}
  BY <1>1, TakenSet, FilesAssumption DEF TypeOK
<1>3. found \ ToSet(todo) \in SUBSET Paths
  BY <1>2, FilesAssumption DEF IsGlob, Found
<1>4. PICK next \in ByName(found \ ToSet(todo)) : todo' = todo \o next
  BY DEF Expand
<1>5. \A p \in Paths : globsOf'[p] = IF entry \in Globs /\ p \in found \ ToSet(files)
                                     THEN globsOf[p] \cup {entry} ELSE globsOf[p]
  BY DEF Expand, IsGlob
<1>6. ToSet(todo') = ToSet(todo) \cup (found \ ToSet(todo))
  <2> HIDE DEF found
  <2>1. next \in Seq(Paths) /\ ToSet(next) = found \ ToSet(todo)
    BY <1>3, <1>4, InOrder
  <2> QED
    BY <1>4, <2>1, JoinedSet DEF TypeOK
<1>7. ASSUME NEW p \in Paths
      PROVE  p \in found <=> p = entry \/ (entry \in Globs /\ p \in Found(entry))
  BY <1>2, FilesAssumption DEF IsGlob, Found
<1>8. ASSUME entry \in Globs PROVE found = Found(entry)
  BY <1>8 DEF IsGlob
<1> HIDE DEF found
<1> QED
  BY <1>1, <1>2, <1>5, <1>6, <1>7, <1>8

LEMMA MemoryAtRest ==
  ASSUME InShape, ~Running
  PROVE  /\ ToSet(unlisted) = {}
         /\ \A p \in Paths : globsOf[p] = {} /\ p \notin ToSet(todo) /\ starts[p] = None
<1>1. ToSet(<<>>) = {}
  BY DEF ToSet
<1> QED
  BY <1>1 DEF InShape, NoGlobs, NoPlace

LEMMA MemoryKept ==
  ASSUME TypeOK, InShape, InShape', MemoryOK, [Next]_vars
  PROVE  MemoryOK'
<1> USE DEF around, reach, inRun, history
<1>0. now \in Nat /\ \A p \in Paths : mtime[p] \in Nat
  BY FilesAssumption DEF TypeOK
<1>1. CASE World
  <2>1. UNCHANGED <<disk, inRun>>
    BY <1>1, WorldLeaves
  <2>2. now' \in Nat /\ now <= now'
    BY <1>0, <1>1 DEF World, Tick, Edit, Appear, Write, Bar, Unbar, Leave, Return
  <2>3. since' <= now'
    <3>1. (since' = since /\ since \in Nat) \/ since' = now'
      BY <1>1, FilesAssumption DEF World, Tick, Edit, Appear, Write, Bar, Unbar, Leave, Return, TypeOK
    <3> QED
      BY <1>0, <2>2, <3>1 DEF MemoryOK
  <2>4. ASSUME NEW p \in Paths
        PROVE  mtime'[p] <= now' /\ (born'[p] # None => born'[p] <= mtime'[p])
    <3>1. \/ mtime'[p] = mtime[p] /\ born'[p] = born[p]
          \/ mtime'[p] = now' /\ (born'[p] = now' \/ born'[p] = born[p])
      BY <1>1 DEF World, Tick, Edit, Appear, Write, Bar, Unbar, Leave, Return, TypeOK
    <3>2. born[p] \in Nat \cup {None}
      BY FilesAssumption DEF TypeOK
    <3> QED
      BY <1>0, <2>2, <3>1, <3>2, FilesAssumption DEF MemoryOK
  <2>l. ASSUME NEW p \in Paths, born'[p] = None PROVE length'[p] = 0
    <3>1. \A q \in Paths : born[q] = None \/ born'[q] = born[q]
      BY <1>1 DEF World, Tick, Edit, Appear, Write, Bar, Unbar, Leave, Return, TypeOK
    <3>2. length'[p] = length[p]
      <4>1. length \in [Paths -> Lines] /\ now # None
        BY FilesAssumption DEF TypeOK
      <4>2. born \in [Paths -> 0..MaxTicks \cup {None}]
        BY DEF TypeOK
      <4>3. ASSUME NEW q \in Paths, Appear(q) PROVE p # q /\ length'[p] = length[p]
        BY <2>l, <4>1, <4>2, <4>3 DEF Appear
      <4>4. ASSUME NEW q \in Paths, Write(q) PROVE p # q /\ length'[p] = length[p]
        BY <2>l, <4>1, <4>2, <4>4 DEF Write
      <4> QED
        BY <1>1, <4>3, <4>4 DEF World, Tick, Edit, Bar, Unbar, Leave, Return
    <3> QED
      BY <2>l, <3>1, <3>2 DEF MemoryOK
  <2>5. ASSUME NEW p \in Paths, globsOf[p] # {} PROVE born'[p] # None
    BY <1>1, <2>5, LinesAre, FilesAssumption, <1>0
    DEF MemoryOK, World, Tick, Edit, Appear, Write, Bar, Unbar, Leave, Return, TypeOK
  <2>6. files' = files \/ ~Running
    BY <1>1 DEF World, Tick, Edit, Appear, Write, Bar, Unbar, Leave, Return
  <2>7. began' # None => began' <= now'
    BY <2>1, <2>2, <1>0, FilesAssumption DEF MemoryOK, TypeOK, Running
  <2>8. CASE files' = files
    BY <2>1, <2>3, <2>4, <2>l, <2>5, <2>7, <2>8 DEF MemoryOK, Running, Looked, GlobsFor
  <2>9. CASE ~Running
    BY <2>1, <2>3, <2>4, <2>l, <2>9, MemoryAtRest DEF MemoryOK, Running
  <2> QED
    BY <2>6, <2>8, <2>9
<1>2. ASSUME NEW at \in since..now, StartRun(at) PROVE MemoryOK'
  <2>1. ~Running /\ at <= now
    BY <1>2 DEF StartRun
  <2> QED
    BY <1>2, <2>1, MemoryAtRest DEF StartRun, MemoryOK, Running
<1>3. CASE Expand
  <2>1. ASSUME NEW p \in Paths, Head(unlisted) \in Globs, p \in Found(Head(unlisted)) \ ToSet(files)
        PROVE  Head(unlisted) \in GlobsFor(p) /\ born[p] # None
    <3>1. Head(unlisted) \in ToSet(files)
      BY <1>3, TakenSet DEF MemoryOK, TypeOK, Expand
    <3> QED
      BY <2>1, <3>1 DEF GlobsFor, Found, There
  <2>2. ToSet(unlisted') \subseteq ToSet(files')
    BY <1>3, TakenSet DEF MemoryOK, TypeOK, Expand
  <2>3. ASSUME NEW p \in Paths
        PROVE  /\ globsOf'[p] \subseteq GlobsFor(p) /\ (globsOf'[p] # {} => born[p] # None)
               /\ Looked(p) => Looked(p)'
               /\ p \in ToSet(todo') => Looked(p)'
    <3>1. globsOf[p] \subseteq globsOf'[p]
      BY <1>3, Expands
    <3>2. globsOf'[p] \subseteq GlobsFor(p) /\ (globsOf'[p] # {} => born[p] # None)
      BY <1>3, <2>1, Expands DEF MemoryOK
    <3>3. Looked(p) => Looked(p)'
      BY <1>3, <3>1, Expands DEF Looked
    <3>4. p = Head(unlisted) => p \in ToSet(files)
      BY <1>3, TakenSet DEF MemoryOK, TypeOK, Expand
    <3>5. ASSUME p \in ToSet(todo') PROVE Looked(p)'
      BY <1>3, <3>3, <3>4, <3>5, Expands DEF MemoryOK, Looked
    <3> QED
      BY <3>2, <3>3, <3>5
  <2> QED
    BY <1>3, <2>2, <2>3, Expands DEF MemoryOK, GlobsFor, Running
<1>4. CASE Judge
  BY <1>4 DEF Judge, MemoryOK, Looked, GlobsFor, Running
<1>5. Judged => /\ File \in Paths /\ ToSet(Tail(todo)) \subseteq ToSet(todo) /\ Looked(File)
  BY FileTaken DEF MemoryOK
<1>6. CASE OpenFails \/ Absent
  <2>1. Judged /\ todo' = Tail(todo)
    BY <1>6 DEF OpenFails, Absent, NextFile
  <2>2. UNCHANGED <<now, around, disk, began, state, unlisted, globsOf, starts>>
    BY <1>6 DEF OpenFails, Absent
  <2> QED
    BY <1>5, <2>1, <2>2 DEF MemoryOK, Looked, GlobsFor, Running
<1>7. CASE Read \/ ReadFails
  <2>1. Judged /\ todo' = Tail(todo)
    BY <1>7 DEF Read, ReadFails, Opens, NextFile
  <2>2. UNCHANGED <<now, around, disk, began, unlisted, globsOf>>
    BY <1>7 DEF Read, ReadFails
  <2>3. ASSUME NEW p \in Paths
        PROVE  /\ starts'[p] # None => Looked(p)
               /\ state'.entry[p] = state.entry[p] \/ (state.entry[p] = None /\ Looked(p))
               /\ state'.moment = state.moment
    <3>1. CASE Read
      BY <1>5, <2>1, <3>1 DEF Read, MemoryOK, TypeOK
    <3>2. CASE ReadFails
      BY <1>5, <2>1, <3>2 DEF ReadFails, MemoryOK, TypeOK, States
    <3> QED
      BY <1>7, <3>1, <3>2
  <2> QED
    BY <1>5, <2>1, <2>2, <2>3 DEF MemoryOK, Looked, GlobsFor, Running
<1>8. CASE Accepted \/ Refused \/ SaveFails \/ Kill
  <2>1. Ends /\ UNCHANGED <<now, around>>
    BY <1>8 DEF Accepted, Refused, SaveFails, Kill
  <2>2. InShape' /\ ~Running'
    BY <2>1 DEF Ends, Running
  <2> QED
    BY <2>1, <2>2, MemoryAtRest DEF MemoryOK, Ends, Running, NoGlobs, NoPlace, ToSet
<1>9. CASE ResetOne \/ ResetAll
  <2>1. ~Running /\ UNCHANGED <<now, born, mtime, length, files, since, inRun>>
    BY <1>9 DEF ResetOne, ResetAll, Reset
  <2> QED
    BY <2>1, MemoryAtRest DEF MemoryOK, Running
<1>10. CASE UNCHANGED vars
  BY <1>10 DEF vars, MemoryOK, Looked, GlobsFor, Running
<1> QED
  BY <1>1, <1>2, <1>3, <1>4, <1>6, <1>7, <1>8, <1>9, <1>10 DEF Next, World

\* The three together are the ground the others stand on.
Ground == TypeOK /\ InShape /\ MemoryOK

LEMMA InitGround == Init => Ground
<1> SUFFICES ASSUME Init PROVE Ground
  OBVIOUS
<1>1. InShape
  BY DEF Init, InShape, Running, NoPlace
<1>2. MemoryOK
  BY <1>1, MemoryAtRest DEF Init, MemoryOK, Running, NoPlace
<1> QED
  BY <1>1, <1>2, InitTyped DEF Ground

LEMMA GroundKept == Ground /\ [Next]_vars => Ground'
  BY TypesKept, MemoryKept DEF Ground

-----------------------------------------------------------------------------
(* The past stays unsent *)

LEMMA Numbers ==
  ASSUME TypeOK, NEW p \in Paths
  PROVE  /\ past[p] \in Nat /\ length[p] \in Nat
         /\ starts[p] \in Nat \cup {None} /\ cursors[p] \in Nat \cup {None}
         /\ disk.entry[p] \in Nat \cup {None} /\ state.entry[p] \in Nat \cup {None}
  BY LinesAre DEF TypeOK, States

\* At rest there is nothing but the saved state to speak of.
LEMMA PastAtRest ==
  ASSUME InShape, ~Running, NEW p \in Paths
  PROVE  /\ state.entry[p] = None /\ starts[p] = None /\ cursors[p] = None /\ todo = <<>>
         /\ ToSet(todo) = {} /\ unlisted = <<>> /\ globsOf[p] = {} /\ seen = {}
  BY MemoryAtRest DEF InShape, Nothing, NoPlace

\* A file is read from its beginning on a promise only, and then it has no past.
LEMMA PromisedHasNoPast ==
  ASSUME Ground, NEW p \in Paths, PastOf(p), state.entry[p] = None, NewFile(p)
  PROVE  past[p] = 0
<1>1. disk.entry[p] = None /\ globsOf[p] \subseteq GlobsFor(p)
  <2>1. Running
    BY PastAtRest DEF Ground, NewFile
  <2> QED
    BY <2>1 DEF Ground, MemoryOK
<1>2. PICK g \in globsOf[p] : state.moment[g] # None
  BY DEF NewFile
<1>3. Running
  BY <1>2, PastAtRest DEF Ground
<1>4. ~Unpromised(p, disk)
  BY <1>1, <1>2, <1>3 DEF Ground, MemoryOK, Unpromised
<1> QED
  BY <1>1, <1>4 DEF PastOf

\* Where a read begins is behind the past.
LEMMA StartsPastThePast ==
  ASSUME Ground, PastOf(File), Opens
  PROVE  /\ File \in Paths /\ StartOf(File) \in Nat
         /\ past[File] <= StartOf(File) /\ past[File] <= length[File]
<1>1. /\ File \in Paths /\ todo # <<>> /\ whole \in BOOLEAN
  BY FileTaken DEF Ground, Opens
<1>2. /\ past[File] \in Nat /\ length[File] \in Nat /\ state.entry[File] \in Nat \cup {None}
  BY <1>1, Numbers DEF Ground
<1>3. CASE state.entry[File] # None
  BY <1>1, <1>2, <1>3 DEF StartOf, PastOf
<1>4. CASE state.entry[File] = None /\ whole = TRUE
  BY <1>1, <1>2, <1>4 DEF StartOf, PastOf
<1>5. CASE state.entry[File] = None /\ whole = FALSE
  BY <1>1, <1>2, <1>5 DEF StartOf, PastOf
<1> QED
  BY <1>1, <1>3, <1>4, <1>5

\* What a section saves and what it mails is behind the past.
LEMMA SavedPastThePast ==
  ASSUME Ground, Running, NEW p \in Paths, PastOf(p)
  PROVE  /\ Advanced.entry[p] # None => past[p] <= Advanced.entry[p]
         /\ Kept.entry[p] # None => past[p] <= Kept.entry[p]
         /\ p \in Contributing => ((starts[p] + 1)..cursors[p]) \cap 1..past[p] = {}
<1>1. state \in States /\ Advanced \in States /\ Kept \in States
  BY AdvancedTyped DEF Ground, TypeOK
<1>2. Advanced.entry[p] = IF p \in WereRead THEN cursors[p] ELSE state.entry[p]
  BY <1>1, EntryReplaced DEF Advanced, Recorded
<1>3. Kept.entry[p] = IF p \in WereRead \ Contributing THEN cursors[p]
                      ELSE IF p \in Contributing /\ state.entry[p] = None THEN starts[p]
                      ELSE state.entry[p]
  BY <1>1, EntryReplaced DEF Kept
<1>4. p \in Contributing => starts[p] \in Nat /\ cursors[p] \in Nat /\ past[p] <= starts[p]
  BY Numbers DEF Ground, Contributing, WereRead, InShape, PastOf
<1>5. past[p] \in Nat
  BY Numbers DEF Ground
<1>6. p \in Contributing => ((starts[p] + 1)..cursors[p]) \cap 1..past[p] = {}
  BY <1>4, <1>5
<1> QED
  BY <1>2, <1>3, <1>6 DEF PastOf, WereRead, Contributing

LEMMA NoneIsNoAnswer == None # TRUE /\ None # FALSE
  BY FilesAssumption

LEMMA PastKept ==
  ASSUME Ground, Ground', PastOK, [Next]_vars
  PROVE  PastOK'
<1> SUFFICES ASSUME NEW p \in Paths, p \notin missed' PROVE PastOf(p)'
  BY DEF PastOK
<1> USE DEF around, reach, inRun, history
<1>0. p \notin missed => PastOf(p)
  BY DEF PastOK
<1>n. /\ past[p] \in Nat /\ length[p] \in Nat /\ past'[p] \in Nat /\ length'[p] \in Nat
  BY LinesAre DEF Ground, TypeOK
<1>1. CASE Edit
  <2>1. /\ ~Running /\ ~Running' /\ p \notin missed
        /\ past'[p] = IF disk.entry[p] = None THEN 0 ELSE past[p]
        /\ UNCHANGED <<length, disk, mailed, state, starts, cursors, todo>>
    BY <1>1 DEF Edit, Running
  <2>2. state.entry[p] = None /\ starts[p] = None /\ cursors[p] = None /\ todo = <<>>
    BY <2>1, PastAtRest DEF Ground
  <2>3. 1..past'[p] \subseteq 1..past[p] /\ past'[p] <= past[p]
    BY <1>n, <2>1
  <2> QED
    BY <1>0, <1>n, <2>1, <2>2, <2>3 DEF PastOf
<1>2. CASE World /\ ~Edit
  <2>1. UNCHANGED <<disk, inRun, mailed, past, missed, files>>
    BY <1>2 DEF World, Tick, Appear, Write, Bar, Unbar, Leave, Return
  <2>2. length[p] <= length'[p]
    <3>1. length \in [Paths -> Lines]
      BY DEF Ground, TypeOK
    <3>2. \/ length'[p] = length[p] \/ length'[p] = length[p] + 1
          \/ length'[p] = 1 /\ born[p] = None
      BY <1>2, <3>1 DEF World, Tick, Appear, Write, Bar, Unbar, Leave, Return
    <3> QED
      BY <1>n, <3>2 DEF Ground, MemoryOK
  <2>3. Unpromised(p, disk) => Unpromised(p, disk)'
    BY <2>1 DEF Unpromised, GlobsFor
  <2> QED
    BY <1>0, <1>n, <2>1, <2>2, <2>3 DEF PastOf, File
<1>3. ASSUME NEW at \in since..now, StartRun(at) PROVE PastOf(p)'
  <2>1. /\ ~Running /\ UNCHANGED <<length, disk, files, todo, starts, cursors>>
        /\ mailed'[p] = {} /\ state' = disk
        /\ past'[p] = IF Unpromised(p, disk) THEN length[p] ELSE past[p]
        /\ p \notin missed \/ Unpromised(p, disk)
    BY <1>3 DEF StartRun, NoGlobs
  <2>2. starts[p] = None /\ cursors[p] = None /\ todo = <<>>
    BY <2>1, PastAtRest DEF Ground
  <2>3. CASE Unpromised(p, disk)
    <3>1. disk.entry[p] = None /\ Unpromised(p, disk)'
      BY <2>1, <2>3 DEF Unpromised, GlobsFor
    <3> QED
      BY <1>n, <2>1, <2>2, <2>3, <3>1 DEF PastOf
  <2>4. CASE ~Unpromised(p, disk)
    BY <1>0, <1>n, <2>1, <2>2, <2>4 DEF PastOf
  <2> QED
    BY <2>3, <2>4
<1>4. CASE Expand
  <2>1. /\ UNCHANGED <<length, files, disk, state, starts, cursors, mailed, past, missed, whole>>
        /\ unlisted # <<>>
    BY <1>4 DEF Expand
  <2>2. whole' = None /\ Unpromised(p, disk)' = Unpromised(p, disk)
    BY <2>1 DEF Ground, InShape, Unpromised, GlobsFor
  <2> QED
    BY <1>0, <2>1, <2>2, NoneIsNoAnswer DEF PastOf
<1>5. CASE Judge
  <2>1. /\ UNCHANGED <<length, files, disk, state, starts, cursors, mailed, past, missed, todo>>
        /\ whole' = TRUE => state.entry[File] = None /\ NewFile(File)
    BY <1>5 DEF Judge, File
  <2>2. Unpromised(p, disk)' = Unpromised(p, disk) /\ File' = File
    BY <2>1 DEF Unpromised, GlobsFor, File
  <2> QED
    BY <1>0, <2>1, <2>2, PromisedHasNoPast DEF PastOf
<1>6. CASE OpenFails \/ Absent
  <2>1. /\ UNCHANGED <<length, files, disk, state, starts, cursors, mailed, past, missed>>
        /\ whole' = None
    BY <1>6 DEF OpenFails, Absent, NextFile
  <2>2. Unpromised(p, disk)' = Unpromised(p, disk)
    BY <2>1 DEF Unpromised, GlobsFor
  <2> QED
    BY <1>0, <2>1, <2>2, NoneIsNoAnswer DEF PastOf
<1>7. CASE Read \/ ReadFails
  <2>1. /\ UNCHANGED <<length, files, disk, mailed, past, missed>>
        /\ whole' = None /\ Opens
    BY <1>7 DEF Read, ReadFails, NextFile
  <2>2. File \in Paths /\ (p = File => StartOf(p) \in Nat /\ past[p] <= StartOf(p) /\ past[p] <= length[p])
    BY <1>0, <2>1, StartsPastThePast, FileTaken DEF Ground, Opens
  <2>3. CASE Read
    <3>1. /\ state' = state
          /\ starts'[p] = IF p = File THEN StartOf(p) ELSE starts[p]
          /\ cursors'[p] = IF p = File THEN length[p] ELSE cursors[p]
      BY <2>3 DEF Read, Ground, TypeOK
    <3>2. Unpromised(p, disk)' = Unpromised(p, disk)
      BY <2>1 DEF Unpromised, GlobsFor
    <3> QED
      BY <1>0, <2>1, <2>2, <3>1, <3>2, NoneIsNoAnswer DEF PastOf
  <2>4. CASE ReadFails
    <3>1. /\ UNCHANGED <<starts, cursors>>
          /\ state'.entry[p] = IF p = File /\ state.entry[p] = None THEN StartOf(p) ELSE state.entry[p]
      BY <2>2, <2>4 DEF ReadFails, Ground, TypeOK, States
    <3>2. Unpromised(p, disk)' = Unpromised(p, disk)
      BY <2>1 DEF Unpromised, GlobsFor
    <3> QED
      BY <1>0, <2>1, <2>2, <3>1, <3>2, NoneIsNoAnswer DEF PastOf
  <2> QED
    BY <1>7, <2>3, <2>4
<1>8. CASE Accepted \/ Refused \/ SaveFails \/ Kill
  <2>1. /\ Running /\ Ends /\ UNCHANGED <<length, files, past>>
        /\ \/ mailed' = mailed \/ Mails
        /\ \/ UNCHANGED <<disk, missed>> \/ Saved(Advanced) \/ Saved(Kept)
    BY <1>8 DEF Accepted, Refused, SaveFails, Kill, AllRead
  <2>2. p \notin missed
    BY <2>1 DEF Saved
  <2>3. mailed'[p] \cap 1..past[p] = {}
    BY <1>0, <2>1, <2>2, SavedPastThePast DEF Mails, PastOf
  <2>4. CASE UNCHANGED <<disk, missed>>
    <3>1. Unpromised(p, disk)' = Unpromised(p, disk)
      BY <2>1, <2>4 DEF Unpromised, GlobsFor
    <3> QED
      BY <1>0, <2>1, <2>2, <2>3, <2>4, <3>1 DEF PastOf, Ends, Nothing, NoPlace
  <2>5. CASE Saved(Advanced) \/ Saved(Kept)
    <3>1. disk'.entry[p] # None => past[p] <= disk'.entry[p]
      BY <1>0, <2>1, <2>2, <2>5, SavedPastThePast DEF Saved
    <3>2. disk'.entry[p] = None => past[p] = 0
      BY <1>n, <2>5 DEF Saved
    <3> QED
      BY <1>0, <2>1, <2>2, <2>3, <3>1, <3>2 DEF PastOf, Ends, Nothing, NoPlace
  <2> QED
    BY <2>1, <2>4, <2>5
<1>9. CASE ResetOne \/ ResetAll
  <2>1. PICK those \in SUBSET Paths : Reset(those)
    BY <1>9 DEF ResetOne, ResetAll
  <2>2. /\ ~Running /\ UNCHANGED <<length, files, state, starts, cursors, todo>>
        /\ disk'.moment = NoMoment
        /\ disk'.entry[p] = IF p \in those THEN None ELSE disk.entry[p]
        /\ past'[p] = IF disk'.entry[p] = None THEN length[p] ELSE past[p]
        /\ p \notin missed \/ disk'.entry[p] = None
        /\ mailed'[p] = {}
    BY <2>1 DEF Reset, Forgotten, NoGlobs
  <2>3. state.entry[p] = None /\ starts[p] = None /\ cursors[p] = None /\ todo = <<>>
    BY <2>2, PastAtRest DEF Ground
  <2>4. disk'.entry[p] = None => Unpromised(p, disk)'
    BY <2>2 DEF Unpromised, GlobsFor, NoMoment
  <2> QED
    BY <1>0, <1>n, <2>2, <2>3, <2>4 DEF PastOf
<1>10. CASE UNCHANGED vars
  BY <1>0, <1>10 DEF vars, PastOf, Unpromised, GlobsFor, File
<1> QED
  BY <1>1, <1>2, <1>3, <1>4, <1>5, <1>6, <1>7, <1>8, <1>9, <1>10 DEF Next, World

\* What a file held before its glob was first looked into, or before it was reset, is not
\* mailed, unless the run that gave the glob its moment could not open it -- whatever comes,
\* goes and fails beside the runs (_new_file, _pin_first_sight, State.forget; issue #18).
THEOREM PastIsUnsent == Spec => []PastStaysUnsent
<1>1. Init => PastOK
  <2> SUFFICES ASSUME Init, NEW p \in Paths PROVE PastOf(p)
    BY DEF PastOK
  <2>1. ~Running /\ Ground
    BY InitGround DEF Init, Running
  <2>2. state.entry[p] = None /\ starts[p] = None /\ cursors[p] = None /\ todo = <<>>
    BY <2>1, PastAtRest DEF Ground
  <2> QED
    BY <2>2 DEF Init, PastOf, Nothing, NoPlace, NoGlobs
<1>2. PastOK => PastStaysUnsent
  BY DEF PastOK, PastOf, PastStaysUnsent
<1>3. Spec => []Ground
  BY InitGround, GroundKept, PTL DEF Spec
<1> QED
  BY <1>1, <1>2, <1>3, PastKept, PTL DEF Spec

-----------------------------------------------------------------------------
(* A new file stays new *)

\* What the statement needs of the world beside a run, and of the globs: no directory comes
\* or goes between a run's first listing and its last open, no file appears between its
\* listings, and a glob looks into one directory.
StillWorld ==
  /\ "directories" \in Still /\ "listings" \in Still
  /\ \A g \in Globs : \E d \in Dirs : LooksIn[g] = {d}

\* Without a run there is nothing to keep.
LEMMA NewAtRest == InShape' /\ ~Running' => NewOK'
<1> SUFFICES ASSUME InShape', ~Running' PROVE NewOK'
  OBVIOUS
<1>1. seen' = {} /\ \A p \in Paths : globsOf'[p] = {}
  BY DEF InShape, NoGlobs
<1> QED
  BY <1>1 DEF NewOK, RestOK, FromExpanded, AllOrNone, SeenOrLater, OpenedOrWaiting,
              FromItsBeginning, Running, Listing

\* What the rest of `files` says about the globs that have been expanded.
LEMMA ExpandedSoFar ==
  ASSUME TypeOK, RestOK, Running
  PROVE  /\ unlisted = files => \A e : ~Expanded(e)
         /\ unlisted = <<>> => \A e \in ToSet(files) : Expanded(e)
<1>1. /\ Len(files) \in Nat /\ Len(unlisted) \in Nat /\ files \in Seq(Globs \cup Paths)
  BY FilesAssumption DEF TypeOK
<1>2. ToSet(files) = {files[i] : i \in 1..Len(files)}
  BY <1>1, SetOf
<1> QED
  BY <1>1, <1>2 DEF Expanded

LEMMA ExpandedGrows ==
  ASSUME TypeOK, RestOK, Expand
  PROVE  /\ RestOK'
         /\ \A e : Expanded(e)' <=> Expanded(e) \/ e = Head(unlisted)
         /\ unlisted' = <<>> => \A e \in ToSet(files) : Expanded(e)'
<1>1. /\ Running /\ unlisted # <<>> /\ unlisted' = Tail(unlisted) /\ files' = files
      /\ unlisted \in Seq(Globs \cup Paths) /\ files \in Seq(Globs \cup Paths)
  BY FilesAssumption DEF Expand, TypeOK, around
<1>2. /\ Len(unlisted) \in Nat \ {0} /\ Len(files) \in Nat /\ Len(unlisted) <= Len(files)
      /\ Len(Tail(unlisted)) = Len(unlisted) - 1 /\ Head(unlisted) = unlisted[1]
      /\ \A i \in 1..Len(Tail(unlisted)) : Tail(unlisted)[i] = unlisted[i + 1]
  BY <1>1, TakenSet DEF RestOK
<1> DEFINE k == Len(files) - Len(unlisted)
<1>3. files[k + 1] = Head(unlisted)
  BY <1>1, <1>2 DEF RestOK
<1>4. Len(files') - Len(unlisted') = k + 1 /\ k \in Nat
  BY <1>1, <1>2
<1>5. RestOK'
  <2>1. ASSUME NEW i \in 1..Len(Tail(unlisted))
        PROVE  Tail(unlisted)[i] = files[Len(files) - Len(Tail(unlisted)) + i]
    <3>1. i + 1 \in 1..Len(unlisted) /\ Tail(unlisted)[i] = unlisted[i + 1]
      BY <1>2
    <3>2. unlisted[i + 1] = files[k + (i + 1)]
      BY <1>1, <3>1 DEF RestOK
    <3>3. k + (i + 1) = Len(files) - Len(Tail(unlisted)) + i
      BY <1>2
    <3> QED
      BY <3>1, <3>2, <3>3
  <2> QED
    BY <1>1, <1>2, <2>1 DEF RestOK
<1>6. ASSUME NEW e PROVE Expanded(e)' <=> Expanded(e) \/ e = Head(unlisted)
  <2>1. 1..(k + 1) = 1..k \cup {k + 1}
    BY <1>4
  <2>2. Expanded(e)' <=> \E i \in 1..(k + 1) : files[i] = e
    BY <1>1, <1>4 DEF Expanded
  <2>3. Expanded(e) <=> \E i \in 1..k : files[i] = e
    BY DEF Expanded
  <2> HIDE DEF k
  <2> QED
    BY <1>3, <2>1, <2>2, <2>3
<1>7. ASSUME unlisted' = <<>>, NEW e \in ToSet(files) PROVE Expanded(e)'
  <2>1. Len(unlisted') = 0
    BY <1>7
  <2>2. PICK i \in 1..Len(files) : files[i] = e
    BY <1>1, SetOf
  <2> QED
    BY <1>1, <1>4, <2>1, <2>2 DEF Expanded
<1> QED
  BY <1>5, <1>6, <1>7

\* While a glob that found a file is under way, no directory comes or goes.
LEMMA FoundWhileLooking ==
  ASSUME TypeOK, RestOK, FromExpanded, Running, NEW p \in Paths, globsOf[p] # {}
  PROVE  unlisted # files
  BY ExpandedSoFar DEF FromExpanded

\* After an expansion every glob that was expanded has found what is in reach.
LEMMA ExpandFinds ==
  ASSUME StillWorld, Ground, NewOK, Expand, NEW p \in Paths, NEW g \in GlobsFor(p), Expanded(g)'
  PROVE  g \in globsOf'[p] <=> InReach(p)
<1> DEFINE e == Head(unlisted)
<1>1. g \in Globs /\ p \in Matches[g] /\ p \notin ToSet(files)
  BY DEF GlobsFor
<1>2. globsOf'[p] = IF e \in Globs /\ p \in Found(e) \ ToSet(files)
                    THEN globsOf[p] \cup {e} ELSE globsOf[p]
  BY Expands DEF Ground
<1>3. Running /\ unlisted # <<>> /\ (Expanded(g) \/ g = e)
  BY Expands, ExpandedGrows DEF Ground, NewOK
<1>4. Expanded(g) => (g \in globsOf[p] <=> InReach(p))
  <2> SUFFICES ASSUME Expanded(g) PROVE g \in globsOf[p] <=> InReach(p)
    OBVIOUS
  <2>1. Listing
    BY <1>3, ExpandedSoFar DEF Ground, NewOK, Listing
  <2> QED
    BY <2>1 DEF NewOK, AllOrNone
<1>5. g \in globsOf[p] => Expanded(g)
  BY <1>3 DEF NewOK, FromExpanded
<1>6. p \in Found(g) <=> InReach(p)
  BY <1>1 DEF Found, There, InReach
<1>7. CASE g = e
  BY <1>1, <1>2, <1>4, <1>5, <1>6, <1>7
<1>8. CASE g # e
  BY <1>2, <1>3, <1>4, <1>8
<1> QED
  BY <1>7, <1>8

LEMMA NewExpanded ==
  ASSUME StillWorld, Ground, Ground', NewOK, Expand
  PROVE  NewOK'
<1> DEFINE e == Head(unlisted)
<1>1. /\ Running /\ unlisted # <<>> /\ began' = began /\ state' = state /\ disk' = disk
      /\ UNCHANGED <<files, born, mtime, dir, starts, cursors, whole>>
  BY Expands DEF Ground, around, reach
<1>2. Running' /\ whole' = None
  BY <1>1 DEF Running, Ground, InShape
<1>3. RestOK' /\ \A x : Expanded(x)' <=> Expanded(x) \/ x = e
  BY ExpandedGrows DEF Ground, NewOK
<1>4. seen' = IF IsGlob(e) /\ Listed(e) THEN seen \cup {e} ELSE seen
  BY DEF Expand
<1>5. ASSUME NEW p \in Paths
      PROVE  globsOf'[p] = IF e \in Globs /\ p \in Found(e) \ ToSet(files)
                           THEN globsOf[p] \cup {e} ELSE globsOf[p]
  BY Expands DEF Ground
<1>6. FromExpanded'
  BY <1>1, <1>3, <1>4, <1>5 DEF NewOK, FromExpanded
<1>7. ASSUME NEW p \in Paths
      PROVE  AllOrNone(p)' /\ SeenOrLater(p)' /\ OpenedOrWaiting(p)' /\ FromItsBeginning(p)'
  <2>1. /\ GlobsFor(p)' = GlobsFor(p) /\ InReach(p)' = InReach(p) /\ globsOf'[p] \subseteq GlobsFor(p)
    BY <1>1 DEF GlobsFor, InReach, Ground, MemoryOK
  <2>2. \A g \in GlobsFor(p) : Expanded(g)' => (g \in globsOf'[p] <=> InReach(p))
    BY ExpandFinds
  <2>3. globsOf'[p] # {} => InReach(p)
    BY <1>2, <1>6, <2>1, <2>2 DEF FromExpanded
  <2>4. AllOrNone(p)'
    <3>1. ASSUME unlisted' = <<>>, NEW g \in GlobsFor(p) PROVE Expanded(g)'
      BY <3>1, ExpandedGrows DEF GlobsFor, Ground, NewOK
    <3> QED
      BY <2>1, <2>2, <2>3, <3>1 DEF AllOrNone
  <2>5. SeenOrLater(p)'
    <3> SUFFICES ASSUME NEW g \in GlobsFor(p), g \in seen', g \notin globsOf'[p]
                 PROVE  born[p] = None \/ born[p] >= began
      BY <1>1, <2>1 DEF SeenOrLater
    <3>1. ~InReach(p)
      BY <1>2, <1>6, <2>2 DEF FromExpanded
    <3>2. CASE g \in seen
      BY <1>5, <3>2 DEF NewOK, SeenOrLater
    <3>3. CASE g = e /\ Listed(e)
      <4>1. dir[DirOf[p]] = "there"
        <5>1. DirOf[p] \in LooksIn[g] /\ g \in Globs
          BY FilesAssumption DEF GlobsFor
        <5>2. PICK d \in Dirs : LooksIn[g] = {d}
          BY <5>1 DEF StillWorld
        <5> QED
          <6>1. DirOf[p] = d /\ dir[d] \in {"there", "barred", "away"}
            BY <5>1, <5>2 DEF Ground, TypeOK
          <6> QED
            BY <3>3, <5>2, <6>1 DEF Listed
      <4> QED
        BY <3>1, <4>1 DEF InReach
    <3> QED
      BY <1>4, <3>2, <3>3
  <2>6. OpenedOrWaiting(p)'
    <3> SUFFICES ASSUME globsOf'[p] # {} PROVE p \in ToSet(todo') /\ InReach(p)
      BY <2>1 DEF OpenedOrWaiting
    <3>1. globsOf[p] # {} => p \in ToSet(todo)
      BY <1>1 DEF NewOK, OpenedOrWaiting
    <3>2. p \in ToSet(todo')
      BY <1>5, <3>1, Expands DEF Ground
    <3> QED
      BY <2>3, <3>2
  <2>7. FromItsBeginning(p)'
    BY <1>1, <1>2, NoneIsNoAnswer DEF NewOK, FromItsBeginning, New, GlobsFor, Running
  <2> QED
    BY <2>4, <2>5, <2>6, <2>7
<1> QED
  BY <1>3, <1>6, <1>7 DEF NewOK

LEMMA NewBesideTheRun ==
  ASSUME StillWorld, Ground, Ground', NewOK, World, Running
  PROVE  NewOK'
<1> USE DEF around, reach, inRun, history
<1>1. UNCHANGED <<disk, began, state, unlisted, globsOf, todo, seen, whole, starts, cursors>>
  BY WorldLeaves
<1>2. Running' /\ ~Edit
  BY <1>1 DEF Running, Edit
<1>3. files' = files
  BY <1>2 DEF World, Tick, Appear, Write, Bar, Unbar, Leave, Return
<1>4. RestOK' /\ FromExpanded' /\ \A e : Expanded(e)' <=> Expanded(e)
  BY <1>1, <1>3 DEF NewOK, RestOK, FromExpanded, Expanded, Running
<1>5. ASSUME NEW p \in Paths
      PROVE  /\ born'[p] = born[p] \/ (born[p] = None /\ born'[p] = now /\ ~Listing)
             /\ Looking => dir' = dir
  BY <1>2, <1>5 DEF World, Tick, Appear, Write, Bar, Unbar, Leave, Return, StillWorld, Ground, TypeOK
<1>6. Listing => Looking
  BY DEF Listing, Looking
<1>7. ASSUME NEW p \in Paths
      PROVE  AllOrNone(p)' /\ SeenOrLater(p)' /\ OpenedOrWaiting(p)' /\ FromItsBeginning(p)'
  <2>1. GlobsFor(p)' = GlobsFor(p)
    BY <1>3 DEF GlobsFor
  <2>2. AllOrNone(p)'
    <3>1. Listing => InReach(p)' = InReach(p)
      BY <1>5, <1>6 DEF InReach
    <3> QED
      BY <1>1, <1>2, <1>3, <1>4, <2>1, <3>1 DEF NewOK, AllOrNone, Listing
  <2>3. SeenOrLater(p)'
    <3>1. born'[p] = born[p] \/ (born'[p] = now /\ now >= began)
      BY <1>5 DEF Ground, MemoryOK
    <3>2. now \in Nat /\ began \in Nat
      BY FilesAssumption DEF Ground, TypeOK, Running
    <3> QED
      BY <1>1, <2>1, <3>1, <3>2 DEF NewOK, SeenOrLater
  <2>4. OpenedOrWaiting(p)'
    <3>1. ASSUME globsOf[p] # {}, p \in ToSet(todo) PROVE InReach(p)'
      <4>1. InReach(p) /\ unlisted # files
        BY <3>1, FoundWhileLooking DEF NewOK, OpenedOrWaiting, Ground
      <4>2. todo # <<>>
        BY <3>1 DEF ToSet
      <4> QED
        BY <1>5, <4>1, <4>2 DEF InReach, Looking
    <3> QED
      BY <1>1, <3>1 DEF NewOK, OpenedOrWaiting
  <2>5. FromItsBeginning(p)'
    <3> SUFFICES ASSUME New(p)'
                 PROVE  /\ state.entry[p] \in {None, 0} /\ starts[p] \in {None, 0}
                        /\ todo # <<>> /\ File = p /\ whole = FALSE => state.entry[p] # None
      BY <1>1 DEF FromItsBeginning, File
    <3>1. CASE born'[p] = born[p]
      BY <1>1, <2>1, <3>1 DEF NewOK, FromItsBeginning, New
    <3>2. CASE born[p] = None
      <4>1. p \notin ToSet(files) /\ globsOf[p] = {}
        BY <1>3, <2>1, <3>2 DEF New, GlobsFor, Ground, MemoryOK
      <4>2. starts[p] = None /\ p \notin ToSet(todo) /\ state.entry[p] = disk.entry[p]
        BY <4>1 DEF Ground, MemoryOK, Looked
      <4>3. disk.entry[p] = None
        BY <1>1 DEF New
      <4>4. todo # <<>> => File \in ToSet(todo)
        <5>1. todo \in Seq(Paths)
          BY DEF Ground, TypeOK
        <5> QED
          BY <5>1, TakenSet DEF File
      <4> QED
        BY <4>2, <4>3, <4>4
    <3> QED
      BY <1>5, <3>1, <3>2
  <2> QED
    BY <2>2, <2>3, <2>4, <2>5
<1> QED
  BY <1>4, <1>7 DEF NewOK

\* A new file that was found is found by each of its globs, and in reach: the rule has it new.
LEMMA NewIsJudgedNew ==
  ASSUME Ground, NewOK, Running, unlisted = <<>>, todo # <<>>, New(File), state.entry[File] = None
  PROVE  There(File) /\ dir[DirOf[File]] = "there" /\ NewFile(File)
<1>1. File \in Paths /\ File \in ToSet(todo)
  BY TakenSet DEF Ground, TypeOK, File
<1>2. PICK g \in GlobsFor(File) : disk.moment[g] # None /\ born[File] >= disk.moment[g] * Second
  BY DEF New
<1>3. globsOf[File] # {}
  BY <1>1, <1>2 DEF GlobsFor, Ground, MemoryOK, Looked
<1>4. g \in globsOf[File] /\ InReach(File)
  BY <1>1, <1>3 DEF NewOK, AllOrNone, OpenedOrWaiting
<1>5. mtime[File] >= state.moment[g] * Second /\ state.moment[g] # None
  <2>1. /\ born[File] \in Nat /\ mtime[File] \in Nat /\ born[File] <= mtime[File]
        /\ state.moment = disk.moment
    BY <1>1, <1>4, FilesAssumption DEF InReach, Ground, TypeOK, MemoryOK
  <2>2. disk.moment[g] * Second \in Nat
    <3>1. disk.moment[g] \in Nat /\ Second \in Nat
      BY <1>2, FilesAssumption DEF GlobsFor, Ground, TypeOK, States, Seconds
    <3> QED
      BY <3>1
  <2> QED
    BY <1>2, <2>1, <2>2
<1> QED
  BY <1>4, <1>5 DEF InReach, There, NewFile

LEMMA NewJudged ==
  ASSUME Ground, NewOK, Judge
  PROVE  NewOK'
<1>1. /\ Running /\ unlisted = <<>> /\ todo # <<>>
      /\ UNCHANGED <<now, around, reach, troubles, disk, began, state, unlisted, globsOf, todo, seen,
                     starts, cursors, history>>
      /\ whole' = (/\ There(File) /\ dir[DirOf[File]] = "there"
                   /\ state.entry[File] = None
                   /\ NewFile(File))
  BY DEF Judge, File
<1>2. New(File) /\ whole' = FALSE => state.entry[File] # None
  BY <1>1, NewIsJudgedNew
<1> USE DEF around, reach
<1>3. RestOK' /\ FromExpanded'
  BY <1>1 DEF NewOK, RestOK, FromExpanded, Expanded, Running
<1>4. ASSUME NEW p \in Paths
      PROVE  AllOrNone(p)' /\ SeenOrLater(p)' /\ OpenedOrWaiting(p)' /\ FromItsBeginning(p)'
  <2>1. AllOrNone(p)' /\ SeenOrLater(p)' /\ OpenedOrWaiting(p)'
    BY <1>1 DEF NewOK, AllOrNone, SeenOrLater, OpenedOrWaiting, InReach, Listing, Expanded, GlobsFor, Running
  <2>2. New(p)' = New(p) /\ File' = File
    BY <1>1 DEF New, GlobsFor, File
  <2>3. FromItsBeginning(p)'
    BY <1>1, <1>2, <2>2 DEF NewOK, FromItsBeginning
  <2> QED
    BY <2>1, <2>3
<1> QED
  BY <1>3, <1>4 DEF NewOK

\* An opened file, or one that was not, is done with.
LEMMA NewOpened ==
  ASSUME Ground, NewOK, OpenFails \/ Absent \/ Read \/ ReadFails
  PROVE  NewOK'
<1> USE DEF around, reach
<1>1. /\ Judged /\ todo' = Tail(todo) /\ whole' = None
      /\ UNCHANGED <<now, around, reach, disk, began, unlisted, globsOf>>
      /\ seen' \subseteq seen /\ state'.moment = state.moment
  BY DEF OpenFails, Absent, Read, ReadFails, Opens, NextFile, Ground, TypeOK, States
<1>2. /\ Running /\ unlisted = <<>> /\ todo # <<>> /\ whole \in BOOLEAN
      /\ File \in Paths /\ ToSet(todo) = {File} \cup ToSet(Tail(todo))
  BY <1>1, FileTaken DEF Ground
<1>3. RestOK' /\ FromExpanded'
  BY <1>1 DEF NewOK, RestOK, FromExpanded, Expanded, Running
<1>4. ASSUME NEW p \in Paths
      PROVE  /\ state'.entry[p] = state.entry[p] \/ (p = File /\ Opens /\ state'.entry[p] = StartOf(p)
                                                     /\ state.entry[p] = None)
             /\ starts'[p] = starts[p] \/ (p = File /\ Opens /\ starts'[p] = StartOf(p))
             /\ cursors'[p] = cursors[p] \/ cursors'[p] # None
  <2>1. CASE OpenFails \/ Absent
    BY <2>1 DEF OpenFails, Absent
  <2>2. CASE Read
    <3>1. length[File] # None
      BY <1>2, LinesAre DEF Ground, TypeOK
    <3> QED
      BY <1>2, <2>2, <3>1 DEF Read, Ground, TypeOK
  <2>3. CASE ReadFails
    BY <1>2, <2>3 DEF ReadFails, Ground, TypeOK, States
  <2> QED
    BY <2>1, <2>2, <2>3
<1>5. globsOf[File] # {} =>
        \/ cursors'[File] # None \/ state'.entry[File] # None
        \/ \A g \in seen' \cap globsOf[File] : state'.moment[g] = None
  <2> SUFFICES ASSUME globsOf[File] # {}
               PROVE  \/ cursors'[File] # None \/ state'.entry[File] # None
                      \/ \A g \in seen' \cap globsOf[File] : state'.moment[g] = None
    OBVIOUS
  <2>1. CASE OpenFails
    BY <2>1 DEF OpenFails
  <2>2. CASE Absent
    BY <1>2, <2>2 DEF Absent, NewOK, OpenedOrWaiting, InReach, There
  <2>3. CASE Read
    BY <1>2, <2>3, LinesAre DEF Read, Ground, TypeOK
  <2>4. CASE ReadFails
    <3>1. Opens /\ StartOf(File) # None
      <4>1. length[File] # None
        BY <1>2, LinesAre DEF Ground, TypeOK
      <4>2. 0 # None
        BY FilesAssumption
      <4> QED
        BY <2>4, <4>1, <4>2 DEF ReadFails, StartOf
    <3> QED
      BY <1>2, <2>4, <3>1 DEF ReadFails, Ground, TypeOK, States
  <2> QED
    BY <2>1, <2>2, <2>3, <2>4
<1>6. New(File) /\ Opens => StartOf(File) = 0
  BY <1>2 DEF NewOK, FromItsBeginning, StartOf
<1>7. ASSUME NEW p \in Paths
      PROVE  AllOrNone(p)' /\ SeenOrLater(p)' /\ OpenedOrWaiting(p)' /\ FromItsBeginning(p)'
  <2>1. AllOrNone(p)' /\ SeenOrLater(p)'
    BY <1>1 DEF NewOK, AllOrNone, SeenOrLater, InReach, Listing, Expanded, GlobsFor, Running
  <2>2. OpenedOrWaiting(p)'
    <3>1. CASE globsOf[p] # {} /\ p \in ToSet(Tail(todo))
      BY <1>1, <1>2, <3>1 DEF NewOK, OpenedOrWaiting, InReach
    <3>2. CASE globsOf[p] # {} /\ p \notin ToSet(Tail(todo)) /\ p = File
      BY <1>1, <1>2, <1>5, <3>2 DEF OpenedOrWaiting
    <3>3. CASE globsOf[p] # {} /\ p \notin ToSet(todo)
      <4>1. state'.entry[p] = state.entry[p] /\ p # File
        BY <1>2, <1>4, <3>3
      <4> QED
        BY <1>1, <1>2, <1>4, <3>3, <4>1 DEF NewOK, OpenedOrWaiting
    <3>4. CASE globsOf[p] = {}
      BY <1>1, <3>4 DEF OpenedOrWaiting
    <3> QED
      BY <1>2, <3>1, <3>2, <3>3, <3>4
  <2>3. New(p)' = New(p)
    BY <1>1 DEF New, GlobsFor
  <2>4. FromItsBeginning(p)'
    BY <1>1, <1>2, <1>4, <1>6, <2>3, NoneIsNoAnswer DEF NewOK, FromItsBeginning
  <2> QED
    BY <2>1, <2>2, <2>4
<1> QED
  BY <1>3, <1>7 DEF NewOK

LEMMA NewKept ==
  ASSUME StillWorld, Ground, Ground', NewOK, [Next]_vars
  PROVE  NewOK'
<1>1. CASE ~Running'
  BY <1>1, NewAtRest DEF Ground
<1>2. ASSUME NEW at \in since..now, StartRun(at) PROVE NewOK'
  <2>1. /\ ~Running /\ UNCHANGED <<files, disk, todo, globsOf, seen, starts>>
        /\ unlisted' = files /\ state' = disk
    BY <1>2 DEF StartRun, around
  <2>2. seen = {} /\ todo = <<>> /\ \A p \in Paths : globsOf[p] = {} /\ starts[p] = None
    BY <2>1, PastAtRest DEF Ground, InShape, NoPlace, NoGlobs
  <2>3. files \in Seq(Globs \cup Paths) /\ Len(files) \in Nat
    BY FilesAssumption DEF Ground, TypeOK
  <2>4. RestOK' /\ FromExpanded'
    BY <2>1, <2>2, <2>3 DEF RestOK, FromExpanded
  <2>5. ASSUME NEW p \in Paths
        PROVE  AllOrNone(p)' /\ SeenOrLater(p)' /\ OpenedOrWaiting(p)' /\ FromItsBeginning(p)'
    BY <2>1, <2>2 DEF AllOrNone, SeenOrLater, OpenedOrWaiting, FromItsBeginning, Listing, New
  <2> QED
    BY <2>4, <2>5 DEF NewOK
<1>3. CASE World /\ Running
  BY <1>3, NewBesideTheRun
<1>4. CASE World /\ ~Running
  BY <1>1, <1>4, WorldLeaves DEF Running, inRun
<1>5. CASE Accepted \/ Refused \/ SaveFails \/ Kill
  BY <1>1, <1>5 DEF Accepted, Refused, SaveFails, Kill, Ends, Running
<1>6. CASE ResetOne \/ ResetAll
  BY <1>1, <1>6 DEF ResetOne, ResetAll, Reset, Running, inRun
<1>7. CASE UNCHANGED vars
  BY <1>7 DEF vars, around, reach, inRun, NewOK, RestOK, FromExpanded, Expanded, Running, AllOrNone,
     SeenOrLater, OpenedOrWaiting, FromItsBeginning, InReach, Listing, GlobsFor, New, File
<1> QED
  BY <1>2, <1>3, <1>4, <1>5, <1>6, <1>7, NewExpanded, NewJudged, NewOpened DEF Next, World

\* What a section saves has a new file new still, or mailed from its beginning.
LEMMA SavedNew ==
  ASSUME Ground, NewOK, AllRead, NEW p \in Paths, New(p),
         files' = files, born' = born,
         \/ disk' = Advanced /\ Mails
         \/ disk' = Kept
  PROVE  New(p)' \/ Whole(p)'
<1>1. Running /\ unlisted = <<>> /\ p \notin ToSet(todo)
  BY DEF AllRead, ToSet
<1>2. state \in States /\ state.moment = disk.moment
  BY <1>1 DEF Ground, TypeOK, MemoryOK
<1>3. Advanced.entry[p] = IF p \in WereRead THEN cursors[p] ELSE state.entry[p]
  BY <1>2, EntryReplaced DEF Advanced, Recorded
<1>4. Kept.entry[p] = IF p \in WereRead \ Contributing THEN cursors[p]
                      ELSE IF p \in Contributing /\ state.entry[p] = None THEN starts[p]
                      ELSE state.entry[p]
  BY <1>2, EntryReplaced DEF Kept
<1>5. Kept.moment = disk.moment
  BY <1>2, EntryReplaced DEF Kept
<1>6. \A g \in ToSet(files) \cap Globs :
        Advanced.moment[g] = IF g \in seen THEN Moment(began) ELSE disk.moment[g]
  BY <1>2, EntryReplaced DEF Advanced, Recorded
<1>7. /\ state.entry[p] \in {None, 0} /\ starts[p] \in {None, 0} /\ cursors[p] \in Nat \cup {None}
      /\ cursors[p] # None <=> starts[p] # None
  BY <1>1, Numbers DEF NewOK, FromItsBeginning, Ground, InShape
<1>8. PICK g \in GlobsFor(p) : disk.moment[g] # None /\ born[p] >= disk.moment[g] * Second
  BY DEF New
<1>9. g \in ToSet(files) \cap Globs /\ GlobsFor(p)' = GlobsFor(p)
  BY DEF GlobsFor
<1>10. CASE disk' = Kept
  <2>1. disk'.entry[p] # None => disk'.entry[p] = 0
    BY <1>4, <1>7, <1>10 DEF WereRead, Contributing
  <2>2. disk'.entry[p] # None => Whole(p)'
    BY <2>1 DEF Whole
  <2>3. disk'.entry[p] = None => New(p)'
    BY <1>5, <1>8, <1>9, <1>10 DEF New
  <2> QED
    BY <2>2, <2>3
<1>11. CASE disk' = Advanced /\ Mails
  <2>1. CASE cursors[p] # None
    <3>1. disk'.entry[p] = cursors[p] /\ starts[p] = 0
      BY <1>3, <1>7, <1>11, <2>1 DEF WereRead
    <3>2. CASE cursors[p] > 0
      <4>1. mailed'[p] = (starts[p] + 1)..cursors[p]
        BY <1>11, <2>1, <3>1, <3>2 DEF Mails, Contributing, WereRead
      <4> QED
        BY <2>1, <3>1, <4>1 DEF Whole
    <3>3. CASE ~(cursors[p] > 0)
      BY <1>7, <2>1, <3>1, <3>3 DEF Whole
    <3> QED
      BY <3>2, <3>3
  <2>2. CASE cursors[p] = None /\ state.entry[p] # None
    <3>1. disk'.entry[p] = 0 /\ disk'.entry[p] # None
      BY <1>3, <1>7, <1>11, <2>2 DEF WereRead
    <3> QED
      BY <3>1 DEF Whole
  <2>3. CASE cursors[p] = None /\ state.entry[p] = None
    <3>1. disk'.entry[p] = None
      BY <1>3, <1>11, <2>3 DEF WereRead
    <3>2. CASE g \notin seen
      BY <1>6, <1>8, <1>9, <1>11, <3>1, <3>2 DEF New
    <3>3. CASE g \in seen
      <4>1. g \notin globsOf[p]
        BY <1>1, <1>2, <1>8, <2>3, <3>3 DEF NewOK, OpenedOrWaiting
      <4>2. born[p] # None /\ born[p] >= began
        BY <3>3, <4>1 DEF NewOK, SeenOrLater, New
      <4>3. began \in Nat /\ born[p] \in Nat
        BY <1>1, <4>2, FilesAssumption DEF Ground, TypeOK, Running
      <4>4. Moment(began) \in Nat /\ Moment(began) * Second <= began
        BY <4>3, MomentIsBefore
      <4>5. Moment(began) * Second \in Nat /\ Moment(began) # None
        <5>1. Second \in Nat
          BY FilesAssumption
        <5> QED
          BY <4>4, <5>1, FilesAssumption
      <4>6. born[p] >= Moment(began) * Second
        BY <4>2, <4>3, <4>4, <4>5
      <4> QED
        BY <1>6, <1>9, <1>11, <3>1, <3>3, <4>2, <4>5, <4>6 DEF New
    <3> QED
      BY <3>2, <3>3
  <2> QED
    BY <2>1, <2>2, <2>3
<1> QED
  BY <1>10, <1>11

LEMMA NewStep ==
  ASSUME Ground, NewOK, [Next]_vars, NEW p \in Paths, New(p), edits' = edits
  PROVE  New(p)' \/ Whole(p)'
<1> USE DEF around, reach, inRun, history
<1>1. ~Edit /\ ~ResetOne /\ ~ResetAll
  <2>1. edits \in Nat
    BY FilesAssumption DEF Ground, TypeOK
  <2>2. edits' # edits + 1
    BY <2>1
  <2> QED
    BY <2>2 DEF Edit, ResetOne, ResetAll, Reset
<1>2. CASE Accepted \/ Refused
  <2>1. AllRead /\ files' = files /\ born' = born
    BY <1>2 DEF Accepted, Refused
  <2>2. (disk' = Advanced /\ Mails) \/ disk' = Kept
    BY <1>2 DEF Accepted, Refused, Saved
  <2> QED
    BY <2>1, <2>2, SavedNew
<1>3. ASSUME disk' = disk, files' = files, born'[p] = born[p] PROVE New(p)'
  BY <1>3 DEF New, GlobsFor
<1>4. CASE World
  <2>1. disk' = disk /\ files' = files
    BY <1>1, <1>4, WorldLeaves DEF World, Tick, Appear, Write, Bar, Unbar, Leave, Return
  <2>2. born'[p] = born[p]
    BY <1>1, <1>4 DEF World, Tick, Appear, Write, Bar, Unbar, Leave, Return, New, Ground, TypeOK
  <2> QED
    BY <1>3, <2>1, <2>2
<1>5. CASE \/ \E at \in since..now : StartRun(at)
           \/ Expand \/ Judge \/ OpenFails \/ Absent \/ Read \/ ReadFails \/ SaveFails \/ Kill
           \/ UNCHANGED vars
  <2>1. UNCHANGED <<disk, files, born>>
    BY <1>5 DEF StartRun, Expand, Judge, OpenFails, Absent, Read, ReadFails, SaveFails, Kill, vars
  <2> QED
    BY <1>3, <2>1
<1> QED
  BY <1>1, <1>2, <1>4, <1>5 DEF Next, World

\* A new file is new until it is read from its beginning: no saved state moves the moments
\* past it or first-sights it at its end, whatever could not be opened, read, sent or saved
\* (_files, _new_file, _section, _pin_first_sight; issues #18, #31, #69).
THEOREM NewIsKeptNew == ASSUME StillWorld PROVE Spec => NewStaysNew
<1>1. Init => NewOK
  <2> SUFFICES ASSUME Init PROVE NewOK
    OBVIOUS
  <2>1. ~Running /\ seen = {} /\ \A p \in Paths : globsOf[p] = {}
    BY DEF Init, Running, NoGlobs
  <2> QED
    BY <2>1 DEF NewOK, RestOK, FromExpanded, AllOrNone, SeenOrLater, OpenedOrWaiting,
                FromItsBeginning, Listing
<1>2. Spec => []Ground
  BY InitGround, GroundKept, PTL DEF Spec
<1>3. Ground /\ Ground' /\ NewOK /\ [Next]_vars => NewOK'
  BY NewKept
<1>4. Ground /\ NewOK /\ [Next]_vars =>
        [\A p \in Paths : New(p) /\ edits' = edits => New(p)' \/ Whole(p)']_vars
  BY NewStep
<1> QED
  BY <1>1, <1>2, <1>3, <1>4, PTL DEF Spec, NewStaysNew
=============================================================================
