--------------------------- MODULE LockLineProofs ---------------------------
(***************************************************************************)
(* What holds of LockLine for every number of processes and state files,   *)
(* every cap, every lock_stale of a tick at least and every number of      *)
(* mishaps, checked by TLAPS.                                              *)
(***************************************************************************)
EXTENDS LockLine, FiniteSetTheorems, TLAPS

-----------------------------------------------------------------------------
(* The inductive invariant *)

\* The flock is had by one process, and who has it is who is past it; the moment in its words is
\* the one it took it at, and that is no tick ago while it has written nothing.
Holding ==
  /\ \A p \in Procs : pc[p] \in Owning <=> holder = p
  /\ taken <= now
  /\ \A p \in Procs : pc[p] \in Owning => info[p] = taken
  /\ \A p \in Procs : pc[p] \in Lineless => taken = now

\* The line a process is writing is that of its words and of the markers it knows.
Writing ==
  \A p \in Procs : pc[p] \in {"carrying", "writing", "cutting"} => to[p] = Line(p, info[p], known[p])

\* Of a marker, what a holder knows is what was recorded, or nothing where the cap has cut one;
\* its own it may have changed, and not written yet.
Knowing ==
  \A p \in Procs : pc[p] \in Owning \ {"locked"} =>
    \A n \in Names :
      \/ n = KeyOf[p] /\ pc[p] \in {"writing", "held"}
      \/ /\ known[p][n] \in {None, marked[n]}
         /\ ~overlong => known[p][n] = marked[n]

\* Until a line has been carried past the cap, a holder's line is within it.
Room ==
  \A p \in Procs : pc[p] \in {"writing", "cutting", "held"} /\ ~overlong =>
    WidthOf[p] + Cardinality(Named(known[p])) + 1 <= Cap

\* The moment on the line is the last holder's, once that has written its line; it still is when
\* the lock was let go, for a run that has been turned away and was given no excuse.
Dated ==
  /\ \A p \in Procs : pc[p] \in Owning \ Lineless => ReadHolder(file) = taken
  /\ holder = None =>
       \A p \in Procs : pc[p] \in {"busy", "confirming"} /\ ~excused[p] => ReadHolder(file) = taken

\* What a run turned away knows of its holder before it reads the line, ...
Busy ==
  \A p \in Procs : pc[p] = "busy" =>
    IF stuck[p] THEN holder = by[p] /\ taken < now => now - taken > Stale
    ELSE now - taken <= Stale

\* ... and after it has read it once: a line older than that of the holder it met, which is
\* then one that has just taken the lock; or that of a holder which is stuck.
Confirming ==
  \A p \in Procs : pc[p] = "confirming" =>
    /\ seenAt[p] <= now /\ now <= seenAt[p] + 1
    /\ stuck[p] => (holder = by[p] /\ taken < seenAt[p] => now - taken > Stale)
    /\ ~stuck[p] /\ ~excused[p] =>
         /\ taken >= seenAt[p]
         /\ now > seenAt[p] => ReadHolder(file) \in Int /\ ReadHolder(file) >= seenAt[p]

\* A run turned away was turned away by a process, and has read the line by now.
Seen ==
  \A p \in Procs :
    /\ seenAt[p] <= now
    /\ pc[p] \in {"busy", "confirming", "stale", "quiet"} => by[p] \in Procs

LineInv ==
  /\ TypeOK /\ MarkersKept /\ StaleIsStale /\ StuckIsNoticed
  /\ Holding /\ Writing /\ Knowing /\ Room /\ Dated /\ Busy /\ Confirming /\ Seen

-----------------------------------------------------------------------------
(* The line *)

\* The markers of a line are those of the state files named, and any part of them is finite.
LEMMA NamedFinite ==
  ASSUME NEW marks \in Markers
  PROVE  /\ Named(marks) \subseteq Names
         /\ IsFiniteSet(Named(marks))
         /\ Cardinality(Named(marks)) \in Nat
<1>1. Named(marks) \subseteq Names
  BY DEF Named
<1> QED
  BY <1>1, LineAssumption, FS_Subset, FS_CardinalityType DEF LineAssumption

\* Of some of the names, each has a rank of its own, and there is one of every rank.
LEMMA Ranks ==
  ASSUME NEW named, named \subseteq Names
  PROVE  LET k == Cardinality(named)
             rank(n) == Cardinality({m \in named : m <= n})
         IN  /\ \A n \in named : rank(n) \in 1..k
             /\ \A n, o \in named : rank(n) = rank(o) => n = o
             /\ \A i \in 1..k : \E n \in named : rank(n) = i
<1> DEFINE k == Cardinality(named)
           upto(n) == {m \in named : m <= n}
           rank == [n \in named |-> Cardinality(upto(n))]
<1>1. named \subseteq Nat /\ IsFiniteSet(named) /\ k \in Nat
  BY LineAssumption, FS_Subset, FS_CardinalityType DEF LineAssumption
<1>2. ASSUME NEW n \in named
      PROVE  IsFiniteSet(upto(n)) /\ Cardinality(upto(n)) \in 1..k
  <2>1. upto(n) \in SUBSET named /\ upto(n) # {}
    BY <1>1
  <2>2. IsFiniteSet(upto(n)) /\ Cardinality(upto(n)) <= k
    BY <2>1, <1>1, FS_Subset
  <2>3. Cardinality(upto(n)) \in Nat /\ Cardinality(upto(n)) # 0
    BY <2>1, <2>2, FS_CardinalityType, FS_EmptySet
  <2> QED
    BY <2>2, <2>3, <1>1
<1>3. ASSUME NEW n \in named, NEW o \in named, n < o
      PROVE  Cardinality(upto(n)) # Cardinality(upto(o))
  <2>0. n \in Nat /\ o \in Nat /\ n <= o /\ ~(o <= n)
    BY <1>1, <1>3
  <2>1. \A m \in named : m <= n => m <= o
    BY <1>1, <2>0
  <2>2. upto(n) \in SUBSET upto(o)
    BY <2>1
  <2>3. o \in upto(o) /\ o \notin upto(n)
    BY <2>0
  <2> QED
    BY <2>2, <2>3, <1>2, FS_Subset
<1>4. \A n, o \in named : rank[n] = rank[o] => n = o
  BY <1>1, <1>3
<1>5. rank \in Injection(named, 1..k)
  BY <1>2, <1>4 DEF Injection, IsInjective
<1>6. IsFiniteSet(1..k) /\ Cardinality(1..k) = k
  BY <1>1, FS_Interval
<1>7. rank \in Surjection(named, 1..k)
  BY <1>5, <1>6, FS_Injection
<1>8. \A i \in 1..k : \E n \in named : rank[n] = i
  BY <1>7 DEF Surjection
<1> QED
  BY <1>2, <1>4, <1>8

\* The markers of a line: one for each state file it carries one for, of the size that has.
LEMMA InNameOrder ==
  ASSUME NEW named, named \subseteq Names, NEW marks, \A n \in named : marks[n] \in Sizes
  PROVE  LET cells == ByName(named, marks)
             k == Cardinality(named)
         IN  /\ cells \in [1..k -> [is : {"marker"}, name : named, size : Sizes]]
             /\ \A i \in 1..k : cells[i].size = marks[cells[i].name]
             /\ \A n \in named : \E i \in 1..k : cells[i].name = n
<1> DEFINE cells == ByName(named, marks)
           k == Cardinality(named)
           rank(n) == Cardinality({m \in named : m <= n})
           nth(i) == CHOOSE n \in named : rank(n) = i
<1>1. /\ \A n \in named : rank(n) \in 1..k
      /\ \A n, o \in named : rank(n) = rank(o) => n = o
      /\ \A i \in 1..k : \E n \in named : rank(n) = i
  BY Ranks
<1>2. cells = [i \in 1..k |-> [is |-> "marker", name |-> nth(i), size |-> marks[nth(i)]]]
  BY DEF ByName
<1> HIDE DEF cells, k, rank
<1>3. \A i \in 1..k : nth(i) \in named /\ rank(nth(i)) = i
  BY <1>1
<1>4. \A n \in named : rank(n) \in 1..k /\ nth(rank(n)) = n
  BY <1>1, <1>3
<1> HIDE DEF nth
<1>5. \A i \in 1..k : cells[i] = [is |-> "marker", name |-> nth(i), size |-> marks[nth(i)]]
  BY <1>2
<1>6. \A i \in 1..k : /\ cells[i] \in [is : {"marker"}, name : named, size : Sizes]
                      /\ cells[i].name = nth(i) /\ cells[i].size = marks[nth(i)]
  <2> SUFFICES ASSUME NEW i \in 1..k
               PROVE  /\ cells[i] \in [is : {"marker"}, name : named, size : Sizes]
                      /\ cells[i].name = nth(i) /\ cells[i].size = marks[nth(i)]
    OBVIOUS
  <2>1. PICK n \in named : n = nth(i)
    BY <1>3
  <2>2. cells[i] = [is |-> "marker", name |-> n, size |-> marks[n]]
    BY <1>5, <2>1
  <2>3. marks[n] \in Sizes
    OBVIOUS
  <2> QED
    BY <2>1, <2>2, <2>3
<1>7. cells \in [1..k -> [is : {"marker"}, name : named, size : Sizes]]
  BY <1>2, <1>6
<1>8. \A i \in 1..k : cells[i].size = marks[cells[i].name]
  BY <1>6, Zenon
<1>9. ASSUME NEW n \in named
      PROVE  \E i \in 1..k : cells[i].name = n
  <2>1. PICK i \in 1..k : i = rank(n)
    BY <1>4
  <2>2. nth(i) = n
    BY <1>4, <2>1
  <2>3. cells[i].name = nth(i)
    BY <1>6
  <2> QED
    BY <2>2, <2>3
<1> QED
  BY <1>7, <1>8, <1>9, SMTT(30) DEF cells, k

\* What a line is: as many cells of the holder as its PID is wide, its markers, and a newline,
\* the first.
IsLine(line, p, at, marks) ==
  LET w == WidthOf[p]
      k == Cardinality(Named(marks))
  IN  /\ w \in Nat \ {0} /\ k \in Nat
      /\ line \in Seq(Cell) /\ Len(line) = w + k + 1
      /\ \A i \in 1..w : line[i] = [is |-> "holder", at |-> at]
      /\ \A i \in w+1..w+k : /\ line[i].is = "marker" /\ line[i].name \in Names
                             /\ line[i].size = marks[line[i].name]
      /\ \A n \in Named(marks) : \E i \in w+1..w+k : line[i].name = n
      /\ line[w + k + 1] = NL

\* What Line returns is one.
LEMMA LineIs ==
  ASSUME NEW p \in Procs, NEW at \in 0..MaxNow, NEW marks \in Markers
  PROVE  IsLine(Line(p, at, marks), p, at, marks)
<1> DEFINE w == WidthOf[p]
           k == Cardinality(Named(marks))
           front == [i \in 1..w |-> [is |-> "holder", at |-> at]]
           cells == ByName(Named(marks), marks)
           line == Line(p, at, marks)
<1>1. w \in Nat \ {0} /\ k \in Nat /\ Named(marks) \subseteq Names
  BY NamedFinite, LineAssumption DEF LineAssumption
<1>2. \A n \in Named(marks) : marks[n] \in Sizes
  BY DEF Named, Markers
<1>3. /\ cells \in [1..k -> [is : {"marker"}, name : Named(marks), size : Sizes]]
      /\ \A i \in 1..k : cells[i].size = marks[cells[i].name]
      /\ \A n \in Named(marks) : \E i \in 1..k : cells[i].name = n
  BY <1>1, <1>2, InNameOrder
<1>4. line = front \o cells \o <<NL>>
  BY DEF Line
<1> HIDE DEF w, k, cells, line
<1>5. front \in Seq(Cell) /\ Len(front) = w
  BY <1>1 DEF Cell
<1>6. cells \in Seq(Cell) /\ Len(cells) = k
  <2>1. \A i \in 1..k : cells[i] \in Cell
    BY <1>1, <1>3 DEF Cell
  <2>2. cells \in [1..k -> Cell]
    BY <1>3, <2>1
  <2> QED
    BY <1>1, <2>2
<1>7. <<NL>> \in Seq(Cell) /\ Len(<<NL>>) = 1 /\ <<NL>>[1] = NL
  BY DEF Cell
<1> HIDE DEF front
<1>8. /\ line \in Seq(Cell) /\ Len(line) = w + k + 1
      /\ \A i \in 1..w : line[i] = front[i]
      /\ \A i \in 1..k : line[w + i] = cells[i]
      /\ line[w + k + 1] = NL
  <2> DEFINE both == front \o cells
  <2>1. both \in Seq(Cell) /\ Len(both) = w + k
    BY <1>1, <1>5, <1>6
  <2>2. /\ \A i \in 1..w : both[i] = front[i]
        /\ \A i \in 1..k : both[w + i] = cells[i]
    BY <1>1, <1>5, <1>6
  <2>3. line = both \o <<NL>>
    BY <1>4
  <2> HIDE DEF both
  <2>4. /\ line \in Seq(Cell) /\ Len(line) = w + k + 1
        /\ \A i \in 1..w+k : line[i] = both[i]
        /\ line[w + k + 1] = NL
    BY <1>1, <1>7, <2>1, <2>3
  <2>5. \A i \in 1..w : line[i] = front[i]
    BY <1>1, <2>2, <2>4
  <2>6. ASSUME NEW i \in 1..k
        PROVE  line[w + i] = cells[i]
    <3>1. w + i \in 1..w+k
      BY <1>1
    <3> QED
      BY <2>2, <2>4, <3>1
  <2> QED
    BY <2>4, <2>5, <2>6
<1>9. \A i \in 1..w : line[i] = [is |-> "holder", at |-> at]
  BY <1>8 DEF front
<1>10. ASSUME NEW i \in w+1..w+k
       PROVE  /\ line[i].is = "marker" /\ line[i].name \in Names
              /\ line[i].size = marks[line[i].name]
  <2>1. i - w \in 1..k /\ w + (i - w) = i
    BY <1>1
  <2>2. line[i] = cells[i - w]
    BY <1>8, <2>1
  <2> QED
    BY <1>1, <1>3, <2>1, <2>2
<1>11. ASSUME NEW n \in Named(marks)
       PROVE  \E i \in w+1..w+k : line[i].name = n
  <2>1. PICK i \in 1..k : cells[i].name = n
    BY <1>3
  <2>2. w + i \in w+1..w+k /\ line[w + i] = cells[i]
    BY <1>1, <1>8
  <2> QED
    BY <2>1, <2>2
<1> QED
  BY <1>1, <1>8, <1>9, <1>10, <1>11 DEF w, k, line, IsLine

\* What is read of cells that begin with a line: the line without its newline, or the part of it
\* within the cap.
Begins(cells, line) ==
  /\ cells \in Seq(Cell)
  /\ Len(line) <= Len(cells)
  /\ \A i \in 1..Len(line) : cells[i] = line[i]

LEMMA FirstLineIs ==
  ASSUME NEW p \in Procs, NEW at \in 0..MaxNow, NEW marks \in Markers, NEW line,
         IsLine(line, p, at, marks), NEW cells, Begins(cells, line)
  PROVE  FirstLine(cells) = IF Len(line) <= Cap
                            THEN [line |-> SubSeq(cells, 1, Len(line) - 1), cut |-> FALSE]
                            ELSE [line |-> SubSeq(cells, 1, Cap), cut |-> TRUE]
<1> DEFINE w == WidthOf[p]
           k == Cardinality(Named(marks))
           len == IF Len(cells) < Cap THEN Len(cells) ELSE Cap
           read == SubSeq(cells, 1, len)
           ends == {i \in DOMAIN read : read[i] = NL}
<1>1. /\ w \in Nat \ {0} /\ k \in Nat /\ Len(line) = w + k + 1
      /\ \A i \in 1..w : line[i] = [is |-> "holder", at |-> at]
      /\ \A i \in w+1..w+k : line[i].is = "marker"
      /\ line[w + k + 1] = NL
  BY DEF IsLine
<1>2. cells \in Seq(Cell) /\ Len(line) <= Len(cells) /\ \A i \in 1..Len(line) : cells[i] = line[i]
  BY DEF Begins
<1> HIDE DEF w, k
<1>3. ASSUME NEW i \in 1..w+k
      PROVE  line[i] # NL
  <2>1. i \in 1..w \/ i \in w+1..w+k
    BY <1>1
  <2>2. line[i].is = "holder" \/ line[i].is = "marker"
    BY <1>1, <2>1
  <2> QED
    BY <2>2 DEF NL
<1>4. Cap \in Nat \ {0} /\ len \in Nat /\ len <= Len(cells) /\ len <= Cap
  BY <1>2, LineAssumption DEF LineAssumption
<1>5. FirstLine(cells) =
        IF ends = {} THEN [line |-> read, cut |-> Len(read) >= Cap]
        ELSE [line |-> SubSeq(read, 1, (CHOOSE i \in ends : \A j \in ends : i <= j) - 1), cut |-> FALSE]
  BY DEF FirstLine
<1>6. \A i \in 1..w+k+1 : cells[i] = line[i]
  BY <1>1, <1>2
<1>7. w + k + 1 <= Len(cells)
  BY <1>1, <1>2
<1>8. /\ Len(read) = len /\ DOMAIN read = 1..len
      /\ \A i \in 1..len : read[i] = cells[i]
  BY <1>2, <1>4
<1> HIDE DEF read
<1>9. CASE w + k + 1 <= Cap
  <2>1. w + k + 1 \in 1..len
    BY <1>1, <1>4, <1>7, <1>9
  <2>2. w + k + 1 \in ends
    BY <1>1, <1>6, <1>8, <2>1
  <2>3. \A j \in ends : w + k + 1 <= j
    BY <1>1, <1>3, <1>4, <1>6, <1>8
  <2>4. \A j \in ends : j \in Nat
    BY <1>4, <1>8
  <2> HIDE DEF ends
  <2>5. (CHOOSE i \in ends : \A j \in ends : i <= j) = w + k + 1
    BY <1>1, <2>2, <2>3, <2>4
  <2>6. SubSeq(read, 1, w + k) = SubSeq(cells, 1, w + k)
    BY <1>1, <1>2, <1>4, <2>1 DEF read
  <2>7. FirstLine(cells) = [line |-> SubSeq(read, 1, (w + k + 1) - 1), cut |-> FALSE]
    BY <1>5, <2>2, <2>5, Zenon
  <2>8. (w + k + 1) - 1 = w + k
    BY <1>1
  <2>9. FirstLine(cells) = [line |-> SubSeq(cells, 1, Len(line) - 1), cut |-> FALSE]
    BY <1>1, <2>6, <2>7, <2>8, Zenon
  <2> QED
    BY <1>1, <1>9, <2>9
<1>10. CASE w + k + 1 > Cap
  <2>1. len = Cap
    BY <1>1, <1>4, <1>7, <1>10
  <2>2. ends = {}
    BY <1>1, <1>3, <1>4, <1>6, <1>8, <1>10, <2>1
  <2>3. FirstLine(cells) = [line |-> read, cut |-> Len(read) >= Cap]
    BY <1>5, <2>2, Zenon
  <2>4. (Len(read) >= Cap) = TRUE
    BY <1>4, <1>8, <2>1
  <2>5. read = SubSeq(cells, 1, Cap)
    BY <2>1 DEF read
  <2>6. FirstLine(cells) = [line |-> SubSeq(cells, 1, Cap), cut |-> TRUE]
    BY <2>3, <2>4, <2>5, Zenon
  <2>7. ~(Len(line) <= Cap)
    BY <1>1, <1>4, <1>10
  <2> QED
    BY <2>6, <2>7, Zenon
<1> QED
  BY <1>1, <1>4, <1>9, <1>10

\* The moment on the line is the one in its holder's words.
LEMMA HolderRead ==
  ASSUME NEW p \in Procs, NEW at \in 0..MaxNow, NEW marks \in Markers, NEW line,
         IsLine(line, p, at, marks), NEW cells, Begins(cells, line)
  PROVE  ReadHolder(cells) = at
<1> DEFINE first == FirstLine(cells)
<1>1. /\ WidthOf[p] \in Nat \ {0} /\ Len(line) \in Nat /\ Len(line) > WidthOf[p]
      /\ line[1] = [is |-> "holder", at |-> at]
  BY DEF IsLine
<1>2. cells \in Seq(Cell) /\ Len(line) <= Len(cells) /\ cells[1] = line[1]
  BY <1>1 DEF Begins
<1>3. Cap \in Nat \ {0}
  BY LineAssumption DEF LineAssumption
<1>4. \E n \in 1..Len(cells) : first.line = SubSeq(cells, 1, n)
  BY <1>1, <1>2, <1>3, FirstLineIs
<1>5. first.line # <<>> /\ first.line[1] = cells[1]
  BY <1>2, <1>4
<1> QED
  BY <1>1, <1>2, <1>5 DEF ReadHolder

\* The markers on the line are those it was written with; past the cap, those or none.
LEMMA MarkersRead ==
  ASSUME NEW p \in Procs, NEW at \in 0..MaxNow, NEW marks \in Markers, NEW line,
         IsLine(line, p, at, marks), NEW cells, Begins(cells, line)
  PROVE  /\ ReadMarkers(cells) \in Markers
         /\ \A n \in Names : ReadMarkers(cells)[n] \in {None, marks[n]}
         /\ Len(line) <= Cap => ReadMarkers(cells) = marks
<1> DEFINE w == WidthOf[p]
           k == Cardinality(Named(marks))
           first == FirstLine(cells)
           read == first.line
           triplets == {i \in DOMAIN read : read[i].is = "marker"}
           whole == {i \in triplets : first.cut => \E j \in triplets : i < j}
           of(n) == {i \in whole : read[i].name = n}
           len == IF Len(line) <= Cap THEN w + k ELSE Cap
<1>1. /\ w \in Nat \ {0} /\ k \in Nat /\ Len(line) = w + k + 1
      /\ \A i \in 1..w : line[i].is = "holder"
      /\ \A i \in w+1..w+k : line[i].is = "marker" /\ line[i].size = marks[line[i].name]
      /\ \A n \in Named(marks) : \E i \in w+1..w+k : line[i].name = n
  BY DEF IsLine
<1>2. cells \in Seq(Cell) /\ Len(line) <= Len(cells) /\ \A i \in 1..Len(line) : cells[i] = line[i]
  BY DEF Begins
<1>3. Cap \in Nat \ {0}
  BY LineAssumption DEF LineAssumption
<1>4. read = SubSeq(cells, 1, len) /\ (Len(line) <= Cap => ~first.cut)
  BY <1>1, FirstLineIs
<1>5. ReadMarkers(cells) =
        [n \in Names |-> IF of(n) = {} THEN None ELSE read[CHOOSE i \in of(n) : TRUE].size]
  BY DEF ReadMarkers
<1> HIDE DEF w, k, read
<1>6. len \in Nat /\ len <= w + k
  BY <1>1, <1>3
<1>7. DOMAIN read = 1..len /\ \A i \in 1..len : read[i] = line[i]
  BY <1>1, <1>2, <1>4, <1>6
<1>8. \A i \in triplets : i \in w+1..w+k /\ read[i].size = marks[read[i].name]
  <2> SUFFICES ASSUME NEW i \in triplets
               PROVE  i \in w+1..w+k /\ read[i].size = marks[read[i].name]
    OBVIOUS
  <2>1. i \in 1..len /\ read[i].is = "marker" /\ read[i] = line[i]
    BY <1>7
  <2>2. i \notin 1..w
    BY <1>1, <2>1
  <2>3. i \in w+1..w+k
    BY <1>1, <1>6, <2>1, <2>2
  <2> QED
    BY <1>1, <2>1, <2>3
<1>9. ASSUME NEW n \in Names
      PROVE  /\ of(n) = {} => ReadMarkers(cells)[n] = None
             /\ of(n) # {} => ReadMarkers(cells)[n] = marks[n]
  <2>1. of(n) = {} => ReadMarkers(cells)[n] = None
    BY <1>5
  <2>2. ASSUME of(n) # {}
        PROVE  ReadMarkers(cells)[n] = marks[n]
    <3>1. PICK i : i = (CHOOSE j \in of(n) : TRUE)
      OBVIOUS
    <3>2. i \in of(n)
      BY <2>2, <3>1
    <3>3. ReadMarkers(cells)[n] = read[i].size
      BY <1>5, <2>2, <3>1
    <3> QED
      BY <1>8, <3>2, <3>3
  <2> QED
    BY <2>1, <2>2
<1>10. \A n \in Names : ReadMarkers(cells)[n] \in {None, marks[n]}
  BY <1>9
<1>11. ReadMarkers(cells) \in Markers
  <2>1. \A n \in Names : ReadMarkers(cells)[n] \in Sizes \cup {None}
    BY <1>10 DEF Markers
  <2> QED
    BY <1>5, <2>1 DEF Markers
<1>12. ASSUME Len(line) <= Cap
       PROVE  ReadMarkers(cells) = marks
  <2>1. ASSUME NEW n \in Names, marks[n] # None
        PROVE  of(n) # {}
    <3>1. PICK i \in w+1..w+k : line[i].name = n
      BY <1>1, <2>1 DEF Named
    <3>2. i \in 1..len /\ line[i].is = "marker"
      BY <1>1, <1>12, <3>1
    <3>3. i \in triplets /\ read[i].name = n
      BY <1>7, <3>1, <3>2
    <3>4. i \in of(n)
      BY <1>4, <1>12, <3>3
    <3> QED
      BY <3>4
  <2>2. \A n \in Names : ReadMarkers(cells)[n] = marks[n]
    BY <1>9, <2>1
  <2> QED
    BY <1>5, <2>2 DEF Markers
<1> QED
  BY <1>10, <1>11, <1>12

\* A file a line has been written over begins with it, and so does one that was cut to it.
LEMMA OverBegins ==
  ASSUME NEW p \in Procs, NEW at \in 0..MaxNow, NEW marks \in Markers, NEW line,
         IsLine(line, p, at, marks), NEW cells \in Seq(Cell)
  PROVE  Begins(Over(line, cells), line) /\ Begins(line, line)
<1> DEFINE tail == SubSeq(cells, Len(line) + 1, Len(cells))
<1>1. line \in Seq(Cell) /\ Len(line) \in Nat
  BY DEF IsLine
<1>2. tail \in Seq(Cell)
  BY <1>1
<1>3. Over(line, cells) = line \o tail
  BY DEF Over
<1> HIDE DEF tail
<1> QED
  BY <1>1, <1>2, <1>3 DEF Begins

-----------------------------------------------------------------------------
(* Types *)

\* What is read of any file of which MarkersKept holds are markers.
LEMMA MarkersTyped ==
  ASSUME MarkersKept, marked \in Markers
  PROVE  ReadMarkers(file) \in Markers
<1>1. \A n \in Names : ReadMarkers(file)[n] \in Sizes \cup {None}
  BY DEF MarkersKept, Markers
<1>2. ReadMarkers(file) = [n \in Names |-> ReadMarkers(file)[n]]
  BY DEF ReadMarkers
<1> QED
  BY <1>1, <1>2 DEF Markers

LEMMA LineTyped ==
  ASSUME NEW p \in Procs, NEW at \in 0..MaxNow, NEW marks \in Markers
  PROVE  Line(p, at, marks) \in Seq(Cell)
  BY LineIs DEF IsLine

LEMMA OverTyped ==
  ASSUME NEW line \in Seq(Cell), NEW cells \in Seq(Cell)
  PROVE  Over(line, cells) \in Seq(Cell)
<1>1. SubSeq(cells, Len(line) + 1, Len(cells)) \in Seq(Cell)
  OBVIOUS
<1> QED
  BY <1>1 DEF Over

\* Every step keeps every variable in its type.
LEMMA TypeStep ==
  ASSUME TypeOK, MarkersKept, [Next]_vars
  PROVE  TypeOK'
<1> USE LineAssumption DEF LineAssumption, TypeOK
<1>1. CASE Tick
  BY <1>1 DEF Tick, own, turned
<1> SUFFICES ASSUME NEW p \in Procs,
                    \/ Take(p) \/ Carry(p) \/ WriteLine(p) \/ CutLine(p)
                    \/ \E size \in Sizes : Mark(p, size)
                    \/ Unmark(p) \/ Release(p) \/ Kill(p) \/ RefuseLine(p)
                    \/ TurnAway(p) \/ FirstRead(p) \/ Confirm(p) \/ Leave(p)
             PROVE  TypeOK'
  <2>1. CASE UNCHANGED vars
    BY <2>1 DEF vars, own, turned
  <2> QED
    BY <1>1, <2>1 DEF Next
<1>2. CASE Take(p)
  BY <1>2 DEF Take, own, turned, PCs
<1>3. CASE Carry(p)
  <2>1. ReadMarkers(file) \in Markers
    BY MarkersTyped
  <2>2. Line(p, info[p], ReadMarkers(file)) \in Seq(Cell)
    BY <2>1, LineTyped
  <2> QED
    BY <1>3, <2>1, <2>2 DEF Carry, own, turned, PCs
<1>4. CASE WriteLine(p)
  <2>1. Over(to[p], file) \in Seq(Cell)
    BY OverTyped
  <2>2. marked' \in Markers
    <3>1. known[p] \in Markers /\ marked \in Markers /\ KeyOf[p] \in Names
      OBVIOUS
    <3>2. marked' = marked \/ marked' = [marked EXCEPT ![KeyOf[p]] = known[p][KeyOf[p]]]
      BY <1>4 DEF WriteLine
    <3> QED
      BY ONLY <3>1, <3>2 DEF Markers
  <2>3. overlong' \in BOOLEAN
    BY <1>4 DEF WriteLine
  <2> QED
    BY <1>4, <2>1, <2>2, <2>3 DEF WriteLine, own, turned, PCs
<1>5. CASE CutLine(p)
  BY <1>5 DEF CutLine, own, turned, PCs
<1>6. ASSUME NEW size \in Sizes, Mark(p, size)
      PROVE  TypeOK'
  <2>1. known' \in [Procs -> Markers]
    BY <1>6 DEF Mark, Markers
  <2>2. Line(p, info[p], known'[p]) \in Seq(Cell)
    BY <2>1, LineTyped
  <2> QED
    BY <1>6, <2>1, <2>2 DEF Mark, turned, PCs
<1>7. CASE Unmark(p)
  <2>1. known' \in [Procs -> Markers]
    BY <1>7 DEF Unmark, Markers
  <2>2. Line(p, info[p], known'[p]) \in Seq(Cell)
    BY <2>1, LineTyped
  <2> QED
    BY <1>7, <2>1, <2>2 DEF Unmark, turned, PCs
<1>8. ASSUME LetGo(p)
      PROVE  /\ holder' \in Procs \cup {None} /\ pc' \in [Procs -> PCs]
             /\ known' \in [Procs -> Markers] /\ to' \in [Procs -> Seq(Cell)]
             /\ info' \in [Procs -> 0..MaxNow]
  <2>1. Clear \in Markers /\ <<>> \in Seq(Cell)
    BY DEF Clear, Markers
  <2> QED
    BY <1>8, <2>1 DEF LetGo, PCs
<1>9. CASE Release(p)
  BY <1>8, <1>9 DEF Release, turned
<1>10. CASE Kill(p)
  <2>1. excused' \in [Procs -> BOOLEAN]
    BY <1>10 DEF Kill
  <2>2. /\ holder' \in Procs \cup {None} /\ pc' \in [Procs -> PCs]
        /\ known' \in [Procs -> Markers] /\ to' \in [Procs -> Seq(Cell)]
        /\ info' \in [Procs -> 0..MaxNow]
    BY <1>8, <1>10 DEF Kill
  <2>3. /\ now' = now /\ file' = file /\ seenAt' = seenAt /\ by' = by /\ stuck' = stuck
        /\ marked' = marked /\ overlong' = overlong /\ taken' = taken
        /\ mishaps' \in 0..MaxMishaps
    BY <1>10 DEF Kill
  <2> QED
    BY <2>1, <2>2, <2>3
<1>11. CASE RefuseLine(p)
  <2>1. /\ now' = now /\ file' = file /\ seenAt' = seenAt /\ by' = by /\ stuck' = stuck
        /\ marked' = marked /\ overlong' = overlong /\ taken' = taken
        /\ mishaps < MaxMishaps /\ mishaps' = mishaps + 1
    BY <1>11, Zenon DEF RefuseLine
  <2>2. mishaps' \in 0..MaxMishaps
    BY <2>1, SMTT(30)
  <2>3. CASE LetGo(p) /\ excused' = [q \in Procs |-> TRUE]
    <3>1. /\ holder' \in Procs \cup {None} /\ pc' \in [Procs -> PCs]
          /\ known' \in [Procs -> Markers] /\ to' \in [Procs -> Seq(Cell)]
          /\ info' \in [Procs -> 0..MaxNow]
      BY <1>8, <2>3
    <3> QED
      BY <2>1, <2>2, <2>3, <3>1
  <2>4. CASE pc' = [pc EXCEPT ![p] = "held"] /\ UNCHANGED <<holder, own, excused>>
    BY <1>11, <2>4 DEF RefuseLine, own, PCs
  <2> QED
    BY <1>11, <2>3, <2>4 DEF RefuseLine
<1>12. CASE TurnAway(p)
  BY <1>12, SMTT(30) DEF TurnAway, own, PCs
<1>13. CASE FirstRead(p)
  BY <1>13 DEF FirstRead, own, PCs
<1>14. CASE Confirm(p)
  BY <1>14 DEF Confirm, own, turned, PCs
<1>15. CASE Leave(p)
  BY <1>15 DEF Leave, own, PCs
<1> QED
  BY <1>2, <1>3, <1>4, <1>5, <1>6, <1>7, <1>9, <1>10, <1>11, <1>12, <1>13, <1>14, <1>15

-----------------------------------------------------------------------------
(* The steps *)

\* A tick leaves no holder without its line.
LEMMA TickStep ==
  ASSUME LineInv, TypeOK', Tick
  PROVE  LineInv'
<1> USE DEF LineInv
<1>1. /\ UNCHANGED <<file, holder, pc, known, info, to, seenAt, by, stuck, excused>>
      /\ UNCHANGED <<marked, overlong, taken>>
      /\ now \in Int /\ now' = now + 1 /\ taken \in Int /\ seenAt \in [Procs -> Int]
  BY DEF Tick, own, turned, TypeOK
<1>2. \A p \in Procs : \/ pc[p] \in {"idle", "held", "stale", "quiet"}
                       \/ pc[p] = "confirming" /\ seenAt[p] = now
  BY DEF Tick
<1>3. MarkersKept' /\ StaleIsStale' /\ StuckIsNoticed' /\ Writing' /\ Knowing' /\ Room' /\ Dated'
  BY <1>1 DEF MarkersKept, StaleIsStale, StuckIsNoticed, Writing, Knowing, Room, Dated
<1>4. Holding'
  BY <1>1, <1>2 DEF Holding, Lineless, Owning
<1>5. Busy'
  BY <1>1, <1>2 DEF Busy
<1>6. Confirming'
  <2> SUFFICES ASSUME NEW p \in Procs, pc[p] = "confirming"
               PROVE  /\ seenAt[p] <= now' /\ now' <= seenAt[p] + 1
                      /\ stuck[p] => (holder = by[p] /\ taken < seenAt[p] => now' - taken > Stale)
                      /\ ~stuck[p] /\ ~excused[p] =>
                           /\ taken >= seenAt[p]
                           /\ ReadHolder(file) \in Int /\ ReadHolder(file) >= seenAt[p]
    BY <1>1 DEF Confirming
  <2>1. seenAt[p] = now
    BY <1>2
  <2>2. stuck[p] => (holder = by[p] /\ taken < seenAt[p] => now - taken > Stale)
    BY DEF Confirming
  <2>3. ~stuck[p] /\ ~excused[p] => taken >= seenAt[p]
    BY DEF Confirming
  <2>4. ASSUME ~excused[p]
        PROVE  ReadHolder(file) = taken
    <3>1. CASE holder = None
      BY <2>4, <3>1 DEF Dated
    <3>2. CASE holder # None
      <4>1. PICK q \in Procs : holder = q /\ pc[q] \in Owning
        BY <3>2 DEF Holding, TypeOK
      <4>2. pc[q] \in Owning \ Lineless
        BY <1>2, <4>1 DEF Owning, Lineless
      <4> QED
        BY <4>2 DEF Dated
    <3> QED
      BY <3>1, <3>2
  <2> QED
    BY <1>1, <2>1, <2>2, <2>3, <2>4, LineAssumption DEF LineAssumption
<1>7. Seen'
  BY <1>1 DEF Seen
<1> QED
  BY <1>3, <1>4, <1>5, <1>6, <1>7

\* A process that takes the lock takes it now.
LEMMA TakeStep ==
  ASSUME LineInv, TypeOK', NEW p \in Procs, Take(p)
  PROVE  LineInv'
<1> USE DEF LineInv
<1>1. /\ UNCHANGED <<now, file, known, to, seenAt, by, stuck, excused, marked, overlong>>
      /\ now \in Int /\ taken \in Int /\ taken' = now /\ seenAt \in [Procs -> Int]
      /\ pc[p] = "idle" /\ pc'[p] = "locked" /\ info'[p] = now
      /\ holder = None /\ holder' = p
      /\ \A q \in Procs \ {p} : pc'[q] = pc[q] /\ info'[q] = info[q]
  BY DEF Take, turned, TypeOK
<1>2. \A q \in Procs : pc[q] \notin Owning
  BY <1>1, LineAssumption DEF Holding, LineAssumption
<1>3. "locked" \in Owning /\ "locked" \in Lineless
  BY DEF Owning, Lineless
<1>4. MarkersKept'
  BY <1>1 DEF MarkersKept
<1>5. StaleIsStale'
  BY <1>1 DEF StaleIsStale
<1>6. StuckIsNoticed'
  BY <1>1 DEF StuckIsNoticed, Seen
<1>7. Holding'
  BY <1>1, <1>2, <1>3 DEF Holding, Lineless, Owning
<1>8. Writing' /\ Knowing' /\ Room'
  BY <1>1, <1>2 DEF Writing, Knowing, Room, Owning
<1>9. Dated'
  BY <1>1, <1>2, LineAssumption DEF Dated, Owning, Lineless, LineAssumption
<1>10. Busy'
  BY <1>1, LineAssumption DEF Busy, LineAssumption
<1>11. Confirming'
  BY <1>1 DEF Confirming, Seen
<1>12. Seen'
  BY <1>1 DEF Seen
<1> QED
  BY <1>4, <1>5, <1>6, <1>7, <1>8, <1>9, <1>10, <1>11, <1>12

\* What a holder carries is what it has read of the file.
LEMMA CarryStep ==
  ASSUME LineInv, TypeOK', NEW p \in Procs, Carry(p)
  PROVE  LineInv'
<1> USE DEF LineInv
<1>1. /\ UNCHANGED <<now, file, holder, info, seenAt, by, stuck, excused, marked, overlong, taken>>
      /\ pc[p] = "locked" /\ pc'[p] = "carrying"
      /\ known'[p] = ReadMarkers(file) /\ to'[p] = Line(p, info[p], ReadMarkers(file))
      /\ \A q \in Procs \ {p} : pc'[q] = pc[q] /\ known'[q] = known[q] /\ to'[q] = to[q]
  BY DEF Carry, turned, TypeOK
<1>2. MarkersKept' /\ StaleIsStale' /\ StuckIsNoticed' /\ Busy' /\ Confirming' /\ Seen'
  BY <1>1 DEF MarkersKept, StaleIsStale, StuckIsNoticed, Busy, Confirming, Seen
<1>3. Holding'
  BY <1>1 DEF Holding, Owning, Lineless
<1>4. Writing'
  BY <1>1 DEF Writing
<1>5. Knowing'
  BY <1>1 DEF Knowing, Owning, MarkersKept
<1>6. Room'
  BY <1>1 DEF Room
<1>7. Dated'
  BY <1>1 DEF Dated, Owning, Lineless
<1> QED
  BY <1>2, <1>3, <1>4, <1>5, <1>6, <1>7

\* What a file reads that begins with a holder's line, of the process that wrote it.
LEMMA LineRead ==
  ASSUME TypeOK, Writing, NEW p \in Procs, pc[p] \in {"carrying", "writing", "cutting"},
         NEW cells \in {Over(to[p], file), to[p]}
  PROVE  /\ ReadHolder(cells) = info[p]
         /\ ReadMarkers(cells) \in Markers
         /\ \A n \in Names : ReadMarkers(cells)[n] \in {None, known[p][n]}
         /\ WidthOf[p] + Cardinality(Named(known[p])) + 1 <= Cap => ReadMarkers(cells) = known[p]
         /\ Len(to[p]) = WidthOf[p] + Cardinality(Named(known[p])) + 1
<1>1. info[p] \in 0..MaxNow /\ known[p] \in Markers /\ file \in Seq(Cell)
  BY DEF TypeOK
<1>2. IsLine(to[p], p, info[p], known[p])
  BY <1>1, LineIs DEF Writing
<1>3. Begins(cells, to[p])
  BY <1>1, <1>2, OverBegins
<1>4. Len(to[p]) = WidthOf[p] + Cardinality(Named(known[p])) + 1
  BY <1>2 DEF IsLine
<1> QED
  BY <1>1, <1>2, <1>3, <1>4, HolderRead, MarkersRead

\* A line written over the file, of any length, is read to the markers its holder knows.
LEMMA WriteStep ==
  ASSUME LineInv, TypeOK', NEW p \in Procs, WriteLine(p)
  PROVE  LineInv'
<1> USE DEF LineInv
<1>1. /\ UNCHANGED <<now, holder, known, info, to, seenAt, by, stuck, excused, taken>>
      /\ pc[p] \in {"carrying", "writing"} /\ pc'[p] = "cutting"
      /\ file' = Over(to[p], file)
      /\ \A q \in Procs \ {p} : pc'[q] = pc[q]
  BY DEF WriteLine, own, turned, TypeOK
<1>2. /\ KeyOf[p] \in Names /\ known[p] \in Markers /\ marked \in Markers /\ marked' \in Markers
      /\ taken \in Int /\ overlong \in BOOLEAN
  BY LineAssumption DEF TypeOK, LineAssumption
<1>3. /\ pc[p] = "carrying" => marked' = marked
      /\ \A n \in Names : marked'[n] = IF pc[p] = "writing" /\ n = KeyOf[p] THEN known[p][n] ELSE marked[n]
  BY <1>2 DEF WriteLine, Markers
<1>4. /\ ~overlong' => ~overlong
      /\ pc[p] = "carrying" /\ ~overlong' => ~(Len(to[p]) > Cap)
  BY DEF WriteLine
<1>5. /\ holder = p /\ info[p] = taken
      /\ \A q \in Procs \ {p} : pc[q] \notin Owning
  BY <1>1 DEF Holding, Owning
<1>6. /\ ReadHolder(file') = taken
      /\ ReadMarkers(file') \in Markers
      /\ \A n \in Names : ReadMarkers(file')[n] \in {None, known[p][n]}
      /\ WidthOf[p] + Cardinality(Named(known[p])) + 1 <= Cap => ReadMarkers(file') = known[p]
      /\ Len(to[p]) = WidthOf[p] + Cardinality(Named(known[p])) + 1
  BY <1>1, <1>5, LineRead
<1>7. ~overlong' => WidthOf[p] + Cardinality(Named(known[p])) + 1 <= Cap
  <2>1. CASE pc[p] = "carrying"
    <3>1. Cardinality(Named(known[p])) \in Nat /\ WidthOf[p] \in Nat /\ Cap \in Nat
      BY <1>2, NamedFinite, LineAssumption DEF LineAssumption
    <3> QED
      BY <1>4, <1>6, <2>1, <3>1
  <2>2. CASE pc[p] = "writing"
    BY <1>4, <2>2 DEF Room
  <2> QED
    BY <1>1, <2>1, <2>2
<1>8. \A n \in Names : known[p][n] \in {None, marked'[n]} /\ (~overlong' => known[p][n] = marked'[n])
  BY <1>1, <1>3, <1>4 DEF Knowing, Owning
<1>9. MarkersKept'
  <2>1. \A n \in Names : ReadMarkers(file')[n] \in {None, marked'[n]}
    BY <1>6, <1>8
  <2>2. ASSUME ~overlong'
        PROVE  ReadMarkers(file') = marked'
    <3>1. ReadMarkers(file') = known[p]
      BY <1>6, <1>7, <2>2
    <3>2. \A n \in Names : known[p][n] = marked'[n]
      BY <1>8, <2>2
    <3> QED
      BY <1>2, <3>1, <3>2 DEF Markers
  <2> QED
    BY <2>1, <2>2 DEF MarkersKept
<1>10. StaleIsStale' /\ StuckIsNoticed' /\ Busy' /\ Seen'
  BY <1>1 DEF StaleIsStale, StuckIsNoticed, Busy, Seen
<1>11. Holding'
  BY <1>1, <1>5 DEF Holding, Owning, Lineless
<1>12. Writing'
  BY <1>1 DEF Writing
<1>13. Knowing'
  BY <1>1, <1>5, <1>8 DEF Knowing, Owning
<1>14. Room'
  BY <1>1, <1>5, <1>7 DEF Room, Owning
<1>15. Dated'
  BY <1>1, <1>5, <1>6, LineAssumption DEF Dated, Owning, LineAssumption
<1>16. Confirming'
  BY <1>1, <1>2, <1>6 DEF Confirming
<1> QED
  BY <1>9, <1>10, <1>11, <1>12, <1>13, <1>14, <1>15, <1>16

\* The file cut to the line reads as it did with what the line was written over behind it.
LEMMA CutStep ==
  ASSUME LineInv, TypeOK', NEW p \in Procs, CutLine(p)
  PROVE  LineInv'
<1> USE DEF LineInv
<1>1. /\ UNCHANGED <<now, holder, known, info, to, seenAt, by, stuck, excused, marked, overlong, taken>>
      /\ pc[p] = "cutting" /\ pc'[p] = "held"
      /\ file' = to[p]
      /\ \A q \in Procs \ {p} : pc'[q] = pc[q]
  BY DEF CutLine, own, turned, TypeOK
<1>2. known[p] \in Markers /\ marked \in Markers /\ taken \in Int
  BY DEF TypeOK
<1>3. /\ holder = p /\ info[p] = taken
      /\ \A q \in Procs \ {p} : pc[q] \notin Owning
  BY <1>1 DEF Holding, Owning
<1>4. /\ ReadHolder(file') = taken
      /\ \A n \in Names : ReadMarkers(file')[n] \in {None, known[p][n]}
      /\ WidthOf[p] + Cardinality(Named(known[p])) + 1 <= Cap => ReadMarkers(file') = known[p]
  BY <1>1, <1>3, LineRead
<1>5. \A n \in Names : known[p][n] \in {None, marked[n]} /\ (~overlong => known[p][n] = marked[n])
  BY <1>1 DEF Knowing, Owning
<1>6. MarkersKept'
  <2>1. \A n \in Names : ReadMarkers(file')[n] \in {None, marked[n]}
    BY <1>4, <1>5
  <2>2. ASSUME ~overlong
        PROVE  ReadMarkers(file') = marked
    <3>1. ReadMarkers(file') = known[p]
      BY <1>1, <1>4, <2>2 DEF Room
    <3>2. \A n \in Names : known[p][n] = marked[n]
      BY <1>5, <2>2
    <3> QED
      BY <1>2, <3>1, <3>2 DEF Markers
  <2> QED
    BY <1>1, <2>1, <2>2 DEF MarkersKept
<1>7. StaleIsStale' /\ StuckIsNoticed' /\ Busy' /\ Seen'
  BY <1>1 DEF StaleIsStale, StuckIsNoticed, Busy, Seen
<1>8. Holding'
  BY <1>1, <1>3 DEF Holding, Owning, Lineless
<1>9. Writing' /\ Knowing' /\ Room'
  BY <1>1, <1>3, <1>5 DEF Writing, Knowing, Room, Owning
<1>10. Dated'
  BY <1>1, <1>3, <1>4, LineAssumption DEF Dated, Owning, LineAssumption
<1>11. Confirming'
  BY <1>1, <1>2, <1>4 DEF Confirming
<1> QED
  BY <1>6, <1>7, <1>8, <1>9, <1>10, <1>11

\* A marker changed is the process's own, and its line is within the cap.
LEMMA MarkStep ==
  ASSUME LineInv, TypeOK', NEW p \in Procs,
         (\E size \in Sizes : Mark(p, size)) \/ Unmark(p)
  PROVE  LineInv'
<1> USE DEF LineInv
<1>1. /\ UNCHANGED <<now, file, holder, info, seenAt, by, stuck, excused, marked, overlong, taken>>
      /\ pc[p] = "held" /\ pc'[p] = "writing"
      /\ to'[p] = Line(p, info[p], known'[p])
      /\ \A n \in Names \ {KeyOf[p]} : known'[p][n] = known[p][n]
      /\ \A q \in Procs \ {p} : pc'[q] = pc[q] /\ known'[q] = known[q] /\ to'[q] = to[q]
  BY DEF Mark, Unmark, turned, TypeOK, Markers
<1>2. /\ known[p] \in Markers /\ known'[p] \in Markers /\ info[p] \in 0..MaxNow
      /\ KeyOf[p] \in Names /\ Cap \in Nat /\ WidthOf[p] \in Nat
  BY <1>1, LineAssumption DEF TypeOK, LineAssumption
<1>3. /\ holder = p
      /\ \A q \in Procs \ {p} : pc[q] \notin Owning
  BY <1>1 DEF Holding, Owning
<1>4. /\ MarkersKept' /\ StaleIsStale' /\ StuckIsNoticed' /\ Busy' /\ Confirming' /\ Seen'
  BY <1>1 DEF MarkersKept, StaleIsStale, StuckIsNoticed, Busy, Confirming, Seen
<1>5. Holding' /\ Writing' /\ Knowing' /\ Dated'
  BY <1>1, <1>3, LineAssumption DEF Holding, Writing, Knowing, Dated, Owning, Lineless, LineAssumption
<1>6. ~overlong => WidthOf[p] + Cardinality(Named(known'[p])) + 1 <= Cap
  <2>1. CASE \E size \in Sizes : Mark(p, size)
    <3>1. Len(to'[p]) <= Cap
      BY <2>1 DEF Mark
    <3>2. IsLine(to'[p], p, info[p], known'[p])
      BY <1>1, <1>2, LineIs
    <3>3. Len(to'[p]) = WidthOf[p] + Cardinality(Named(known'[p])) + 1
      BY <3>2 DEF IsLine
    <3> QED
      BY <3>1, <3>3
  <2>2. CASE Unmark(p)
    <3>1. known'[p][KeyOf[p]] = None
      BY <1>2, <2>2 DEF Unmark, TypeOK, Markers
    <3>2. Named(known'[p]) \in SUBSET Named(known[p])
      BY <1>1, <3>1 DEF Named
    <3>3. Cardinality(Named(known'[p])) <= Cardinality(Named(known[p]))
      BY <1>2, <3>2, NamedFinite, FS_Subset
    <3>4. Cardinality(Named(known'[p])) \in Nat /\ Cardinality(Named(known[p])) \in Nat
      BY <1>2, NamedFinite
    <3>5. ~overlong => WidthOf[p] + Cardinality(Named(known[p])) + 1 <= Cap
      BY <1>1 DEF Room
    <3> QED
      BY <1>2, <3>3, <3>4, <3>5
  <2> QED
    BY <2>1, <2>2
<1>7. Room'
  BY <1>1, <1>3, <1>6 DEF Room, Owning
<1> QED
  BY <1>4, <1>5, <1>7

\* A lock let go leaves its holder's line, or every run that was turned away excused.
LEMMA LetGoStep ==
  ASSUME LineInv, TypeOK', NEW p \in Procs, pc[p] \in Owning, LetGo(p),
         UNCHANGED <<now, file, seenAt, by, stuck, marked, overlong, taken>>,
         \A q \in Procs : excused'[q] = excused[q] \/ excused'[q],
         pc[p] \in Lineless => \A q \in Procs : excused'[q]
  PROVE  LineInv'
<1> USE DEF LineInv
<1>1. /\ holder' = None /\ pc'[p] = "idle"
      /\ \A q \in Procs \ {p} : /\ pc'[q] = pc[q] /\ known'[q] = known[q]
                                /\ to'[q] = to[q] /\ info'[q] = info[q]
  BY DEF LetGo, TypeOK
<1>2. \A q \in Procs \ {p} : pc[q] \notin Owning
  BY DEF Holding
<1>3. \A q \in Procs : pc'[q] \notin Owning /\ pc'[q] \notin Lineless
  BY <1>1, <1>2 DEF Owning, Lineless
<1>4. \A q \in Procs : ~excused'[q] => ~excused[q]
  BY DEF TypeOK
<1>5. MarkersKept'
  BY DEF MarkersKept
<1>6. StaleIsStale' /\ StuckIsNoticed' /\ Seen'
  BY <1>1, <1>4, LineAssumption DEF StaleIsStale, StuckIsNoticed, Seen, LineAssumption
<1>7. Holding'
  BY <1>1, <1>3, LineAssumption DEF Holding, LineAssumption
<1>8. Writing' /\ Knowing' /\ Room'
  BY <1>3 DEF Writing, Knowing, Room, Owning
<1>9. Dated'
  <2>1. ASSUME NEW q \in Procs, ~excused'[q]
        PROVE  ReadHolder(file) = taken
    BY <2>1 DEF Dated
  <2> QED
    BY <1>3, <2>1 DEF Dated
<1>10. Busy'
  BY <1>1, LineAssumption DEF Busy, Seen, LineAssumption
<1>11. Confirming'
  BY <1>1, <1>4, LineAssumption DEF Confirming, Seen, LineAssumption
<1> QED
  BY <1>5, <1>6, <1>7, <1>8, <1>9, <1>10, <1>11

\* A write refused past the lock leaves the file as it was.
LEMMA RefusedStep ==
  ASSUME LineInv, TypeOK', NEW p \in Procs, pc[p] = "writing",
         pc' = [pc EXCEPT ![p] = "held"],
         UNCHANGED <<now, file, holder, own, turned, marked, overlong, taken>>
  PROVE  LineInv'
<1> USE DEF LineInv
<1>1. /\ UNCHANGED <<known, info, to, seenAt, by, stuck, excused>>
      /\ pc'[p] = "held" /\ \A q \in Procs \ {p} : pc'[q] = pc[q]
  BY DEF own, turned, TypeOK
<1>2. MarkersKept' /\ StaleIsStale' /\ StuckIsNoticed' /\ Busy' /\ Confirming' /\ Seen'
  BY <1>1 DEF MarkersKept, StaleIsStale, StuckIsNoticed, Busy, Confirming, Seen
<1>3. Holding' /\ Writing' /\ Knowing' /\ Room'
  BY <1>1 DEF Holding, Writing, Knowing, Room, Owning, Lineless
<1>4. Dated'
  BY <1>1 DEF Dated, Owning, Lineless
<1> QED
  BY <1>2, <1>3, <1>4

\* What the holders have is not disturbed by a run that is turned away.
LEMMA HoldersApart ==
  ASSUME LineInv, TypeOK', NEW p \in Procs, pc[p] \notin Owning, pc'[p] \notin Owning,
         \A q \in Procs \ {p} : pc'[q] = pc[q],
         UNCHANGED <<now, file, holder, own, marked, overlong, taken>>
  PROVE  /\ MarkersKept' /\ Holding' /\ Writing' /\ Knowing' /\ Room'
         /\ \A q \in Procs : pc'[q] \in Owning \ Lineless => ReadHolder(file') = taken'
<1> USE DEF LineInv
<1>1. UNCHANGED <<known, info, to>>
  BY DEF own
<1>2. \A q \in Procs : /\ pc[q] \in Owning <=> pc'[q] \in Owning
                       /\ pc'[q] \in Owning => pc'[q] = pc[q]
  OBVIOUS
<1>3. MarkersKept'
  BY DEF MarkersKept
<1>4. Holding'
  BY <1>1, <1>2 DEF Holding, Owning, Lineless
<1>5. Writing' /\ Knowing' /\ Room'
  BY <1>1, <1>2 DEF Writing, Knowing, Room, Owning
<1> QED
  BY <1>2, <1>3, <1>4, <1>5 DEF Dated

\* A run is turned away by the holder of the moment.
LEMMA TurnAwayStep ==
  ASSUME LineInv, TypeOK', NEW p \in Procs, TurnAway(p)
  PROVE  LineInv'
<1> USE DEF LineInv
<1>1. /\ UNCHANGED <<now, file, holder, own, seenAt, marked, overlong, taken>>
      /\ pc[p] = "idle" /\ pc'[p] = "busy" /\ holder # None
      /\ by'[p] = holder /\ stuck'[p] = (now - taken > Stale) /\ ~excused'[p]
      /\ holder \in Procs /\ now \in Int /\ taken \in Int
      /\ \A q \in Procs \ {p} : /\ pc'[q] = pc[q] /\ by'[q] = by[q]
                                /\ stuck'[q] = stuck[q] /\ excused'[q] = excused[q]
  BY DEF TurnAway, TypeOK
<1>2. Stale \in Nat
  BY LineAssumption DEF LineAssumption
<1>3. /\ MarkersKept' /\ Holding' /\ Writing' /\ Knowing' /\ Room'
      /\ \A q \in Procs : pc'[q] \in Owning \ Lineless => ReadHolder(file') = taken'
  BY <1>1, HoldersApart DEF Owning
<1>4. StaleIsStale' /\ StuckIsNoticed' /\ Confirming' /\ Seen'
  BY <1>1 DEF StaleIsStale, StuckIsNoticed, Confirming, Seen
<1>5. Dated'
  BY <1>1, <1>3 DEF Dated
<1>6. Busy'
  <2>1. stuck'[p] <=> now - taken > Stale
    BY <1>1, Zenon
  <2>2. stuck'[p] => now - taken > Stale
    BY <2>1
  <2>3. ~stuck'[p] => now - taken <= Stale
    BY <1>1, <1>2, <2>1
  <2>4. IF stuck'[p] THEN holder = by'[p] /\ taken < now => now - taken > Stale
        ELSE now - taken <= Stale
    BY <2>2, <2>3
  <2> QED
    BY <1>1, <2>4 DEF Busy
<1> QED
  BY <1>3, <1>4, <1>5, <1>6

\* While a line's holder is past it, the line is judged by the moment it took the lock.
LEMMA Judged ==
  ASSUME LineInv, holder # None, taken < now
  PROVE  SaysStale <=> now - taken > Stale
<1> USE DEF LineInv
<1>1. PICK q \in Procs : holder = q /\ pc[q] \in Owning
  BY DEF Holding, TypeOK
<1>2. pc[q] \notin Lineless
  BY <1>1 DEF Holding, TypeOK
<1>3. ReadHolder(file) = taken /\ taken \in Int
  BY <1>1, <1>2 DEF Dated, TypeOK
<1>4. None # taken
  BY LineAssumption DEF TypeOK, LineAssumption
<1> QED
  BY <1>3, <1>4 DEF SaysStale

\* The first read: an old line met by a run whose holder is not stuck is that of a holder before,
\* and the lock has just been taken.
LEMMA FirstReadStep ==
  ASSUME LineInv, TypeOK', NEW p \in Procs, FirstRead(p)
  PROVE  LineInv'
<1> USE DEF LineInv
<1>1. /\ UNCHANGED <<now, file, holder, own, by, stuck, excused, marked, overlong, taken>>
      /\ pc[p] = "busy" /\ pc'[p] = IF SaysStale THEN "confirming" ELSE "quiet"
      /\ seenAt'[p] = now /\ now \in Int /\ taken \in Int
      /\ \A q \in Procs \ {p} : pc'[q] = pc[q] /\ seenAt'[q] = seenAt[q]
  BY DEF FirstRead, TypeOK
<1>2. Stale \in Nat /\ None \notin Procs /\ by[p] \in Procs
  BY <1>1, LineAssumption DEF LineAssumption, Seen
<1>3. /\ MarkersKept' /\ Holding' /\ Writing' /\ Knowing' /\ Room'
      /\ \A q \in Procs : pc'[q] \in Owning \ Lineless => ReadHolder(file') = taken'
  BY <1>1, HoldersApart DEF Owning
<1>4. StaleIsStale'
  BY <1>1 DEF StaleIsStale
<1>5. Seen'
  BY <1>1 DEF Seen
<1>6. Busy'
  BY <1>1 DEF Busy
<1>7. Dated'
  BY <1>1, <1>3 DEF Dated
<1>8. ASSUME ~SaysStale, stuck[p]
      PROVE  holder # by[p] \/ taken >= now
  <2>1. SUFFICES ASSUME holder = by[p], taken < now
                 PROVE  FALSE
    BY <1>1
  <2>2. now - taken > Stale
    BY <1>1, <1>8, <2>1 DEF Busy
  <2> QED
    BY <1>2, <1>8, <2>1, <2>2, Judged
<1>9. StuckIsNoticed'
  BY <1>1, <1>8 DEF StuckIsNoticed
<1>10. ASSUME SaysStale, ~stuck[p], ~excused[p]
       PROVE  taken >= now
  <2>1. SUFFICES ASSUME taken < now
                 PROVE  FALSE
    BY <1>1
  <2>2. now - taken <= Stale
    BY <1>1, <1>10 DEF Busy
  <2>3. CASE holder # None
    BY <1>1, <1>2, <1>10, <2>1, <2>2, <2>3, Judged
  <2>4. CASE holder = None
    <3>1. ReadHolder(file) = taken
      BY <1>1, <1>10, <2>4 DEF Dated
    <3>2. now - taken > Stale
      BY <1>10, <3>1 DEF SaysStale
    <3> QED
      BY <1>1, <1>2, <2>2, <3>2
  <2> QED
    BY <2>3, <2>4
<1>11. ASSUME stuck[p], holder = by[p], taken < now
       PROVE  now - taken > Stale
  BY <1>1, <1>11 DEF Busy
<1>12. Confirming'
  <2> SUFFICES ASSUME NEW q \in Procs, pc'[q] = "confirming"
               PROVE  /\ seenAt'[q] <= now /\ now <= seenAt'[q] + 1
                      /\ stuck[q] => (holder = by[q] /\ taken < seenAt'[q] => now - taken > Stale)
                      /\ ~stuck[q] /\ ~excused[q] =>
                           /\ taken >= seenAt'[q]
                           /\ now > seenAt'[q] => ReadHolder(file) \in Int /\ ReadHolder(file) >= seenAt'[q]
    BY <1>1 DEF Confirming
  <2>1. CASE q = p
    BY <1>1, <1>10, <1>11, <2>1
  <2>2. CASE q # p
    BY <1>1, <2>2 DEF Confirming
  <2> QED
    BY <2>1, <2>2
<1> QED
  BY <1>3, <1>4, <1>5, <1>6, <1>7, <1>9, <1>12

\* The second read, a tick later: the line is then that of a holder no older than the first read,
\* or of one that is stuck.
LEMMA ConfirmStep ==
  ASSUME LineInv, TypeOK', NEW p \in Procs, Confirm(p)
  PROVE  LineInv'
<1> USE DEF LineInv
<1>1. /\ UNCHANGED <<now, file, holder, own, seenAt, by, stuck, excused, marked, overlong, taken>>
      /\ pc[p] = "confirming" /\ pc'[p] = IF SaysStale THEN "stale" ELSE "quiet"
      /\ now > seenAt[p] /\ now \in Int /\ taken \in Int /\ seenAt[p] \in Int
      /\ stuck[p] \in BOOLEAN /\ excused[p] \in BOOLEAN
      /\ \A q \in Procs \ {p} : pc'[q] = pc[q]
  BY DEF Confirm, turned, TypeOK
<1>2. Stale \in Nat \ {0} /\ None \notin Procs /\ by[p] \in Procs
  BY <1>1, LineAssumption DEF LineAssumption, Seen
<1>3. /\ MarkersKept' /\ Holding' /\ Writing' /\ Knowing' /\ Room'
      /\ \A q \in Procs : pc'[q] \in Owning \ Lineless => ReadHolder(file') = taken'
  BY <1>1, HoldersApart DEF Owning
<1>4. Dated'
  BY <1>1, <1>3 DEF Dated
<1>5. Seen' /\ Busy' /\ Confirming'
  BY <1>1 DEF Seen, Busy, Confirming
<1>6. ASSUME SaysStale, ~stuck[p], ~excused[p]
      PROVE  FALSE
  <2>1. ReadHolder(file) \in Int /\ ReadHolder(file) >= seenAt[p] /\ now <= seenAt[p] + 1
    BY <1>1, <1>6 DEF Confirming
  <2>2. now - ReadHolder(file) > Stale
    BY <1>6 DEF SaysStale
  <2> QED
    BY <1>1, <1>2, <2>1, <2>2
<1>7. StaleIsStale'
  BY <1>1, <1>6 DEF StaleIsStale
<1>8. ASSUME ~SaysStale, stuck[p]
      PROVE  holder # by[p] \/ taken >= seenAt[p]
  <2>1. SUFFICES ASSUME holder = by[p], taken < seenAt[p]
                 PROVE  FALSE
    BY <1>1
  <2>2. now - taken > Stale /\ taken < now
    BY <1>1, <1>8, <2>1 DEF Confirming
  <2> QED
    BY <1>2, <1>8, <2>1, <2>2, Judged
<1>9. StuckIsNoticed'
  BY <1>1, <1>8 DEF StuckIsNoticed
<1> QED
  BY <1>3, <1>4, <1>5, <1>7, <1>9

\* A run that was turned away ends, and leaves nothing behind.
LEMMA LeaveStep ==
  ASSUME LineInv, TypeOK', NEW p \in Procs, Leave(p)
  PROVE  LineInv'
<1> USE DEF LineInv
<1>1. /\ UNCHANGED <<now, file, holder, own, marked, overlong, taken>>
      /\ pc[p] \in {"stale", "quiet"} /\ pc'[p] = "idle"
      /\ seenAt'[p] = 0 /\ 0 <= now
      /\ \A q \in Procs \ {p} : /\ pc'[q] = pc[q] /\ seenAt'[q] = seenAt[q] /\ by'[q] = by[q]
                                /\ stuck'[q] = stuck[q] /\ excused'[q] = excused[q]
  BY DEF Leave, TypeOK
<1>2. /\ MarkersKept' /\ Holding' /\ Writing' /\ Knowing' /\ Room'
      /\ \A q \in Procs : pc'[q] \in Owning \ Lineless => ReadHolder(file') = taken'
  BY <1>1, HoldersApart DEF Owning
<1>3. Dated'
  BY <1>1, <1>2 DEF Dated
<1>4. StaleIsStale' /\ StuckIsNoticed' /\ Seen' /\ Busy' /\ Confirming'
  BY <1>1 DEF StaleIsStale, StuckIsNoticed, Seen, Busy, Confirming
<1> QED
  BY <1>2, <1>3, <1>4

-----------------------------------------------------------------------------
(* The theorems *)

LEMMA LineInit == Init => LineInv
<1> SUFFICES ASSUME Init
             PROVE  LineInv
  OBVIOUS
<1> USE LineAssumption DEF LineAssumption, Init
<1>1. Clear \in Markers /\ \A n \in Names : Clear[n] = None
  BY DEF Clear, Markers
<1>2. TypeOK
  <2>1. <<>> \in Seq(Cell) /\ 0 \in 0..MaxNow /\ 0 \in 0..MaxMishaps
    OBVIOUS
  <2>2. /\ pc \in [Procs -> PCs] /\ known \in [Procs -> Markers] /\ marked \in Markers
        /\ info \in [Procs -> 0..MaxNow] /\ to \in [Procs -> Seq(Cell)]
    BY <1>1, <2>1 DEF PCs
  <2>3. /\ seenAt \in [Procs -> 0..MaxNow] /\ by \in [Procs -> Procs \cup {None}]
        /\ stuck \in [Procs -> BOOLEAN] /\ excused \in [Procs -> BOOLEAN]
    BY <2>1
  <2> QED
    BY <2>1, <2>2, <2>3 DEF TypeOK
<1>3. FirstLine(<<>>).line = <<>>
  <2> DEFINE read == SubSeq(<<>>, 1, IF Len(<<>>) < Cap THEN Len(<<>>) ELSE Cap)
             ends == {i \in DOMAIN read : read[i] = NL}
  <2>1. read = <<>>
    OBVIOUS
  <2>2. ends = {}
    BY <2>1
  <2>3. FirstLine(<<>>) =
          IF ends = {} THEN [line |-> read, cut |-> Len(read) >= Cap]
          ELSE [line |-> SubSeq(read, 1, (CHOOSE i \in ends : \A j \in ends : i <= j) - 1), cut |-> FALSE]
    BY DEF FirstLine
  <2> HIDE DEF read, ends
  <2> QED
    BY <2>1, <2>2, <2>3
<1>4. ReadMarkers(<<>>) = Clear
  BY <1>3 DEF ReadMarkers, Clear
<1>5. MarkersKept
  BY <1>1, <1>4 DEF MarkersKept
<1>6. StaleIsStale /\ StuckIsNoticed /\ Writing /\ Knowing /\ Room /\ Busy /\ Confirming /\ Seen
  BY DEF StaleIsStale, StuckIsNoticed, Writing, Knowing, Room, Busy, Confirming, Seen, Owning
<1>7. Holding /\ Dated
  BY DEF Holding, Dated, Owning, Lineless
<1> QED
  BY <1>2, <1>5, <1>6, <1>7 DEF LineInv

LEMMA LineNext == LineInv /\ [Next]_vars => LineInv'
<1> SUFFICES ASSUME LineInv, [Next]_vars
             PROVE  LineInv'
  OBVIOUS
<1>1. TypeOK'
  BY TypeStep DEF LineInv
<1>2. CASE UNCHANGED vars
  BY <1>2 DEF vars, own, turned, LineInv, TypeOK, MarkersKept, StaleIsStale, StuckIsNoticed,
              Holding, Writing, Knowing, Room, Dated, Busy, Confirming, Seen
<1>3. CASE Tick
  BY <1>1, <1>3, TickStep
<1>4. ASSUME NEW p \in Procs,
             \/ Take(p) \/ Carry(p) \/ WriteLine(p) \/ CutLine(p)
             \/ \E size \in Sizes : Mark(p, size)
             \/ Unmark(p) \/ Release(p) \/ Kill(p) \/ RefuseLine(p)
             \/ TurnAway(p) \/ FirstRead(p) \/ Confirm(p) \/ Leave(p)
      PROVE  LineInv'
  <2>1. CASE Take(p) \/ Carry(p) \/ WriteLine(p) \/ CutLine(p)
    BY <1>1, <2>1, TakeStep, CarryStep, WriteStep, CutStep
  <2>2. CASE (\E size \in Sizes : Mark(p, size)) \/ Unmark(p)
    BY <1>1, <2>2, MarkStep
  <2>3. CASE Release(p)
    <3>1. pc[p] \in Owning /\ pc[p] \notin Lineless /\ LetGo(p)
      BY <2>3 DEF Release, Owning, Lineless
    <3>2. UNCHANGED <<now, file, seenAt, by, stuck, excused, marked, overlong, taken>>
      BY <2>3 DEF Release, turned
    <3> QED
      BY <1>1, <3>1, <3>2, LetGoStep
  <2>4. CASE Kill(p)
    <3>1. pc[p] \in Owning /\ LetGo(p)
      BY <2>4 DEF Kill
    <3>2. UNCHANGED <<now, file, seenAt, by, stuck, marked, overlong, taken>>
      BY <2>4 DEF Kill
    <3>3. \A q \in Procs : excused'[q] = (excused[q] \/ pc[p] \in Lineless)
      BY <2>4 DEF Kill
    <3>4. \A q \in Procs : excused[q] \in BOOLEAN
      BY DEF LineInv, TypeOK
    <3>5. /\ \A q \in Procs : excused'[q] = excused[q] \/ excused'[q]
          /\ pc[p] \in Lineless => \A q \in Procs : excused'[q]
      BY <3>3, <3>4
    <3> QED
      BY <1>1, <3>1, <3>2, <3>5, LetGoStep
  <2>5. CASE RefuseLine(p)
    <3>1. UNCHANGED <<now, file, seenAt, by, stuck, marked, overlong, taken>>
      BY <2>5 DEF RefuseLine
    <3>2. CASE pc[p] = "carrying" /\ LetGo(p) /\ excused' = [q \in Procs |-> TRUE]
      <4>1. pc[p] \in Owning /\ \A q \in Procs : excused'[q]
        BY <3>2 DEF Owning
      <4> QED
        BY <1>1, <3>1, <3>2, <4>1, LetGoStep
    <3>3. CASE /\ pc[p] = "writing" /\ pc' = [pc EXCEPT ![p] = "held"]
               /\ UNCHANGED <<holder, own, excused>>
      <4>1. UNCHANGED <<now, file, holder, own, turned, marked, overlong, taken>>
        BY <3>1, <3>3 DEF turned
      <4> QED
        BY <1>1, <3>3, <4>1, RefusedStep
    <3> QED
      BY <2>5, <3>2, <3>3 DEF RefuseLine
  <2>6. CASE TurnAway(p) \/ FirstRead(p) \/ Confirm(p) \/ Leave(p)
    BY <1>1, <2>6, TurnAwayStep, FirstReadStep, ConfirmStep, LeaveStep
  <2> QED
    BY <1>4, <2>1, <2>2, <2>3, <2>4, <2>5, <2>6
<1> QED
  BY <1>2, <1>3, <1>4 DEF Next

LEMMA LineInvariant == Spec => []LineInv
<1> QED
  BY LineInit, LineNext, PTL DEF Spec

\* Every variable of the lock line stays in its type, the file always made of whole cells.
THEOREM TypeCorrect == Spec => []TypeOK
<1>1. LineInv => TypeOK
  BY DEF LineInv
<1> QED
  BY <1>1, LineInvariant, PTL

\* Whatever is killed, refused, or cut short on the line, the next holder reads there what each
\* configuration's own runs have recorded last, and past the cap that or nothing: _write_holder's
\* order (the line first, the cut then) and _read_markers' parse, for every number of
\* configurations that share a state directory (issues #70, #73).
THEOREM MarkersAreKept == Spec => []MarkersKept
<1>1. LineInv => MarkersKept
  BY DEF LineInv
<1> QED
  BY <1>1, LineInvariant, PTL

\* A run exits with the stale line only if the holder that turned it away was past lock_stale, or
\* a holder has left without its line since: the second read of acquire is enough, for every
\* lock_stale of a tick at least.
THEOREM StaleIsNeverFresh == Spec => []StaleIsStale
<1>1. LineInv => StaleIsStale
  BY DEF LineInv
<1> QED
  BY <1>1, LineInvariant, PTL

\* No run that a stuck holder turns away ends quietly while that holder keeps the lock: neither a
\* marker it writes nor a line it is in the middle of hides since when it has been there.
THEOREM StuckIsAlwaysNoticed == Spec => []StuckIsNoticed
<1>1. LineInv => StuckIsNoticed
  BY DEF LineInv
<1> QED
  BY <1>1, LineInvariant, PTL

=============================================================================
