--------------------------- MODULE CatchUpProofs ---------------------------
(***************************************************************************)
(* What holds of a log that rotates and of the runs that read it for every *)
(* number of copies, lines, inodes, failures and rotations, checked by     *)
(* TLAPS: the types, however the log is rotated; and where copies are      *)
(* renamed and stay as they are, that a run reads in the order of writing, *)
(* that no line is mailed twice but after a warning, and that none is      *)
(* passed over before one.                                                 *)
(***************************************************************************)
EXTENDS CatchUp, FiniteSetTheorems, SequenceTheorems, TLAPS

-----------------------------------------------------------------------------
(* Sequences, and the order of copies *)

LEMMA ConcatIs ==
  ASSUME NEW S, NEW s \in Seq(S), NEW t \in Seq(S)
  PROVE  /\ s \o t \in Seq(S)
         /\ Len(s \o t) = Len(s) + Len(t)
         /\ \A i \in 1..Len(s) : (s \o t)[i] = s[i]
         /\ \A i \in 1..Len(t) : (s \o t)[Len(s) + i] = t[i]
         /\ \A i \in 1..Len(s \o t) : i \in 1..Len(s) \/ i - Len(s) \in 1..Len(t)
OBVIOUS

LEMMA ElementsAre ==
  ASSUME NEW S, NEW s \in Seq(S)
  PROVE  \A i \in DOMAIN s : s[i] \in S
OBVIOUS

\* Every element of a concatenation is one of the left or one of the right.
LEMMA ConcatParts ==
  ASSUME NEW S, NEW s \in Seq(S), NEW t \in Seq(S), NEW i \in DOMAIN (s \o t)
  PROVE  \/ i \in DOMAIN s /\ (s \o t)[i] = s[i]
         \/ \E j \in DOMAIN t : i = Len(s) + j /\ (s \o t)[i] = t[j]
<1>1. i \in 1..Len(s) \/ i - Len(s) \in 1..Len(t)
  BY ConcatIs
<1> QED
  BY <1>1, ConcatIs

LEMMA TailIs ==
  ASSUME NEW S, NEW s \in Seq(S), s # <<>>
  PROVE  /\ Head(s) \in S /\ Head(s) = s[1] /\ 1 \in DOMAIN s
         /\ Tail(s) \in Seq(S)
         /\ \A i \in DOMAIN Tail(s) : i + 1 \in DOMAIN s /\ Tail(s)[i] = s[i + 1]
OBVIOUS

LEMMA SubSeqIs ==
  ASSUME NEW S, NEW s \in Seq(S), NEW m \in Nat \ {0}, NEW n \in 0..Len(s)
  PROVE  /\ SubSeq(s, m, n) \in Seq(S)
         /\ Len(SubSeq(s, m, n)) = IF m <= n THEN n - m + 1 ELSE 0
         /\ \A i \in DOMAIN SubSeq(s, m, n) : m + i - 1 \in m..n /\ SubSeq(s, m, n)[i] = s[m + i - 1]
OBVIOUS

\* The end of a text from one place on is that text's end.
LEMMA EndIs ==
  ASSUME NEW S, NEW s \in Seq(S), NEW d \in Nat, NEW i \in DOMAIN SubSeq(s, d + 1, Len(s))
  PROVE  /\ i \in Nat \ {0} /\ d + i \in DOMAIN s
         /\ SubSeq(s, d + 1, Len(s))[i] = s[d + i]
OBVIOUS

\* Sorted by number, every copy is there once and the higher number comes first.
LEMMA OldestFirstIs ==
  ASSUME NEW S, IsFiniteSet(S), \A a \in S : a.k \in Nat, \A a, b \in S : a.k = b.k => a = b
  PROVE  /\ OldestFirst(S) \in Seq(S)
         /\ \A i, j \in DOMAIN OldestFirst(S) : i < j => OldestFirst(S)[i].k > OldestFirst(S)[j].k
         /\ \A a \in S : \E i \in DOMAIN OldestFirst(S) : OldestFirst(S)[i] = a
<1> DEFINE n == Cardinality(S)
           Older(a) == {b \in S : b.k > a.k}
           Rank(a) == Cardinality(Older(a))
           s == OldestFirst(S)
<1>1. n \in Nat
  BY FS_CardinalityType
<1>2. ASSUME NEW a \in S PROVE IsFiniteSet(Older(a)) /\ Rank(a) \in Nat /\ Rank(a) < n
  <2>1. Older(a) \in SUBSET S /\ Older(a) # S
    OBVIOUS
  <2> HIDE DEF Older
  <2>2. IsFiniteSet(Older(a)) /\ Rank(a) <= n /\ Rank(a) # n
    BY <2>1, FS_Subset
  <2>3. Rank(a) \in Nat
    BY <2>2, FS_CardinalityType
  <2> QED
    BY <1>1, <2>2, <2>3
<1>3. ASSUME NEW a \in S, NEW b \in S, a.k < b.k PROVE Rank(b) < Rank(a)
  <2>1. Older(b) \in SUBSET Older(a) /\ Older(b) # Older(a)
    BY <1>3
  <2>2. IsFiniteSet(Older(a)) /\ Rank(a) \in Nat /\ Rank(b) \in Nat
    BY <1>2
  <2> HIDE DEF Older
  <2>3. Rank(b) <= Rank(a) /\ Rank(b) # Rank(a)
    BY <2>1, <2>2, FS_Subset
  <2> QED
    BY <2>2, <2>3
<1>4. ASSUME NEW i \in 1..n PROVE \E a \in S : Rank(a) = i - 1
  <2> DEFINE f == [a \in S |-> Rank(a) + 1]
  <2>1. f \in [S -> 1..n]
    <3>1. ASSUME NEW a \in S PROVE Rank(a) + 1 \in 1..n
      <4>1. Rank(a) \in Nat /\ Rank(a) < n
        BY <1>2
      <4> HIDE DEF Rank, n
      <4> QED
        BY <1>1, <4>1
    <3> HIDE DEF Rank, n
    <3> QED
      BY <3>1
  <2>2. ASSUME NEW a \in S, NEW b \in S, f[a] = f[b] PROVE a = b
    <3>1. Rank(a) = Rank(b) /\ Rank(a) \in Nat
      <4>1. Rank(a) \in Nat /\ Rank(b) \in Nat
        BY <1>2
      <4> HIDE DEF Rank
      <4> QED
        BY <2>2, <4>1
    <3>2. ~(a.k < b.k) /\ ~(b.k < a.k)
      <4>1. a.k < b.k => Rank(b) < Rank(a)
        BY <1>3
      <4>2. b.k < a.k => Rank(a) < Rank(b)
        BY <1>3
      <4> HIDE DEF Rank
      <4> QED
        BY <3>1, <4>1, <4>2
    <3> QED
      BY <3>2
  <2> HIDE DEF f
  <2>3. f \in Injection(S, 1..n)
    BY <2>1, <2>2 DEF Injection, IsInjective
  <2>4. IsFiniteSet(1..n) /\ Cardinality(1..n) = n
    BY <1>1, FS_Interval
  <2>5. f \in Surjection(S, 1..n)
    BY <2>3, <2>4, FS_Injection
  <2>6. PICK a \in S : f[a] = i
    BY <2>5 DEF Surjection
  <2>7. Rank(a) \in Nat /\ f[a] = Rank(a) + 1
    BY <1>2 DEF f
  <2> HIDE DEF Rank
  <2> QED
    BY <2>6, <2>7
<1>5. ASSUME NEW i \in 1..n PROVE s[i] \in S /\ Rank(s[i]) = i - 1
  <2>1. s = [j \in 1..n |-> CHOOSE a \in S : Rank(a) = j - 1]
    BY DEF OldestFirst
  <2> HIDE DEF Rank, s, n
  <2>2. s[i] = CHOOSE a \in S : Rank(a) = i - 1
    BY <2>1
  <2>3. \E a \in S : Rank(a) = i - 1
    BY <1>4
  <2> QED
    BY <2>2, <2>3
<1>6. DOMAIN s = 1..n /\ s = [i \in 1..n |-> s[i]]
  <2>1. s = [j \in 1..n |-> CHOOSE a \in S : Rank(a) = j - 1]
    BY DEF OldestFirst
  <2> HIDE DEF s, n, Rank
  <2> QED
    BY <2>1
<1>7. ASSUME NEW i \in 1..n, NEW j \in 1..n, i < j PROVE s[i].k > s[j].k
  <2> DEFINE a == s[i]
             b == s[j]
  <2>1. a \in S /\ b \in S /\ Rank(a) = i - 1 /\ Rank(b) = j - 1
    BY <1>5
  <2> HIDE DEF a, b, s
  <2>2. ~(a.k < b.k)
    <3>1. a.k < b.k => Rank(b) < Rank(a)
      BY <2>1, <1>3
    <3> HIDE DEF Rank
    <3> QED
      BY <2>1, <3>1, <1>7
  <2>3. a.k # b.k
    <3>1. a # b
      BY <2>1, <1>7
    <3> QED
      BY <2>1, <3>1
  <2>4. a.k \in Nat /\ b.k \in Nat
    BY <2>1
  <2>5. a.k > b.k
    BY <2>2, <2>3, <2>4
  <2> QED
    BY <2>5 DEF a, b
<1> HIDE DEF s, n
<1>8. s \in Seq(S)
  <2>1. \A i \in 1..n : s[i] \in S
    BY <1>5
  <2> QED
    BY <1>1, <1>6, <2>1
<1>9. ASSUME NEW a \in S PROVE \E i \in 1..n : s[i] = a
  <2>1. Rank(a) \in Nat /\ Rank(a) < n
    BY <1>2
  <2> HIDE DEF Rank
  <2>2. PICK i \in 1..n : i = Rank(a) + 1
    BY <1>1, <2>1
  <2>3. s[i] \in S /\ Rank(s[i]) = i - 1
    BY <1>5
  <2>4. PICK b \in S : b = s[i]
    BY <2>3
  <2>5. Rank(b) = Rank(a)
    BY <2>1, <2>2, <2>3, <2>4
  <2>6. ~(a.k < b.k) /\ ~(b.k < a.k)
    <3>1. a.k < b.k => Rank(b) < Rank(a)
      BY <1>3
    <3>2. b.k < a.k => Rank(a) < Rank(b)
      BY <1>3
    <3> QED
      BY <2>1, <2>5, <3>1, <3>2
  <2>7. a = b
    BY <2>6
  <2> QED
    BY <2>4, <2>7
<1> QED
  BY <1>6, <1>7, <1>8, <1>9 DEF s

-----------------------------------------------------------------------------
(* The types *)

\* Line numbers rise by one at least along a file, and the last one written bounds them.
Numbered(t, w) == \A j \in DOMAIN t : j - 1 <= t[j] /\ t[j] <= w

\* The name of the live file is taken but between a rename and the new file, and only a run
\* with a saved position searches.
WorldTypes ==
  /\ WorldTypeOK
  /\ \A i \in Inodes : Numbered(Text(i), written)
  /\ dir[Live] = None => rot = Remaking

\* A listing has a file once for each of its names.
OnePerName(L) == \A a, b \in L : a.k = b.k /\ a.gz = b.gz => a = b

TypeInv ==
  /\ TypeOK
  /\ WorldTypes
  /\ OnePerName(listing)
  /\ pc \in {"list", "stat", "try", "chain"} => saved # None

LEMMA SetupIs ==
  ASSUME setup \in Setups
  PROVE  /\ setup.lines \in Nat /\ setup.rotations \in Nat /\ setup.flaws \in Nat
         /\ setup.banner \in BOOLEAN /\ setup.spaced \in BOOLEAN /\ setup.lines > 0
BY RotationAssumption DEF AllSetups

\* A text of tokens that is numbered is no longer than a position can say.
LEMMA LengthIs ==
  ASSUME NEW n \in Nat, NEW t \in Seq(0..n), NEW w \in 0..n, Numbered(t, w)
  PROVE  Len(t) \in 0..n + 1
<1>1. Len(t) \in Nat
  OBVIOUS
<1>2. CASE Len(t) = 0
  BY <1>2
<1>3. CASE Len(t) > 0
  <2>1. Len(t) \in DOMAIN t
    BY <1>1, <1>3
  <2>2. Len(t) - 1 <= t[Len(t)] /\ t[Len(t)] <= w /\ t[Len(t)] \in 0..n
    BY <2>1 DEF Numbered
  <2> QED
    BY <1>1, <2>2
<1> QED
  BY <1>1, <1>2, <1>3

LEMMA AppendNumbered ==
  ASSUME NEW n \in Nat, NEW t \in Seq(0..n), NEW w \in 0..n, Numbered(t, w), NEW l \in 0..n,
         l = w + 1 \/ (l = 0 /\ t = <<>>), NEW v \in 0..n, w <= v, l <= v
  PROVE  Append(t, l) \in Seq(0..n) /\ Numbered(Append(t, l), v)
<1>1. Append(t, l) \in Seq(0..n) /\ Len(t) \in Nat /\ Len(Append(t, l)) = Len(t) + 1
  OBVIOUS
<1>2. Len(t) > 0 => Len(t) - 1 <= w
  <2> SUFFICES ASSUME Len(t) > 0 PROVE Len(t) - 1 <= w
    OBVIOUS
  <2>1. Len(t) \in DOMAIN t
    BY <1>1
  <2>2. Len(t) - 1 <= t[Len(t)] /\ t[Len(t)] <= w /\ t[Len(t)] \in 0..n
    BY <2>1 DEF Numbered
  <2> QED
    BY <1>1, <2>2
<1>3. ASSUME NEW j \in DOMAIN Append(t, l)
      PROVE  j - 1 <= Append(t, l)[j] /\ Append(t, l)[j] <= v
  <2>1. CASE j = Len(t) + 1
    <3>1. Append(t, l)[j] = l
      BY <2>1
    <3>2. Len(t) <= l
      BY <1>1, <1>2
    <3> QED
      BY <1>1, <2>1, <3>1, <3>2
  <2>2. CASE j \in DOMAIN t
    <3>1. Append(t, l)[j] = t[j] /\ t[j] \in 0..n
      BY <2>2
    <3>2. j - 1 <= t[j] /\ t[j] <= w
      BY <2>2 DEF Numbered
    <3> QED
      BY <2>2, <3>1, <3>2
  <2> QED
    BY <1>1, <1>3, <2>1, <2>2
<1> QED
  BY <1>1, <1>3 DEF Numbered

LEMMA FreshNumbered ==
  ASSUME setup \in Setups, written \in 0..setup.lines, After(written) <= setup.lines
  PROVE  /\ After(written) \in 0..setup.lines /\ written <= After(written)
         /\ Fresh(written) \in Seq(Tokens) /\ Numbered(Fresh(written), After(written))
<1> USE SetupIs
<1>1. After(written) \in 0..setup.lines /\ written <= After(written)
  BY DEF After
<1>2. CASE ~setup.filled
  BY <1>1, <1>2 DEF Fresh, Numbered
<1>3. CASE setup.filled /\ setup.banner
  BY <1>1, <1>3 DEF Fresh, Numbered, Tokens
<1>4. CASE setup.filled /\ ~setup.banner
  BY <1>1, <1>4 DEF Fresh, Numbered, Tokens, After
<1> QED
  BY <1>1, <1>2, <1>3, <1>4

\* What one step of the world does to one file: the rest keep their texts.
LEMMA OneFile ==
  ASSUME WorldTypeOK, \A j \in Inodes : Numbered(Text(j), written), setup' = setup,
         NEW i \in Inodes, NEW t \in Seq(Tokens), NEW m \in 0..MaxSeconds,
         file' = [file EXCEPT ![i] = [text |-> t, mtime |-> m]],
         written' \in 0..setup.lines, written <= written', Numbered(t, written')
  PROVE  /\ file' \in [Inodes -> [text : Seq(Tokens), mtime : 0..MaxSeconds]]
         /\ \A j \in Inodes : Numbered(Text(j), written)'
<1>1. file' \in [Inodes -> [text : Seq(Tokens), mtime : 0..MaxSeconds]]
  BY DEF WorldTypeOK
<1>2. ASSUME NEW j \in Inodes PROVE Numbered(Text(j), written)'
  <2>1. CASE j = i
    BY <2>1 DEF Text, WorldTypeOK
  <2>2. CASE j # i
    <3>1. Text(j)' = Text(j) /\ Numbered(Text(j), written)
      BY <2>2 DEF Text, WorldTypeOK
    <3>2. Text(j) \in Seq(0..setup.lines)
      BY DEF Text, WorldTypeOK, Tokens
    <3>3. \A k \in DOMAIN Text(j) : Text(j)[k] \in 0..setup.lines
      BY <3>2, ElementsAre
    <3>4. setup.lines \in Nat /\ written \in 0..setup.lines
      BY SetupIs DEF WorldTypeOK
    <3> QED
      BY <3>1, <3>3, <3>4 DEF Numbered
  <2> QED
    BY <2>1, <2>2
<1> QED
  BY <1>1, <1>2

LEMMA NamesAre ==
  /\ Live \in Names /\ Live = <<0, FALSE>>
  /\ \A k \in 1..Kept + 1 : /\ <<k, TRUE>> \in Names /\ <<k, TRUE>> # Live
                           /\ <<k, FALSE>> \in Names /\ <<k, FALSE>> # Live
  /\ \A n \in Names : n = Live \/ (n[1] \in 1..Kept + 1 /\ (n = <<n[1], TRUE>> \/ n = <<n[1], FALSE>>))
  /\ Kept \in Nat \ {0}
<1>1. Kept \in Nat \ {0} /\ Live = <<0, FALSE>> /\ Live \in Names
  BY RotationAssumption DEF Names, Live
<1>2. \A k \in 1..Kept + 1 : /\ <<k, TRUE>> \in Names /\ <<k, TRUE>> # Live
                           /\ <<k, FALSE>> \in Names /\ <<k, FALSE>> # Live
  <2> SUFFICES ASSUME NEW k \in 1..Kept + 1, NEW z \in BOOLEAN
               PROVE  <<k, z>> \in Names /\ <<k, z>> # Live
    BY Zenon
  <2>1. <<k, z>> \in (1..Kept + 1) \X BOOLEAN
    BY Zenon
  <2>2. <<k, z>>[1] = k /\ Live[1] = 0 /\ k # 0
    BY <1>1
  <2> QED
    BY <2>1, <2>2, Zenon DEF Names
<1>3. ASSUME NEW n \in Names, n # Live
      PROVE  n[1] \in 1..Kept + 1 /\ (n = <<n[1], TRUE>> \/ n = <<n[1], FALSE>>)
  <2>1. n \in (1..Kept + 1) \X BOOLEAN
    BY <1>3 DEF Names
  <2>2. PICK k \in 1..Kept + 1, z \in BOOLEAN : n = <<k, z>>
    BY <2>1
  <2>3. z = TRUE \/ z = FALSE
    OBVIOUS
  <2> QED
    BY <2>2, <2>3
<1> QED
  BY <1>1, <1>2, <1>3

LEMMA NoneIs == None \notin Inodes /\ None \notin Nat
BY RotationAssumption

\* None is nothing a run keeps.
LEMMA NoneIsNot ==
  ASSUME setup.lines \in Nat
  PROVE  None \notin Cursors /\ None \notin LogFiles /\ None \notin Segments
<1> DEFINE Mark == Nat \cup {None}
           Verdicts == {"first-sight", "continue", "rotated", "truncated"}
<1>1. /\ \A x \in Marks : x \in Mark
      /\ \A x \in Positions : x \in Nat
      /\ \A x \in Seconds : x \in Nat
      /\ \A x \in Tokens : x \in Nat
  BY RotationAssumption DEF Marks, Positions, Seconds, Tokens
<1>2. Cursors \in SUBSET [off : Nat, ino : Inodes, fp : Mark, anchor : Mark, seen : Nat, mtime : Mark]
  <2> HIDE DEF Mark
  <2>1. \A x \in Seconds \cup {None} : x \in Mark
    BY <1>1 DEF Mark
  <2> QED
    BY <1>1, <2>1 DEF Cursors
<1>3. LogFiles \in SUBSET [ino : Inodes, verdict : Verdicts, fp : Mark, start : Nat, seed : Mark,
                          off : Nat, anchor : Mark]
  <2> HIDE DEF Mark
  <2> QED
    BY <1>1 DEF LogFiles
<1>4. Segments \in SUBSET [ino : Inodes, fp : Nat, start : Nat, off : Nat, anchor : Mark, mtime : Nat]
  <2> HIDE DEF Mark
  <2> QED
    BY <1>1 DEF Segments
<1> QED
  BY <1>2, <1>3, <1>4, NoneAssumption

\* A file no name and no reader refers to becomes blank; the others stay.
LEMMA ReferredFiles ==
  ASSUME WorldTypeOK, \A j \in Inodes : Numbered(Text(j), written), setup' = setup,
         NEW d, NEW h, file' = Referred(d, h), written' = written
  PROVE  /\ file' \in [Inodes -> [text : Seq(Tokens), mtime : 0..MaxSeconds]]
         /\ \A j \in Inodes : Numbered(Text(j), written)'
<1>1. Blank \in [text : Seq(Tokens), mtime : 0..MaxSeconds]
  BY RotationAssumption DEF Blank
<1>2. \A j \in Inodes : file'[j] \in {file[j], Blank}
  BY DEF Referred
<1>3. file' = [j \in Inodes |-> file'[j]]
  BY DEF Referred
<1>4. file' \in [Inodes -> [text : Seq(Tokens), mtime : 0..MaxSeconds]]
  BY <1>1, <1>2, <1>3 DEF WorldTypeOK
<1>5. \A j \in Inodes : Numbered(Text(j), written)'
  BY <1>2 DEF Text, Numbered, Blank
<1> QED
  BY <1>4, <1>5

LEMMA WritingTypes ==
  ASSUME WorldTypes, setup' = setup, WriteLine \/ WriteBanner
  PROVE  WorldTypes' /\ held' = held
<1> DEFINE t == Text(writer)
<1> USE DEF WorldTypes
<1>1. /\ setup.lines \in Nat /\ written \in 0..setup.lines /\ writer \in Inodes
      /\ t \in Seq(0..setup.lines) /\ Numbered(t, written) /\ now \in 0..MaxSeconds
  BY SetupIs DEF WorldTypeOK, Tokens, Text
<1>2. ASSUME NEW l \in 0..setup.lines, l = written + 1 \/ (l = 0 /\ t = <<>>),
             file' = Append1(writer, l), written' \in 0..setup.lines, written <= written',
             l <= written', UNCHANGED <<dir, writer, held, rot, rotations, now>>
      PROVE  WorldTypes' /\ held' = held
  <2>1. Append(t, l) \in Seq(Tokens) /\ Numbered(Append(t, l), written')
    BY <1>1, <1>2, AppendNumbered DEF Tokens
  <2>2. file' = [file EXCEPT ![writer] = [text |-> Append(t, l), mtime |-> now]]
    BY <1>2 DEF Append1, Text
  <2>3. /\ file' \in [Inodes -> [text : Seq(Tokens), mtime : 0..MaxSeconds]]
        /\ \A j \in Inodes : Numbered(Text(j), written)'
    <3> HIDE DEF t
    <3> QED
      BY <1>1, <1>2, <2>1, <2>2, OneFile
  <2> QED
    BY <1>2, <2>3 DEF WorldTypeOK, Tokens
<1>3. CASE WriteLine
  BY <1>1, <1>2, <1>3 DEF WriteLine
<1>4. CASE WriteBanner
  BY <1>1, <1>2, <1>4 DEF WriteBanner
<1> QED
  BY <1>3, <1>4

\* A step that makes one file anew, empty or with its first line.
LEMMA MakingTypes ==
  ASSUME WorldTypes, setup' = setup, MakeLive \/ TruncateLive
  PROVE  WorldTypes' /\ held' = held
<1> USE DEF WorldTypes
<1>1. /\ After(written) \in 0..setup.lines /\ written <= After(written)
      /\ Fresh(written) \in Seq(Tokens) /\ Numbered(Fresh(written), After(written))
  BY FreshNumbered DEF WorldTypeOK, MakeLive, TruncateLive
<1>2. PICK i \in Inodes : /\ file' = [file EXCEPT ![i] = [text |-> Fresh(written), mtime |-> now]]
                          /\ dir' = [dir EXCEPT ![Live] = i]
                          /\ writer' \in Inodes
  <2>1. CASE MakeLive
    BY <2>1 DEF MakeLive, Free
  <2>2. CASE TruncateLive
    <3>1. dir[Live] \in Inodes /\ dir' = [dir EXCEPT ![Live] = dir[Live]]
      BY <2>2, NamesAre DEF TruncateLive, WorldTypeOK
    <3> QED
      BY <2>2, <3>1 DEF TruncateLive, WorldTypeOK
  <2> QED
    BY <2>1, <2>2
<1>3. /\ written' = After(written) /\ rot' \in 0..Pruning
      /\ UNCHANGED <<held, rotations, now>>
  <2>1. Settled \in 0..Pruning
    BY NamesAre DEF Settled, AtRest, Pruning
  <2> QED
    BY <2>1 DEF MakeLive, TruncateLive
<1>4. /\ file' \in [Inodes -> [text : Seq(Tokens), mtime : 0..MaxSeconds]]
      /\ \A j \in Inodes : Numbered(Text(j), written)'
  <2>1. now \in 0..MaxSeconds
    BY DEF WorldTypeOK
  <2> QED
    BY <1>1, <1>2, <1>3, <2>1, OneFile
<1>5. dir' \in [Names -> Inodes \cup {None}] /\ dir'[Live] # None
  BY <1>2, NamesAre, NoneIs DEF WorldTypeOK
<1> QED
  BY <1>1, <1>2, <1>3, <1>4, <1>5 DEF WorldTypeOK, Tokens

\* A copy of a file: a free inode gets its text.
LEMMA CopyingTypes ==
  ASSUME WorldTypes, setup' = setup, CopyLive \/ \E k \in 1..Kept : Pack(k)
  PROVE  WorldTypes' /\ held' = held
<1> USE DEF WorldTypes
<1>1. PICK i \in Inodes, j \in Inodes, n \in Names, m \in 0..MaxSeconds :
        /\ file' = [file EXCEPT ![i] = [text |-> Text(j), mtime |-> m]]
        /\ dir' = [dir EXCEPT ![n] = i]
        /\ UNCHANGED <<writer, held, written, rotations, now>>
        /\ rot' \in {rot, Remaking}
        /\ rot # Remaking \/ rot' = Remaking
  <2>1. CASE CopyLive
    <3>1. dir[Live] \in Inodes
      BY <2>1, NamesAre DEF CopyLive, WorldTypeOK, Remaking
    <3>2. PICK i \in Free : /\ file' = [file EXCEPT ![i] = [text |-> Text(dir[Live]), mtime |-> now]]
                            /\ dir' = [dir EXCEPT ![<<1, FALSE>>] = i]
      BY <2>1 DEF CopyLive
    <3>3. i \in Inodes /\ now \in 0..MaxSeconds
      BY <3>2 DEF Free, WorldTypeOK
    <3>5. <<1, FALSE>> \in Names
      <4>1. 1 \in 1..Kept + 1
        BY NamesAre
      <4> QED
        BY <4>1, NamesAre
    <3>4. rot' = Remaking /\ UNCHANGED <<writer, held, written, rotations, now>>
      BY <2>1 DEF CopyLive
    <3> QED
      BY <3>1, <3>2, <3>3, <3>4, <3>5
  <2>2. ASSUME NEW k \in 1..Kept, Pack(k)
        PROVE  \E i \in Inodes, j \in Inodes, n \in Names, m \in 0..MaxSeconds :
                 /\ file' = [file EXCEPT ![i] = [text |-> Text(j), mtime |-> m]]
                 /\ dir' = [dir EXCEPT ![n] = i]
                 /\ UNCHANGED <<writer, held, written, rotations, now>>
                 /\ rot' \in {rot, Remaking}
                 /\ rot # Remaking \/ rot' = Remaking
    <3> DEFINE j == dir[<<k, FALSE>>]
    <3>1. <<k, FALSE>> \in Names /\ <<k, TRUE>> \in Names
      <4>1. k \in 1..Kept + 1
        BY NamesAre
      <4> QED
        BY <4>1, NamesAre
    <3>2. j \in Inodes /\ UNCHANGED <<writer, held, rot, written, rotations, now>>
      BY <2>2, <3>1 DEF Pack, WorldTypeOK
    <3>3. PICK i \in Free : /\ file' = [file EXCEPT ![i] = file[j]]
                            /\ dir' = [dir EXCEPT ![<<k, TRUE>>] = i]
      BY <2>2 DEF Pack
    <3>4. file[j] = [text |-> Text(j), mtime |-> file[j].mtime] /\ file[j].mtime \in 0..MaxSeconds
      BY <3>2 DEF WorldTypeOK, Text
    <3>5. i \in Inodes
      BY DEF Free
    <3> HIDE DEF j
    <3> QED
      BY <3>1, <3>2, <3>3, <3>4, <3>5
  <2> QED
    BY <2>1, <2>2
<1>2. Text(j) \in Seq(Tokens) /\ Numbered(Text(j), written)
  BY DEF WorldTypeOK, Text
<1>3. /\ file' \in [Inodes -> [text : Seq(Tokens), mtime : 0..MaxSeconds]]
      /\ \A x \in Inodes : Numbered(Text(x), written)'
  <2>1. written' \in 0..setup.lines /\ written <= written' /\ written' = written
    BY <1>1, SetupIs DEF WorldTypeOK
  <2> DEFINE t == Text(j)
  <2>2. t \in Seq(Tokens) /\ Numbered(t, written')
    BY <1>2, <2>1
  <2>3. file' = [file EXCEPT ![i] = [text |-> t, mtime |-> m]]
    BY <1>1
  <2> HIDE DEF t
  <2> QED
    BY <2>1, <2>2, <2>3, OneFile
<1>4. rot' \in 0..Pruning
  BY <1>1, NamesAre DEF WorldTypeOK, Remaking, Pruning
<1>5. dir' \in [Names -> Inodes \cup {None}]
  BY <1>1 DEF WorldTypeOK
<1>6. dir'[Live] = None => rot' = Remaking
  BY <1>1, NamesAre, NoneIs DEF WorldTypeOK
<1> QED
  BY <1>1, <1>3, <1>4, <1>5, <1>6 DEF WorldTypeOK, Tokens

\* Steps that move names only, or give up what nothing refers to.
LEMMA MovingTypes ==
  ASSUME WorldTypes, setup' = setup,
         Tick \/ Rotate \/ Shift \/ MoveLive \/ Prune \/ \E k \in 1..Kept : DropPlain(k)
  PROVE  WorldTypes' /\ held' = held
<1> USE NamesAre DEF WorldTypes
<1>1. CASE Tick
  BY <1>1, RotationAssumption DEF Tick, WorldTypeOK, Tokens, Text
<1>2. CASE Rotate
  <2>1. rot' \in 0..Kept /\ rotations' \in 0..setup.rotations /\ rot = AtRest
    BY <1>2, SetupIs DEF Rotate, WorldTypeOK
  <2>2. dir[Live] # None /\ rot' \in 0..Pruning
    BY <2>1 DEF AtRest, Remaking, Pruning
  <2> QED
    BY <1>2, <2>1, <2>2 DEF Rotate, WorldTypeOK, Tokens, Text
<1>3. CASE Shift
  <2>1. rot \in 1..Kept /\ rot' = rot - 1
    BY <1>3 DEF Shift
  <2>2. ASSUME NEW n \in Names, n[1] = rot + 1 PROVE dir[<<rot, n[2]>>] \in Inodes \cup {None}
    <3>1. n # Live /\ rot \in 1..Kept + 1
      <4>1. Live[1] = 0
        BY DEF Live
      <4>2. rot \in 1..Kept + 1 /\ rot + 1 # 0
        BY <2>1
      <4>3. ASSUME n = Live PROVE FALSE
        BY <2>2, <4>1, <4>2, <4>3, Zenon
      <4> QED
        BY <4>2, <4>3
    <3>2. n = <<n[1], TRUE>> \/ n = <<n[1], FALSE>>
      BY <3>1
    <3>3. n[2] = TRUE \/ n[2] = FALSE
      <4>1. CASE n = <<n[1], TRUE>>
        <5>1. <<n[1], TRUE>>[2] = TRUE
          BY Zenon
        <5> QED
          BY <4>1, <5>1, Zenon
      <4>2. CASE n = <<n[1], FALSE>>
        <5>1. <<n[1], FALSE>>[2] = FALSE
          BY Zenon
        <5> QED
          BY <4>2, <5>1, Zenon
      <4> QED
        BY <3>2, <4>1, <4>2
    <3>4. <<rot, n[2]>> = <<rot, TRUE>> \/ <<rot, n[2]>> = <<rot, FALSE>>
      BY <3>3, Zenon
    <3>5. <<rot, n[2]>> \in Names
      BY <3>1, <3>4
    <3> QED
      BY <3>5 DEF WorldTypeOK
  <2>3. dir' \in [Names -> Inodes \cup {None}]
    BY <1>3, <2>2 DEF Shift, WorldTypeOK
  <2>4. dir'[Live] = dir[Live] /\ dir[Live] # None
    BY <1>3, <2>1 DEF Shift, Live, Remaking
  <2>5. rot' \in 0..Pruning
    BY <2>1 DEF Pruning
  <2> QED
    BY <1>3, <2>3, <2>4, <2>5 DEF Shift, WorldTypeOK, Tokens, Text
<1>4. CASE MoveLive
  <2>1. dir' \in [Names -> Inodes \cup {None}]
    BY <1>4 DEF MoveLive, WorldTypeOK
  <2>2. rot' = Remaking /\ rot' \in 0..Pruning
    BY <1>4 DEF MoveLive, Remaking, Pruning
  <2> QED
    BY <1>4, <2>1, <2>2 DEF MoveLive, WorldTypeOK, Tokens, Text
<1>5. CASE Prune \/ \E k \in 1..Kept : DropPlain(k)
  <2>1. /\ file' = Referred(dir', held)
        /\ UNCHANGED <<writer, held, written, rotations, now>>
        /\ dir' \in [Names -> Inodes \cup {None}]
        /\ dir'[Live] = dir[Live]
        /\ rot' \in {rot, AtRest} /\ (rot = Remaking => rot' = Remaking)
    <3>1. CASE Prune
      BY <3>1 DEF Prune, WorldTypeOK, Pruning, AtRest, Remaking, Live
    <3>2. ASSUME NEW k \in 1..Kept, DropPlain(k)
          PROVE  /\ file' = Referred(dir', held)
                 /\ UNCHANGED <<writer, held, written, rotations, now, rot>>
                 /\ dir' \in [Names -> Inodes \cup {None}]
                 /\ dir'[Live] = dir[Live]
      <4>1. <<k, FALSE>> # Live
        <5>1. k \in 1..Kept + 1
          OBVIOUS
        <5> QED
          BY <5>1
      <4> QED
        BY <3>2, <4>1 DEF DropPlain, WorldTypeOK
    <3> QED
      BY <1>5, <3>1, <3>2
  <2>2. /\ file' \in [Inodes -> [text : Seq(Tokens), mtime : 0..MaxSeconds]]
        /\ \A j \in Inodes : Numbered(Text(j), written)'
    BY <2>1, ReferredFiles
  <2>3. rot' \in 0..Pruning
    BY <2>1 DEF WorldTypeOK, AtRest, Pruning
  <2> QED
    BY <2>1, <2>2, <2>3 DEF WorldTypeOK, Tokens
<1> QED
  BY <1>1, <1>2, <1>3, <1>4, <1>5

LEMMA WorldStepTypes ==
  ASSUME WorldTypes, setup' = setup, WorldNext
  PROVE  WorldTypes' /\ held' = held
BY WritingTypes, MakingTypes, CopyingTypes, MovingTypes DEF WorldNext

\* The lines behind a position are lines of the text behind it, in its order.
LEMMA RestIs ==
  ASSUME NEW n \in Nat, NEW t \in Seq(0..n), NEW w \in 0..n, Numbered(t, w), NEW off \in Nat
  PROVE  /\ Rest(t, off) \in Seq(1..n)
         /\ \E d \in Nat : \A x \in DOMAIN Rest(t, off) :
              /\ off <= d /\ d + x \in DOMAIN t /\ Rest(t, off)[x] = t[d + x]
<1> DEFINE d == IF off = 0 /\ FirstLine(t) = 0 THEN 1 ELSE off
           s == SubSeq(t, d + 1, Len(t))
<1>1. d \in Nat /\ off <= d /\ d + 1 \in Nat \ {0} /\ Len(t) \in 0..Len(t)
  OBVIOUS
<1>2. Rest(t, off) = s
  BY DEF Rest
<1>3. ASSUME NEW x \in DOMAIN s
      PROVE  d + x \in DOMAIN t /\ s[x] = t[d + x] /\ s[x] \in 1..n
  <2>1. x \in Nat /\ x > 0 /\ d + x \in 1..Len(t) /\ s[x] = t[d + x]
    <3>1. d \in Nat /\ x \in DOMAIN s
      BY <1>1
    <3> HIDE DEF d
    <3>2. x \in Nat \ {0} /\ d + x \in DOMAIN t /\ s[x] = t[d + x]
      BY <3>1, EndIs
    <3> HIDE DEF s
    <3> QED
      BY <3>2
  <2>2. t[d + x] \in 0..n /\ d + x - 1 <= t[d + x]
    <3> HIDE DEF d
    <3>1. d + x \in DOMAIN t
      BY <2>1
    <3>2. t[d + x] \in 0..n
      BY <3>1, ElementsAre
    <3>3. \A j \in DOMAIN t : j - 1 <= t[j]
      BY DEF Numbered
    <3> QED
      BY <1>1, <2>1, <3>1, <3>2, <3>3
  <2>3. t[d + x] # 0
    <3>1. CASE d + x > 1
      <4> HIDE DEF d
      <4> QED
        BY <1>1, <2>1, <2>2, <3>1
    <3>2. CASE d + x = 1
      <4>1. d = 0
        <5> HIDE DEF d
        <5> QED
          BY <1>1, <2>1, <3>2
      <4>2. off = 0 /\ FirstLine(t) # 0
        BY <4>1
      <4>3. t # <<>>
        BY <2>1, <3>2
      <4> QED
        BY <3>2, <4>2, <4>3 DEF FirstLine
    <3> QED
      <4> HIDE DEF d
      <4> QED
        BY <1>1, <2>1, <3>1, <3>2
  <2> HIDE DEF d, s
  <2> QED
    BY <2>1, <2>2, <2>3
<1>4. s \in Seq(1..n)
  <2>1. s \in Seq(0..n)
    <3> HIDE DEF d
    <3> QED
      BY <1>1, SubSeqIs
  <2> HIDE DEF s, d
  <2>2. DOMAIN s = 1..Len(s) /\ s = [x \in 1..Len(s) |-> s[x]] /\ Len(s) \in Nat
    BY <2>1
  <2>3. \A x \in 1..Len(s) : s[x] \in 1..n
    BY <1>3, <2>2
  <2> QED
    BY <2>2, <2>3
<1> HIDE DEF d, s
<1> QED
  BY <1>1, <1>2, <1>3, <1>4

\* What a text's beginning, its lines before a position and its length are.
LEMMA TextIs ==
  ASSUME WorldTypes, NEW i \in Inodes
  PROVE  /\ setup.lines \in Nat /\ written \in 0..setup.lines
         /\ Text(i) \in Seq(0..setup.lines) /\ Numbered(Text(i), written)
         /\ Len(Text(i)) \in Positions
         /\ FirstLine(Text(i)) \in Marks
         /\ (FirstLine(Text(i)) = None <=> Text(i) = <<>>)
         /\ FirstLine(Text(i)) # None => FirstLine(Text(i)) \in Tokens
         /\ \A off \in Nat : Anchor(Text(i), off) \in Marks
         /\ \A off \in Nat : Rest(Text(i), off) \in Seq(Lines)
         /\ file[i].mtime \in Seconds
<1> DEFINE t == Text(i)
<1>1. /\ setup.lines \in Nat /\ written \in 0..setup.lines /\ file[i].mtime \in Seconds
      /\ t \in Seq(0..setup.lines) /\ Numbered(t, written)
  BY SetupIs DEF WorldTypes, WorldTypeOK, Text, Tokens, Seconds
<1> HIDE DEF t
<1>2. Len(t) \in Positions
  BY <1>1, LengthIs DEF Positions
<1>3. t # <<>> => t[1] \in Tokens /\ t[1] # None
  BY <1>1, NoneIs DEF Tokens
<1>4. /\ FirstLine(t) \in Marks /\ (FirstLine(t) = None <=> t = <<>>)
      /\ FirstLine(t) # None => FirstLine(t) \in Tokens
  BY <1>3 DEF FirstLine, Marks
<1>5. ASSUME NEW off \in Nat PROVE Anchor(t, off) \in Marks
  <2>1. off \in 1..Len(t) => t[off] \in Tokens
    BY <1>1, ElementsAre DEF Tokens
  <2> QED
    BY <1>1, <2>1 DEF Anchor, Marks
<1>6. ASSUME NEW off \in Nat PROVE Rest(t, off) \in Seq(Lines)
  BY <1>1, RestIs DEF Lines
<1> QED
  BY <1>1, <1>2, <1>4, <1>5, <1>6 DEF t

\* A text up to a line is a text.
LEMMA PrefixIs ==
  ASSUME NEW n \in Nat, NEW t \in Seq(0..n), NEW w \in 0..n, Numbered(t, w), NEW to \in 0..Len(t)
  PROVE  /\ SubSeq(t, 1, to) \in Seq(0..n) /\ Numbered(SubSeq(t, 1, to), w)
         /\ Len(SubSeq(t, 1, to)) = to
         /\ \A x \in 1..to : x \in DOMAIN t /\ SubSeq(t, 1, to)[x] = t[x]
<1> DEFINE s == SubSeq(t, 1, to)
<1>1. s \in Seq(0..n) /\ Len(s) = to /\ Len(t) \in Nat
  BY SubSeqIs
<1>2. ASSUME NEW x \in 1..to PROVE x \in DOMAIN t /\ s[x] = t[x]
  <2>1. x \in DOMAIN s
    BY <1>1
  <2>2. 1 + x - 1 = x /\ s[x] = t[1 + x - 1]
    BY <2>1, SubSeqIs
  <2> HIDE DEF s
  <2> QED
    BY <1>1, <2>2
<1> HIDE DEF s
<1>3. Numbered(s, w)
  BY <1>1, <1>2 DEF Numbered
<1> QED
  BY <1>1, <1>2, <1>3 DEF s

\* One archive has a number in a listing with one file per name: the plain one, if both are there.
LEMMA ArchivesDiffer ==
  ASSUME NEW L \in SUBSET Copies, OnePerName(L)
  PROVE  /\ Archives(L) \in SUBSET Everything(L) /\ Everything(L) \in SUBSET L
         /\ \A a \in Archives(L) : a.k > 0
         /\ \A a, b \in Archives(L) : a.k = b.k => a = b
<1>1. Archives(L) \in SUBSET Everything(L) /\ Everything(L) \in SUBSET L
  BY DEF Archives, Everything
<1>2. \A a \in Archives(L) : a.k > 0
  BY DEF Archives
<1>3. ASSUME NEW a \in Archives(L), NEW b \in Archives(L), a.k = b.k PROVE a = b
  <2>1. a \in L /\ b \in L
    BY <1>1
  <2>2. a.gz \in BOOLEAN /\ b.gz \in BOOLEAN
    BY <2>1 DEF Copies
  <2>3. ~(a.gz /\ ~b.gz) /\ ~(b.gz /\ ~a.gz)
    BY <1>3, <2>1, Zenon DEF Archives
  <2>4. a.gz = b.gz
    <3>1. (a.gz = TRUE \/ a.gz = FALSE) /\ (b.gz = TRUE \/ b.gz = FALSE)
      BY <2>2, Zenon
    <3>2. CASE a.gz = TRUE
      BY <2>3, <3>1, <3>2, Zenon
    <3>3. CASE a.gz = FALSE
      BY <2>3, <3>1, <3>3, Zenon
    <3> QED
      BY <3>1, <3>2, <3>3, Zenon
  <2> QED
    BY <1>3, <2>1, <2>4, Zenon DEF OnePerName
<1> QED
  BY <1>1, <1>2, <1>3

\* A set of copies with one file per number is finite, and is sorted either way.
LEMMA SortedCopies ==
  ASSUME NEW S \in SUBSET Copies, \A a, b \in S : a.k = b.k => a = b
  PROVE  /\ OldestFirst(S) \in Seq(S) /\ NewestFirst(S) \in Seq(S)
         /\ \A i, j \in DOMAIN OldestFirst(S) : i < j => OldestFirst(S)[i].k > OldestFirst(S)[j].k
         /\ \A a \in S : \E i \in DOMAIN OldestFirst(S) : OldestFirst(S)[i] = a
<1> DEFINE f == [a \in S |-> a.k]
           s == OldestFirst(S)
           r == [i \in DOMAIN s |-> s[Len(s) + 1 - i]]
<1>1. \A a \in S : a.k \in 0..Kept + 1 /\ a.k \in Nat
  BY NamesAre DEF Copies
<1>2. f \in Injection(S, 0..Kept + 1)
  BY <1>1 DEF Injection, IsInjective
<1>3. IsFiniteSet(0..Kept + 1)
  BY NamesAre, FS_Interval
<1>4. IsFiniteSet(S)
  <2> HIDE DEF f
  <2> QED
    BY <1>2, <1>3, FS_Injection
<1>5. /\ s \in Seq(S) /\ \A i, j \in DOMAIN s : i < j => s[i].k > s[j].k
      /\ \A a \in S : \E i \in DOMAIN s : s[i] = a
  BY <1>1, <1>4, OldestFirstIs
<1>6. NewestFirst(S) = r
  BY DEF NewestFirst
<1> HIDE DEF s
<1>7. r \in Seq(S)
  <2>1. DOMAIN s = 1..Len(s) /\ Len(s) \in Nat
    BY <1>5
  <2>2. \A i \in 1..Len(s) : Len(s) + 1 - i \in 1..Len(s)
    BY <2>1
  <2>3. \A i \in 1..Len(s) : s[Len(s) + 1 - i] \in S
    BY <1>5, <2>1, <2>2
  <2> QED
    BY <2>1, <2>3
<1> QED
  BY <1>5, <1>6, <1>7 DEF s

\* A subset of the archives is sorted.
LEMMA SortedArchives ==
  ASSUME NEW L \in SUBSET Copies, OnePerName(L), NEW S \in SUBSET Archives(L)
  PROVE  /\ OldestFirst(S) \in Seq(S) /\ NewestFirst(S) \in Seq(S)
         /\ \A i, j \in DOMAIN OldestFirst(S) : i < j => OldestFirst(S)[i].k > OldestFirst(S)[j].k
         /\ \A a \in S : \E i \in DOMAIN OldestFirst(S) : OldestFirst(S)[i] = a
<1>1. S \in SUBSET Copies /\ \A a, b \in S : a.k = b.k => a = b
  BY ArchivesDiffer
<1> QED
  BY <1>1, SortedCopies

\* A sequence over a set is one over a larger set.
LEMMA SeqWider ==
  ASSUME NEW S, NEW T, NEW s \in Seq(S), \A a \in S : a \in T
  PROVE  s \in Seq(T)
<1>1. s \in [1..Len(s) -> S] /\ Len(s) \in Nat
  OBVIOUS
<1>2. s \in [1..Len(s) -> T]
  BY <1>1
<1> QED
  BY <1>1, <1>2

\* What may be a candidate: with no first line to go by, archives under the inode alone.
Stages == {"mtime", "recent", "inode", "older"}
May(L) == {a \in Everything(L) : saved.fp = None => a.ino = saved.ino /\ a.k > 0}
Items(L) == [copy : May(L), stage : Stages]

LEMMA StageIs ==
  ASSUME NEW L, NEW S, \A a \in S : a \in May(L), NEW s \in Seq(S), NEW of \in Stages
  PROVE  [i \in DOMAIN s |-> [copy |-> s[i], stage |-> of]] \in Seq(Items(L))
<1>1. DOMAIN s = 1..Len(s) /\ Len(s) \in Nat /\ \A i \in DOMAIN s : s[i] \in S
  BY ElementsAre
<1>2. \A i \in DOMAIN s : [copy |-> s[i], stage |-> of] \in Items(L)
  BY <1>1 DEF Items
<1> HIDE DEF Items
<1> QED
  BY <1>1, <1>2

LEMMA CandidatesAre ==
  ASSUME NEW L \in SUBSET Copies, OnePerName(L)
  PROVE  Candidates(L) \in Seq(Items(L))
<1> DEFINE arch == Archives(L)
           own(a) == a.ino = saved.ino
           parked == IF saved.mtime = None THEN {} ELSE {a \in arch : a.mtime = saved.mtime}
           mine == {a \in parked : own(a)}
           others == {a \in parked : ~own(a)}
           byTime == OldestFirst(mine) \o (IF saved.fp = None THEN <<>> ELSE OldestFirst(others))
           byInode == IF live # None /\ live.verdict = "truncated" THEN {}
                      ELSE {a \in Everything(L) : own(a) /\ (saved.fp # None \/ a.k > 0)}
           inode == IF byInode = {} THEN <<>> ELSE <<CHOOSE a \in byInode : TRUE>>
           recent == {a \in arch : Recent(a)}
           older == {a \in arch : ~Recent(a)}
           stage(s, of) == [i \in DOMAIN s |-> [copy |-> s[i], stage |-> of]]
           two == IF saved.fp = None THEN <<>> ELSE stage(OldestFirst(recent), "recent")
           four == IF saved.fp = None THEN <<>> ELSE stage(NewestFirst(older), "older")
<1>1. Candidates(L) = ((stage(byTime, "mtime") \o two) \o stage(inode, "inode")) \o four
  BY DEF Candidates
<1>2. arch \in SUBSET Everything(L) /\ \A a \in arch : a.k > 0
  BY ArchivesDiffer
<1>3. mine \in SUBSET arch /\ others \in SUBSET arch /\ recent \in SUBSET arch /\ older \in SUBSET arch
  OBVIOUS
<1>4. /\ \A a \in mine : a \in May(L)
      /\ saved.fp # None => \A a \in arch : a \in May(L)
      /\ \A a \in byInode : a \in May(L)
  BY <1>2 DEF May
<1>5. byTime \in Seq(May(L))
  <2>1. OldestFirst(mine) \in Seq(May(L))
    <3> HIDE DEF mine, arch
    <3>1. OldestFirst(mine) \in Seq(mine)
      BY <1>3, SortedArchives DEF arch
    <3> QED
      BY <1>4, <3>1, SeqWider
  <2>2. saved.fp # None => OldestFirst(others) \in Seq(May(L))
    <3> HIDE DEF others, arch
    <3>1. OldestFirst(others) \in Seq(others)
      BY <1>3, SortedArchives DEF arch
    <3> SUFFICES ASSUME saved.fp # None PROVE OldestFirst(others) \in Seq(May(L))
      OBVIOUS
    <3>2. \A a \in others : a \in May(L)
      BY <1>3, <1>4
    <3> QED
      BY <3>1, <3>2, SeqWider
  <2> HIDE DEF mine, others
  <2> QED
    BY <2>1, <2>2, ConcatIs
<1>6. inode \in Seq(May(L))
  <2>1. byInode # {} => (CHOOSE a \in byInode : TRUE) \in May(L)
    <3> HIDE DEF byInode
    <3> QED
      BY <1>4
  <2> HIDE DEF byInode
  <2> QED
    BY <2>1
<1>7. /\ saved.fp # None => stage(OldestFirst(recent), "recent") \in Seq(Items(L))
      /\ saved.fp # None => stage(NewestFirst(older), "older") \in Seq(Items(L))
  <2> SUFFICES ASSUME saved.fp # None
               PROVE  /\ stage(OldestFirst(recent), "recent") \in Seq(Items(L))
                      /\ stage(NewestFirst(older), "older") \in Seq(Items(L))
    OBVIOUS
  <2>1. (\A a \in recent : a \in May(L)) /\ (\A a \in older : a \in May(L))
    BY <1>3, <1>4
  <2> HIDE DEF recent, older, arch
  <2>2. OldestFirst(recent) \in Seq(recent) /\ NewestFirst(older) \in Seq(older)
    BY <1>3, SortedArchives DEF arch
  <2>3. "recent" \in Stages /\ "older" \in Stages
    BY DEF Stages
  <2>4. stage(OldestFirst(recent), "recent") \in Seq(Items(L))
    BY <2>1, <2>2, <2>3, StageIs
  <2>5. stage(NewestFirst(older), "older") \in Seq(Items(L))
    BY <2>1, <2>2, <2>3, StageIs
  <2> QED
    BY <2>4, <2>5
<1>8. stage(byTime, "mtime") \in Seq(Items(L)) /\ stage(inode, "inode") \in Seq(Items(L))
  <2>1. "mtime" \in Stages /\ "inode" \in Stages
    BY DEF Stages
  <2> HIDE DEF byTime, inode
  <2> QED
    BY <1>5, <1>6, <2>1, StageIs
<1>9. two \in Seq(Items(L)) /\ four \in Seq(Items(L))
  BY <1>7
<1>10. (stage(byTime, "mtime") \o two) \in Seq(Items(L))
  <2> HIDE DEF byTime, two, stage
  <2> QED
    BY <1>8, <1>9, ConcatIs
<1>11. ((stage(byTime, "mtime") \o two) \o stage(inode, "inode")) \in Seq(Items(L))
  <2> HIDE DEF byTime, two, inode, stage
  <2> QED
    BY <1>8, <1>10, ConcatIs
<1> HIDE DEF byTime, two, four, inode, stage
<1> QED
  BY <1>1, <1>9, <1>11, ConcatIs

\* What a listing finds: a record per name, of the file that has the name.
LEMMA FoundIs ==
  ASSUME TypeInv
  PROVE  /\ Found \in SUBSET Copies /\ OnePerName(Found)
         /\ \A a \in Found : /\ <<a.k, a.gz>> \in names /\ <<a.k, a.gz>> \in Names
                             /\ a.ino = dir[<<a.k, a.gz>>] /\ a.ino \in Inodes
<1> DEFINE Copied(n) == [k |-> n[1], gz |-> n[2], ino |-> dir[n], size |-> Len(Text(dir[n])),
                         mtime |-> file[dir[n]].mtime]
<1>1. ASSUME NEW n \in Names
      PROVE  n = <<n[1], n[2]>> /\ n[1] \in 0..Kept + 1 /\ n[2] \in BOOLEAN
  <2>1. CASE n = Live
    BY <2>1, NamesAre
  <2>2. CASE n # Live
    <3>1. n[1] \in 1..Kept + 1 /\ (n = <<n[1], TRUE>> \/ n = <<n[1], FALSE>>)
      BY <2>2, NamesAre
    <3>2. n[1] \in 0..Kept + 1
      BY <3>1, NamesAre
    <3>3. ASSUME NEW z \in BOOLEAN, n = <<n[1], z>> PROVE n = <<n[1], n[2]>> /\ n[2] \in BOOLEAN
      <4>1. <<n[1], z>>[2] = z
        BY Zenon
      <4>2. n[2] = z
        BY <3>3, <4>1, Zenon
      <4> QED
        BY <3>3, <4>2, Zenon
    <3> QED
      BY <3>1, <3>2, <3>3, Zenon
  <2> QED
    BY <2>1, <2>2
<1>2. ASSUME NEW a \in Found
      PROVE  \E n \in names : /\ a = Copied(n) /\ n \in Names /\ dir[n] \in Inodes
                              /\ a \in Copies /\ <<a.k, a.gz>> = n /\ a.ino = dir[n]
  <2>1. PICK n \in names : a = Copied(n) /\ dir[n] # None
    BY DEF Found
  <2>2. n \in Names /\ dir[n] \in Inodes
    BY <2>1 DEF TypeInv, TypeOK, WorldTypeOK
  <2>3. Len(Text(dir[n])) \in Positions /\ file[dir[n]].mtime \in Seconds
    BY <2>2, TextIs DEF TypeInv
  <2>4. n = <<n[1], n[2]>> /\ n[1] \in 0..Kept + 1 /\ n[2] \in BOOLEAN
    BY <1>1, <2>2
  <2>5. a \in Copies
    BY <2>1, <2>2, <2>3, <2>4 DEF Copies
  <2>6. a.k = n[1] /\ a.gz = n[2] /\ a.ino = dir[n]
    BY <2>1
  <2>7. <<a.k, a.gz>> = n
    BY <2>4, <2>6, Zenon
  <2> QED
    BY <2>1, <2>2, <2>5, <2>6, <2>7
<1> HIDE DEF Copied
<1>3. Found \in SUBSET Copies
  BY <1>2
<1>4. ASSUME NEW a \in Found, NEW b \in Found, a.k = b.k, a.gz = b.gz PROVE a = b
  <2>1. PICK n \in names : a = Copied(n) /\ <<a.k, a.gz>> = n
    BY <1>2
  <2>2. PICK m \in names : b = Copied(m) /\ <<b.k, b.gz>> = m
    BY <1>2
  <2>3. m = n
    BY <1>4, <2>1, <2>2, Zenon
  <2> QED
    BY <2>1, <2>2, <2>3
<1>5. \A a \in Found : /\ <<a.k, a.gz>> \in names /\ <<a.k, a.gz>> \in Names
                       /\ a.ino = dir[<<a.k, a.gz>>] /\ a.ino \in Inodes
  BY <1>2
<1> QED
  BY <1>3, <1>4, <1>5 DEF OnePerName

\* A type that the setup alone gives stays what it is.
LEMMA SameSets ==
  ASSUME setup' = setup
  PROVE  /\ Lines' = Lines /\ Tokens' = Tokens /\ Positions' = Positions /\ Marks' = Marks
         /\ Cursors' = Cursors /\ Copies' = Copies /\ LogFiles' = LogFiles /\ Segments' = Segments
BY DEF Lines, Tokens, Positions, Marks, Cursors, Copies, LogFiles, Segments

LEMMA FlawedTypes ==
  ASSUME TypeInv, NEW a, a.ino \in Inodes, NEW from \in Nat, Flawed(a, from)
  PROVE  failures' \in 0..MaxFailures + setup.flaws /\ lost' \in SUBSET Lines
<1>1. failures' \in 0..MaxFailures + setup.flaws
  <2>1. setup.flaws \in Nat /\ MaxFailures \in Nat
    BY SetupIs, SearchAssumption DEF TypeInv, TypeOK, WorldTypeOK
  <2>2. failures \in Nat /\ failures < setup.flaws /\ failures' = failures + 1
    BY <2>1 DEF TypeInv, TypeOK, Flawed
  <2> QED
    BY <2>1, <2>2
<1>2. Rest(Text(a.ino), from) \in Seq(Lines)
  BY TextIs DEF TypeInv
<1>3. ToSet(Rest(Text(a.ino), from)) \in SUBSET Lines
  <2> DEFINE s == Rest(Text(a.ino), from)
  <2> HIDE DEF s
  <2>1. s \in Seq(Lines)
    BY <1>2 DEF s
  <2>2. ToSet(s) \in SUBSET Lines
    BY <2>1 DEF ToSet
  <2> QED
    BY <2>2 DEF s
<1> QED
  BY <1>1, <1>3 DEF Flawed, TypeInv, TypeOK

LEMMA ReadCopyTypes ==
  ASSUME TypeInv, NEW a, a.ino \in Inodes, NEW from \in Positions,
         NEW to \in 0..Len(Text(a.ino)), ReadCopy(a, from, to)
  PROVE  got' \in Seq(Lines) /\ last' \in Segments \cup {None}
<1> DEFINE t == Text(a.ino)
<1>1. /\ setup.lines \in Nat /\ written \in 0..setup.lines /\ t \in Seq(0..setup.lines)
      /\ Numbered(t, written) /\ Len(t) \in Positions
      /\ FirstLine(t) # None => FirstLine(t) \in Tokens
      /\ file[a.ino].mtime \in Seconds /\ \A off \in Nat : Anchor(t, off) \in Marks
  BY TextIs DEF TypeInv
<1>2. got' = got \o Rest(SubSeq(t, 1, to), from)
  BY DEF ReadCopy
<1>3. last' = IF FirstLine(t) = None THEN last
              ELSE [ino |-> a.ino, fp |-> FirstLine(t), start |-> from, off |-> to,
                    anchor |-> Anchor(t, to), mtime |-> file[a.ino].mtime]
  BY DEF ReadCopy, Copy
<1>4. to \in 0..Len(t)
  OBVIOUS
<1> HIDE DEF t
<1>5. from \in Nat /\ to \in Nat /\ to \in Positions
  BY <1>1, <1>4 DEF Positions
<1>6. Rest(SubSeq(t, 1, to), from) \in Seq(Lines)
  <2>1. SubSeq(t, 1, to) \in Seq(0..setup.lines) /\ Numbered(SubSeq(t, 1, to), written)
    BY <1>1, <1>4, PrefixIs
  <2> QED
    BY <1>1, <1>5, <2>1, RestIs DEF Lines
<1>7. got' \in Seq(Lines)
  BY <1>2, <1>6, ConcatIs DEF TypeInv, TypeOK
<1>8. last' \in Segments \cup {None}
  BY <1>1, <1>3, <1>5 DEF TypeInv, TypeOK, Segments
<1> QED
  BY <1>7, <1>8

LEMMA ReadOnTypes ==
  ASSUME TypeInv, NEW a, a.ino \in Inodes, NEW from \in Positions, ReadOn(a, from)
  PROVE  /\ got' \in Seq(Lines) /\ last' \in Segments \cup {None}
         /\ failures' \in 0..MaxFailures + setup.flaws /\ lost' \in SUBSET Lines
<1>1. Len(Text(a.ino)) \in Nat /\ from \in Nat
  BY TextIs DEF TypeInv, Positions
<1>2. CASE ReadCopy(a, from, Len(Text(a.ino))) /\ UNCHANGED <<failures, lost>>
  <2>1. Len(Text(a.ino)) \in 0..Len(Text(a.ino))
    BY <1>1
  <2> QED
    BY <1>2, <2>1, ReadCopyTypes DEF TypeInv, TypeOK
<1>3. ASSUME NEW to \in from..Len(Text(a.ino)), ReadCopy(a, from, to), Flawed(a, to)
      PROVE  /\ got' \in Seq(Lines) /\ last' \in Segments \cup {None}
             /\ failures' \in 0..MaxFailures + setup.flaws /\ lost' \in SUBSET Lines
  <2>1. to \in 0..Len(Text(a.ino)) /\ to \in Nat
    BY <1>1
  <2> QED
    BY <1>3, <2>1, ReadCopyTypes, FlawedTypes
<1> QED
  BY <1>2, <1>3 DEF ReadOn

\* How often a line was read is a number.
LEMMA CountIs ==
  ASSUME NEW s \in Seq(Lines), NEW l
  PROVE  /\ IsFiniteSet({i \in DOMAIN s : s[i] = l})
         /\ Cardinality({i \in DOMAIN s : s[i] = l}) \in Nat
<1> DEFINE C == {i \in DOMAIN s : s[i] = l}
<1>1. DOMAIN s = 1..Len(s) /\ Len(s) \in Nat
  OBVIOUS
<1>2. IsFiniteSet(1..Len(s)) /\ C \in SUBSET (1..Len(s))
  BY <1>1, FS_Interval
<1> HIDE DEF C
<1>3. IsFiniteSet(C) /\ Cardinality(C) \in Nat
  BY <1>2, FS_Subset, FS_CardinalityType
<1> QED
  BY <1>3 DEF C

\* Every action keeps what it does not name.
LEMMA SameWorldTypes ==
  ASSUME TypeInv, setup' = setup, UNCHANGED world
  PROVE  WorldTypes' /\ WorldTypeOK'
BY DEF TypeInv, WorldTypes, WorldTypeOK, Text, Tokens, world

LEMMA OpenTypes ==
  ASSUME TypeInv, setup' = setup, Open
  PROVE  TypeInv'
<1> USE DEF TypeInv
<1> DEFINE i == dir[Live]
           t == Text(i)
           v == Verdict(i)
           off == StartOffset(v, t)
<1>1. i \in Inodes
  BY NamesAre DEF Open, TypeOK, WorldTypeOK
<1>2. /\ setup.lines \in Nat /\ written \in 0..setup.lines
      /\ Len(t) \in Positions /\ FirstLine(t) \in Marks
      /\ \A o \in Nat : Anchor(t, o) \in Marks
      /\ \A o \in Nat : Rest(t, o) \in Seq(Lines)
  BY <1>1, TextIs
<1>13. setup.lines \in Nat /\ written \in 0..setup.lines
  <2> HIDE DEF t
  <2> QED
    BY <1>2
<1>3. v \in {"first-sight", "continue", "rotated", "truncated"} /\ (v # "first-sight" <=> saved # None)
  BY DEF Verdict
<1>4. live' = [ino |-> i, verdict |-> v, fp |-> FirstLine(t), start |-> off,
               seed |-> Anchor(t, off), off |-> off, anchor |-> Anchor(t, off)]
  BY DEF Open, Opened
<1>5. off \in Positions /\ off \in Nat
  <2>1. 0 \in Positions /\ Positions \in SUBSET Nat
    BY <1>13 DEF Positions
  <2>2. v = "continue" => saved.off \in Positions
    BY <1>3 DEF TypeOK, Cursors
  <2> HIDE DEF v, t
  <2> QED
    BY <1>2, <1>3, <2>1, <2>2 DEF StartOffset
<1>6. origin' \in 1..setup.lines + 1
  <2>1. written + 1 \in 1..setup.lines + 1
    BY <1>13
  <2>2. Rest(t, 0) # <<>> => Rest(t, 0)[1] \in Lines
    <3> HIDE DEF t
    <3>1. Rest(t, 0) \in Seq(Lines)
      BY <1>2
    <3> QED
      BY <3>1
  <2>3. \A l \in Lines : l \in 1..setup.lines + 1
    BY <1>2 DEF Lines
  <2>4. origin' = IF saved # None THEN origin
                  ELSE IF FromStart /\ Rest(t, 0) # <<>> THEN Rest(t, 0)[1] ELSE written + 1
    BY DEF Open
  <2> HIDE DEF t
  <2> QED
    BY <2>1, <2>2, <2>3, <2>4 DEF TypeOK
<1>7. /\ pc' = IF v \in {"continue", "first-sight"} THEN "live" ELSE "list"
      /\ held' = {i} /\ calm' = (setup.spaced => rot = AtRest)
      /\ UNCHANGED <<file, dir, writer, rot, written, rotations, now, saved, names, listing, again,
                     queue, moved, unreadable, chain, last, got, mailed, failures, lost, warned>>
  BY DEF Open, search
<1> HIDE DEF v, t, off
<1>8. live' \in LogFiles
  BY <1>1, <1>2, <1>3, <1>4, <1>5 DEF LogFiles
<1>9. live'.ino = i /\ live' # None
  <2>1. live' # None
    BY <1>2, <1>8, NoneIsNot
  <2> QED
    BY <1>4, <2>1
<1>10. WorldTypes' /\ WorldTypeOK'
  BY <1>1, <1>7 DEF TypeOK, WorldTypes, WorldTypeOK, Text, Tokens
<1> HIDE DEF i
<1>11. TypeOK'
  BY <1>3, <1>6, <1>7, <1>8, <1>9, <1>10, SameSets DEF TypeOK, Steps
<1>12. (pc \in {"list", "stat", "try", "chain"} => saved # None)' /\ OnePerName(listing)'
  BY <1>3, <1>7 DEF OnePerName
<1> QED
  BY <1>10, <1>11, <1>12

\* What a search or a read of the copies needs to show: the world, the place and the handle are
\* left alone.
LEMMA SearchStepTypes ==
  ASSUME TypeInv, setup' = setup, UNCHANGED <<world, saved, live, mailed, origin>>,
         pc' \in Steps \cup {"idle"}, pc' = "live" => live # None, saved # None,
         names' \in SUBSET Names, listing' \in SUBSET Copies, OnePerName(listing'),
         again' \in BOOLEAN, moved' \in BOOLEAN, calm' \in BOOLEAN, warned' \in BOOLEAN,
         queue' \in Seq([copy : Copies, stage : Stages]), chain' \in Seq(Copies),
         last' \in Segments \cup {None}, got' \in Seq(Lines),
         failures' \in 0..MaxFailures + setup.flaws, lost' \in SUBSET Lines,
         unreadable' \in SUBSET ((0..Kept + 1) \X BOOLEAN \X Inodes)
  PROVE  TypeInv'
<1>1. WorldTypes' /\ WorldTypeOK' /\ held' = held
  BY SameWorldTypes DEF world
<1>2. TypeOK'
  BY <1>1, SameSets DEF TypeInv, TypeOK, Stages
<1>3. OnePerName(listing)'
  BY DEF OnePerName
<1> QED
  BY <1>1, <1>2, <1>3 DEF TypeInv

LEMMA QueueTypes ==
  ASSUME TypeInv, queue # <<>>
  PROVE  /\ Head(queue).copy \in Copies
         /\ Identity(Head(queue).copy) \in (0..Kept + 1) \X BOOLEAN \X Inodes
         /\ Onward(TRUE) \in Seq([copy : Copies, stage : Stages])
         /\ Onward(moved) \in Seq([copy : Copies, stage : Stages])
<1>1. queue \in Seq([copy : Copies, stage : Stages])
  BY DEF TypeInv, TypeOK, Stages
<1>2. Head(queue) \in [copy : Copies, stage : Stages] /\ Tail(queue) \in Seq([copy : Copies, stage : Stages])
  BY <1>1, TailIs
<1>3. Head(queue).copy \in Copies
  BY <1>2
<1>4. Identity(Head(queue).copy) \in (0..Kept + 1) \X BOOLEAN \X Inodes
  BY <1>3 DEF Identity, Copies
<1> QED
  BY <1>2, <1>3, <1>4 DEF Onward

LEMMA ListTypes ==
  ASSUME TypeInv, setup' = setup, List \/ Stat
  PROVE  TypeInv'
<1>1. CASE List
  <2>1. /\ pc' = "stat" /\ calm' \in BOOLEAN /\ names' \in SUBSET Names /\ saved # None
        /\ UNCHANGED <<world, saved, live, listing, again, queue, moved, unreadable, chain, last, got,
                       mailed, origin, failures, lost, warned>>
    BY <1>1 DEF List, TypeInv, history
  <2> QED
    BY <2>1, SearchStepTypes DEF TypeInv, TypeOK, Steps, Stages
<1>2. CASE Stat
  <2>1. /\ pc' = "try" /\ names' = {} /\ listing' = Found /\ moved' = FALSE /\ saved # None
        /\ queue' = <<>> \/ queue' = Candidates(Found)
        /\ UNCHANGED <<world, saved, live, again, unreadable, chain, last, got, calm,
                       mailed, origin, failures, lost, warned>>
    BY <1>2 DEF Stat, TypeInv, history
  <2>2. Found \in SUBSET Copies /\ OnePerName(Found)
    BY FoundIs
  <2>3. Candidates(Found) \in Seq([copy : Copies, stage : Stages])
    <3>1. Candidates(Found) \in Seq(Items(Found))
      BY <2>2, CandidatesAre
    <3>2. \A x \in Items(Found) : x \in [copy : Copies, stage : Stages]
      BY <2>2 DEF Items, May, Everything
    <3> QED
      BY <3>1, <3>2, SeqWider
  <2>4. queue' \in Seq([copy : Copies, stage : Stages])
    <3>1. <<>> \in Seq([copy : Copies, stage : Stages])
      OBVIOUS
    <3>2. queue' = <<>> \/ queue' = Candidates(Found)
      BY <2>1
    <3> QED
      BY <2>3, <3>1, <3>2
  <2> QED
    BY <2>1, <2>2, <2>4, SearchStepTypes DEF TypeInv, TypeOK, Steps
<1> QED
  BY <1>1, <1>2

LEMMA TryTypes ==
  ASSUME TypeInv, setup' = setup, TryRenamed \/ TryMisfit \/ TryUnreadable
  PROVE  TypeInv'
<1> USE DEF TypeInv
<1>1. /\ queue # <<>> /\ pc = "try" /\ saved # None
      /\ UNCHANGED <<world, saved, pc, live, names, listing, again, chain, last, got, mailed, origin,
                     warned, calm>>
      /\ queue' = Onward(TRUE) \/ queue' = Onward(moved)
      /\ moved' \in BOOLEAN
  BY DEF TryRenamed, TryMisfit, TryUnreadable, history, TypeOK
<1>2. /\ failures' \in 0..MaxFailures + setup.flaws /\ lost' \in SUBSET Lines
      /\ unreadable' \in SUBSET ((0..Kept + 1) \X BOOLEAN \X Inodes)
  <2>1. CASE TryUnreadable
    <3>1. /\ Flawed(Head(queue).copy, 0)
          /\ unreadable' = unreadable \cup {Identity(Head(queue).copy)}
      BY <2>1 DEF TryUnreadable
    <3>2. Head(queue).copy.ino \in Inodes
      BY <1>1, QueueTypes DEF Copies
    <3>3. failures' \in 0..MaxFailures + setup.flaws /\ lost' \in SUBSET Lines
      BY <3>1, <3>2, FlawedTypes
    <3> QED
      BY <1>1, <3>1, <3>3, QueueTypes DEF TypeOK
  <2>2. CASE TryRenamed \/ TryMisfit
    BY <2>2 DEF TryRenamed, TryMisfit, history, TypeOK
  <2> QED
    BY <2>1, <2>2
<1>3. queue' \in Seq([copy : Copies, stage : Stages])
  BY <1>1, QueueTypes
<1> QED
  BY <1>1, <1>2, <1>3, SearchStepTypes DEF TypeOK, Steps

LEMMA UnmatchedTypes ==
  ASSUME TypeInv, setup' = setup, TryFits \/ Unmatched
  PROVE  TypeInv'
<1> USE DEF TypeInv
<1>1. listing \in SUBSET Copies /\ Readable(listing) \in SUBSET Archives(listing)
  BY DEF TypeOK, Readable
<1>2. ASSUME NEW S \in SUBSET Readable(listing) PROVE OldestFirst(S) \in Seq(Copies)
  <2>1. OldestFirst(S) \in Seq(S)
    BY <1>1, SortedArchives
  <2>2. \A a \in S : a \in Copies
    BY <1>1, ArchivesDiffer
  <2> QED
    BY <2>1, <2>2, SeqWider
<1>3. CASE TryFits
  <2> DEFINE a == Head(queue).copy
             S == {b \in Readable(listing) : b # a /\ Newer(b, a)}
  <2>1. /\ queue # <<>> /\ saved # None /\ ReadOn(a, saved.off) /\ chain' = OldestFirst(S)
        /\ queue' = <<>> /\ pc' = "chain"
        /\ UNCHANGED <<world, saved, live, names, listing, again, moved, unreadable, mailed, origin,
                       warned, calm>>
    BY <1>3 DEF TryFits
  <2>2. a.ino \in Inodes /\ saved.off \in Positions
    BY <2>1, QueueTypes DEF Copies, TypeOK, Cursors
  <2> HIDE DEF a
  <2>3. S \in SUBSET Readable(listing)
    OBVIOUS
  <2> HIDE DEF S
  <2>4. chain' \in Seq(Copies)
    BY <1>2, <2>1, <2>3
  <2>5. /\ got' \in Seq(Lines) /\ last' \in Segments \cup {None}
        /\ failures' \in 0..MaxFailures + setup.flaws /\ lost' \in SUBSET Lines
    BY <2>1, <2>2, ReadOnTypes
  <2> QED
    BY <2>1, <2>4, <2>5, SearchStepTypes DEF TypeOK, Steps
<1>4. CASE Unmatched
  <2>1. /\ saved # None /\ pc' \in {"chain", "list"} /\ queue = <<>>
        /\ again' \in BOOLEAN /\ warned' \in BOOLEAN
        /\ UNCHANGED <<world, saved, live, names, listing, queue, moved, unreadable, last, got,
                       mailed, origin, failures, calm>>
    BY <1>4 DEF Unmatched, TypeOK
  <2>2. WrittenSince(listing) \in Seq(Copies)
    BY <1>2 DEF WrittenSince
  <2>3. chain' \in Seq(Copies)
    BY <1>4, <2>2 DEF Unmatched, TypeOK
  <2>4. lost' \in SUBSET Lines
    BY <1>4 DEF Unmatched, TypeOK, Before
  <2> QED
    BY <2>1, <2>3, <2>4, SearchStepTypes DEF TypeOK, Steps, Stages
<1> QED
  BY <1>3, <1>4

LEMMA ChainTypes ==
  ASSUME TypeInv, setup' = setup, ReadNext \/ ToLive
  PROVE  TypeInv'
<1> USE DEF TypeInv
<1>1. CASE ReadNext
  <2> DEFINE a == Head(chain)
  <2>1. /\ chain # <<>> /\ saved # None /\ chain' = Tail(chain)
        /\ ReadOn(a, 0) \/ (Flawed(a, 0) /\ UNCHANGED <<got, last>>)
        /\ UNCHANGED <<world, saved, pc, live, names, listing, again, queue, moved, unreadable,
                       mailed, origin, warned, calm>>
    BY <1>1 DEF ReadNext, search
  <2>2. a \in Copies /\ Tail(chain) \in Seq(Copies)
    BY <2>1, TailIs DEF TypeOK
  <2>3. a.ino \in Inodes /\ 0 \in Nat /\ 0 \in Positions
    <3>1. setup.lines \in Nat
      BY SetupIs DEF TypeOK, WorldTypeOK
    <3> QED
      BY <2>2, <3>1 DEF Copies, Positions
  <2> HIDE DEF a
  <2>4. /\ got' \in Seq(Lines) /\ last' \in Segments \cup {None}
        /\ failures' \in 0..MaxFailures + setup.flaws /\ lost' \in SUBSET Lines
    <3>1. CASE ReadOn(a, 0)
      BY <2>3, <3>1, ReadOnTypes
    <3>2. CASE Flawed(a, 0) /\ UNCHANGED <<got, last>>
      BY <2>3, <3>2, FlawedTypes DEF TypeOK
    <3> QED
      BY <2>1, <3>1, <3>2
  <2> QED
    BY <2>1, <2>2, <2>4, SearchStepTypes DEF TypeOK, Stages
<1>2. CASE ToLive
  <2>1. /\ live # None /\ pc = "chain" /\ pc' = "live" /\ saved # None
        /\ UNCHANGED <<world, saved, live, names, listing, again, queue, moved, unreadable, chain,
                       last, got, mailed, origin, failures, lost, warned, calm>>
    BY <1>2 DEF ToLive, search, history
  <2> QED
    BY <2>1, SearchStepTypes DEF TypeOK, Steps, Stages
<1> QED
  BY <1>1, <1>2

LEMMA ReadLiveTypes ==
  ASSUME TypeInv, setup' = setup, ReadLive
  PROVE  TypeInv'
<1> USE DEF TypeInv
<1> DEFINE t == Text(live.ino)
<1>1. live \in LogFiles /\ live # None /\ live.ino \in Inodes /\ live.off \in Nat
  <2>1. live \in LogFiles /\ live # None
    BY DEF ReadLive, TypeOK
  <2> QED
    BY <2>1 DEF LogFiles, Positions
<1>2. Len(t) \in Positions /\ Anchor(t, Len(t)) \in Marks /\ Rest(t, live.off) \in Seq(Lines)
  <2>1. /\ Len(t) \in Positions /\ \A o \in Nat : Anchor(t, o) \in Marks
        /\ \A o \in Nat : Rest(t, o) \in Seq(Lines) /\ setup.lines \in Nat
    BY <1>1, TextIs
  <2> HIDE DEF t
  <2>2. Len(t) \in Nat
    BY <2>1 DEF Positions
  <2> QED
    BY <1>1, <2>1, <2>2
<1>3. /\ got' = got \o Rest(t, live.off)
      /\ live' = [live EXCEPT !.off = Len(t), !.anchor = Anchor(t, Len(t))]
      /\ UNCHANGED <<world, saved, pc, names, listing, again, queue, moved, unreadable, chain, last,
                     mailed, origin, failures, lost, warned, calm>>
  BY DEF ReadLive, search, history
<1> HIDE DEF t
<1>4. got' \in Seq(Lines)
  BY <1>2, <1>3, ConcatIs DEF TypeOK
<1>5. live' \in LogFiles /\ live'.ino = live.ino
  BY <1>1, <1>2, <1>3 DEF LogFiles
<1>6. live' # None
  BY <1>5, NoneIsNot, SetupIs DEF TypeOK, WorldTypeOK
<1>7. WorldTypes' /\ WorldTypeOK' /\ held' = held
  BY <1>3, SameWorldTypes DEF world
<1>8. TypeOK'
  BY <1>1, <1>3, <1>4, <1>5, <1>6, <1>7, SameSets DEF TypeOK
<1> QED
  BY <1>3, <1>7, <1>8 DEF OnePerName

\* A run that ends leaves a world with no reader.
LEMMA EndTypes ==
  ASSUME TypeInv, setup' = setup, Ended, saved' \in Cursors \cup {None},
         mailed' \in [Lines -> 0..2], failures' \in 0..MaxFailures + setup.flaws
  PROVE  TypeInv'
<1> USE DEF TypeInv
<1>1. /\ pc' = "idle" /\ live' = None /\ names' = {} /\ listing' = {} /\ again' = FALSE
      /\ queue' = <<>> /\ moved' = FALSE /\ unreadable' = {}
      /\ chain' = <<>> /\ last' = None /\ got' = <<>>
      /\ held' = {} /\ file' = Referred(dir, {}) /\ calm' = TRUE
      /\ UNCHANGED <<dir, writer, rot, written, rotations, now, origin, lost, warned>>
  BY DEF Ended
<1>2. /\ file' \in [Inodes -> [text : Seq(Tokens), mtime : 0..MaxSeconds]]
      /\ \A j \in Inodes : Numbered(Text(j), written)'
  BY <1>1, ReferredFiles DEF WorldTypes
<1>3. WorldTypes' /\ WorldTypeOK'
  BY <1>1, <1>2 DEF WorldTypes, WorldTypeOK, Tokens
<1>4. /\ queue' \in Seq([copy : Copies, stage : Stages]) /\ chain' \in Seq(Copies)
      /\ got' \in Seq(Lines)
  BY <1>1
<1>5. origin' \in 1..setup.lines + 1 /\ lost' \in SUBSET Lines /\ warned' \in BOOLEAN
  BY <1>1 DEF TypeOK
<1>6. TypeOK'
  BY <1>1, <1>3, <1>4, <1>5, SameSets DEF TypeOK, Stages
<1> QED
  BY <1>1, <1>3, <1>6 DEF OnePerName

\* The cursors a run can end with are cursors.
LEMMA EndCursors ==
  ASSUME TypeInv
  PROVE  /\ Parked \in Cursors \cup {None}
         /\ live # None => LiveCursor \in Cursors /\ StartCursor \in Cursors
<1> USE DEF TypeInv
<1>1. now \in Seconds /\ setup.lines \in Nat
  BY SetupIs DEF TypeOK, WorldTypeOK, Seconds
<1>2. last # None => last \in Segments
  BY DEF TypeOK
<1>3. \A x \in Tokens : x \in Marks
  BY DEF Marks
<1>4. Parked \in Cursors \cup {None}
  BY <1>1, <1>2, <1>3 DEF Parked, Segments, Cursors, TypeOK
<1>5. live # None => LiveCursor \in Cursors /\ StartCursor \in Cursors
  BY <1>1 DEF LiveCursor, StartCursor, LogFiles, Cursors, TypeOK
<1> QED
  BY <1>4, <1>5

LEMMA FinishTypes ==
  ASSUME TypeInv, setup' = setup, NEW cursor \in Cursors \cup {None}, Finish(cursor),
         saved = None => live # None
  PROVE  TypeInv'
<1> USE DEF TypeInv
<1>1. /\ saved' \in Cursors \cup {None}
  BY EndCursors DEF Finish, TypeOK
<1>2. mailed' \in [Lines -> 0..2]
  <2> DEFINE count(l) == Cardinality({i \in DOMAIN got : got[i] = l})
  <2>1. \A l \in Lines : count(l) \in Nat
    BY CountIs DEF TypeOK
  <2>2. mailed' = mailed \/ mailed' = [l \in Lines |-> LET n == mailed[l] + count(l)
                                                      IN  IF n > 2 THEN 2 ELSE n]
    BY DEF Finish
  <2> HIDE DEF count
  <2>3. mailed \in [Lines -> 0..2]
    BY DEF TypeOK
  <2>4. ASSUME NEW l \in Lines
        PROVE  (LET n == mailed[l] + count(l) IN IF n > 2 THEN 2 ELSE n) \in 0..2
    BY <2>1, <2>3
  <2> QED
    BY <2>2, <2>3, <2>4
<1>3. failures' \in 0..MaxFailures + setup.flaws
  <2>1. setup.flaws \in Nat /\ MaxFailures \in Nat
    BY SetupIs, SearchAssumption DEF TypeOK, WorldTypeOK
  <2>2. failures' = failures \/ (failures < MaxFailures /\ failures' = failures + 1)
    BY DEF Finish
  <2> QED
    BY <2>1, <2>2 DEF TypeOK
<1>4. Ended
  BY DEF Finish
<1> QED
  BY <1>1, <1>2, <1>3, <1>4, EndTypes

LEMMA RunTypes ==
  ASSUME TypeInv, setup' = setup, RunNext \/ Dies
  PROVE  TypeInv'
<1> USE DEF TypeInv
<1>1. CASE Absent
  <2>1. /\ pc' = "list" /\ calm' \in BOOLEAN /\ saved # None
        /\ UNCHANGED <<world, saved, live, names, listing, again, queue, moved, unreadable, chain,
                       last, got, mailed, origin, failures, lost, warned>>
    BY <1>1 DEF Absent, search, history
  <2> QED
    BY <2>1, SearchStepTypes DEF TypeOK, Steps, Stages
<1>2. CASE NothingYet
  <2>1. UNCHANGED <<world, saved, pc, live, names, listing, again, queue, moved, unreadable, chain,
                    last, got, mailed, origin, failures, lost, warned, calm>>
    BY <1>2 DEF NothingYet, vars, run, search, history
  <2>2. WorldTypes' /\ WorldTypeOK' /\ held' = held
    BY <2>1, SameWorldTypes DEF world
  <2>3. TypeOK'
    BY <2>1, <2>2, SameSets DEF TypeOK
  <2> QED
    BY <2>1, <2>2, <2>3 DEF OnePerName
<1>3. CASE Stopped
  BY <1>3, EndCursors, FinishTypes DEF Stopped
<1>4. CASE NoLiveRead
  BY <1>4, EndCursors, FinishTypes DEF NoLiveRead
<1>5. CASE LiveEnds
  BY <1>5, EndCursors, FinishTypes DEF LiveEnds, TypeOK
<1>6. CASE LiveTruncated
  <2>1. live # None
    BY <1>6 DEF LiveTruncated, TypeOK
  <2>2. PICK cursor \in {Parked, LiveCursor} : Finish(cursor)
    BY <1>6 DEF LiveTruncated
  <2>3. cursor \in Cursors \cup {None}
    BY <2>1, EndCursors
  <2> QED
    BY <2>1, <2>2, <2>3, FinishTypes
<1>7. CASE Dies
  <2>1. /\ Ended /\ UNCHANGED <<saved, mailed>>
        /\ failures < MaxFailures /\ failures' = failures + 1
    BY <1>7 DEF Dies
  <2>2. failures' \in 0..MaxFailures + setup.flaws
    <3>1. setup.flaws \in Nat /\ MaxFailures \in Nat
      BY SetupIs, SearchAssumption DEF TypeOK, WorldTypeOK
    <3> QED
      BY <2>1, <3>1 DEF TypeOK
  <2> QED
    BY <2>1, <2>2, EndTypes DEF TypeOK
<1> QED
  BY <1>1, <1>2, <1>3, <1>4, <1>5, <1>6, <1>7, OpenTypes, ListTypes, TryTypes, UnmatchedTypes,
     ChainTypes, ReadLiveTypes DEF RunNext

LEMMA BesideTypes ==
  ASSUME TypeInv, setup' = setup, Beside
  PROVE  TypeInv'
<1> USE DEF TypeInv
<1>1. WorldTypes' /\ held' = held
  BY WorldStepTypes DEF Beside
<1>2. UNCHANGED <<saved, pc, live, names, listing, again, queue, moved, unreadable, chain, last, got,
                  mailed, origin, failures, lost, warned>>
  BY DEF Beside, run, search, history
<1>3. calm' \in BOOLEAN
  <2>1. setup.spaced \in BOOLEAN /\ calm \in BOOLEAN
    BY SetupIs DEF TypeOK, WorldTypeOK
  <2>2. calm' = calm \/ calm' = ~setup.spaced
    BY Zenon DEF Beside
  <2> QED
    BY <2>1, <2>2, Zenon
<1>4. TypeOK'
  BY <1>1, <1>2, <1>3, SameSets DEF TypeOK, WorldTypes
<1> QED
  BY <1>1, <1>2, <1>4 DEF OnePerName

LEMMA TypesInit == Init => TypeInv
<1> SUFFICES ASSUME Init PROVE TypeInv
  OBVIOUS
<1>1. setup \in Setups /\ setup.lines \in Nat /\ setup.rotations \in Nat /\ setup.flaws \in Nat
  BY SetupIs DEF Init, WorldInit
<1>2. PICK i \in Inodes :
        /\ writer = i /\ dir = [n \in Names |-> IF n = Live THEN i ELSE None]
        /\ file = [j \in Inodes |-> IF j = i THEN [Blank EXCEPT !.text = Fresh(0)] ELSE Blank]
  BY DEF Init, WorldInit
<1>3. /\ held = {} /\ rot = AtRest /\ written = After(0) /\ rotations = 0 /\ now = 0
  BY DEF Init, WorldInit
<1>4. 0 \in 0..setup.lines /\ setup.lines \in Nat \ {0}
  BY <1>1, SetupIs
<1>5. /\ written \in 0..setup.lines /\ Fresh(0) \in Seq(Tokens) /\ Numbered(Fresh(0), written)
  <2>1. After(0) \in 0..setup.lines
    BY <1>4 DEF After
  <2>2. CASE ~setup.filled
    BY <1>3, <2>1, <2>2 DEF Fresh, Numbered
  <2>3. CASE setup.filled /\ setup.banner
    BY <1>3, <1>4, <2>1, <2>3 DEF Fresh, Numbered, Tokens
  <2>4. CASE setup.filled /\ ~setup.banner
    BY <1>3, <1>4, <2>1, <2>4 DEF Fresh, Numbered, Tokens, After
  <2> QED
    BY <1>3, <2>1, <2>2, <2>3, <2>4
<1>6. Blank.text = <<>> /\ Blank.mtime = 0 /\ <<>> \in Seq(Tokens) /\ 0 \in 0..MaxSeconds
  BY RotationAssumption DEF Blank
<1>7. \A j \in Inodes : file[j] = [text |-> Fresh(0), mtime |-> 0] \/ file[j] = [text |-> <<>>, mtime |-> 0]
  BY <1>2 DEF Blank
<1>8. file \in [Inodes -> [text : Seq(Tokens), mtime : 0..MaxSeconds]]
  BY <1>2, <1>5, <1>6, <1>7
<1>9. \A j \in Inodes : Numbered(Text(j), written)
  BY <1>5, <1>7 DEF Text, Numbered
<1>10. dir \in [Names -> Inodes \cup {None}] /\ dir[Live] # None
  BY <1>2, NamesAre, NoneIs
<1>11. WorldTypes
  <2>1. rot \in 0..Pruning /\ now \in 0..MaxSeconds /\ rotations \in 0..setup.rotations
    BY <1>1, <1>3, <1>6, NamesAre DEF AtRest, Pruning
  <2>2. writer \in Inodes /\ held \subseteq Inodes
    BY <1>2, <1>3
  <2> QED
    BY <1>1, <1>5, <1>8, <1>9, <1>10, <2>1, <2>2 DEF WorldTypes, WorldTypeOK
<1>12. /\ pc = "idle" /\ live = None /\ names = {} /\ listing = {} /\ again = FALSE
       /\ queue = <<>> /\ moved = FALSE /\ unreadable = {}
       /\ chain = <<>> /\ last = None /\ got = <<>>
       /\ saved = None /\ mailed = [l \in Lines |-> 0] /\ origin = 1 /\ failures = 0 /\ lost = {}
       /\ warned = FALSE /\ calm = TRUE
  BY DEF Init, Idle
<1>13. /\ queue \in Seq([copy : Copies, stage : Stages]) /\ chain \in Seq(Copies)
       /\ got \in Seq(Lines)
  BY <1>12
<1>14. /\ origin \in 1..setup.lines + 1 /\ failures \in 0..MaxFailures + setup.flaws
       /\ mailed \in [Lines -> 0..2]
  BY <1>1, <1>12, SearchAssumption
<1>15. TypeOK
  BY <1>3, <1>11, <1>12, <1>13, <1>14 DEF TypeOK, Stages, WorldTypes
<1> QED
  BY <1>11, <1>12, <1>15 DEF TypeInv, OnePerName

LEMMA TypesStep == TypeInv /\ [Next]_vars => TypeInv'
<1> SUFFICES ASSUME TypeInv, [Next]_vars PROVE TypeInv'
  OBVIOUS
<1>1. CASE UNCHANGED vars
  <2>1. UNCHANGED <<setup, world, saved, pc, live, names, listing, again, queue, moved, unreadable,
                    chain, last, got, mailed, origin, failures, lost, warned, calm>>
    BY <1>1 DEF vars, run, search, history
  <2>2. WorldTypes' /\ WorldTypeOK' /\ held' = held
    BY <2>1, SameWorldTypes DEF world
  <2>3. TypeOK'
    BY <2>1, <2>2, SameSets DEF TypeInv, TypeOK
  <2> QED
    BY <2>1, <2>2, <2>3 DEF TypeInv, OnePerName
<1>2. CASE Next
  BY <1>2, RunTypes, BesideTypes DEF Next
<1> QED
  BY <1>1, <1>2

\* However a log is rotated and whatever runs read it, every variable has its type: a run has one
\* live handle at most, from its open to its end.
THEOREM TypesHold == Spec => []TypeOK
<1>1. TypeInv => TypeOK
  BY DEF TypeInv
<1> QED
  BY <1>1, TypesInit, TypesStep, PTL DEF Spec

-----------------------------------------------------------------------------
(* A log that is rotated by renaming, and copies that stay as they are *)

Renaming ==
  /\ setup.methods = {"rename"} /\ ~setup.packing /\ ~setup.banner
  /\ setup.spaced

Numbers == 0..Kept + 1
Plain(k) == dir[<<k, FALSE>>]

Later(l, i) == \A x \in DOMAIN Text(i) : l < Text(i)[x]
Earlier(i, h) == \A x \in DOMAIN Text(i) : Later(Text(i)[x], h)

\* A file has one name and its lines rise; the higher its number the older it is; the program
\* writes to the live file, or while there is none to the copy with number 1; and a copy never
\* moves to a number that is taken.
NoneIsPacked == \A k \in 1..Kept + 1 : dir[<<k, TRUE>>] = None
OneName == \A k, m \in Numbers : Plain(k) # None /\ Plain(k) = Plain(m) => k = m
Rising ==
  \A i \in Inodes : \A x, y \in DOMAIN Text(i) : Text(i)[x] > 0 /\ (x < y => Text(i)[x] < Text(i)[y])
InAge ==
  \A k, m \in Numbers, i, j \in Inodes : k < m /\ Plain(k) = i /\ Plain(m) = j => Earlier(j, i)
WriterIs == IF rot = Remaking THEN Plain(0) = None /\ writer = Plain(1) ELSE writer = Plain(0)
Room == (rot <= Kept => Plain(rot + 1) = None) /\ (rot = AtRest => Plain(Kept + 1) = None)
Renamed == NoneIsPacked /\ OneName /\ Rising /\ InAge /\ WriterIs /\ Room

\* The steps of such a world, in terms of the numbers.
SameNames == \A k \in Numbers : Plain(k)' = Plain(k)
SameTexts == \A i \in Inodes : Text(i)' = Text(i)
Logged ==
  /\ SameNames /\ UNCHANGED <<rot, writer, rotations>> /\ written' = written + 1
  /\ \A i \in Inodes : Text(i)' = IF i = writer THEN Append(Text(i), written + 1) ELSE Text(i)
Ticked == SameNames /\ SameTexts /\ UNCHANGED <<rot, writer, written, rotations>>
Begun ==
  /\ SameNames /\ SameTexts /\ UNCHANGED <<writer, written>> /\ rotations' # rotations
  /\ rot = AtRest /\ rot' \in 0..Kept /\ Plain(rot' + 1) = None
MovedUp ==
  /\ SameTexts /\ UNCHANGED <<writer, written, rotations>>
  /\ rot \in 0..Kept /\ rot' = (IF rot = 0 THEN Remaking ELSE rot - 1)
  /\ \A k \in Numbers : Plain(k)' = IF k = rot + 1 THEN Plain(rot) ELSE IF k = rot THEN None ELSE Plain(k)
MadeAs(i) ==
  /\ i \notin held /\ \A k \in Numbers : Plain(k) # i
  /\ Plain(0)' = i /\ \A k \in 1..Kept + 1 : Plain(k)' = Plain(k)
  /\ \/ ~setup.filled /\ Text(i)' = <<>> /\ written' = written
     \/ Text(i)' = <<written + 1>> /\ written' = written + 1
  /\ \A j \in Inodes \ {i} : Text(j)' = Text(j)
  /\ writer' = i
Made ==
  /\ rot = Remaking /\ rot' \in {AtRest, Pruning} /\ (rot' = AtRest => Plain(Kept + 1) = None)
  /\ UNCHANGED rotations
  /\ \E i \in Inodes : MadeAs(i)
Pruned ==
  /\ rot = Pruning /\ rot' = AtRest /\ Plain(Kept + 1)' = None
  /\ \A k \in 0..Kept : Plain(k)' = Plain(k)
  /\ \A k \in 0..Kept, i \in Inodes : Plain(k) = i => Text(i)' = Text(i)
  /\ \A i \in Inodes : Text(i)' = Text(i) \/ Text(i)' = <<>>
  /\ UNCHANGED <<writer, written, rotations>>

LEMMA NumbersAre ==
  /\ Kept \in Nat \ {0} /\ Numbers \in SUBSET Nat /\ 0 \in Numbers /\ 1 \in Numbers /\ Kept + 1 \in Numbers
  /\ \A k \in Numbers : <<k, FALSE>> \in Names
  /\ \A k \in Numbers : k = 0 \/ k \in 1..Kept + 1
  /\ \A k \in 1..Kept + 1 : k \in Numbers
  /\ Live = <<0, FALSE>>
<1>1. Kept \in Nat \ {0} /\ Live = <<0, FALSE>> /\ Live \in Names
  BY NamesAre
<1>2. /\ Numbers \in SUBSET Nat /\ 0 \in Numbers /\ 1 \in Numbers /\ Kept + 1 \in Numbers
      /\ \A k \in Numbers : k = 0 \/ k \in 1..Kept + 1
      /\ \A k \in 1..Kept + 1 : k \in Numbers
  BY <1>1 DEF Numbers
<1>3. ASSUME NEW k \in Numbers PROVE <<k, FALSE>> \in Names
  <2>1. CASE k = 0
    BY <1>1, <2>1
  <2>2. CASE k \in 1..Kept + 1
    BY <2>2, NamesAre
  <2> QED
    BY <1>2, <2>1, <2>2
<1> QED
  BY <1>1, <1>2, <1>3

LEMMA PlainIs ==
  ASSUME WorldTypes
  PROVE  \A k \in Numbers : Plain(k) \in Inodes \cup {None}
BY NumbersAre DEF WorldTypes, WorldTypeOK, Plain

\* Two plain names with different numbers are different names.
LEMMA NamesDiffer ==
  /\ \A k, m : <<k, FALSE>> = <<m, FALSE>> => k = m
  /\ \A k, m : <<k, FALSE>> # <<m, TRUE>>
<1>1. ASSUME NEW k, NEW m, <<k, FALSE>> = <<m, FALSE>> PROVE k = m
  BY <1>1
<1>2. ASSUME NEW k, NEW m, <<k, FALSE>> = <<m, TRUE>> PROVE FALSE
  <2>1. <<k, FALSE>>[2] = FALSE /\ <<m, TRUE>>[2] = TRUE
    BY Zenon
  <2> QED
    BY <1>2, <2>1, Zenon
<1> QED
  BY <1>1, <1>2

\* Each step of the world is one of these; the others are not taken in such a world.
LEMMA LogStep ==
  ASSUME WorldTypes, Renaming, Renamed, WriteLine \/ WriteBanner \/ Tick
  PROVE  (Logged \/ Ticked) /\ NoneIsPacked'
<1>1. dir' = dir /\ SameNames /\ NoneIsPacked'
  BY DEF WriteLine, WriteBanner, Tick, SameNames, Plain, Renamed, NoneIsPacked
<1>2. CASE WriteLine
  <2>1. file' = [file EXCEPT ![writer] = [text |-> Append(Text(writer), written + 1), mtime |-> now]]
    BY <1>2 DEF WriteLine, Append1, Text
  <2>2. \A i \in Inodes : Text(i)' = IF i = writer THEN Append(Text(i), written + 1) ELSE Text(i)
    BY <2>1 DEF Text, WorldTypes, WorldTypeOK
  <2> QED
    BY <1>1, <1>2, <2>2 DEF WriteLine, Logged
<1>3. CASE Tick
  BY <1>1, <1>3 DEF Tick, Ticked, SameTexts, Text
<1>4. ~WriteBanner
  BY DEF Renaming, WriteBanner
<1> QED
  BY <1>1, <1>2, <1>3, <1>4

LEMMA RotateStep ==
  ASSUME WorldTypes, Renaming, Renamed, setup' = setup, Rotate
  PROVE  Begun /\ NoneIsPacked'
<1>1. dir' = dir /\ file' = file /\ SameNames /\ SameTexts /\ NoneIsPacked'
  BY DEF Rotate, SameNames, SameTexts, Text, Plain, Renamed, NoneIsPacked
<1>2. rotations \in Nat /\ Kept \in Nat
  BY SetupIs, NumbersAre DEF WorldTypes, WorldTypeOK
<1>3. PICK k \in 0..Kept : (\A j \in k + 1..Kept : ~Occupied(j)) /\ rot' = k
  BY DEF Rotate
<1>4. Plain(k + 1) = None
  <2>1. CASE k = Kept
    BY <2>1 DEF Renamed, Room, Rotate
  <2>2. CASE k # Kept
    <3>1. k + 1 \in k + 1..Kept
      BY <1>2, <2>2
    <3> QED
      BY <1>3, <3>1 DEF Occupied, Plain
  <2> QED
    BY <2>1, <2>2
<1> QED
  BY <1>1, <1>2, <1>3, <1>4 DEF Rotate, Begun

LEMMA ShiftStep ==
  ASSUME WorldTypes, Renaming, Renamed, Shift
  PROVE  MovedUp /\ NoneIsPacked'
<1>1. rot \in 1..Kept /\ rot' = rot - 1 /\ file' = file /\ UNCHANGED <<writer, written, rotations>>
  BY DEF Shift
<1>2. ASSUME NEW k \in Numbers, NEW z \in BOOLEAN, <<k, z>> \in Names
      PROVE  dir'[<<k, z>>] = IF k = rot + 1 THEN dir[<<rot, z>>] ELSE IF k = rot THEN None ELSE dir[<<k, z>>]
  <2>1. dir' = [n \in Names |-> IF n[1] = rot + 1 THEN dir[<<rot, n[2]>>]
                                ELSE IF n[1] = rot THEN None ELSE dir[n]]
    BY DEF Shift
  <2>2. <<k, z>>[1] = k /\ <<k, z>>[2] = z
    BY Zenon
  <2>3. dir'[<<k, z>>] = IF <<k, z>>[1] = rot + 1 THEN dir[<<rot, <<k, z>>[2]>>]
                         ELSE IF <<k, z>>[1] = rot THEN None ELSE dir[<<k, z>>]
    BY <1>2, <2>1, Zenon
  <2> QED
    BY <2>2, <2>3, Zenon
<1>3. \A k \in Numbers : Plain(k)' = IF k = rot + 1 THEN Plain(rot) ELSE IF k = rot THEN None ELSE Plain(k)
  BY <1>2, NumbersAre, Zenon DEF Plain
<1>4. NoneIsPacked'
  <2>1. ASSUME NEW k \in 1..Kept + 1 PROVE dir'[<<k, TRUE>>] = None
    <3>1. <<k, TRUE>> \in Names /\ k \in Numbers
      BY NamesAre, NumbersAre
    <3>2. dir'[<<k, TRUE>>] = IF k = rot + 1 THEN dir[<<rot, TRUE>>]
                              ELSE IF k = rot THEN None ELSE dir[<<k, TRUE>>]
      BY <1>2, <3>1, Zenon
    <3>3. rot \in 1..Kept + 1
      BY <1>1, NumbersAre
    <3> QED
      BY <3>2, <3>3 DEF Renamed, NoneIsPacked
  <2> QED
    BY <2>1 DEF NoneIsPacked
<1> QED
  BY <1>1, <1>3, <1>4 DEF MovedUp, SameTexts, Text

LEMMA MoveLiveStep ==
  ASSUME WorldTypes, Renaming, Renamed, MoveLive
  PROVE  MovedUp /\ NoneIsPacked'
<1>1. rot = 0 /\ rot' = Remaking /\ file' = file /\ UNCHANGED <<writer, written, rotations>>
  BY DEF MoveLive
<1>2. dir' = [dir EXCEPT ![<<0, FALSE>>] = None, ![<<1, FALSE>>] = dir[<<0, FALSE>>]]
  BY DEF MoveLive, Live
<1>3. dir \in [Names -> Inodes \cup {None}]
  BY DEF WorldTypes, WorldTypeOK
<1>4. ASSUME NEW k \in Numbers
      PROVE  Plain(k)' = IF k = rot + 1 THEN Plain(rot) ELSE IF k = rot THEN None ELSE Plain(k)
  <2>1. <<k, FALSE>> \in Names /\ <<0, FALSE>> \in Names /\ <<1, FALSE>> \in Names
    BY NumbersAre
  <2>2. (<<k, FALSE>> = <<0, FALSE>> <=> k = 0) /\ (<<k, FALSE>> = <<1, FALSE>> <=> k = 1)
    BY NamesDiffer
  <2>3. rot + 1 = 1 /\ <<1, FALSE>> # <<0, FALSE>>
    BY <1>1, NamesDiffer
  <2> QED
    BY <1>1, <1>2, <1>3, <2>1, <2>2, <2>3 DEF Plain
<1>5. NoneIsPacked'
  <2>1. ASSUME NEW k \in 1..Kept + 1 PROVE dir'[<<k, TRUE>>] = dir[<<k, TRUE>>]
    <3>1. <<k, TRUE>> \in Names
      BY NamesAre
    <3>2. <<k, TRUE>> # <<0, FALSE>> /\ <<k, TRUE>> # <<1, FALSE>>
      BY NamesDiffer
    <3> QED
      BY <1>2, <1>3, <3>1, <3>2
  <2> QED
    BY <2>1 DEF Renamed, NoneIsPacked
<1>6. rot \in 0..Kept
  BY <1>1, NumbersAre
<1> QED
  BY <1>1, <1>4, <1>5, <1>6 DEF MovedUp, SameTexts, Text

LEMMA MakeLiveStep ==
  ASSUME WorldTypes, Renaming, Renamed, setup' = setup, MakeLive
  PROVE  Made /\ NoneIsPacked'
<1>1. /\ rot = Remaking /\ rot' = Settled /\ written' = After(written) /\ UNCHANGED <<held, rotations>>
  BY DEF MakeLive
<1>2. PICK i \in Free : /\ file' = [file EXCEPT ![i] = [text |-> Fresh(written), mtime |-> now]]
                        /\ dir' = [dir EXCEPT ![<<0, FALSE>>] = i]
                        /\ writer' = i
  BY DEF MakeLive, Live
<1>3. dir \in [Names -> Inodes \cup {None}] /\ file \in [Inodes -> [text : Seq(Tokens), mtime : 0..MaxSeconds]]
  BY DEF WorldTypes, WorldTypeOK
<1>4. /\ i \in Inodes /\ i \notin held
      /\ \A n \in Names : dir[n] # i
  <2>1. i \in Inodes /\ i \notin held /\ i \notin Linked
    BY <1>2 DEF Free
  <2> QED
    BY <2>1, NoneIs DEF Linked
<1>5. \A k \in Numbers : Plain(k) # i
  BY <1>4, NumbersAre DEF Plain
<1>6. Plain(0)' = i
  BY <1>2, <1>3, NumbersAre DEF Plain
<1>7. \A k \in 1..Kept + 1 : Plain(k)' = Plain(k) /\ dir'[<<k, TRUE>>] = dir[<<k, TRUE>>]
  BY <1>2, <1>3, NamesAre DEF Plain
<1>8. \/ ~setup.filled /\ Fresh(written) = <<>> /\ After(written) = written
      \/ Fresh(written) = <<written + 1>> /\ After(written) = written + 1
  BY DEF Renaming, Fresh, After
<1>9. Text(i)' = Fresh(written) /\ \A j \in Inodes \ {i} : Text(j)' = Text(j)
  BY <1>2, <1>3, <1>4 DEF Text
<1>10. rot' \in {AtRest, Pruning} /\ (rot' = AtRest => Plain(Kept + 1) = None)
  <2>1. AtRest # Pruning
    BY NumbersAre DEF AtRest, Pruning
  <2> QED
    BY <1>1, <2>1 DEF Settled, Occupied, Plain
<1>11. MadeAs(i)
  BY <1>1, <1>2, <1>4, <1>5, <1>6, <1>7, <1>8, <1>9 DEF MadeAs
<1> QED
  BY <1>1, <1>4, <1>7, <1>10, <1>11 DEF Made, Renamed, NoneIsPacked

LEMMA PruneStep ==
  ASSUME WorldTypes, Renaming, Renamed, Prune
  PROVE  Pruned /\ NoneIsPacked'
<1>1. /\ rot = Pruning /\ rot' = AtRest /\ file' = Referred(dir', held)
      /\ UNCHANGED <<writer, held, written, rotations>>
  BY DEF Prune
<1>2. dir' = [n \in Names |-> IF n[1] = Kept + 1 THEN None ELSE dir[n]]
  BY DEF Prune
<1>3. ASSUME NEW k \in Numbers, NEW z \in BOOLEAN, <<k, z>> \in Names
      PROVE  dir'[<<k, z>>] = IF k = Kept + 1 THEN None ELSE dir[<<k, z>>]
  <2>1. <<k, z>>[1] = k
    BY Zenon
  <2>2. dir'[<<k, z>>] = IF <<k, z>>[1] = Kept + 1 THEN None ELSE dir[<<k, z>>]
    BY <1>2, <1>3, Zenon
  <2> QED
    BY <2>1, <2>2, Zenon
<1>4. \A k \in Numbers : Plain(k)' = IF k = Kept + 1 THEN None ELSE Plain(k)
  BY <1>3, NumbersAre, Zenon DEF Plain
<1>5. NoneIsPacked'
  <2>1. ASSUME NEW k \in 1..Kept + 1 PROVE dir'[<<k, TRUE>>] = None
    <3>1. <<k, TRUE>> \in Names /\ k \in Numbers
      BY NamesAre, NumbersAre
    <3> QED
      BY <1>3, <3>1, Zenon DEF Renamed, NoneIsPacked
  <2> QED
    BY <2>1 DEF NoneIsPacked
<1>6. \A k \in 0..Kept : k \in Numbers /\ k # Kept + 1
  BY NumbersAre DEF Numbers
<1>7. ASSUME NEW k \in 0..Kept, NEW i \in Inodes, Plain(k) = i PROVE Text(i)' = Text(i)
  <2>1. Plain(k)' = i /\ <<k, FALSE>> \in Names
    BY <1>4, <1>6, <1>7, NumbersAre
  <2>2. file'[i] = file[i]
    BY <1>1, <2>1 DEF Referred, Plain
  <2> QED
    BY <2>2 DEF Text
<1>8. \A i \in Inodes : Text(i)' = Text(i) \/ Text(i)' = <<>>
  BY <1>1 DEF Referred, Text, Blank
<1>9. Plain(Kept + 1)' = None
  BY <1>4, NumbersAre
<1> QED
  BY <1>1, <1>4, <1>5, <1>6, <1>7, <1>8, <1>9 DEF Pruned

LEMMA WorldStepIs ==
  ASSUME WorldTypes, Renaming, Renamed, setup' = setup, WorldNext
  PROVE  (Logged \/ Ticked \/ Begun \/ MovedUp \/ Made \/ Pruned) /\ NoneIsPacked'
<1>1. ~CopyLive
  BY DEF CopyLive, Renaming
<1>2. ~TruncateLive
  BY DEF TruncateLive, Renamed, WriterIs, Plain, Live
<1>3. \A k \in 1..Kept : ~Pack(k) /\ ~DropPlain(k)
  <2>1. \A k \in 1..Kept : k \in 1..Kept + 1
    BY NumbersAre
  <2> QED
    BY <2>1 DEF Pack, DropPlain, Both, Renaming, Renamed, NoneIsPacked
<1> QED
  BY <1>1, <1>2, <1>3, LogStep, RotateStep, ShiftStep, MoveLiveStep, MakeLiveStep, PruneStep
  DEF WorldNext

LEMMA LinesAre ==
  ASSUME WorldTypes, NEW i \in Inodes
  PROVE  /\ written \in Nat /\ Len(Text(i)) \in Nat /\ DOMAIN Text(i) = 1..Len(Text(i))
         /\ Text(i) \in Seq(Nat)
         /\ \A x \in DOMAIN Text(i) : Text(i)[x] \in Nat /\ Text(i)[x] <= written
<1> DEFINE t == Text(i)
<1>1. setup.lines \in Nat /\ written \in 0..setup.lines /\ t \in Seq(0..setup.lines) /\ Numbered(t, written)
  BY TextIs
<1> HIDE DEF t
<1>2. written \in Nat /\ Len(t) \in Nat /\ DOMAIN t = 1..Len(t)
  BY <1>1
<1>3. \A x \in DOMAIN t : t[x] \in 0..setup.lines /\ t[x] <= written
  BY <1>1, ElementsAre DEF Numbered
<1>4. \A x \in DOMAIN t : t[x] \in Nat
  BY <1>3
<1>5. t \in Seq(Nat)
  <2>1. t \in Seq(0..setup.lines) /\ \A a \in 0..setup.lines : a \in Nat
    BY <1>1
  <2> QED
    BY <2>1, SeqWider
<1> QED
  BY <1>2, <1>3, <1>4, <1>5 DEF t

\* The file the program writes to has the lowest number there is.
LEMMA WriterHas ==
  ASSUME WorldTypes, Renamed
  PROVE  /\ writer \in Inodes /\ writer # None
         /\ \A k \in Numbers : Plain(k) # None /\ Plain(k) # writer =>
              \E w \in Numbers : w < k /\ Plain(w) = writer
         /\ \A k \in Numbers : Plain(k) = writer => \A m \in Numbers : Plain(m) # None => k <= m
         /\ Plain(0) # None => writer = Plain(0)
<1>1. writer \in Inodes /\ writer # None
  BY NoneIs DEF WorldTypes, WorldTypeOK
<1>2. (Plain(0) # None /\ writer = Plain(0)) \/ (Plain(0) = None /\ writer = Plain(1))
  BY <1>1 DEF Renamed, WriterIs
<1>3. \A k \in Numbers : k \in Nat /\ (k # 0 => 0 < k) /\ (k # 0 /\ k # 1 => 1 < k)
  BY NumbersAre
<1>4. OneName /\ 0 \in Numbers /\ 1 \in Numbers
  BY NumbersAre DEF Renamed
<1>5. ASSUME NEW k \in Numbers, Plain(k) # None, Plain(k) # writer
      PROVE  \E w \in Numbers : w < k /\ Plain(w) = writer
  BY <1>2, <1>3, <1>4, <1>5
<1>6. ASSUME NEW k \in Numbers, Plain(k) = writer, NEW m \in Numbers, Plain(m) # None PROVE k <= m
  <2>1. (k = 0 /\ Plain(0) # None) \/ (k = 1 /\ Plain(0) = None)
    BY <1>1, <1>2, <1>4, <1>6 DEF OneName
  <2> QED
    BY <1>3, <1>6, <2>1
<1> QED
  BY <1>1, <1>2, <1>5, <1>6

\* The log goes on: the last written line is the only new one and the program's file has it.
LEMMA LoggedRenamed ==
  ASSUME WorldTypes, WorldTypes', Renamed, NoneIsPacked', Logged
  PROVE  Renamed'
<1>1. PICK w \in Inodes : w = writer
  BY DEF WorldTypes, WorldTypeOK
<1>8. written \in Nat
  BY LinesAre
<1>2. ASSUME NEW i \in Inodes, i # w PROVE Text(i)' = Text(i)
  BY <1>1, <1>2 DEF Logged
<1>3. /\ \A x \in DOMAIN Text(w) : Text(w)[x] \in Nat /\ Text(w)[x] < written + 1
      /\ Len(Text(w)) \in Nat /\ DOMAIN Text(w) = 1..Len(Text(w))
  BY <1>8, LinesAre
<1>4. \A x \in DOMAIN Text(w)' :
        \/ x \in DOMAIN Text(w) /\ Text(w)'[x] = Text(w)[x]
        \/ x = Len(Text(w)) + 1 /\ Text(w)'[x] = written + 1
  <2>1. Text(w)' = Append(Text(w), written + 1) /\ Text(w) \in Seq(Nat)
    BY <1>1, LinesAre DEF Logged
  <2> QED
    BY <1>8, <2>1
<1>5. Rising'
  <2>1. ASSUME NEW i \in Inodes, NEW x \in DOMAIN Text(i)', NEW y \in DOMAIN Text(i)'
        PROVE  Text(i)'[x] > 0 /\ (x < y => Text(i)'[x] < Text(i)'[y])
    <3>1. CASE i # w
      BY <1>2, <2>1, <3>1 DEF Renamed, Rising
    <3>2. CASE i = w
      <4>1. \A z, u \in DOMAIN Text(w) :
              Text(w)[z] > 0 /\ (z < u => Text(w)[z] < Text(w)[u])
        BY <1>1 DEF Renamed, Rising
      <4>2. \/ x \in DOMAIN Text(w) /\ Text(w)'[x] = Text(w)[x]
            \/ x = Len(Text(w)) + 1 /\ Text(w)'[x] = written + 1
        BY <1>4, <3>2
      <4>3. \/ y \in DOMAIN Text(w) /\ Text(w)'[y] = Text(w)[y]
            \/ y = Len(Text(w)) + 1 /\ Text(w)'[y] = written + 1
        BY <1>4, <3>2
      <4> QED
        BY <1>3, <1>8, <3>2, <4>1, <4>2, <4>3
    <3> QED
      BY <3>1, <3>2
  <2> QED
    BY <2>1 DEF Rising
<1>6. InAge'
  <2>1. ASSUME NEW k \in Numbers, NEW m \in Numbers, NEW i \in Inodes, NEW j \in Inodes,
               k < m, Plain(k)' = i, Plain(m)' = j,
               NEW x \in DOMAIN Text(j)', NEW y \in DOMAIN Text(i)'
        PROVE  Text(j)'[x] < Text(i)'[y]
    <3>1. Plain(k) = i /\ Plain(m) = j /\ i # None /\ j # None
      BY <2>1, NoneIs DEF Logged, SameNames
    <3>2. j # w
      <4>1. ASSUME j = w PROVE FALSE
        <5>1. m <= k
          BY <1>1, <2>1, <3>1, <4>1, WriterHas
        <5> QED
          BY <2>1, <5>1, NumbersAre
      <4> QED
        BY <4>1
    <3>3. Text(j)' = Text(j) /\ Text(j)[x] \in Nat /\ Text(j)[x] <= written
      BY <1>2, <2>1, <3>2, LinesAre
    <3>4. Earlier(j, i)
      BY <2>1, <3>1 DEF Renamed, InAge
    <3>5. CASE y \in DOMAIN Text(i) /\ Text(i)'[y] = Text(i)[y]
      BY <2>1, <3>3, <3>4, <3>5 DEF Earlier, Later
    <3>6. CASE Text(i)'[y] = written + 1
      BY <1>8, <3>3, <3>6
    <3> QED
      BY <1>2, <1>4, <2>1, <3>5, <3>6
  <2> QED
    BY <2>1 DEF InAge, Earlier, Later
<1>7. OneName' /\ WriterIs' /\ Room'
  <2>1. \A k \in Numbers : Plain(k)' = Plain(k)
    BY DEF Logged, SameNames
  <2>2. rot \in Nat
    BY DEF WorldTypes, WorldTypeOK
  <2>3. rot <= Kept => rot + 1 \in Numbers
    BY <2>2, NumbersAre DEF Numbers
  <2>4. rot' = rot /\ writer' = writer
    BY DEF Logged
  <2>5. OneName'
    BY <2>1 DEF Renamed, OneName
  <2>6. WriterIs'
    BY <2>1, <2>4, NumbersAre DEF Renamed, WriterIs, Remaking
  <2>7. Room'
    BY <2>1, <2>3, <2>4, NumbersAre DEF Renamed, Room, AtRest
  <2> QED
    BY <2>5, <2>6, <2>7
<1> QED
  BY <1>5, <1>6, <1>7 DEF Renamed

LEMMA SteadyRenamed ==
  ASSUME WorldTypes, Renamed, NoneIsPacked', Ticked \/ Begun
  PROVE  Renamed'
<1>1. \A k \in Numbers : Plain(k)' = Plain(k)
  BY DEF Ticked, Begun, SameNames
<1>2. \A i \in Inodes : Text(i)' = Text(i)
  BY DEF Ticked, Begun, SameTexts
<1>3. Rising'
  BY <1>2 DEF Renamed, Rising
<1>4. InAge'
  BY <1>1, <1>2 DEF Renamed, InAge, Earlier, Later
<1>5. OneName' /\ WriterIs'
  BY <1>1, NumbersAre DEF Renamed, OneName, WriterIs, Ticked, Begun, Remaking, AtRest
<1>6. Room'
  <2>1. CASE Ticked
    <3>1. rot' = rot
      BY <2>1 DEF Ticked
    <3>3. rot \in Nat
      BY DEF WorldTypes, WorldTypeOK
    <3>2. rot <= Kept => rot + 1 \in Numbers
      BY <3>3, NumbersAre DEF Numbers
    <3> QED
      BY <1>1, <3>1, <3>2, NumbersAre DEF Renamed, Room, AtRest
  <2>2. CASE Begun
    <3>1. rot' \in 0..Kept /\ Plain(rot' + 1) = None
      BY <2>2 DEF Begun
    <3>2. PICK r \in 0..Kept : r = rot'
      BY <3>1
    <3>3. r + 1 \in Numbers /\ r # Kept + 1 /\ Plain(r + 1) = None
      <4>1. r + 1 \in 0..Kept + 1 /\ r # Kept + 1
        BY NumbersAre
      <4>2. Plain(r + 1) = None
        BY <3>1, <3>2
      <4> QED
        BY <4>1, <4>2 DEF Numbers
    <3>4. Plain(r + 1)' = None
      BY <1>1, <3>3
    <3> QED
      BY <3>2, <3>3, <3>4 DEF Room, AtRest
  <2> QED
    BY <2>1, <2>2
<1> QED
  BY <1>3, <1>4, <1>5, <1>6 DEF Renamed

\* A copy that moves up keeps its place among the others.
LEMMA MovedUpIs ==
  ASSUME WorldTypes, Renamed, MovedUp
  PROVE  /\ \A k \in Numbers : Plain(k)' # None =>
              \E m \in Numbers : /\ Plain(m) = Plain(k)' /\ Plain(m) # None
                                 /\ k = (IF m = rot THEN rot + 1 ELSE m) /\ m # rot + 1
         /\ \A m \in Numbers : Plain(m) # None =>
              \E k \in Numbers : Plain(k)' = Plain(m) /\ k = (IF m = rot THEN rot + 1 ELSE m)
         /\ rot \in Nat /\ rot \in Numbers /\ rot + 1 \in Numbers /\ Plain(rot + 1) = None
<1>1. rot \in 0..Kept /\ Kept \in Nat
  BY NumbersAre DEF MovedUp
<1>2. rot \in Nat /\ rot \in Numbers /\ rot + 1 \in Numbers /\ rot # rot + 1
  BY <1>1 DEF Numbers
<1>3. Plain(rot + 1) = None
  BY <1>1 DEF Renamed, Room
<1>4. \A k \in Numbers : Plain(k)' = IF k = rot + 1 THEN Plain(rot) ELSE IF k = rot THEN None ELSE Plain(k)
  BY DEF MovedUp
<1>5. ASSUME NEW k \in Numbers, Plain(k)' # None
      PROVE  \E m \in Numbers : /\ Plain(m) = Plain(k)' /\ Plain(m) # None
                                /\ k = (IF m = rot THEN rot + 1 ELSE m) /\ m # rot + 1
  <2>1. CASE k = rot + 1
    BY <1>2, <1>4, <1>5, <2>1
  <2>2. CASE k # rot + 1
    BY <1>2, <1>4, <1>5, <2>2
  <2> QED
    BY <2>1, <2>2
<1>6. ASSUME NEW m \in Numbers, Plain(m) # None
      PROVE  \E k \in Numbers : Plain(k)' = Plain(m) /\ k = (IF m = rot THEN rot + 1 ELSE m)
  BY <1>2, <1>3, <1>4, <1>6
<1> QED
  BY <1>2, <1>3, <1>5, <1>6

LEMMA MovedUpRenamed ==
  ASSUME WorldTypes, Renamed, NoneIsPacked', MovedUp
  PROVE  Renamed'
<1>1. /\ \A k \in Numbers : Plain(k)' # None =>
           \E m \in Numbers : /\ Plain(m) = Plain(k)' /\ Plain(m) # None
                              /\ k = (IF m = rot THEN rot + 1 ELSE m) /\ m # rot + 1
      /\ rot \in Nat /\ rot \in Numbers /\ rot + 1 \in Numbers /\ Plain(rot + 1) = None
  BY MovedUpIs
<1>2. \A i \in Inodes : Text(i)' = Text(i)
  BY DEF MovedUp, SameTexts
<1>3. Rising'
  BY <1>2 DEF Renamed, Rising
<1>4. \A k \in Numbers : k \in Nat
  BY NumbersAre
<1>5. OneName'
  <2>1. ASSUME NEW k \in Numbers, NEW m \in Numbers, Plain(k)' # None, Plain(k)' = Plain(m)'
        PROVE  k = m
    <3>1. PICK k0 \in Numbers : Plain(k0) = Plain(k)' /\ k = (IF k0 = rot THEN rot + 1 ELSE k0)
      BY <1>1, <2>1
    <3>2. PICK m0 \in Numbers : Plain(m0) = Plain(m)' /\ m = (IF m0 = rot THEN rot + 1 ELSE m0)
      BY <1>1, <2>1
    <3>3. k0 = m0
      BY <2>1, <3>1, <3>2 DEF Renamed, OneName
    <3> QED
      BY <3>1, <3>2, <3>3
  <2> QED
    BY <2>1 DEF OneName
<1>6. InAge'
  <2>1. ASSUME NEW k \in Numbers, NEW m \in Numbers, NEW i \in Inodes, NEW j \in Inodes,
               k < m, Plain(k)' = i, Plain(m)' = j
        PROVE  Earlier(j, i)'
    <3>1. PICK k0 \in Numbers : Plain(k0) = i /\ k = (IF k0 = rot THEN rot + 1 ELSE k0) /\ k0 # rot + 1
      BY <1>1, <2>1, NoneIs
    <3>2. PICK m0 \in Numbers : Plain(m0) = j /\ m = (IF m0 = rot THEN rot + 1 ELSE m0) /\ m0 # rot + 1
      BY <1>1, <2>1, NoneIs
    <3>3. k0 < m0
      BY <1>1, <1>4, <2>1, <3>1, <3>2
    <3>4. Earlier(j, i)
      BY <3>1, <3>2, <3>3 DEF Renamed, InAge
    <3> QED
      BY <1>2, <3>4 DEF Earlier, Later
  <2> QED
    BY <2>1 DEF InAge
<1>7. WriterIs' /\ Room'
  <2>1. \A k \in Numbers : Plain(k)' = IF k = rot + 1 THEN Plain(rot) ELSE IF k = rot THEN None ELSE Plain(k)
    BY DEF MovedUp
  <2>2. ASSUME NEW q \in Numbers, q = rot PROVE Plain(q)' = None
    <3>1. q # rot + 1
      BY <1>1, <2>2
    <3> QED
      BY <2>1, <2>2, <3>1
  <2>3. writer' = writer /\ rot \in 0..Kept /\ 0 \in Numbers /\ 1 \in Numbers /\ Kept \in Nat
    BY NumbersAre DEF MovedUp
  <2>4. writer = Plain(0)
    BY <2>3 DEF Renamed, WriterIs, Remaking
  <2>5. CASE rot = 0
    <3>1. rot' = Kept + 2 /\ Plain(0)' = None /\ Plain(1)' = Plain(0)
      BY <2>1, <2>2, <2>3, <2>5 DEF MovedUp, Remaking
    <3> QED
      BY <2>3, <2>4, <3>1 DEF WriterIs, Room, Remaking, AtRest
  <2>6. CASE rot # 0
    <3>1. rot' = rot - 1 /\ Plain(0)' = Plain(0)
      BY <2>1, <2>3, <2>6 DEF MovedUp
    <3>2. PICK r : r = rot'
      OBVIOUS
    <3>3. r = rot - 1 /\ r + 1 = rot /\ r # Kept + 1 /\ r # Kept + 2
      BY <2>3, <3>1, <3>2
    <3>4. PICK q \in Numbers : q = rot
      BY <1>1
    <3>5. Plain(q)' = None
      BY <2>2, <3>4
    <3>6. Plain(r + 1)' = None
      BY <3>3, <3>4, <3>5
    <3> QED
      BY <2>3, <2>4, <3>1, <3>2, <3>3, <3>6 DEF WriterIs, Room, Remaking, AtRest
  <2> QED
    BY <2>5, <2>6
<1> QED
  BY <1>3, <1>5, <1>6, <1>7 DEF Renamed

LEMMA MadeRenamed ==
  ASSUME WorldTypes, Renamed, NoneIsPacked', Made
  PROVE  Renamed'
<1>1. PICK i \in Inodes : MadeAs(i)
  BY DEF Made
<1>2. /\ \A k \in Numbers : Plain(k) # i
      /\ Plain(0)' = i /\ \A k \in 1..Kept + 1 : Plain(k)' = Plain(k)
      /\ \/ Text(i)' = <<>> /\ written' = written
         \/ Text(i)' = <<written + 1>> /\ written' = written + 1
      /\ \A j \in Inodes : j # i => Text(j)' = Text(j)
      /\ writer' = i
  BY <1>1 DEF MadeAs
<1>3. /\ \A k \in Numbers : k # 0 => k \in 1..Kept + 1 /\ 0 < k
      /\ Plain(0) = None /\ written \in Nat
      /\ \A k \in Numbers : k \in Nat
  <2>1. Plain(0) = None
    BY DEF Renamed, WriterIs, Made
  <2> QED
    BY <2>1, NumbersAre, LinesAre, <1>1
<1>4. \A x \in DOMAIN Text(i)' : x = 1 /\ Text(i)'[x] = written + 1
  BY <1>2
<1>5. Rising'
  <2>1. ASSUME NEW j \in Inodes, NEW x \in DOMAIN Text(j)', NEW y \in DOMAIN Text(j)'
        PROVE  Text(j)'[x] > 0 /\ (x < y => Text(j)'[x] < Text(j)'[y])
    <3>1. CASE j = i
      BY <1>3, <1>4, <2>1, <3>1
    <3>2. CASE j # i
      BY <1>2, <2>1, <3>2 DEF Renamed, Rising
    <3> QED
      BY <3>1, <3>2
  <2> QED
    BY <2>1 DEF Rising
<1>6. OneName'
  <2>1. ASSUME NEW k \in Numbers, NEW m \in Numbers, Plain(k)' # None, Plain(k)' = Plain(m)'
        PROVE  k = m
    <3>1. CASE k = 0
      BY <1>2, <1>3, <2>1, <3>1
    <3>2. CASE m = 0
      BY <1>2, <1>3, <2>1, <3>2
    <3>3. CASE k # 0 /\ m # 0
      BY <1>2, <1>3, <2>1, <3>3 DEF Renamed, OneName
    <3> QED
      BY <3>1, <3>2, <3>3
  <2> QED
    BY <2>1 DEF OneName
<1>7. InAge'
  <2>1. ASSUME NEW k \in Numbers, NEW m \in Numbers, NEW h \in Inodes, NEW j \in Inodes,
               k < m, Plain(k)' = h, Plain(m)' = j,
               NEW x \in DOMAIN Text(j)', NEW y \in DOMAIN Text(h)'
        PROVE  Text(j)'[x] < Text(h)'[y]
    <3>1. m # 0
      BY <1>3, <2>1
    <3>2. Plain(m) = j /\ j # i
      BY <1>2, <1>3, <2>1, <3>1
    <3>3. Text(j)' = Text(j) /\ Text(j)[x] \in Nat /\ Text(j)[x] <= written
      BY <1>2, <2>1, <3>2, LinesAre
    <3>4. CASE k = 0
      <4>1. h = i /\ Text(h)'[y] = written + 1
        BY <1>2, <1>4, <2>1, <3>4
      <4> QED
        BY <1>3, <3>3, <4>1
    <3>5. CASE k # 0
      <4>1. Plain(k) = h /\ h # i /\ Text(h)' = Text(h)
        BY <1>2, <1>3, <2>1, <3>5
      <4>2. Earlier(j, h)
        BY <2>1, <3>2, <4>1 DEF Renamed, InAge
      <4> QED
        BY <2>1, <3>3, <4>1, <4>2 DEF Earlier, Later
    <3> QED
      BY <3>4, <3>5
  <2> QED
    BY <2>1 DEF InAge, Earlier, Later
<1>8. WriterIs' /\ Room'
  <2>1. rot' \in {Kept + 1, Kept + 3} /\ (rot' = Kept + 1 => Plain(Kept + 1) = None) /\ Kept \in Nat
    BY NumbersAre DEF Made, AtRest, Pruning
  <2>2. Plain(Kept + 1)' = Plain(Kept + 1)
    BY <1>2, <1>3, NumbersAre
  <2> QED
    BY <1>2, <2>1, <2>2 DEF WriterIs, Room, Remaking, AtRest
<1> QED
  BY <1>5, <1>6, <1>7, <1>8 DEF Renamed

LEMMA PrunedRenamed ==
  ASSUME WorldTypes, Renamed, NoneIsPacked', Pruned
  PROVE  Renamed'
<1>1. /\ rot = Kept + 3 /\ rot' = Kept + 1 /\ Plain(Kept + 1)' = None
      /\ \A k \in 0..Kept : Plain(k)' = Plain(k)
      /\ \A i \in Inodes : Text(i)' = Text(i) \/ Text(i)' = <<>>
      /\ writer' = writer /\ Kept \in Nat /\ 0 \in 0..Kept
  BY NumbersAre DEF Pruned, AtRest, Pruning
<1>2. \A k \in Numbers : k = Kept + 1 \/ k \in 0..Kept
  BY <1>1 DEF Numbers
<1>3. Rising'
  BY <1>1 DEF Renamed, Rising
<1>4. OneName'
  BY <1>1, <1>2 DEF Renamed, OneName
<1>5. InAge'
  <2>1. ASSUME NEW k \in Numbers, NEW m \in Numbers, NEW i \in Inodes, NEW j \in Inodes,
               k < m, Plain(k)' = i, Plain(m)' = j
        PROVE  Earlier(j, i)'
    <3>1. Plain(k) = i /\ Plain(m) = j
      BY <1>1, <1>2, <2>1, NoneIs
    <3>2. Earlier(j, i)
      BY <2>1, <3>1 DEF Renamed, InAge
    <3> QED
      BY <1>1, <3>2 DEF Earlier, Later
  <2> QED
    BY <2>1 DEF InAge
<1>6. WriterIs' /\ Room'
  BY <1>1 DEF Renamed, WriterIs, Room, Remaking, AtRest
<1> QED
  BY <1>3, <1>4, <1>5, <1>6 DEF Renamed

LEMMA RenamedStep ==
  ASSUME WorldTypes, WorldTypes', Renamed, NoneIsPacked',
         Logged \/ Ticked \/ Begun \/ MovedUp \/ Made \/ Pruned
  PROVE  Renamed'
BY LoggedRenamed, SteadyRenamed, MovedUpRenamed, MadeRenamed, PrunedRenamed

\* What a step does to the lines of a file: it adds none but those it writes, or the file is new.
NewFile(i) == \A x \in DOMAIN Text(i)' : Text(i)'[x] \in Nat /\ Text(i)'[x] > written
Longer(i) ==
  /\ \A x \in DOMAIN Text(i) : x \in DOMAIN Text(i)' /\ Text(i)'[x] = Text(i)[x]
  /\ \A x \in DOMAIN Text(i)' : x \in DOMAIN Text(i) \/ (Text(i)'[x] \in Nat /\ Text(i)'[x] > written)

\* What every step keeps of the files that have a name, and of their order.
NamesGoOn ==
  \A k \in Numbers, i \in Inodes : Plain(k)' = i =>
    \/ NewFile(i)
    \/ /\ Longer(i)
       /\ \E m \in Numbers :
            /\ Plain(m) = i
            /\ \A n \in Numbers, j \in Inodes :
                 n < m /\ Plain(n) = j => \E h \in Numbers : h < k /\ Plain(h)' = j
WriterGoesOn == \A i \in Inodes : writer' = i => NewFile(i) \/ (Longer(i) /\ writer = i)
LiveGoesOn ==
  \A i \in Inodes : /\ Plain(0)' = i => NewFile(i) \/ (Longer(i) /\ Plain(0) = i)
                    /\ Plain(0) = i \/ Plain(1) = i => Longer(i)
Moved ==
  /\ written \in Nat /\ written' \in Nat /\ written <= written'
  /\ NamesGoOn /\ WriterGoesOn /\ LiveGoesOn

LEMMA SameTextLonger == ASSUME NEW i, Text(i)' = Text(i) PROVE Longer(i)
BY DEF Longer

\* Names that stay, with texts that stay or grow.
LEMMA SteadyMoves ==
  ASSUME WorldTypes, written' \in Nat, written <= written', writer' = writer,
         \A k \in Numbers : Plain(k)' = Plain(k) \/ Plain(k)' = None, Plain(0)' = Plain(0),
         \A k \in Numbers : Plain(k)' = None => Plain(k) = None \/ k = Kept + 1,
         \A i \in Inodes : i = writer \/ (\E k \in Numbers : Plain(k)' = i) => Longer(i),
         Plain(1)' = Plain(1)
  PROVE  Moved
<1>1. written \in Nat /\ 0 \in Numbers /\ 1 \in Numbers /\ Kept \in Nat
  BY NumbersAre DEF WorldTypes, WorldTypeOK
<1>2. NamesGoOn
  <2>1. ASSUME NEW k \in Numbers, NEW i \in Inodes, Plain(k)' = i
        PROVE  /\ Longer(i) /\ Plain(k) = i
               /\ \A n \in Numbers, j \in Inodes : n < k /\ Plain(n) = j => Plain(n)' = j
    <3>1. Longer(i) /\ Plain(k) = i
      BY <2>1, NoneIs
    <3>2. ASSUME NEW n \in Numbers, NEW j \in Inodes, n < k, Plain(n) = j PROVE Plain(n)' = j
      <4>1. n # Kept + 1
        BY <1>1, <3>2 DEF Numbers
      <4> QED
        BY <3>2, <4>1, NoneIs
    <3> QED
      BY <3>1, <3>2
  <2> QED
    BY <2>1 DEF NamesGoOn
<1>3. WriterGoesOn
  BY DEF WriterGoesOn
<1>4. LiveGoesOn
  BY <1>1 DEF LiveGoesOn
<1> QED
  BY <1>1, <1>2, <1>3, <1>4 DEF Moved

LEMMA LoggedMoves ==
  ASSUME WorldTypes, Renamed, Logged
  PROVE  Moved
<1>1. written \in Nat /\ writer \in Inodes
  BY DEF WorldTypes, WorldTypeOK
<1>2. ASSUME NEW i \in Inodes PROVE Longer(i)
  <2>1. CASE i = writer
    <3>1. Text(i)' = Append(Text(i), written + 1)
      BY <2>1 DEF Logged
    <3>2. Text(i) \in Seq(Nat)
      BY LinesAre
    <3> DEFINE t == Text(i)
               u == Append(t, written + 1)
    <3>3. /\ \A x \in DOMAIN t : x \in DOMAIN u /\ u[x] = t[x]
          /\ \A x \in DOMAIN u : x \in DOMAIN t \/ (u[x] \in Nat /\ u[x] > written)
      <4> HIDE DEF t
      <4>1. t \in Seq(Nat)
        BY <3>2 DEF t
      <4> QED
        BY <1>1, <4>1
    <3> HIDE DEF u
    <3> QED
      BY <3>1, <3>3 DEF Longer, u
  <2>2. CASE i # writer
    BY <2>2, SameTextLonger DEF Logged
  <2> QED
    BY <2>1, <2>2
<1>3. \A k \in Numbers : Plain(k)' = Plain(k)
  BY DEF Logged, SameNames
<1> QED
  BY <1>1, <1>2, <1>3, SteadyMoves, NumbersAre DEF Logged

\* Nothing moves; and a step that leaves the names and the texts that have one.
LEMMA StillMoves ==
  ASSUME WorldTypes, UNCHANGED <<written, writer>>,
         \A k \in Numbers : Plain(k)' = Plain(k),
         \A i \in Inodes : i = writer \/ (\E k \in Numbers : Plain(k) = i) => Text(i)' = Text(i)
  PROVE  Moved
<1>1. written \in Nat
  BY DEF WorldTypes, WorldTypeOK
<1>2. \A i \in Inodes : i = writer \/ (\E k \in Numbers : Plain(k)' = i) => Longer(i)
  BY SameTextLonger
<1> QED
  BY <1>1, <1>2, SteadyMoves, NumbersAre

LEMMA MovedUpMoves ==
  ASSUME WorldTypes, Renamed, MovedUp
  PROVE  Moved
<1>1. /\ \A k \in Numbers : Plain(k)' # None =>
           \E m \in Numbers : /\ Plain(m) = Plain(k)' /\ Plain(m) # None
                              /\ k = (IF m = rot THEN rot + 1 ELSE m) /\ m # rot + 1
      /\ \A m \in Numbers : Plain(m) # None =>
           \E k \in Numbers : Plain(k)' = Plain(m) /\ k = (IF m = rot THEN rot + 1 ELSE m)
      /\ rot \in Nat /\ Plain(rot + 1) = None
  BY MovedUpIs
<1>2. written \in Nat /\ written' = written /\ writer' = writer
  BY DEF WorldTypes, WorldTypeOK, MovedUp
<1>3. \A i \in Inodes : Longer(i)
  BY SameTextLonger DEF MovedUp, SameTexts
<1>4. NamesGoOn
  <2>1. ASSUME NEW k \in Numbers, NEW i \in Inodes, Plain(k)' = i
        PROVE  \E m \in Numbers :
                 /\ Plain(m) = i
                 /\ \A n \in Numbers, j \in Inodes :
                      n < m /\ Plain(n) = j => \E h \in Numbers : h < k /\ Plain(h)' = j
    <3>1. PICK m \in Numbers : Plain(m) = i /\ k = (IF m = rot THEN rot + 1 ELSE m) /\ m # rot + 1
      BY <1>1, <2>1, NoneIs
    <3>2. ASSUME NEW n \in Numbers, NEW j \in Inodes, n < m, Plain(n) = j
          PROVE  \E h \in Numbers : h < k /\ Plain(h)' = j
      <4>1. PICK h \in Numbers : Plain(h)' = j /\ h = (IF n = rot THEN rot + 1 ELSE n)
        BY <1>1, <3>2, NoneIs
      <4>2. n \in Nat /\ m \in Nat
        BY NumbersAre
      <4>3. h < k
        BY <1>1, <3>1, <3>2, <4>1, <4>2
      <4> QED
        BY <4>1, <4>3
    <3> QED
      BY <3>1, <3>2
  <2> QED
    BY <1>3, <2>1 DEF NamesGoOn
<1>5. LiveGoesOn
  <2>1. rot # 0 => Plain(0)' = Plain(0)
    BY <1>1, NumbersAre DEF MovedUp
  <2>2. rot = 0 => Plain(0)' = None
    BY NumbersAre DEF MovedUp
  <2> QED
    BY <1>3, <2>1, <2>2, NoneIs DEF LiveGoesOn
<1> QED
  BY <1>2, <1>3, <1>4, <1>5 DEF Moved, WriterGoesOn

LEMMA MadeMoves ==
  ASSUME WorldTypes, Renamed, Made
  PROVE  Moved
<1>1. PICK i \in Inodes : MadeAs(i)
  BY DEF Made
<1>2. /\ \A k \in Numbers : Plain(k) # i
      /\ Plain(0)' = i /\ \A k \in 1..Kept + 1 : Plain(k)' = Plain(k)
      /\ \/ Text(i)' = <<>> /\ written' = written
         \/ Text(i)' = <<written + 1>> /\ written' = written + 1
      /\ \A j \in Inodes : j # i => Text(j)' = Text(j)
      /\ writer' = i
  BY <1>1 DEF MadeAs
<1>3. /\ \A k \in Numbers : k \in Nat /\ (k # 0 => k \in 1..Kept + 1)
      /\ Plain(0) = None /\ written \in Nat /\ 0 \in Numbers /\ 1 \in Numbers
  <2>1. Plain(0) = None
    BY DEF Renamed, WriterIs, Made
  <2> QED
    BY <2>1, NumbersAre DEF WorldTypes, WorldTypeOK
<1>4. NewFile(i)
  BY <1>2, <1>3 DEF NewFile
<1>5. \A j \in Inodes : j # i => Longer(j)
  BY <1>2, SameTextLonger
<1>6. NamesGoOn
  <2>1. ASSUME NEW k \in Numbers, NEW j \in Inodes, Plain(k)' = j, j # i
        PROVE  /\ Longer(j) /\ Plain(k) = j
               /\ \A n \in Numbers, h \in Inodes : n < k /\ Plain(n) = h => Plain(n)' = h
    BY <1>2, <1>3, <1>5, <2>1, NoneIs
  <2> QED
    BY <1>4, <2>1 DEF NamesGoOn
<1>7. LiveGoesOn
  BY <1>2, <1>3, <1>4, <1>5, NoneIs DEF LiveGoesOn
<1>8. WriterGoesOn
  BY <1>2, <1>4 DEF WriterGoesOn
<1> QED
  BY <1>2, <1>3, <1>6, <1>7, <1>8 DEF Moved

LEMMA PrunedMoves ==
  ASSUME WorldTypes, Renamed, Pruned
  PROVE  Moved
<1>1. /\ Plain(Kept + 1)' = None /\ \A k \in 0..Kept : Plain(k)' = Plain(k)
      /\ \A k \in 0..Kept, i \in Inodes : Plain(k) = i => Text(i)' = Text(i)
      /\ UNCHANGED <<writer, written>>
  BY DEF Pruned
<1>2. /\ \A k \in Numbers : k = Kept + 1 \/ k \in 0..Kept
      /\ 0 \in 0..Kept /\ 1 \in 0..Kept /\ written \in Nat
  BY NumbersAre DEF Numbers, WorldTypes, WorldTypeOK
<1>3. writer = Plain(0)
  BY NumbersAre DEF Renamed, WriterIs, Pruned, Remaking, Pruning
<1>4. ASSUME NEW i \in Inodes, i = writer \/ \E k \in Numbers : Plain(k)' = i PROVE Longer(i)
  <2>1. PICK k \in 0..Kept : Plain(k) = i
    BY <1>1, <1>2, <1>3, <1>4, NoneIs
  <2> QED
    BY <1>1, <2>1, SameTextLonger
<1> QED
  BY <1>1, <1>2, <1>4, SteadyMoves, NumbersAre

LEMMA WorldMoves ==
  ASSUME WorldTypes, Renamed, Logged \/ Ticked \/ Begun \/ MovedUp \/ Made \/ Pruned
  PROVE  Moved
<1>1. CASE Ticked \/ Begun
  BY <1>1, StillMoves DEF Ticked, Begun, SameNames, SameTexts
<1> QED
  BY <1>1, LoggedMoves, MovedUpMoves, MadeMoves, PrunedMoves

\* An end of a run closes the handle: what has a name stays.
LEMMA EndedMoves ==
  ASSUME WorldTypes, Ended
  PROVE  Moved
<1>1. /\ file' = Referred(dir, {}) /\ dir' = dir /\ UNCHANGED <<written, writer>>
  BY DEF Ended
<1>2. \A k \in Numbers : Plain(k)' = Plain(k)
  BY <1>1 DEF Plain
<1>3. ASSUME NEW i \in Inodes, i = writer \/ \E k \in Numbers : Plain(k) = i
      PROVE  Text(i)' = Text(i)
  <2>1. i = writer \/ \E n \in Names : dir[n] = i
    BY <1>3, NumbersAre DEF Plain
  <2> QED
    BY <1>1, <2>1 DEF Referred, Text
<1> QED
  BY <1>1, <1>2, <1>3, StillMoves

LEMMA EndedRenamed ==
  ASSUME WorldTypes, Renamed, Ended
  PROVE  Renamed'
<1>1. /\ file' = Referred(dir, {}) /\ dir' = dir /\ UNCHANGED <<written, writer, rot>>
  BY DEF Ended
<1>2. \A k : Plain(k)' = Plain(k)
  BY <1>1 DEF Plain
<1>3. \A i \in Inodes : Text(i)' = Text(i) \/ Text(i)' = <<>>
  BY <1>1 DEF Referred, Text, Blank
<1>4. Rising'
  BY <1>3 DEF Renamed, Rising
<1>5. InAge'
  BY <1>2, <1>3 DEF Renamed, InAge, Earlier, Later
<1>6. NoneIsPacked' /\ OneName' /\ WriterIs' /\ Room'
  BY <1>1, <1>2 DEF Renamed, NoneIsPacked, OneName, WriterIs, Room, Remaking, AtRest
<1> QED
  BY <1>4, <1>5, <1>6 DEF Renamed

-----------------------------------------------------------------------------
(* What a run of such a log keeps *)

HasLine(i, l) == \E x \in DOMAIN Text(i) : Text(i)[x] = l

\* A position, its line and a first line are those of a file.
Sits(i, off, anchor, fp) ==
  /\ off = 0 => anchor = None
  /\ off # 0 => off \in DOMAIN Text(i) /\ Text(i)[off] = anchor
  /\ fp # None => 1 \in DOMAIN Text(i) /\ Text(i)[1] = fp

\* What a cursor knows of its file it knows of that one alone, and the file that is written to
\* is that one or a newer one.
MarksOf(c) == {c.anchor, c.fp} \ {None}
Placed(c) ==
  /\ c.off = 0 => c.anchor = None
  /\ c.off # 0 => c.anchor # None
  /\ MarksOf(c) \subseteq 1..written
  /\ \A k \in Numbers, i \in Inodes, l \in MarksOf(c) :
       Plain(k) = i /\ HasLine(i, l) => i = c.ino /\ Sits(i, c.off, c.anchor, c.fp)
  /\ \A i \in Inodes, l \in MarksOf(c) : writer = i => HasLine(i, l) \/ Later(l, i)

\* The lines of a set come before all of a file; and they lie behind a cursor: before its
\* line, before its first line or, where it has neither, before all of its file and the newer ones.
AheadOf(S, i) == \A l \in S : Later(l, i)
Behind(S, c) ==
  /\ c.off # 0 => \A l \in S : l <= c.anchor
  /\ c.off = 0 /\ c.fp # None => \A l \in S : l < c.fp
  /\ c.off = 0 /\ c.fp = None =>
       \A m \in Numbers, i \in Inodes :
         Plain(m) = i /\ (\A n \in Numbers : Plain(n) = c.ino => m <= n) => AheadOf(S, i)

LEMMA LaterGoesOn ==
  ASSUME Moved, NEW i \in Inodes, NEW l \in Nat, l <= written,
         NewFile(i) \/ (Longer(i) /\ Later(l, i))
  PROVE  Later(l, i)'
BY DEF Moved, NewFile, Longer, Later

LEMMA LineGoesOn ==
  ASSUME Moved, NEW i \in Inodes, NEW l \in Nat, l <= written
  PROVE  /\ Longer(i) => (HasLine(i, l) => HasLine(i, l)') /\ (HasLine(i, l)' => HasLine(i, l))
         /\ NewFile(i) => ~HasLine(i, l)'
<1>1. Longer(i) => (HasLine(i, l) => HasLine(i, l)')
  BY DEF Longer, HasLine
<1>2. Longer(i) => (HasLine(i, l)' => HasLine(i, l))
  BY DEF Moved, Longer, HasLine
<1>3. NewFile(i) => ~HasLine(i, l)'
  BY DEF Moved, NewFile, HasLine
<1> QED
  BY <1>1, <1>2, <1>3

LEMMA SitsGoesOn ==
  ASSUME WorldTypes, NEW i \in Inodes, Longer(i), NEW off, NEW anchor, NEW fp, Sits(i, off, anchor, fp)
  PROVE  Sits(i, off, anchor, fp)'
BY DEF Longer, Sits

LEMMA PlacedGoesOn ==
  ASSUME WorldTypes, Moved, NEW c, Placed(c)
  PROVE  Placed(c)'
<1>1. \A l \in MarksOf(c) : l \in Nat /\ l <= written
  BY DEF Placed, Moved
<1>2. /\ c.off = 0 => c.anchor = None
      /\ c.off # 0 => c.anchor # None
      /\ MarksOf(c) \subseteq 1..written'
  BY DEF Placed, Moved
<1>3. ASSUME NEW k \in Numbers, NEW i \in Inodes, NEW l \in MarksOf(c), Plain(k)' = i, HasLine(i, l)'
      PROVE  i = c.ino /\ Sits(i, c.off, c.anchor, c.fp)'
  <2>1. PICK m \in Numbers : Longer(i) /\ Plain(m) = i
    BY <1>1, <1>3, LineGoesOn DEF Moved, NamesGoOn
  <2>2. HasLine(i, l)
    BY <1>1, <1>3, <2>1, LineGoesOn
  <2>3. i = c.ino /\ Sits(i, c.off, c.anchor, c.fp)
    BY <2>1, <2>2 DEF Placed
  <2> QED
    BY <2>1, <2>3, SitsGoesOn
<1>4. ASSUME NEW i \in Inodes, NEW l \in MarksOf(c), writer' = i
      PROVE  HasLine(i, l)' \/ Later(l, i)'
  <2>1. NewFile(i) \/ (Longer(i) /\ writer = i)
    BY <1>4 DEF Moved, WriterGoesOn
  <2>2. l \in Nat /\ l <= written
    BY <1>1
  <2>3. CASE NewFile(i)
    BY <2>2, <2>3, LaterGoesOn
  <2>4. CASE Longer(i) /\ writer = i
    <3>1. HasLine(i, l) \/ Later(l, i)
      BY <2>4 DEF Placed
    <3> QED
      BY <2>2, <2>4, <3>1, LineGoesOn, LaterGoesOn
  <2> QED
    BY <2>1, <2>3, <2>4
<1>5. MarksOf(c)' = MarksOf(c)
  BY DEF MarksOf
<1> QED
  BY <1>2, <1>3, <1>4, <1>5 DEF Placed

LEMMA AheadGoesOn ==
  ASSUME Moved, NEW S \in SUBSET (1..written), NEW i \in Inodes,
         NewFile(i) \/ (Longer(i) /\ AheadOf(S, i))
  PROVE  AheadOf(S, i)'
<1>1. ASSUME NEW l \in S PROVE Later(l, i)'
  <2>1. l \in Nat /\ l <= written
    BY DEF Moved
  <2> QED
    BY <2>1, LaterGoesOn DEF AheadOf
<1> QED
  BY <1>1 DEF AheadOf

LEMMA BehindGoesOn ==
  ASSUME Moved, NEW S \in SUBSET (1..written), NEW c, c.ino \in Inodes, Behind(S, c)
  PROVE  Behind(S, c)'
<1>1. ASSUME c.off = 0, c.fp = None, NEW k \in Numbers, NEW i \in Inodes, Plain(k)' = i,
             \A n \in Numbers : Plain(n)' = c.ino => k <= n
      PROVE  AheadOf(S, i)'
  <2>1. CASE NewFile(i)
    BY <2>1, AheadGoesOn
  <2>2. CASE ~NewFile(i)
    <3>1. /\ Longer(i)
          /\ \E m \in Numbers :
               /\ Plain(m) = i
               /\ \A n \in Numbers, j \in Inodes :
                    n < m /\ Plain(n) = j => \E h \in Numbers : h < k /\ Plain(h)' = j
      BY <1>1, <2>2 DEF Moved, NamesGoOn
    <3>2. PICK m \in Numbers :
               /\ Plain(m) = i
               /\ \A n \in Numbers, j \in Inodes :
                    n < m /\ Plain(n) = j => \E h \in Numbers : h < k /\ Plain(h)' = j
      BY <3>1
    <3>3. ASSUME NEW n \in Numbers, Plain(n) = c.ino PROVE m <= n
      <4>1. ASSUME n < m PROVE FALSE
        <5>1. PICK h \in Numbers : h < k /\ Plain(h)' = c.ino
          BY <3>2, <3>3, <4>1
        <5>2. k <= h
          BY <1>1, <5>1
        <5> QED
          BY <5>1, <5>2, NumbersAre
      <4>2. n \in Nat /\ m \in Nat
        BY NumbersAre
      <4> QED
        BY <4>1, <4>2
    <3>4. AheadOf(S, i)
      BY <1>1, <3>2, <3>3 DEF Behind
    <3> QED
      BY <3>1, <3>4, AheadGoesOn
  <2> QED
    BY <2>1, <2>2
<1> QED
  BY <1>1 DEF Behind

\* While nothing begins beside a run, logrotate rests.
Rests == pc # "idle" /\ calm => rot = AtRest

Stage ==
  /\ pc = "idle" => live = None /\ listing = {}
  /\ pc \in {"idle", "list", "stat", "try"} => got = <<>> /\ last = None /\ chain = <<>>
  /\ pc # "try" => queue = <<>>
  /\ pc = "live" => chain = <<>>
  /\ live # None /\ pc # "live" => live.off = 0

\* The live handle's file is the live file, or the copy it has become beside this run.
LiveIs ==
  live # None =>
    /\ Plain(0) = live.ino \/ (Plain(1) = live.ino /\ ~calm /\ rot > Kept)
    /\ Sits(live.ino, live.off, live.anchor, live.fp)
    /\ Sits(live.ino, live.start, live.seed, live.fp)

\* A copy listed is where it was, or one number up and will not move again; or it is gone.
ListingIs ==
  \A a \in listing :
    /\ a.gz = FALSE
    /\ \A k \in Numbers :
         Plain(k) = a.ino => k = a.k \/ (k = a.k + 1 /\ ~calm /\ (rot <= Kept => rot < k))
    /\ (\E k \in Numbers : Plain(k) = a.ino) \/ (~calm /\ rot = AtRest)
    /\ \A b \in listing : a.ino = b.ino \/ a.k = b.k => a = b

\* A live file that came after the run's open is newer than the saved first line.
Unseen ==
  \A i \in Inodes :
    /\ pc # "idle" /\ saved # None /\ saved.fp # None
    /\ Plain(0) = i /\ ~(live # None /\ live.ino = i)
    => Later(saved.fp, i)

LEMMA BesideIs ==
  ASSUME TypeInv, Renaming, Renamed, setup' = setup, Beside
  PROVE  /\ Logged \/ Ticked \/ Begun \/ MovedUp \/ Made \/ Pruned
         /\ Renamed' /\ Moved
         /\ UNCHANGED <<saved, pc, live, names, listing, again, queue, moved, unreadable, chain, last,
                        got, mailed, origin, failures, lost, warned, held>>
         /\ pc # "idle" /\ Begun => calm /\ ~calm'
         /\ pc = "idle" \/ ~Begun => calm' = calm
<1>1. WorldTypes /\ WorldTypes' /\ held' = held
  BY WorldStepTypes DEF Beside, TypeInv
<1>2. (Logged \/ Ticked \/ Begun \/ MovedUp \/ Made \/ Pruned) /\ NoneIsPacked'
  BY <1>1, WorldStepIs DEF Beside
<1>3. Renamed' /\ Moved
  BY <1>1, <1>2, RenamedStep, WorldMoves
<1>4. UNCHANGED <<saved, pc, live, names, listing, again, queue, moved, unreadable, chain, last,
                  got, mailed, origin, failures, lost, warned>>
  BY DEF Beside, run, search, history
<1>5. \A k \in 1..Kept : ~Both(k)'
  <2>1. \A k \in 1..Kept : k \in 1..Kept + 1
    BY NumbersAre
  <2> QED
    BY <1>2, <2>1 DEF Both, NoneIsPacked
<1>6. Begins <=> Begun
  <2>1. Begins <=> rotations' # rotations
    BY <1>5 DEF Begins
  <2>2. Begun <=> rotations' # rotations
    BY <1>2 DEF Logged, Ticked, Begun, MovedUp, Made, Pruned
  <2> QED
    BY <2>1, <2>2
<1>7. /\ pc # "idle" /\ Begun => calm /\ calm' = ~setup.spaced
      /\ pc = "idle" \/ ~Begun => calm' = calm
  BY <1>6, Zenon DEF Beside
<1>8. pc # "idle" /\ Begun => calm /\ ~calm'
  BY <1>7, Zenon DEF Renaming
<1> QED
  BY <1>1, <1>2, <1>3, <1>4, <1>7, <1>8

LEMMA RestsBeside ==
  ASSUME TypeInv, Renaming, Renamed, Rests, setup' = setup, Beside
  PROVE  Rests'
<1>1. ASSUME pc # "idle", calm' PROVE rot' = AtRest
  <2>1. ~Begun /\ calm
    BY <1>1, BesideIs, Zenon
  <2>2. rot = AtRest
    BY <1>1, <2>1 DEF Rests
  <2>3. Logged \/ Ticked
    <3>1. AtRest # Remaking /\ AtRest # Pruning /\ AtRest \notin 0..Kept
      BY NumbersAre DEF AtRest, Remaking, Pruning
    <3>2. Logged \/ Ticked \/ Begun \/ MovedUp \/ Made \/ Pruned
      BY BesideIs
    <3> QED
      BY <2>1, <2>2, <3>1, <3>2 DEF MovedUp, Made, Pruned
  <2> QED
    BY <2>2, <2>3 DEF Logged, Ticked, AtRest
<1>2. pc' = pc
  BY BesideIs
<1> QED
  BY <1>1, <1>2 DEF Rests, AtRest

LEMMA LiveBeside ==
  ASSUME TypeInv, Renaming, Renamed, Rests, Stage, LiveIs, setup' = setup, Beside
  PROVE  LiveIs'
<1> SUFFICES ASSUME live' # None PROVE LiveIs'
  BY DEF LiveIs
<1>1. live' = live /\ live # None /\ pc # "idle" /\ Moved
  BY BesideIs DEF Stage
<1>2. PICK v : v = live
  OBVIOUS
<1>3. PICK i \in Inodes : i = v.ino
  BY <1>1, <1>2 DEF TypeInv, TypeOK, LogFiles
<1>4. /\ Plain(0) = i \/ (Plain(1) = i /\ ~calm /\ rot > Kept)
      /\ Sits(i, v.off, v.anchor, v.fp) /\ Sits(i, v.start, v.seed, v.fp)
  BY <1>1, <1>2, <1>3 DEF LiveIs
<1>5. Longer(i)
  BY <1>1, <1>4 DEF Moved, LiveGoesOn
<1>6. Sits(i, v.off, v.anchor, v.fp)' /\ Sits(i, v.start, v.seed, v.fp)'
  BY <1>4, <1>5, SitsGoesOn DEF TypeInv
<1>7. Plain(0)' = i \/ (Plain(1)' = i /\ ~calm' /\ rot' > Kept)
  <2>1. i # None /\ 0 \in Numbers /\ 1 \in Numbers /\ Kept \in Nat /\ 0 \in 0..Kept /\ 1 \in 0..Kept
    BY NoneIs, NumbersAre
  <2>2. CASE Logged \/ Ticked
    <3>1. Plain(0)' = Plain(0) /\ Plain(1)' = Plain(1) /\ rot' = rot
      BY <2>1, <2>2 DEF Logged, Ticked, SameNames
    <3>2. calm' = calm
      <4>1. ~Begun
        BY <2>2 DEF Begun, Logged, Ticked
      <4> QED
        BY <4>1, BesideIs, Zenon
    <3> QED
      BY <1>4, <3>1, <3>2
  <2>3. CASE Begun
    <3>1. calm
      BY <1>1, <2>3, BesideIs, Zenon
    <3>2. Plain(0) = i
      BY <1>4, <3>1
    <3> QED
      BY <2>1, <2>3, <3>2 DEF Begun, SameNames
  <2>4. CASE MovedUp \/ Made \/ Pruned
    <3>1. rot # AtRest /\ ~Begun
      BY <2>1, <2>4 DEF MovedUp, Made, Pruned, AtRest, Remaking, Pruning, Begun
    <3>2. ~calm
      BY <1>1, <3>1 DEF Rests
    <3>3. calm' = calm
      BY <3>1, BesideIs, Zenon
    <3>4. ~calm'
      BY <3>2, <3>3, Zenon
    <3>5. CASE MovedUp
      <4>1. \A k \in Numbers : Plain(k)' = IF k = rot + 1 THEN Plain(rot) ELSE IF k = rot THEN None ELSE Plain(k)
        BY <3>5 DEF MovedUp
      <4>2. CASE rot = 0
        <5>1. rot' = Kept + 2 /\ Plain(0) = i
          BY <1>4, <2>1, <3>5, <4>2 DEF MovedUp, Remaking
        <5>2. Plain(1)' = i /\ rot' > Kept
          BY <2>1, <4>1, <4>2, <5>1
        <5> QED
          BY <3>4, <5>2
      <4>3. CASE rot # 0
        <5>1. rot \in 1..Kept
          BY <2>1, <3>5, <4>3 DEF MovedUp
        <5>2. Plain(0) = i
          BY <1>4, <2>1, <5>1
        <5> QED
          BY <2>1, <4>1, <5>1, <5>2
      <4> QED
        BY <4>2, <4>3
    <3>6. CASE Made
      <4>1. Plain(0) = None
        BY <3>6 DEF Made, Renamed, WriterIs
      <4>2. Plain(1) = i
        BY <1>4, <2>1, <4>1
      <4>3. Plain(1)' = Plain(1)
        <5>1. 1 \in 1..Kept + 1
          BY <2>1
        <5> QED
          BY <3>6, <5>1 DEF Made, MadeAs
      <4>4. rot' > Kept
        BY <2>1, <3>6 DEF Made, AtRest, Pruning
      <4> QED
        BY <3>4, <4>2, <4>3, <4>4
    <3>7. CASE Pruned
      <4>1. Plain(0)' = Plain(0) /\ Plain(1)' = Plain(1)
        BY <2>1, <3>7 DEF Pruned
      <4>2. rot' > Kept
        BY <2>1, <3>7 DEF Pruned, AtRest
      <4> QED
        BY <1>4, <3>4, <4>1, <4>2
    <3> QED
      BY <2>4, <3>5, <3>6, <3>7
  <2> QED
    BY <2>2, <2>3, <2>4, BesideIs
<1> QED
  BY <1>1, <1>2, <1>3, <1>6, <1>7 DEF LiveIs

LEMMA ListingBeside ==
  ASSUME TypeInv, Renaming, Renamed, Rests, Stage, ListingIs, setup' = setup, Beside
  PROVE  ListingIs'
<1>1. listing' = listing /\ (Logged \/ Ticked \/ Begun \/ MovedUp \/ Made \/ Pruned)
  BY BesideIs
<1>2. ASSUME NEW a \in listing
      PROVE  /\ \A k \in Numbers :
                  Plain(k)' = a.ino => k = a.k \/ (k = a.k + 1 /\ ~calm' /\ (rot' <= Kept => rot' < k))
             /\ (\E k \in Numbers : Plain(k)' = a.ino) \/ (~calm' /\ rot' = AtRest)
  <2>1. pc # "idle"
    BY <1>2 DEF Stage
  <2>2. /\ \A k \in Numbers :
             Plain(k) = a.ino => k = a.k \/ (k = a.k + 1 /\ ~calm /\ (rot <= Kept => rot < k))
        /\ (\E k \in Numbers : Plain(k) = a.ino) \/ (~calm /\ rot = AtRest)
    BY <1>2 DEF ListingIs
  <2>3. a.k \in Nat /\ a.ino \in Inodes /\ a.ino # None /\ Kept \in Nat
    BY NoneIs, NumbersAre DEF TypeInv, TypeOK, Copies
  <2>4. CASE Logged \/ Ticked
    <3>1. (\A k \in Numbers : Plain(k)' = Plain(k)) /\ rot' = rot
      BY <2>4 DEF Logged, Ticked, SameNames
    <3>2. calm' = calm
      <4>1. ~Begun
        BY <2>4 DEF Begun, Logged, Ticked
      <4> QED
        BY <4>1, BesideIs, Zenon
    <3> QED
      BY <2>2, <3>1, <3>2 DEF AtRest
  <2>5. CASE Begun
    <3>1. calm /\ \A k \in Numbers : Plain(k)' = Plain(k)
      BY <2>1, <2>5, BesideIs, Zenon DEF Begun, SameNames
    <3> QED
      BY <2>2, <3>1
  <2>6. CASE MovedUp \/ Made \/ Pruned
    <3>1. rot # AtRest /\ ~Begun
      BY <2>3, <2>6 DEF MovedUp, Made, Pruned, AtRest, Remaking, Pruning, Begun
    <3>2. ~calm
      BY <2>1, <3>1 DEF Rests
    <3>3. calm' = calm
      BY <3>1, BesideIs, Zenon
    <3>4. ~calm'
      BY <3>2, <3>3, Zenon
    <3>5. PICK q \in Numbers : Plain(q) = a.ino
      BY <2>2, <3>1
    <3>6. CASE MovedUp
      <4>1. /\ \A k \in Numbers : Plain(k)' # None =>
                 \E m \in Numbers : /\ Plain(m) = Plain(k)' /\ Plain(m) # None
                                    /\ k = (IF m = rot THEN rot + 1 ELSE m) /\ m # rot + 1
            /\ \A m \in Numbers : Plain(m) # None =>
                 \E k \in Numbers : Plain(k)' = Plain(m) /\ k = (IF m = rot THEN rot + 1 ELSE m)
        BY <3>6, MovedUpIs DEF TypeInv
      <4>2. \E k \in Numbers : Plain(k)' = a.ino
        BY <2>3, <3>5, <4>1
      <4>3. rot \in 0..Kept /\ rot' = (IF rot = 0 THEN Kept + 2 ELSE rot - 1)
        BY <3>6 DEF MovedUp, Remaking
      <4>4. ASSUME NEW k \in Numbers, Plain(k)' = a.ino
            PROVE  k = a.k \/ (k = a.k + 1 /\ (rot' <= Kept => rot' < k))
        <5>1. PICK m \in Numbers : Plain(m) = a.ino /\ k = (IF m = rot THEN rot + 1 ELSE m)
          BY <2>3, <4>1, <4>4
        <5>2. m = a.k \/ (m = a.k + 1 /\ rot < m)
          BY <2>2, <2>3, <4>3, <5>1
        <5>3. PICK r \in 0..Kept : r = rot
          BY <4>3
        <5>4. PICK s : s = rot'
          OBVIOUS
        <5>5. s = (IF r = 0 THEN Kept + 2 ELSE r - 1)
          BY <4>3, <5>3, <5>4
        <5>6. k \in Nat /\ m \in Nat
          BY NumbersAre
        <5>7. k = a.k \/ (k = a.k + 1 /\ (s <= Kept => s < k))
          BY <2>3, <5>1, <5>2, <5>3, <5>5, <5>6
        <5> QED
          BY <5>4, <5>7
      <4> QED
        BY <3>4, <4>2, <4>4
    <3>7. CASE Made
      <4>1. PICK i \in Inodes : MadeAs(i)
        BY <3>7 DEF Made
      <4>2. /\ \A k \in Numbers : Plain(k) # i
            /\ Plain(0)' = i /\ \A k \in 1..Kept + 1 : Plain(k)' = Plain(k)
        BY <4>1 DEF MadeAs
      <4>3. rot > Kept /\ rot' > Kept /\ Kept \in Nat
        BY <2>3, <3>7 DEF Made, Remaking, AtRest, Pruning
      <4>4. Plain(0) = None /\ a.ino # i
        BY <3>5, <3>7, <4>2 DEF Made, Renamed, WriterIs
      <4>5. q # 0 /\ Plain(q)' = a.ino
        BY <2>3, <3>5, <4>2, <4>4, NumbersAre
      <4>6. \A k \in Numbers : Plain(k)' = a.ino => k # 0 /\ Plain(k) = a.ino
        BY <4>2, <4>4, NumbersAre
      <4>7. \A k \in Numbers : Plain(k)' = a.ino => k = a.k \/ k = a.k + 1
        BY <2>2, <4>6
      <4>8. ~(rot' <= Kept)
        <5>1. rot' \in {Kept + 1, Kept + 3}
          BY <3>7 DEF Made, AtRest, Pruning
        <5> QED
          BY <2>3, <5>1
      <4> QED
        BY <3>4, <4>5, <4>7, <4>8
    <3>8. CASE Pruned
      <4>1. /\ rot' = AtRest /\ Plain(Kept + 1)' = None
            /\ \A k \in 0..Kept : Plain(k)' = Plain(k)
        BY <3>8 DEF Pruned
      <4>2. \A k \in Numbers : k = Kept + 1 \/ k \in 0..Kept
        BY <2>3 DEF Numbers
      <4>3. \A k \in Numbers : Plain(k)' = a.ino => Plain(k) = a.ino
        BY <2>3, <4>1, <4>2
      <4>4. ~(rot' <= Kept)
        BY <2>3, <4>1 DEF AtRest
      <4> QED
        BY <2>2, <3>4, <4>1, <4>3, <4>4
    <3> QED
      BY <2>6, <3>6, <3>7, <3>8
  <2> QED
    BY <1>1, <2>4, <2>5, <2>6
<1>3. \A a \in listing : a.gz = FALSE /\ \A b \in listing : a.ino = b.ino \/ a.k = b.k => a = b
  BY DEF ListingIs
<1> QED
  BY <1>1, <1>2, <1>3 DEF ListingIs, AtRest

LEMMA UnseenBeside ==
  ASSUME TypeInv, Renaming, Renamed, Unseen, saved # None => Placed(saved), setup' = setup, Beside
  PROVE  Unseen'
<1>1. UNCHANGED <<pc, saved, live>> /\ Moved
  BY BesideIs
<1>2. ASSUME NEW i \in Inodes, pc # "idle", saved # None, saved.fp # None, Plain(0)' = i,
             ~(live # None /\ live.ino = i)
      PROVE  Later(saved.fp, i)'
  <2>1. PICK l : l = saved.fp
    OBVIOUS
  <2>2. l \in Nat /\ l <= written
    <3>1. saved.fp \in MarksOf(saved)
      BY <1>2 DEF MarksOf
    <3>2. saved.fp \in 1..written /\ written \in Nat
      BY <1>1, <1>2, <3>1 DEF Placed, Moved
    <3> QED
      BY <2>1, <3>2
  <2>3. NewFile(i) \/ (Longer(i) /\ Plain(0) = i)
    BY <1>1, <1>2 DEF Moved, LiveGoesOn
  <2>4. Plain(0) = i => Later(l, i)
    BY <1>2, <2>1 DEF Unseen
  <2>5. Later(l, i)'
    BY <1>1, <2>2, <2>3, <2>4, LaterGoesOn
  <2> QED
    BY <1>1, <2>1, <2>5 DEF Later
<1> QED
  BY <1>1, <1>2 DEF Unseen

\* The candidates and the chain are of the listing, and no copy of the chain is the live file.
QueueIs == queue \in Seq(Items(listing))
ChainIs ==
  /\ \A x \in DOMAIN chain : chain[x] \in Everything(listing) /\ chain[x].k > 0
  /\ \A x, y \in DOMAIN chain : x < y => chain[x].k > chain[y].k

Places == (saved # None => Placed(saved)) /\ (last # None => Placed(last))

\* What was read or mailed: it comes before all that is still to be read.
Carried == IF warned THEN {} ELSE {l \in Lines : mailed[l] > 0}
Told == ToSet(got) \cup Carried
TellsOn ==
  /\ Told \subseteq 1..written
  /\ ToSet(got) \cap Carried = {}
  /\ saved = None => Carried = {}
  /\ saved # None => Behind(Carried, saved)
  /\ pc = "chain" => IF last = None THEN got = <<>> ELSE Behind(Told, last)
  /\ \A x \in DOMAIN chain, k \in Numbers, i \in Inodes :
       Plain(k) = i /\ chain[x].ino = i => AheadOf(Told, i)
  /\ live # None =>
       /\ live.off # 0 => \A l \in Told : l <= live.anchor
       /\ live.off = 0 => AheadOf(Told, live.ino)
       /\ \A i \in Inodes : Plain(0) = i /\ i # live.ino => AheadOf(Told, i)

OrderInv ==
  /\ Renamed /\ Rests /\ Stage /\ LiveIs /\ ListingIs /\ QueueIs /\ ChainIs /\ Unseen
  /\ Places /\ TellsOn /\ InOrder /\ MailedOnce

\* What is said of a cursor in the next state is said of the variable that holds it there.
LEMMA SavedNext ==
  ASSUME NEW c, saved' = c, Placed(c)'
  PROVE  Placed(saved)'
<1>1. MarksOf(saved)' = MarksOf(c)'
  BY DEF MarksOf
<1>2. \A i \in Inodes : Sits(i, saved.off, saved.anchor, saved.fp)' <=> Sits(i, c.off, c.anchor, c.fp)'
  BY DEF Sits, Text
<1> QED
  BY <1>1, <1>2 DEF Placed

LEMMA LastNext ==
  ASSUME NEW c, last' = c, Placed(c)'
  PROVE  Placed(last)'
<1>1. MarksOf(last)' = MarksOf(c)'
  BY DEF MarksOf
<1>2. \A i \in Inodes : Sits(i, last.off, last.anchor, last.fp)' <=> Sits(i, c.off, c.anchor, c.fp)'
  BY DEF Sits, Text
<1> QED
  BY <1>1, <1>2 DEF Placed

\* What has a cursor keeps its place, and what was told stays behind, whatever moves.
LEMMA PlacesGoOn ==
  ASSUME TypeInv, Moved, Places, UNCHANGED <<saved, last>>
  PROVE  Places'
<1>1. saved # None => Placed(saved)'
  <2>1. PICK c : c = saved
    OBVIOUS
  <2>2. ASSUME saved # None PROVE Placed(c)'
    BY <2>1, <2>2, PlacedGoesOn DEF TypeInv, Places
  <2> QED
    BY <2>1, <2>2, SavedNext
<1>2. last # None => Placed(last)'
  <2>1. PICK c : c = last
    OBVIOUS
  <2>2. ASSUME last # None PROVE Placed(c)'
    BY <2>1, <2>2, PlacedGoesOn DEF TypeInv, Places
  <2> QED
    BY <2>1, <2>2, LastNext
<1> QED
  BY <1>1, <1>2 DEF Places

LEMMA ToldGoesOn ==
  ASSUME TypeInv, Moved, LiveIs, TellsOn, setup' = setup,
         UNCHANGED <<saved, pc, live, chain, last, got, mailed, warned>>
  PROVE  TellsOn'
<1>1. PICK T : T = Told
  OBVIOUS
<1>2. PICK C : C = Carried
  OBVIOUS
<1>3. Told' = T /\ Carried' = C
  BY <1>1, <1>2 DEF Told, Carried, Lines
<1>4. T \in SUBSET (1..written) /\ C \in SUBSET T
  BY <1>1, <1>2 DEF TellsOn, Told
<1>5. T \subseteq 1..written'
  BY <1>4 DEF Moved
<1>6. ASSUME saved # None PROVE Behind(C, saved)'
  <2>1. PICK c : c = saved
    OBVIOUS
  <2>2. c.ino \in Inodes /\ Behind(C, c)
    BY <1>2, <1>6, <2>1 DEF TellsOn, TypeInv, TypeOK, Cursors
  <2>3. Behind(C, c)'
    BY <1>4, <2>2, BehindGoesOn
  <2> QED
    BY <2>1, <2>3 DEF Behind, Plain, AheadOf, Later, Text
<1>7. ASSUME pc = "chain", last # None PROVE Behind(T, last)'
  <2>1. PICK c : c = last
    OBVIOUS
  <2>2. c.ino \in Inodes /\ Behind(T, c)
    BY <1>1, <1>7, <2>1 DEF TellsOn, TypeInv, TypeOK, Segments
  <2>3. Behind(T, c)'
    BY <1>4, <2>2, BehindGoesOn
  <2> QED
    BY <2>1, <2>3 DEF Behind, Plain, AheadOf, Later, Text
<1>8. ASSUME NEW x \in DOMAIN chain, NEW k \in Numbers, NEW i \in Inodes, Plain(k)' = i, chain[x].ino = i
      PROVE  AheadOf(T, i)'
  <2>1. NewFile(i) \/ (Longer(i) /\ \E m \in Numbers : Plain(m) = i)
    BY <1>8 DEF Moved, NamesGoOn
  <2>2. (\E m \in Numbers : Plain(m) = i) => AheadOf(T, i)
    BY <1>1, <1>8 DEF TellsOn
  <2> QED
    BY <1>4, <2>1, <2>2, AheadGoesOn
<1>9. ASSUME live # None
      PROVE  /\ live.off = 0 => AheadOf(T, live.ino)'
             /\ \A i \in Inodes : Plain(0)' = i /\ i # live.ino => AheadOf(T, i)'
  <2>1. PICK i \in Inodes : i = live.ino
    BY <1>9 DEF TypeInv, TypeOK, LogFiles
  <2>2. Longer(i)
    BY <1>9, <2>1 DEF LiveIs, Moved, LiveGoesOn
  <2>3. live.off = 0 => AheadOf(T, i)'
    BY <1>1, <1>4, <1>9, <2>1, <2>2, AheadGoesOn DEF TellsOn
  <2>4. ASSUME NEW j \in Inodes, Plain(0)' = j, j # live.ino PROVE AheadOf(T, j)'
    <3>1. NewFile(j) \/ (Longer(j) /\ Plain(0) = j)
      BY <2>4 DEF Moved, LiveGoesOn
    <3>2. Plain(0) = j => AheadOf(T, j)
      BY <1>1, <1>9, <2>4 DEF TellsOn
    <3> QED
      BY <1>4, <3>1, <3>2, AheadGoesOn
  <2>5. live' = live
    OBVIOUS
  <2> QED
    BY <2>1, <2>3, <2>4, <2>5 DEF AheadOf, Later, Text
<1>10. /\ ToSet(got) \cap C = {} /\ (saved = None => C = {})
       /\ pc = "chain" /\ last = None => got = <<>>
       /\ live # None /\ live.off # 0 => \A l \in T : l <= live.anchor
  BY <1>1, <1>2 DEF TellsOn
<1>11. ToSet(got)' = ToSet(got)
  BY DEF ToSet
<1>12. live # None => (live.off = 0 => AheadOf(T, live.ino)')
  BY <1>9
<1> QED
  BY <1>3, <1>5, <1>6, <1>7, <1>8, <1>9, <1>10, <1>11 DEF TellsOn, Behind, AheadOf

LEMMA BesideOrder ==
  ASSUME TypeInv, Renaming, OrderInv, setup' = setup, Beside
  PROVE  OrderInv'
<1>1. /\ UNCHANGED <<saved, pc, live, names, listing, again, queue, moved, unreadable, chain, last,
                     got, mailed, origin, failures, lost, warned, held>>
      /\ Renamed' /\ Moved
  BY BesideIs DEF OrderInv
<1>2. Rests' /\ LiveIs' /\ ListingIs' /\ Unseen'
  BY RestsBeside, LiveBeside, ListingBeside, UnseenBeside DEF OrderInv, Places
<1>3. Stage' /\ QueueIs' /\ ChainIs'
  BY <1>1 DEF OrderInv, Stage, QueueIs, ChainIs, Items, May, Everything, IsLive, Stages
<1>4. Places'
  BY <1>1, PlacesGoOn DEF OrderInv
<1>5. TellsOn'
  BY <1>1, ToldGoesOn DEF OrderInv
<1>6. InOrder' /\ MailedOnce'
  BY <1>1 DEF OrderInv, InOrder, MailedOnce, Lines
<1> QED
  BY <1>1, <1>2, <1>3, <1>4, <1>5, <1>6 DEF OrderInv

-----------------------------------------------------------------------------
(* The steps of a run *)

\* A step of a run leaves the world as it is, but for what is open.
Same == UNCHANGED <<setup, file, dir, writer, rot, written>>

LEMMA SameWorld ==
  ASSUME Same
  PROVE  /\ \A i : Text(i)' = Text(i)
         /\ \A k : Plain(k)' = Plain(k)
         /\ \A l, i : Later(l, i)' <=> Later(l, i)
         /\ \A S, i : AheadOf(S, i)' <=> AheadOf(S, i)
         /\ \A S, c : Behind(S, c)' <=> Behind(S, c)
         /\ Lines' = Lines
<1>1. \A i : Text(i)' = Text(i)
  BY DEF Same, Text
<1>2. \A k : Plain(k)' = Plain(k)
  BY DEF Same, Plain
<1>3. \A l, i : Later(l, i)' <=> Later(l, i)
  BY <1>1 DEF Later
<1>4. \A S, i : AheadOf(S, i)' <=> AheadOf(S, i)
  BY <1>3 DEF AheadOf
<1>5. \A S, c : Behind(S, c)' <=> Behind(S, c)
  BY <1>2, <1>4 DEF Behind
<1> QED
  BY <1>1, <1>2, <1>3, <1>4, <1>5 DEF Same, Lines

LEMMA SamePlaced ==
  ASSUME Same, NEW c
  PROVE  Placed(c)' <=> Placed(c)
<1>1. \A i : Text(i)' = Text(i)
  BY SameWorld
<1>2. /\ \A k : Plain(k)' = Plain(k)
      /\ \A l, i : Later(l, i)' <=> Later(l, i)
  BY SameWorld
<1>3. \A l, i : HasLine(i, l)' <=> HasLine(i, l)
  BY <1>1 DEF HasLine
<1>4. \A i : Sits(i, c.off, c.anchor, c.fp)' <=> Sits(i, c.off, c.anchor, c.fp)
  BY <1>1 DEF Sits
<1>5. MarksOf(c)' = MarksOf(c)
  BY DEF MarksOf
<1> QED
  BY <1>2, <1>3, <1>4, <1>5 DEF Same, Placed

LEMMA SameRenamed ==
  ASSUME Renamed, Same
  PROVE  Renamed'
<1>1. (\A i : Text(i)' = Text(i)) /\ (\A k : Plain(k)' = Plain(k)) /\ \A l, i : Later(l, i)' <=> Later(l, i)
  BY SameWorld
<1>2. \A i, j : Earlier(i, j)' <=> Earlier(i, j)
  BY <1>1 DEF Earlier
<1>3. Rising' /\ InAge'
  BY <1>1, <1>2 DEF Renamed, Rising, InAge
<1>4. NoneIsPacked' /\ OneName' /\ WriterIs' /\ Room'
  BY <1>1 DEF Same, Renamed, NoneIsPacked, OneName, WriterIs, Room, Remaking, AtRest
<1> QED
  BY <1>3, <1>4 DEF Renamed

LEMMA LiveStays ==
  ASSUME LiveIs, Same, live' = live, calm' => calm
  PROVE  LiveIs'
<1>1. (\A i : Text(i)' = Text(i)) /\ (\A k : Plain(k)' = Plain(k))
  BY SameWorld
<1>2. \A i, off, anchor, fp : Sits(i, off, anchor, fp)' <=> Sits(i, off, anchor, fp)
  BY <1>1 DEF Sits
<1> QED
  BY <1>1, <1>2 DEF Same, LiveIs

LEMMA ListingStays ==
  ASSUME ListingIs, Same, listing' = listing, calm' => calm
  PROVE  ListingIs'
<1>1. \A k : Plain(k)' = Plain(k)
  BY SameWorld
<1> QED
  BY <1>1 DEF Same, ListingIs, AtRest

LEMMA UnseenStays ==
  ASSUME Unseen, Same, UNCHANGED <<saved, live>>, pc # "idle" \/ pc' = "idle"
  PROVE  Unseen'
<1>1. (\A k : Plain(k)' = Plain(k)) /\ \A l, i : Later(l, i)' <=> Later(l, i)
  BY SameWorld
<1> QED
  BY <1>1 DEF Unseen

LEMMA ChainStays ==
  ASSUME ChainIs, UNCHANGED <<live, listing, chain>>
  PROVE  ChainIs'
BY DEF ChainIs, Everything, IsLive

LEMMA ItemsStay ==
  ASSUME UNCHANGED <<saved, live>>, NEW L
  PROVE  Items(L)' = Items(L)
BY DEF Items, May, Everything, IsLive, Stages

\* A step that tells nothing and moves no cursor.
LEMMA ToldStays ==
  ASSUME Places, TellsOn, InOrder, MailedOnce, Same,
         UNCHANGED <<saved, live, chain, last, got, mailed, warned>>, pc' = "chain" => pc = "chain"
  PROVE  Places' /\ TellsOn' /\ InOrder' /\ MailedOnce'
<1>1. /\ \A k : Plain(k)' = Plain(k)
      /\ \A S, i : AheadOf(S, i)' <=> AheadOf(S, i)
      /\ \A S, c : Behind(S, c)' <=> Behind(S, c)
      /\ Lines' = Lines
  BY SameWorld
<1>2. Carried' = Carried /\ Told' = Told /\ ToSet(got)' = ToSet(got)
  BY <1>1 DEF Carried, Told, ToSet
<1>3. TellsOn'
  BY <1>1, <1>2 DEF Same, TellsOn
<1>4. InOrder' /\ MailedOnce'
  BY <1>1 DEF InOrder, MailedOnce
<1>5. Places'
  <2>1. PICK c : c = saved
    OBVIOUS
  <2>2. PICK d : d = last
    OBVIOUS
  <2>3. (saved # None => Placed(c)') /\ (last # None => Placed(d)')
    BY <2>1, <2>2, SamePlaced DEF Places
  <2>4. (saved # None => Placed(saved)') /\ (last # None => Placed(last)')
    BY <2>1, <2>2, <2>3, SavedNext, LastNext
  <2> QED
    BY <2>4 DEF Places
<1> QED
  BY <1>3, <1>4, <1>5

\* A step of the search: the listing stays, and what is left of the candidates.
LEMMA SearchOn ==
  ASSUME TypeInv, OrderInv, Same,
         UNCHANGED <<saved, live, listing, chain, last, got, mailed, warned>>, calm' => calm,
         pc \in {"list", "stat", "try"}, pc' \in {"list", "stat", "try"},
         queue' \in Seq(Items(listing)), pc' # "try" => queue' = <<>>
  PROVE  OrderInv'
<1> USE DEF OrderInv
<1>1. Renamed'
  BY SameRenamed
<1>2. Rests' /\ Stage'
  BY DEF Same, Rests, Stage, AtRest
<1>3. LiveIs' /\ ListingIs' /\ Unseen' /\ ChainIs'
  BY LiveStays, ListingStays, UnseenStays, ChainStays
<1>4. QueueIs'
  BY ItemsStay DEF QueueIs
<1>5. Places' /\ TellsOn' /\ InOrder' /\ MailedOnce'
  BY ToldStays
<1> QED
  BY <1>1, <1>2, <1>3, <1>4, <1>5

LEMMA AbsentOrder ==
  ASSUME TypeInv, Renaming, OrderInv, setup' = setup, Absent
  PROVE  OrderInv'
<1> USE DEF OrderInv
<1>1. /\ pc = "idle" /\ dir[Live] = None /\ pc' = "list" /\ calm' = (setup.spaced => rot = AtRest)
      /\ UNCHANGED <<world, saved, live, names, listing, again, queue, moved, unreadable, chain, last,
                     got, mailed, origin, failures, lost, warned>>
  BY DEF Absent, search, history
<1>2. Same
  BY <1>1 DEF Same, world
<1>3. /\ live = None /\ listing = {} /\ queue = <<>> /\ chain = <<>> /\ got = <<>> /\ last = None
      /\ live' = None /\ listing' = {} /\ queue' = <<>> /\ chain' = <<>>
  BY <1>1 DEF Stage
<1>4. Renamed'
  BY <1>2, SameRenamed
<1>5. Rests'
  <2>1. calm' => rot = AtRest
    BY <1>1, Zenon DEF Renaming
  <2> QED
    BY <1>2, <2>1 DEF Same, Rests, AtRest
<1>6. Stage' /\ LiveIs' /\ ListingIs' /\ ChainIs'
  BY <1>1, <1>3 DEF Stage, LiveIs, ListingIs, ChainIs
<1>7. QueueIs'
  BY <1>3 DEF QueueIs
<1>8. Unseen'
  <2>1. Plain(0)' = None
    BY <1>1, <1>2, SameWorld DEF Plain, Live
  <2> QED
    BY <2>1, NoneIs DEF Unseen
<1>9. Places' /\ TellsOn' /\ InOrder' /\ MailedOnce'
  BY <1>1, <1>2, ToldStays
<1> QED
  BY <1>4, <1>5, <1>6, <1>7, <1>8, <1>9

LEMMA UnchangedOrder ==
  ASSUME OrderInv, UNCHANGED vars
  PROVE  OrderInv'
<1> USE DEF OrderInv
<1>1. /\ Same
      /\ UNCHANGED <<saved, pc, live, listing, queue, chain, last, got, mailed, warned, calm>>
  BY DEF Same, vars, world, run, search, history
<1>2. Renamed'
  BY <1>1, SameRenamed
<1>3. Rests' /\ Stage'
  BY <1>1 DEF Same, Rests, Stage, AtRest
<1>4. LiveIs' /\ ListingIs' /\ Unseen' /\ ChainIs'
  BY <1>1, LiveStays, ListingStays, UnseenStays, ChainStays
<1>5. QueueIs'
  BY <1>1, ItemsStay DEF QueueIs
<1>6. Places' /\ TellsOn' /\ InOrder' /\ MailedOnce'
  BY <1>1, ToldStays
<1> QED
  BY <1>2, <1>3, <1>4, <1>5, <1>6

LEMMA ListOrder ==
  ASSUME TypeInv, OrderInv, setup' = setup, List
  PROVE  OrderInv'
<1>1. /\ pc = "list" /\ pc' = "stat" /\ (calm' => calm)
      /\ UNCHANGED <<world, saved, live, listing, queue, chain, last, got, mailed, warned>>
  <2>1. calm' => calm
    BY Zenon DEF List
  <2> QED
    BY <2>1 DEF List, history
<1>2. Same
  BY <1>1 DEF Same, world
<1>3. queue' = <<>> /\ queue' \in Seq(Items(listing))
  BY <1>1 DEF OrderInv, Stage
<1> QED
  BY <1>1, <1>2, <1>3, SearchOn

LEMMA TryOrder ==
  ASSUME TypeInv, OrderInv, setup' = setup, TryRenamed \/ TryMisfit \/ TryUnreadable
  PROVE  OrderInv'
<1>1. /\ pc = "try" /\ queue # <<>> /\ pc' = "try"
      /\ UNCHANGED <<world, saved, live, listing, chain, last, got, mailed, warned, calm>>
      /\ \E m \in BOOLEAN : queue' = Onward(m)
  <2>1. CASE TryRenamed
    BY <2>1 DEF TryRenamed, history
  <2>2. CASE TryMisfit \/ TryUnreadable
    <3>1. moved \in BOOLEAN
      BY DEF TypeInv, TypeOK
    <3> QED
      BY <2>2, <3>1 DEF TryMisfit, TryUnreadable, history
  <2> QED
    BY <2>1, <2>2
<1>2. Same
  BY <1>1 DEF Same, world
<1>3. queue' \in Seq(Items(listing))
  <2>1. queue \in Seq(Items(listing))
    BY DEF OrderInv, QueueIs
  <2>2. Tail(queue) \in Seq(Items(listing)) /\ <<>> \in Seq(Items(listing))
    BY <1>1, <2>1, TailIs
  <2> QED
    BY <1>1, <2>2 DEF Onward
<1> QED
  BY <1>1, <1>2, <1>3, SearchOn

\* What a listing finds has a plain name, and one.
LEMMA FoundOrder ==
  ASSUME TypeInv, Renamed
  PROVE  \A a \in Found : /\ a.gz = FALSE /\ a.k \in Numbers /\ Plain(a.k) = a.ino /\ a.ino \in Inodes
                          /\ \A b \in Found : a.ino = b.ino \/ a.k = b.k => a = b
<1>1. ASSUME NEW a \in Found
      PROVE  a.gz = FALSE /\ a.k \in Numbers /\ Plain(a.k) = a.ino /\ a.ino \in Inodes
  <2>1. /\ a.k \in 0..Kept + 1 /\ a.gz \in BOOLEAN
        /\ <<a.k, a.gz>> \in Names /\ a.ino = dir[<<a.k, a.gz>>] /\ a.ino \in Inodes
    BY FoundIs DEF Copies
  <2>2. a.gz = FALSE
    <3>1. ASSUME a.gz = TRUE PROVE FALSE
      <4>1. <<a.k, TRUE>> \in Names /\ a.ino = dir[<<a.k, TRUE>>]
        BY <2>1, <3>1, Zenon
      <4>2. a.k \in 1..Kept + 1
        <5>1. <<a.k, TRUE>> # Live
          BY NamesDiffer DEF Live
        <5>2. <<a.k, TRUE>>[1] = a.k
          BY Zenon
        <5>3. <<a.k, TRUE>>[1] \in 1..Kept + 1
          BY <4>1, <5>1, NamesAre, Zenon
        <5> QED
          BY <5>2, <5>3, Zenon
      <4> QED
        BY <2>1, <4>1, <4>2, NoneIs DEF Renamed, NoneIsPacked
    <3> QED
      BY <2>1, <3>1, Zenon
  <2>3. Plain(a.k) = a.ino
    BY <2>1, <2>2, Zenon DEF Plain
  <2> QED
    BY <2>1, <2>2, <2>3 DEF Numbers
<1>2. ASSUME NEW a \in Found, NEW b \in Found, a.ino = b.ino \/ a.k = b.k PROVE a = b
  <2>1. a.k = b.k
    BY <1>1, <1>2, NoneIs DEF Renamed, OneName
  <2>2. a.gz = b.gz
    BY <1>1, Zenon
  <2> QED
    BY <2>1, <2>2, FoundIs DEF OnePerName
<1> QED
  BY <1>1, <1>2

LEMMA StatOrder ==
  ASSUME TypeInv, OrderInv, setup' = setup, Stat
  PROVE  OrderInv'
<1> USE DEF OrderInv
<1>1. /\ pc = "stat" /\ pc' = "try" /\ listing' = Found /\ queue' \in {<<>>, Candidates(Found)}
      /\ UNCHANGED <<world, saved, live, chain, last, got, mailed, warned, calm>>
  BY DEF Stat, history
<1>2. Same
  BY <1>1 DEF Same, world
<1>3. Renamed'
  BY <1>2, SameRenamed
<1>4. Rests' /\ Stage' /\ ChainIs'
  BY <1>1, <1>2 DEF Same, Rests, Stage, ChainIs, AtRest
<1>5. LiveIs' /\ Unseen'
  BY <1>1, <1>2, LiveStays, UnseenStays
<1>6. QueueIs'
  <2>1. Candidates(Found) \in Seq(Items(Found)) /\ <<>> \in Seq(Items(Found))
    BY FoundIs, CandidatesAre
  <2>2. PICK L : L = Found
    OBVIOUS
  <2>3. queue' \in Seq(Items(L)) /\ Items(L)' = Items(L) /\ listing' = L
    BY <1>1, <2>1, <2>2, ItemsStay
  <2>4. Items(listing)' = Items(L)'
    BY <2>3 DEF Items, May, Everything, IsLive
  <2> QED
    BY <2>3, <2>4 DEF QueueIs
<1>7. ListingIs'
  <2>1. \A k : Plain(k)' = Plain(k)
    BY <1>2, SameWorld
  <2>2. ASSUME NEW a \in Found
        PROVE  /\ a.gz = FALSE
               /\ \A k \in Numbers : Plain(k) = a.ino => k = a.k
               /\ \E k \in Numbers : Plain(k) = a.ino
               /\ \A b \in Found : a.ino = b.ino \/ a.k = b.k => a = b
    BY FoundOrder, NoneIs DEF Renamed, OneName
  <2>3. PICK L : L = Found
    OBVIOUS
  <2>4. listing' = L
    BY <1>1, <2>3
  <2>5. \A a \in L : /\ a.gz = FALSE
                     /\ \A k \in Numbers : Plain(k)' = a.ino => k = a.k
                     /\ \E k \in Numbers : Plain(k)' = a.ino
                     /\ \A b \in L : a.ino = b.ino \/ a.k = b.k => a = b
    BY <2>1, <2>2, <2>3
  <2> QED
    BY <2>4, <2>5 DEF ListingIs
<1>8. Places' /\ TellsOn' /\ InOrder' /\ MailedOnce'
  BY <1>1, <1>2, ToldStays
<1> QED
  BY <1>3, <1>4, <1>5, <1>6, <1>7, <1>8

\* A sorted set of archives is a chain.
LEMMA ArchivesChain ==
  ASSUME TypeInv, NEW S \in SUBSET Archives(listing)
  PROVE  /\ \A x \in DOMAIN OldestFirst(S) : /\ OldestFirst(S)[x] \in S
                                             /\ OldestFirst(S)[x] \in Everything(listing)
                                             /\ OldestFirst(S)[x].k > 0
         /\ \A x, y \in DOMAIN OldestFirst(S) : x < y => OldestFirst(S)[x].k > OldestFirst(S)[y].k
         /\ ToSet(OldestFirst(S)) = S
<1>1. listing \in SUBSET Copies /\ OnePerName(listing)
  BY DEF TypeInv, TypeOK
<1> DEFINE s == OldestFirst(S)
<1>2. /\ s \in Seq(S) /\ \A x, y \in DOMAIN s : x < y => s[x].k > s[y].k
      /\ \A a \in S : \E x \in DOMAIN s : s[x] = a
  BY <1>1, SortedArchives
<1>3. \A a \in S : a \in Everything(listing) /\ a.k > 0
  BY <1>1, ArchivesDiffer
<1> HIDE DEF s
<1>4. \A x \in DOMAIN s : s[x] \in S
  BY <1>2, ElementsAre
<1>5. ToSet(s) = S
  BY <1>2, <1>4 DEF ToSet
<1> QED
  BY <1>2, <1>3, <1>4, <1>5 DEF s

LEMMA UnmatchedOrder ==
  ASSUME TypeInv, OrderInv, setup' = setup, Unmatched
  PROVE  OrderInv'
<1> USE DEF OrderInv
<1>1. /\ pc = "try" /\ queue = <<>>
      /\ UNCHANGED <<world, saved, live, listing, queue, last, got, mailed, calm>>
  BY DEF Unmatched
<1>2. Same
  BY <1>1 DEF Same, world
<1>3. CASE ~again
  <2>1. chain' = chain /\ pc' = "list" /\ warned' = warned
    BY <1>3 DEF Unmatched
  <2>2. queue' = <<>> /\ queue' \in Seq(Items(listing))
    BY <1>1
  <2> QED
    BY <1>1, <1>2, <2>1, <2>2, SearchOn
<1>4. CASE again
  <2>1. chain' = WrittenSince(listing) /\ pc' = "chain" /\ warned' = TRUE
    BY <1>4 DEF Unmatched
  <2>2. Renamed'
    BY <1>2, SameRenamed
  <2>3. LiveIs' /\ ListingIs' /\ Unseen'
    BY <1>1, <1>2, LiveStays, ListingStays, UnseenStays
  <2>4. ChainIs'
    <3> DEFINE S == {a \in Readable(listing) : IF saved.mtime # None THEN a.mtime >= saved.mtime ELSE Recent(a)}
    <3>1. S \in SUBSET Archives(listing)
      BY DEF Readable
    <3>2. chain' = OldestFirst(S)
      BY <2>1 DEF WrittenSince
    <3> HIDE DEF S
    <3>3. PICK s : s = OldestFirst(S)
      OBVIOUS
    <3>4. /\ \A x \in DOMAIN s : s[x] \in Everything(listing) /\ s[x].k > 0
          /\ \A x, y \in DOMAIN s : x < y => s[x].k > s[y].k
      BY <3>1, <3>3, ArchivesChain
    <3>5. Everything(listing)' = Everything(listing) /\ chain' = s
      BY <1>1, <3>2, <3>3 DEF Everything, IsLive
    <3> QED
      BY <3>4, <3>5 DEF ChainIs
  <2>5. Rests' /\ Stage' /\ QueueIs'
    BY <1>1, <1>2, <2>1 DEF Same, Rests, Stage, QueueIs, AtRest
  <2>6. got = <<>> /\ last = None
    BY <1>1 DEF Stage
  <2>7. Carried' = {} /\ Told' = {} /\ ToSet(got)' = {}
    BY <1>1, <2>1, <2>6 DEF Carried, Told, ToSet
  <2>8. TellsOn'
    BY <1>1, <2>1, <2>6, <2>7 DEF TellsOn, Behind, AheadOf
  <2>9. InOrder' /\ MailedOnce'
    BY <1>1, <2>1, <2>6 DEF InOrder, MailedOnce
  <2>10. Places'
    <3>1. PICK c : c = saved
      OBVIOUS
    <3>2. saved # None => Placed(c)'
      BY <1>2, <3>1, SamePlaced DEF Places
    <3>3. saved # None => Placed(saved)'
      BY <1>1, <3>1, <3>2, SavedNext
    <3> QED
      BY <1>1, <2>6, <3>3 DEF Places
  <2> QED
    BY <2>2, <2>3, <2>4, <2>5, <2>8, <2>9, <2>10
<1> QED
  BY <1>3, <1>4

LEMMA ToLiveOrder ==
  ASSUME TypeInv, OrderInv, setup' = setup, ToLive
  PROVE  OrderInv'
<1> USE DEF OrderInv
<1>1. /\ pc = "chain" /\ chain = <<>> /\ pc' = "live"
      /\ UNCHANGED <<world, saved, live, names, listing, again, queue, moved, unreadable, chain, last,
                     got, mailed, warned, calm>>
  BY DEF ToLive, search, history
<1>2. Same
  BY <1>1 DEF Same, world
<1>3. Renamed'
  BY <1>2, SameRenamed
<1>4. Rests' /\ Stage'
  BY <1>1, <1>2 DEF Same, Rests, Stage, AtRest
<1>5. LiveIs' /\ ListingIs' /\ Unseen' /\ ChainIs'
  BY <1>1, <1>2, LiveStays, ListingStays, UnseenStays, ChainStays
<1>6. QueueIs'
  BY <1>1, ItemsStay DEF QueueIs
<1>7. Places' /\ TellsOn' /\ InOrder' /\ MailedOnce'
  BY <1>1, <1>2, ToldStays
<1> QED
  BY <1>3, <1>4, <1>5, <1>6, <1>7

\* Lines that rise; what is read behind a position of a text whose lines rise.
Rises(s) == \A i, j \in DOMAIN s : i < j => s[i] < s[j]

LEMMA ReadRises ==
  ASSUME NEW n \in Nat, NEW t \in Seq(0..n), NEW w \in 0..n, Numbered(t, w), Rises(t), NEW off \in Nat
  PROVE  /\ Rest(t, off) \in Seq(1..n) /\ Rises(Rest(t, off))
         /\ \A x \in DOMAIN Rest(t, off) : \E y \in DOMAIN t : off < y /\ Rest(t, off)[x] = t[y]
<1>1. PICK r : r = Rest(t, off)
  OBVIOUS
<1>2. r \in Seq(1..n)
  BY <1>1, RestIs
<1>3. PICK d \in Nat : \A x \in DOMAIN r : off <= d /\ d + x \in DOMAIN t /\ r[x] = t[d + x]
  <2>1. \E d \in Nat : \A x \in DOMAIN Rest(t, off) :
          off <= d /\ d + x \in DOMAIN t /\ Rest(t, off)[x] = t[d + x]
    BY RestIs
  <2> QED
    BY <1>1, <2>1
<1>4. \A x \in DOMAIN r : x \in Nat /\ x > 0
  BY <1>2
<1>5. \A x \in DOMAIN r : d + x \in DOMAIN t /\ off < d + x /\ r[x] = t[d + x]
  BY <1>3, <1>4
<1>6. Rises(r)
  BY <1>4, <1>5 DEF Rises
<1> QED
  BY <1>1, <1>2, <1>5, <1>6

\* What is read of a file between two of its lines, and of a file to its end.
LEMMA CopyReads ==
  ASSUME WorldTypes, Renamed, NEW i \in Inodes, NEW to \in 0..Len(Text(i)), NEW off \in Nat
  PROVE  LET r == Rest(SubSeq(Text(i), 1, to), off) IN
         /\ r \in Seq(Lines) /\ Rises(r)
         /\ \A x \in DOMAIN r : \E y \in DOMAIN Text(i) : off < y /\ y <= to /\ r[x] = Text(i)[y]
<1>1. PICK t : t = Text(i)
  OBVIOUS
<1>2. /\ setup.lines \in Nat /\ written \in 0..setup.lines /\ t \in Seq(0..setup.lines)
      /\ Numbered(t, written)
  BY <1>1, TextIs
<1>3. PICK s : s = SubSeq(t, 1, to)
  OBVIOUS
<1>4. /\ s \in Seq(0..setup.lines) /\ Numbered(s, written) /\ Len(s) = to
      /\ \A x \in 1..to : x \in DOMAIN t /\ s[x] = t[x]
  BY <1>1, <1>2, <1>3, PrefixIs
<1>5. DOMAIN s = 1..to
  BY <1>4
<1>6. Rises(s)
  BY <1>1, <1>4, <1>5 DEF Rises, Renamed, Rising
<1>7. /\ Rest(s, off) \in Seq(1..setup.lines) /\ Rises(Rest(s, off))
      /\ \A x \in DOMAIN Rest(s, off) : \E y \in DOMAIN s : off < y /\ Rest(s, off)[x] = s[y]
  BY <1>2, <1>4, <1>6, ReadRises
<1>8. \A y \in DOMAIN s : y \in DOMAIN t /\ y <= to /\ s[y] = t[y]
  BY <1>4, <1>5
<1> QED
  BY <1>1, <1>3, <1>7, <1>8 DEF Lines

LEMMA FileReads ==
  ASSUME WorldTypes, Renamed, NEW i \in Inodes, NEW off \in Nat
  PROVE  LET r == Rest(Text(i), off) IN
         /\ r \in Seq(Lines) /\ Rises(r)
         /\ \A x \in DOMAIN r : \E y \in DOMAIN Text(i) : off < y /\ r[x] = Text(i)[y]
<1>1. PICK t : t = Text(i)
  OBVIOUS
<1>2. /\ setup.lines \in Nat /\ written \in 0..setup.lines /\ t \in Seq(0..setup.lines)
      /\ Numbered(t, written)
  BY <1>1, TextIs
<1>3. Rises(t)
  BY <1>1 DEF Rises, Renamed, Rising
<1> QED
  BY <1>1, <1>2, <1>3, ReadRises DEF Lines

\* Lines read behind lines that all come before them.
LEMMA ReadsJoin ==
  ASSUME NEW g \in Seq(Lines), NEW r \in Seq(Lines), setup.lines \in Nat, Rises(g), Rises(r),
         \A l \in ToSet(g), m \in ToSet(r) : l < m
  PROVE  g \o r \in Seq(Lines) /\ Rises(g \o r) /\ ToSet(g \o r) = ToSet(g) \cup ToSet(r)
<1>1. PICK s : s = g \o r
  OBVIOUS
<1>2. /\ s \in Seq(Lines) /\ Len(s) = Len(g) + Len(r)
      /\ \A i \in 1..Len(g) : s[i] = g[i]
      /\ \A i \in 1..Len(r) : s[Len(g) + i] = r[i]
  BY <1>1, ConcatIs
<1>3. /\ DOMAIN s = 1..Len(s) /\ DOMAIN g = 1..Len(g) /\ DOMAIN r = 1..Len(r)
      /\ Len(g) \in Nat /\ Len(r) \in Nat
  BY <1>2
<1>4. ASSUME NEW i \in DOMAIN s
      PROVE  \/ i \in DOMAIN g /\ s[i] = g[i]
             \/ \E j \in DOMAIN r : i = Len(g) + j /\ s[i] = r[j]
  BY <1>1, ConcatParts
<1>5. /\ \A i \in DOMAIN g : g[i] \in ToSet(g)
      /\ \A i \in DOMAIN r : r[i] \in ToSet(r)
  BY DEF ToSet
<1>6. Rises(s)
  <2>1. ASSUME NEW i \in DOMAIN s, NEW j \in DOMAIN s, i < j PROVE s[i] < s[j]
    <3>1. CASE i \in DOMAIN g /\ j \in DOMAIN g
      BY <1>2, <1>3, <2>1, <3>1 DEF Rises
    <3>2. CASE i \in DOMAIN g /\ j \notin DOMAIN g
      <4>1. s[i] = g[i]
        BY <1>2, <1>3, <3>2
      <4>2. PICK m \in DOMAIN r : s[j] = r[m]
        BY <1>4, <3>2
      <4> QED
        BY <1>5, <3>2, <4>1, <4>2
    <3>3. CASE i \notin DOMAIN g
      <4>1. j \notin DOMAIN g
        BY <1>3, <2>1, <3>3
      <4>2. PICK m \in DOMAIN r : i = Len(g) + m /\ s[i] = r[m]
        BY <1>4, <3>3
      <4>3. PICK n \in DOMAIN r : j = Len(g) + n /\ s[j] = r[n]
        BY <1>4, <4>1
      <4>4. m < n
        BY <1>3, <2>1, <4>2, <4>3
      <4> QED
        BY <4>2, <4>3, <4>4 DEF Rises
    <3> QED
      BY <3>1, <3>2, <3>3
  <2> QED
    BY <2>1 DEF Rises
<1>7. ToSet(s) = ToSet(g) \cup ToSet(r)
  <2>1. \A i \in DOMAIN s : s[i] \in ToSet(g) \cup ToSet(r)
    BY <1>4, <1>5
  <2>2. \A i \in DOMAIN g : i \in DOMAIN s /\ s[i] = g[i]
    BY <1>2, <1>3
  <2>3. \A i \in DOMAIN r : Len(g) + i \in DOMAIN s /\ s[Len(g) + i] = r[i]
    BY <1>2, <1>3
  <2> QED
    BY <2>1, <2>2, <2>3 DEF ToSet
<1> QED
  BY <1>1, <1>2, <1>6, <1>7

\* A position in a file that has a name is one of that file alone.
LEMMA PlaceOfFile ==
  ASSUME WorldTypes, Renamed, NEW k \in Numbers, NEW i \in Inodes, Plain(k) = i,
         NEW c, c.ino = i, Sits(i, c.off, c.anchor, c.fp)
  PROVE  Placed(c)
<1>1. /\ DOMAIN Text(i) = 1..Len(Text(i)) /\ Len(Text(i)) \in Nat /\ written \in Nat
      /\ \A x \in DOMAIN Text(i) : Text(i)[x] \in Nat /\ Text(i)[x] > 0 /\ Text(i)[x] <= written
  BY LinesAre DEF Renamed, Rising
<1>2. \A l \in MarksOf(c) : HasLine(i, l)
  BY DEF MarksOf, Sits, HasLine
<1>3. MarksOf(c) \subseteq 1..written
  BY <1>1, <1>2 DEF HasLine
<1>4. /\ c.off = 0 => c.anchor = None
      /\ c.off # 0 => c.anchor # None
  BY <1>1, NoneIs DEF Sits
<1>5. ASSUME NEW m \in Numbers, NEW j \in Inodes, NEW l \in MarksOf(c), Plain(m) = j, HasLine(j, l)
      PROVE  j = i
  <2>1. l \in Nat /\ HasLine(i, l)
    BY <1>2, <1>3
  <2>2. k \in Nat /\ m \in Nat
    BY NumbersAre
  <2>3. ~(k < m)
    <3>1. ASSUME k < m PROVE FALSE
      <4>1. Earlier(j, i)
        BY <1>5, <3>1 DEF Renamed, InAge
      <4> QED
        BY <1>5, <2>1, <4>1 DEF Earlier, Later, HasLine
    <3> QED
      BY <3>1
  <2>4. ~(m < k)
    <3>1. ASSUME m < k PROVE FALSE
      <4>1. Earlier(i, j)
        BY <1>5, <3>1 DEF Renamed, InAge
      <4> QED
        BY <1>5, <2>1, <4>1 DEF Earlier, Later, HasLine
    <3> QED
      BY <3>1
  <2> QED
    BY <1>5, <2>2, <2>3, <2>4
<1>6. ASSUME NEW j \in Inodes, NEW l \in MarksOf(c), writer = j PROVE HasLine(j, l) \/ Later(l, j)
  <2>1. CASE j = i
    BY <1>2, <2>1
  <2>2. CASE j # i
    <3>1. Plain(k) # None
      BY NoneIs
    <3>2. PICK w \in Numbers : w < k /\ Plain(w) = j
      BY <1>6, <2>2, <3>1, WriterHas
    <3>3. Earlier(i, j)
      BY <3>2 DEF Renamed, InAge
    <3> QED
      BY <1>2, <3>3 DEF Earlier, HasLine
  <2> QED
    BY <2>1, <2>2
<1> QED
  BY <1>3, <1>4, <1>5, <1>6 DEF Placed

\* A copy is read behind all that was told: what was read comes before every newer file, and the
\* copy is the place to park.
LEMMA CopyRead ==
  ASSUME TypeInv, Renamed, TellsOn, InOrder, NEW a, NEW k \in Numbers, NEW i \in Inodes, a.ino = i,
         Plain(k) = i, NEW from \in Nat, NEW to \in from..Len(Text(i)), ReadCopy(a, from, to),
         last = None => got = <<>>, last # None => Placed(last) /\ Behind(Told, last),
         \A y \in DOMAIN Text(i) : from < y => \A l \in Told : l < Text(i)[y],
         from # 0 => from \in DOMAIN Text(i) /\ \A l \in Told : l <= Text(i)[from]
  PROVE  /\ got' \in Seq(Lines) /\ InOrder'
         /\ ToSet(got') \cup Carried \subseteq 1..written
         /\ ToSet(got') \cap Carried = {}
         /\ last' = None => got' = <<>>
         /\ \E c : /\ last' = c
                   /\ c # None => Placed(c) /\ Behind(ToSet(got') \cup Carried, c)
         /\ \A m \in Numbers, j \in Inodes :
              m < k /\ Plain(m) = j /\ AheadOf(Told, j) => AheadOf(ToSet(got') \cup Carried, j)
<1> USE DEF TypeInv
<1>1. PICK r : r = Rest(SubSeq(Text(i), 1, to), from)
  OBVIOUS
<1>2. PICK t : t = Text(i)
  OBVIOUS
<1>3. /\ DOMAIN t = 1..Len(t) /\ Len(t) \in Nat /\ written \in Nat /\ to \in Nat /\ from <= to /\ to <= Len(t)
      /\ \A x \in DOMAIN t : t[x] \in Nat /\ t[x] > 0 /\ t[x] <= written
      /\ \A x, y \in DOMAIN t : x < y => t[x] < t[y]
  BY <1>2, LinesAre DEF Renamed, Rising
<1>4. /\ r \in Seq(Lines) /\ Rises(r)
      /\ \A x \in DOMAIN r : \E y \in DOMAIN t : from < y /\ y <= to /\ r[x] = t[y]
  <2>1. to \in 0..Len(Text(i))
    BY <1>2, <1>3
  <2> QED
    BY <1>1, <1>2, <2>1, CopyReads
<1>5. \A l \in ToSet(r) : \E y \in DOMAIN t : from < y /\ y <= to /\ l = t[y]
  BY <1>4 DEF ToSet
<1>6. PICK T : T = Told
  OBVIOUS
<1>7. PICK C : C = Carried
  OBVIOUS
<1>8. T = ToSet(got) \cup C /\ T \in SUBSET (1..written)
  BY <1>6, <1>7 DEF Told, TellsOn
<1>9. \A l \in T : l \in Nat /\ \A m \in ToSet(r) : l < m
  BY <1>2, <1>3, <1>5, <1>6, <1>8
<1>10. got' = got \o r /\ last' = IF FirstLine(t) = None THEN last ELSE Copy(a, from, to)
  BY <1>1, <1>2 DEF ReadCopy
<1>11. got \in Seq(Lines) /\ Rises(got) /\ setup.lines \in Nat
  BY TextIs DEF TypeOK, InOrder, Rises
<1>12. got' \in Seq(Lines) /\ Rises(got') /\ ToSet(got') = ToSet(got) \cup ToSet(r)
  <2>1. \A l \in ToSet(got), m \in ToSet(r) : l < m
    BY <1>8, <1>9
  <2> QED
    BY <1>4, <1>10, <1>11, <2>1, ReadsJoin
<1>13. PICK g : g = got'
  OBVIOUS
<1>14. PICK N : N = ToSet(got') \cup C
  OBVIOUS
<1>15. N = T \cup ToSet(r)
  BY <1>8, <1>12, <1>14
<1>16. InOrder'
  BY <1>12 DEF InOrder, Rises
<1>17. N \subseteq 1..written
  BY <1>3, <1>5, <1>8, <1>15
<1>18. ToSet(got') \cap C = {}
  <2>1. ToSet(got) \cap C = {}
    BY <1>7 DEF TellsOn
  <2>2. \A l \in C : l \notin ToSet(r)
    BY <1>8, <1>9
  <2> QED
    BY <1>12, <2>1, <2>2
<1>19. ASSUME NEW m \in Numbers, NEW j \in Inodes, m < k, Plain(m) = j, AheadOf(Told, j)
      PROVE  AheadOf(N, j)
  <2>1. AheadOf(T, j)
    BY <1>6, <1>19
  <2>2. Earlier(i, j)
    BY <1>19 DEF Renamed, InAge
  <2>3. \A l \in ToSet(r) : Later(l, j)
    BY <1>2, <1>5, <2>2 DEF Earlier
  <2> QED
    BY <1>15, <2>1, <2>3 DEF AheadOf
<1>20. /\ last' = None => got' = <<>>
       /\ \E c : last' = c /\ (c # None => Placed(c) /\ Behind(N, c))
  <2>1. FirstLine(t) = None <=> t = <<>>
    BY <1>2, TextIs
  <2>2. CASE t = <<>>
    <3>1. ToSet(r) = {}
      BY <1>5, <2>2
    <3>2. r = <<>>
      BY <1>4, <3>1 DEF ToSet
    <3>3. got' = got
      BY <1>10, <1>11, <3>2
    <3>4. last' = last /\ N = T
      BY <1>10, <1>15, <2>1, <2>2, <3>1
    <3> QED
      BY <1>6, <3>3, <3>4
  <2>3. CASE t # <<>>
    <3>1. PICK c : c = Copy(a, from, to)
      OBVIOUS
    <3>2. /\ c.ino = i /\ c.fp = FirstLine(t) /\ c.off = to
          /\ c.anchor = Anchor(t, to)
      BY <1>2, <3>1 DEF Copy
    <3>3. /\ 1 \in DOMAIN t /\ FirstLine(t) = t[1] /\ FirstLine(t) # None
      BY <1>3, <2>1, <2>3 DEF FirstLine
    <3>4. /\ to = 0 => Anchor(t, to) = None
          /\ to # 0 => to \in DOMAIN t /\ Anchor(t, to) = t[to]
      BY <1>3 DEF Anchor
    <3>5. last' = c /\ c # None
      <4>1. last' = c
        BY <1>10, <3>1, <3>3
      <4>2. c # None
        <5>1. /\ file[i].mtime \in Seconds /\ \A off \in Nat : Anchor(t, off) \in Marks
              /\ FirstLine(t) \in Tokens /\ Len(t) \in Positions /\ setup.lines \in Nat
          BY <1>2, <3>3, TextIs
        <5>2. c \in Segments
          <6>1. from \in Positions /\ to \in Positions
            BY <1>3, <5>1 DEF Positions
          <6>2. c = [ino |-> i, fp |-> FirstLine(t), start |-> from, off |-> to, anchor |-> Anchor(t, to), mtime |-> file[i].mtime]
            BY <1>2, <3>1 DEF Copy
          <6> QED
            BY <1>3, <5>1, <6>1, <6>2 DEF Segments
        <5> QED
          BY <5>2, NoneIsNot, SetupIs DEF TypeOK, WorldTypeOK
      <4> QED
        BY <4>1, <4>2
    <3>6. Sits(i, c.off, c.anchor, c.fp)
      BY <1>2, <3>2, <3>3, <3>4 DEF Sits
    <3>7. Placed(c)
      BY <3>2, <3>6, PlaceOfFile
    <3>8. Behind(N, c)
      <4>1. ASSUME to # 0, NEW l \in N PROVE l <= t[to]
        <5>1. CASE l \in T
          <6>1. CASE from < to
            BY <1>2, <1>3, <1>6, <1>9, <3>4, <4>1, <5>1, <6>1
          <6>2. CASE from = to
            BY <1>2, <1>6, <4>1, <5>1, <6>2
          <6> QED
            BY <1>3, <6>1, <6>2
        <5>2. CASE l \in ToSet(r)
          <6>1. PICK y \in DOMAIN t : from < y /\ y <= to /\ l = t[y]
            BY <1>5, <5>2
          <6>2. y = to \/ y < to
            BY <1>3, <6>1
          <6> QED
            BY <1>3, <3>4, <4>1, <6>1, <6>2
        <5> QED
          BY <1>15, <4>1, <5>1, <5>2
      <4>2. ASSUME to = 0, NEW l \in N PROVE l < t[1]
        <5>1. from = 0
          BY <1>3, <4>2
        <5>2. ToSet(r) = {}
          BY <1>3, <1>5, <4>2
        <5>3. from < 1
          BY <5>1
        <5> QED
          BY <1>2, <1>6, <1>15, <3>3, <4>2, <5>2, <5>3
      <4> QED
        BY <3>2, <3>3, <3>4, <4>1, <4>2 DEF Behind
    <3> QED
      BY <3>5, <3>7, <3>8
  <2> QED
    BY <2>2, <2>3
<1> QED
  BY <1>7, <1>12, <1>14, <1>16, <1>17, <1>18, <1>19, <1>20

\* What a step that reads a copy, or passes over one, has to leave for the rest of the run.
LEMMA CopyOrder ==
  ASSUME TypeInv, OrderInv, Same, UNCHANGED <<saved, live, listing, mailed, warned, calm>>,
         pc \in {"try", "chain"}, pc' = "chain", queue' = <<>>, ChainIs', InOrder',
         NEW k \in Numbers, k > 0, NEW i \in Inodes, Plain(k) = i, live # None => live.ino # i,
         ToSet(got') \cup Carried \subseteq 1..written,
         ToSet(got') \cap Carried = {},
         last' = None => got' = <<>>,
         NEW c, last' = c, c # None => Placed(c) /\ Behind(ToSet(got') \cup Carried, c),
         \A m \in Numbers, j \in Inodes :
           m < k /\ Plain(m) = j /\ AheadOf(Told, j) => AheadOf(ToSet(got') \cup Carried, j),
         \A x \in DOMAIN chain', m \in Numbers, j \in Inodes :
           Plain(m) = j /\ chain'[x].ino = j => m < k /\ AheadOf(Told, j)
  PROVE  OrderInv'
<1> USE DEF OrderInv
<1>1. PICK N : N = ToSet(got') \cup Carried
  OBVIOUS
<1>2. Carried' = Carried /\ Told' = N /\ ToSet(got)' = ToSet(got')
  BY <1>1, SameWorld DEF Carried, Told, ToSet
<1>3. /\ \A m : Plain(m)' = Plain(m)
      /\ \A S, j : AheadOf(S, j)' <=> AheadOf(S, j)
      /\ \A S, d : Behind(S, d)' <=> Behind(S, d)
  BY SameWorld
<1>4. Renamed'
  BY SameRenamed
<1>5. Rests' /\ Stage'
  BY DEF Same, Rests, Stage, AtRest
<1>6. LiveIs' /\ ListingIs' /\ Unseen'
  BY LiveStays, ListingStays, UnseenStays
<1>7. QueueIs'
  BY DEF QueueIs
<1>8. Places'
  <2>1. PICK d : d = saved
    OBVIOUS
  <2>2. saved # None => Placed(saved)'
    BY <2>1, SamePlaced, SavedNext DEF Places
  <2>3. last' # None => Placed(last)'
    BY SamePlaced, LastNext
  <2> QED
    BY <2>2, <2>3 DEF Places
<1>9. MailedOnce'
  BY SameWorld DEF MailedOnce
<1>10. N \subseteq 1..written' /\ (saved = None => Carried = {})
  BY <1>1 DEF Same, TellsOn
<1>12. last' # None => Behind(N, last)'
  <2>1. last' # None => Behind(N, c)'
    BY <1>1, <1>3
  <2> QED
    BY <2>1 DEF Behind, Plain, AheadOf, Later, Text
<1>13. ASSUME NEW x \in DOMAIN chain', NEW m \in Numbers, NEW j \in Inodes, Plain(m)' = j, chain'[x].ino = j
       PROVE  AheadOf(N, j)'
  BY <1>1, <1>3, <1>13
<1>14. ASSUME live # None
       PROVE  /\ live.off = 0 /\ AheadOf(N, live.ino)'
              /\ \A j \in Inodes : Plain(0)' = j /\ j # live.ino => AheadOf(N, j)'
  <2>1. live.off = 0
    BY <1>14 DEF Stage
  <2>2. 0 \in Numbers /\ 1 \in Numbers /\ k \in Nat /\ 0 < k
    BY NumbersAre
  <2>3. AheadOf(N, live.ino)
    <3>1. AheadOf(Told, live.ino) /\ live.ino \in Inodes
      BY <1>14, <2>1 DEF TellsOn, TypeInv, TypeOK, LogFiles
    <3>2. PICK m \in {0, 1} : Plain(m) = live.ino
      BY <1>14 DEF LiveIs
    <3>3. m < k
      BY <1>14, <2>2, <3>2
    <3> QED
      BY <1>1, <2>2, <3>1, <3>2, <3>3
  <2>4. ASSUME NEW j \in Inodes, Plain(0) = j, j # live.ino PROVE AheadOf(N, j)
    <3>1. AheadOf(Told, j)
      BY <1>14, <2>4 DEF TellsOn
    <3> QED
      BY <1>1, <2>2, <2>4, <3>1
  <2> QED
    BY <1>3, <2>1, <2>3, <2>4
<1>15. TellsOn'
  <2>1. PICK C : C = Carried
    OBVIOUS
  <2>2. Carried' = C /\ Told' = N
    BY <1>2, <2>1
  <2>3. saved' # None => Behind(C, saved)'
    <3>1. PICK d : d = saved
      OBVIOUS
    <3>2. saved # None => Behind(C, d)'
      BY <1>3, <2>1, <3>1 DEF TellsOn
    <3> QED
      BY <3>1, <3>2 DEF Behind, Plain, AheadOf, Later, Text
  <2>4. ToSet(got)' \cap C = {} /\ (saved' = None => C = {})
    BY <1>2, <1>10, <2>1
  <2>5. live' # None =>
          (/\ live.off = 0 /\ AheadOf(N, live.ino)
           /\ \A j \in Inodes : Plain(0) = j /\ j # live.ino => AheadOf(N, j))'
    <3>1. PICK v : v = live
      OBVIOUS
    <3>2. live' = v
      BY <3>1
    <3>3. v # None => /\ v.off = 0 /\ AheadOf(N, v.ino)'
                      /\ \A j \in Inodes : Plain(0)' = j /\ j # v.ino => AheadOf(N, j)'
      <4>1. PICK h : h = v.ino
        OBVIOUS
      <4>2. v # None => v.off = 0 /\ AheadOf(N, h)
        BY <1>3, <1>14, <3>1, <4>1 DEF AheadOf, Later, Text
      <4> QED
        BY <1>3, <1>14, <3>1, <4>1, <4>2
    <3> QED
      BY <3>2, <3>3 DEF AheadOf, Later, Text
  <2> QED
    BY <1>10, <1>12, <1>13, <2>2, <2>3, <2>4, <2>5 DEF TellsOn
<1> QED
  BY <1>4, <1>5, <1>6, <1>7, <1>8, <1>9, <1>15

\* A copy of the listing that is under its name, and the copies of lower number, wherever they are.
LEMMA CopyFound ==
  ASSUME TypeInv, ListingIs, NEW a \in Everything(listing), At(a) = a.ino
  PROVE  /\ a.k \in Numbers /\ a.ino \in Inodes /\ Plain(a.k) = a.ino /\ a.k \in Nat
         /\ live # None => live.ino # a.ino
         /\ \A b \in Everything(listing), m \in Numbers :
              b.k < a.k /\ Plain(m) = b.ino => m < a.k
<1>1. a \in listing /\ ~IsLive(a)
  BY DEF Everything
<1>2. a \in Copies /\ a.gz = FALSE
  BY <1>1 DEF TypeInv, TypeOK, ListingIs
<1>3. a.k \in Numbers /\ a.ino \in Inodes /\ a.k \in Nat
  BY <1>2, NumbersAre DEF Copies, Numbers
<1>4. Plain(a.k) = a.ino
  BY <1>2, Zenon DEF At, Plain
<1>5. live # None => live.ino # a.ino
  BY <1>1 DEF IsLive
<1>6. ASSUME NEW b \in Everything(listing), NEW m \in Numbers, b.k < a.k, Plain(m) = b.ino PROVE m < a.k
  <2>1. b \in listing
    BY DEF Everything
  <2>2. b.k \in Nat /\ m \in Nat
    BY <2>1, NumbersAre DEF TypeInv, TypeOK, Copies
  <2>3. m = b.k \/ m = b.k + 1
    BY <1>6, <2>1 DEF ListingIs
  <2>4. m # a.k
    <3>1. ASSUME m = a.k PROVE FALSE
      <4>1. a.ino = b.ino
        BY <1>4, <1>6, <3>1
      <4>2. a = b
        BY <1>1, <2>1, <4>1 DEF ListingIs
      <4> QED
        BY <1>6, <2>2, <4>2
    <3> QED
      BY <3>1
  <2> QED
    BY <1>3, <1>6, <2>2, <2>3, <2>4
<1> QED
  BY <1>3, <1>4, <1>5, <1>6

LEMMA ReadNextOrder ==
  ASSUME TypeInv, OrderInv, setup' = setup, ReadNext
  PROVE  OrderInv'
<1> USE DEF OrderInv
<1>1. PICK a : a = Head(chain)
  OBVIOUS
<1>2. /\ pc = "chain" /\ chain # <<>> /\ At(a) = a.ino /\ pc' = "chain" /\ chain' = Tail(chain)
      /\ ReadOn(a, 0) \/ UNCHANGED <<got, last>>
      /\ UNCHANGED <<world, saved, live, listing, queue, mailed, warned, calm>>
  BY <1>1 DEF ReadNext, search
<1>3. Same /\ queue' = <<>>
  BY <1>2 DEF Same, world, Stage
<1>4. /\ 1 \in DOMAIN chain /\ chain[1] = a
      /\ \A x \in DOMAIN chain' : x + 1 \in DOMAIN chain /\ chain'[x] = chain[x + 1] /\ x \in Nat /\ x > 0
  <2>1. chain \in Seq(Copies)
    BY DEF TypeInv, TypeOK
  <2> QED
    BY <1>1, <1>2, <2>1, TailIs
<1>5. a \in Everything(listing) /\ a.k > 0
  BY <1>4 DEF ChainIs
<1>6. /\ a.k \in Numbers /\ a.ino \in Inodes /\ Plain(a.k) = a.ino
      /\ live # None => live.ino # a.ino
      /\ \A b \in Everything(listing), m \in Numbers : b.k < a.k /\ Plain(m) = b.ino => m < a.k
  BY <1>2, <1>5, CopyFound
<1>7. PICK k \in Numbers : k = a.k
  BY <1>6
<1>8. PICK i \in Inodes : i = a.ino
  BY <1>6
<1>9. ChainIs'
  <2>1. Everything(listing)' = Everything(listing)
    BY <1>2 DEF Everything, IsLive
  <2>2. \A x \in DOMAIN chain' : chain'[x] \in Everything(listing) /\ chain'[x].k > 0
    BY <1>4 DEF ChainIs
  <2>3. \A x, y \in DOMAIN chain' : x < y => chain'[x].k > chain'[y].k
    BY <1>4 DEF ChainIs
  <2> QED
    BY <2>1, <2>2, <2>3 DEF ChainIs
<1>10. ASSUME NEW x \in DOMAIN chain', NEW m \in Numbers, NEW j \in Inodes, Plain(m) = j, chain'[x].ino = j
       PROVE  m < k /\ AheadOf(Told, j)
  <2>1. x + 1 \in DOMAIN chain /\ chain'[x] = chain[x + 1] /\ 1 < x + 1
    BY <1>4
  <2>2. AheadOf(Told, j)
    BY <1>10, <2>1 DEF TellsOn
  <2>3. chain[x + 1] \in Everything(listing) /\ chain[x + 1].k < a.k
    <3>1. chain[1].k > chain[x + 1].k
      BY <1>4, <2>1 DEF ChainIs
    <3>2. chain[x + 1] \in Everything(listing)
      BY <2>1 DEF ChainIs
    <3> QED
      BY <1>4, <3>1, <3>2
  <2> QED
    BY <1>6, <1>7, <1>10, <2>1, <2>2, <2>3
<1>11. IF last = None THEN got = <<>> ELSE Behind(Told, last)
  BY <1>2 DEF TellsOn
<1>12. CASE ReadOn(a, 0)
  <2>1. PICK to \in 0..Len(Text(i)) : ReadCopy(a, 0, to)
    <3>1. Len(Text(i)) \in Nat
      BY LinesAre DEF TypeInv
    <3> QED
      BY <1>8, <1>12, <3>1 DEF ReadOn
  <2>2. \A y \in DOMAIN Text(i) : \A l \in Told : l < Text(i)[y]
    BY <1>4, <1>6, <1>8 DEF TellsOn, AheadOf, Later
  <2>3. last # None => Placed(last) /\ Behind(Told, last)
    BY <1>11 DEF Places
  <2>4. /\ InOrder'
        /\ ToSet(got') \cup Carried \subseteq 1..written
        /\ ToSet(got') \cap Carried = {}
        /\ last' = None => got' = <<>>
        /\ \E c : /\ last' = c
                  /\ c # None => Placed(c) /\ Behind(ToSet(got') \cup Carried, c)
        /\ \A m \in Numbers, j \in Inodes :
             m < k /\ Plain(m) = j /\ AheadOf(Told, j) => AheadOf(ToSet(got') \cup Carried, j)
    BY <1>6, <1>7, <1>8, <1>11, <2>1, <2>2, <2>3, CopyRead
  <2>5. PICK c : /\ last' = c
                 /\ c # None => Placed(c) /\ Behind(ToSet(got') \cup Carried, c)
    BY <2>4
  <2>6. k > 0 /\ Plain(k) = i /\ (live # None => live.ino # i)
    BY <1>5, <1>6, <1>7, <1>8
  <2> QED
    BY <1>2, <1>3, <1>9, <1>10, <2>4, <2>5, <2>6, CopyOrder
<1>13. CASE UNCHANGED <<got, last>>
  <2>1. PICK c : c = last
    OBVIOUS
  <2>2. InOrder' /\ (last' = None => got' = <<>>) /\ last' = c
    BY <1>11, <1>13, <2>1 DEF InOrder
  <2>3. ToSet(got') \cup Carried = Told
    BY <1>13 DEF Told
  <2>4. c # None => Placed(c) /\ Behind(ToSet(got') \cup Carried, c)
    BY <1>11, <2>1, <2>3 DEF Places
  <2>5. ToSet(got') \cup Carried \subseteq 1..written /\ ToSet(got') \cap Carried = {}
    BY <1>13, <2>3 DEF TellsOn
  <2>6. k > 0 /\ Plain(k) = i /\ (live # None => live.ino # i)
    BY <1>5, <1>6, <1>7, <1>8
  <2>7. \A m \in Numbers, j \in Inodes :
          m < k /\ Plain(m) = j /\ AheadOf(Told, j) => AheadOf(ToSet(got') \cup Carried, j)
    BY <2>3
  <2> QED
    BY <1>2, <1>3, <1>9, <1>10, <2>2, <2>4, <2>5, <2>6, <2>7, CopyOrder
<1> QED
  BY <1>2, <1>12, <1>13

LEMMA TryFitsOrder ==
  ASSUME TypeInv, OrderInv, setup' = setup, TryFits
  PROVE  OrderInv'
<1> USE DEF OrderInv
<1>1. PICK a : a = Head(queue).copy
  OBVIOUS
<1>2. PICK S : S = {b \in Readable(listing) : b # a /\ Newer(b, a)}
  OBVIOUS
<1>3. /\ pc = "try" /\ queue # <<>> /\ Listed(a) /\ Fits(a) /\ ReadOn(a, saved.off)
      /\ chain' = OldestFirst(S) /\ queue' = <<>> /\ pc' = "chain"
      /\ UNCHANGED <<world, saved, live, listing, mailed, warned, calm>>
  BY <1>1, <1>2 DEF TryFits
<1>4. Same
  BY <1>3 DEF Same, world
<1>5. a \in May(listing)
  <2>1. Head(queue) \in Items(listing)
    BY <1>3, TailIs DEF QueueIs
  <2> QED
    BY <1>1, <2>1 DEF Items
<1>6. /\ a \in Everything(listing) /\ At(a) = a.ino
      /\ saved.fp = None => a.ino = saved.ino /\ a.k > 0
  BY <1>3, <1>5 DEF May, Listed
<1>7. /\ a.k \in Numbers /\ a.ino \in Inodes /\ Plain(a.k) = a.ino /\ a.k \in Nat
      /\ live # None => live.ino # a.ino
      /\ \A b \in Everything(listing), m \in Numbers : b.k < a.k /\ Plain(m) = b.ino => m < a.k
  BY <1>6, CopyFound
<1>8. PICK k \in Numbers : k = a.k
  BY <1>7
<1>9. PICK i \in Inodes : i = a.ino
  BY <1>7
<1>10. PICK t : t = Text(i)
  OBVIOUS
<1>11. /\ saved # None /\ saved \in Cursors /\ Placed(saved) /\ Behind(Carried, saved)
       /\ got = <<>> /\ last = None
  BY <1>3 DEF TypeInv, TypeOK, Places, TellsOn, Stage
<1>12. PICK off \in Nat : off = saved.off
  <2>1. setup.lines \in Nat
    BY SetupIs DEF TypeInv, TypeOK, WorldTypeOK
  <2> QED
    BY <1>11, <2>1 DEF Cursors, Positions
<1>13. Told = Carried /\ Told \subseteq 1..written
  BY <1>11 DEF Told, ToSet, TellsOn
<1>14. /\ DOMAIN t = 1..Len(t) /\ Len(t) \in Nat /\ written \in Nat
       /\ \A x \in DOMAIN t : t[x] \in Nat /\ t[x] > 0
       /\ \A x, y \in DOMAIN t : x < y => t[x] < t[y]
  BY <1>10, LinesAre DEF TypeInv, Renamed, Rising
<1>15. \A l \in Told : l \in Nat
  BY <1>13, <1>14
<1>16. off # 0 => off \in DOMAIN t /\ t[off] = saved.anchor /\ \A l \in Told : l <= t[off]
  <2>1. ASSUME off # 0 PROVE off \in DOMAIN t /\ t[off] = saved.anchor
    <3>1. saved.anchor # None /\ Anchor(t, off) = saved.anchor
      BY <1>3, <1>9, <1>10, <1>11, <1>12, <2>1 DEF Placed, Fits
    <3> QED
      BY <1>14, <2>1, <3>1 DEF Anchor
  <2> QED
    BY <1>11, <1>12, <1>13, <2>1 DEF Behind
<1>17. saved.fp # None => 1 \in DOMAIN t /\ t[1] = saved.fp
  <2>1. ASSUME saved.fp # None PROVE 1 \in DOMAIN t /\ t[1] = saved.fp
    <3>1. FirstLine(t) = saved.fp
      BY <1>3, <1>9, <1>10, <2>1 DEF Fits
    <3> QED
      BY <1>14, <2>1, <3>1 DEF FirstLine
  <2> QED
    BY <2>1
<1>18. off = 0 /\ saved.fp # None => \A l \in Told : l < t[1]
  BY <1>11, <1>12, <1>13, <1>17 DEF Behind
<1>19. k > 0
  <2>1. ASSUME k = 0 PROVE FALSE
    <3>1. saved.fp # None
      BY <1>6, <1>8, <2>1
    <3>2. Later(saved.fp, i)
      BY <1>3, <1>7, <1>8, <1>9, <1>11, <2>1, <3>1 DEF Unseen
    <3>3. 1 \in DOMAIN t /\ saved.fp < t[1] /\ t[1] = saved.fp
      BY <1>10, <1>17, <3>1, <3>2 DEF Later
    <3>4. t[1] \in Nat
      BY <1>14, <3>3
    <3> QED
      BY <3>3, <3>4
  <2> QED
    BY <1>7, <1>8, <2>1
<1>20. ASSUME off = 0, saved.fp = None, NEW m \in Numbers, NEW j \in Inodes, m <= k, Plain(m) = j
       PROVE  AheadOf(Told, j)
  <2>1. i = saved.ino
    BY <1>6, <1>9, <1>20
  <2>2. \A n \in Numbers : Plain(n) = saved.ino => m <= n
    BY <1>7, <1>8, <1>9, <1>20, <2>1, NoneIs DEF Renamed, OneName
  <2> QED
    BY <1>11, <1>12, <1>13, <1>20, <2>2 DEF Behind
<1>21. ASSUME NEW y \in DOMAIN t, off < y, NEW l \in Told PROVE l < t[y]
  <2>1. CASE off # 0
    BY <1>14, <1>15, <1>16, <1>21, <2>1
  <2>2. CASE off = 0 /\ saved.fp # None
    BY <1>14, <1>15, <1>17, <1>18, <1>21, <2>2
  <2>3. CASE off = 0 /\ saved.fp = None
    <3>1. AheadOf(Told, i)
      BY <1>7, <1>8, <1>9, <1>20, <2>3
    <3> QED
      BY <1>10, <3>1 DEF AheadOf, Later
  <2> QED
    BY <2>1, <2>2, <2>3
<1>22. ASSUME NEW m \in Numbers, NEW j \in Inodes, m < k, Plain(m) = j PROVE AheadOf(Told, j)
  <2>1. Earlier(i, j)
    BY <1>7, <1>8, <1>9, <1>22 DEF Renamed, InAge
  <2>2. \A x \in DOMAIN t, y \in DOMAIN Text(j) : t[x] < Text(j)[y] /\ Text(j)[y] \in Nat
    BY <1>10, <2>1, LinesAre DEF Earlier, Later, TypeInv
  <2>3. CASE off # 0
    BY <1>14, <1>15, <1>16, <2>2, <2>3 DEF AheadOf, Later
  <2>4. CASE off = 0 /\ saved.fp # None
    BY <1>14, <1>15, <1>17, <1>18, <2>2, <2>4 DEF AheadOf, Later
  <2>5. CASE off = 0 /\ saved.fp = None
    <3>1. m <= k
      BY <1>7, <1>8, <1>22, NumbersAre
    <3> QED
      BY <1>20, <1>22, <2>5, <3>1
  <2> QED
    BY <2>3, <2>4, <2>5
<1>23. PICK to \in off..Len(t) : ReadCopy(a, off, to)
  <2>1. Len(t) \in off..Len(t)
    BY <1>14, <1>16
  <2> QED
    BY <1>3, <1>9, <1>10, <1>12, <2>1 DEF ReadOn
<1>24. PICK s : s = OldestFirst(S)
  OBVIOUS
<1>25. /\ \A x \in DOMAIN s : s[x] \in S /\ s[x] \in Everything(listing) /\ s[x].k > 0
       /\ \A x, y \in DOMAIN s : x < y => s[x].k > s[y].k
  <2>1. S \in SUBSET Archives(listing)
    BY <1>2 DEF Readable
  <2> QED
    BY <1>24, <2>1, ArchivesChain
<1>26. ChainIs'
  <2>1. Everything(listing)' = Everything(listing) /\ chain' = s
    BY <1>3, <1>24 DEF Everything, IsLive
  <2> QED
    BY <1>25, <2>1 DEF ChainIs
<1>27. ASSUME NEW x \in DOMAIN chain', NEW m \in Numbers, NEW j \in Inodes, Plain(m) = j, chain'[x].ino = j
       PROVE  m < k /\ AheadOf(Told, j)
  <2>1. chain'[x] \in S /\ chain'[x] \in Everything(listing)
    BY <1>3, <1>24, <1>25
  <2>2. chain'[x].k < a.k
    BY <1>2, <1>8, <1>19, <2>1 DEF Newer
  <2>3. m < k
    BY <1>7, <1>8, <1>27, <2>1, <2>2
  <2> QED
    BY <1>22, <1>27, <2>3
<1>28. /\ InOrder'
       /\ ToSet(got') \cup Carried \subseteq 1..written
       /\ ToSet(got') \cap Carried = {}
       /\ last' = None => got' = <<>>
       /\ \E c : /\ last' = c
                 /\ c # None => Placed(c) /\ Behind(ToSet(got') \cup Carried, c)
       /\ \A m \in Numbers, j \in Inodes :
            m < k /\ Plain(m) = j /\ AheadOf(Told, j) => AheadOf(ToSet(got') \cup Carried, j)
  BY <1>7, <1>8, <1>9, <1>10, <1>11, <1>16, <1>21, <1>23, CopyRead
<1>29. PICK c : /\ last' = c
                /\ c # None => Placed(c) /\ Behind(ToSet(got') \cup Carried, c)
  BY <1>28
<1>30. Plain(k) = i /\ (live # None => live.ino # i)
  BY <1>7, <1>8, <1>9
<1> QED
  BY <1>3, <1>4, <1>19, <1>26, <1>27, <1>28, <1>29, <1>30, CopyOrder

LEMMA SavedBehind ==
  ASSUME Same, NEW C, NEW c, saved' = c, Behind(C, c)
  PROVE  Behind(C, saved)'
<1>1. Behind(C, c)'
  BY SameWorld
<1> QED
  BY <1>1 DEF Behind, Plain, AheadOf, Later, Text

LEMMA PlacesStay ==
  ASSUME Places, Same, UNCHANGED <<saved, last>>
  PROVE  Places'
<1>1. PICK c : c = saved
  OBVIOUS
<1>2. PICK d : d = last
  OBVIOUS
<1>3. (saved # None => Placed(c)') /\ (last # None => Placed(d)')
  BY <1>1, <1>2, SamePlaced DEF Places
<1>4. (saved # None => Placed(saved)') /\ (last # None => Placed(last)')
  BY <1>1, <1>2, <1>3, SavedNext, LastNext
<1> QED
  BY <1>4 DEF Places

\* A handle of the live file, and what a run that holds it has told.
LEMMA LiveTells ==
  ASSUME TypeInv, OrderInv, Same, UNCHANGED <<saved, last, mailed, warned>>, pc' # "chain", chain' = <<>>,
         NEW v, live' = v, NEW i \in Inodes, v.ino = i,
         ToSet(got') \cup Carried \subseteq 1..written, ToSet(got') \cap Carried = {},
         v.off # 0 => \A l \in ToSet(got') \cup Carried : l <= v.anchor,
         v.off = 0 => AheadOf(ToSet(got') \cup Carried, i),
         \A j \in Inodes : Plain(0) = j /\ j # i => AheadOf(ToSet(got') \cup Carried, j)
  PROVE  TellsOn'
<1> USE DEF OrderInv
<1>1. PICK N : N = ToSet(got') \cup Carried
  OBVIOUS
<1>2. PICK C : C = Carried
  OBVIOUS
<1>3. Carried' = C /\ Told' = N /\ ToSet(got)' = ToSet(got')
  BY <1>1, <1>2, SameWorld DEF Carried, Told, ToSet
<1>4. /\ \A m : Plain(m)' = Plain(m)
      /\ \A S, j : AheadOf(S, j)' <=> AheadOf(S, j)
  BY SameWorld
<1>5. saved' # None => Behind(C, saved)'
  <2>1. PICK c : c = saved
    OBVIOUS
  <2> QED
    BY <1>2, <2>1, SavedBehind DEF TellsOn
<1>6. N \subseteq 1..written' /\ ToSet(got)' \cap C = {} /\ (saved' = None => C = {})
  BY <1>1, <1>2, <1>3 DEF Same, TellsOn
<1>7. (live # None =>
         /\ live.off # 0 => \A l \in N : l <= live.anchor
         /\ live.off = 0 => AheadOf(N, live.ino)
         /\ \A j \in Inodes : Plain(0) = j /\ j # live.ino => AheadOf(N, j))'
  <2>1. /\ v.off = 0 => AheadOf(N, i)'
        /\ \A j \in Inodes : Plain(0)' = j /\ j # i => AheadOf(N, j)'
    BY <1>1, <1>4
  <2>2. v.off # 0 => \A l \in N : l <= v.anchor
    BY <1>1
  <2> QED
    BY <2>1, <2>2 DEF AheadOf, Later, Text
<1> QED
  BY <1>3, <1>5, <1>6, <1>7 DEF TellsOn

\* A live file that is read on from the saved position, or that is another or cut: what was
\* mailed comes before what is there to read.
LEMMA OpenTells ==
  ASSUME TypeInv, OrderInv, saved # None, NEW i \in Inodes, Plain(0) = i
  PROVE  /\ Verdict(i) = "continue" =>
              /\ saved.off # 0 => /\ saved.off \in DOMAIN Text(i) /\ Text(i)[saved.off] = saved.anchor
                                  /\ \A l \in Carried : l <= saved.anchor
              /\ saved.off = 0 => AheadOf(Carried, i)
         /\ Verdict(i) # "continue" => AheadOf(Carried, i)
<1> USE DEF OrderInv
<1>1. PICK t : t = Text(i)
  OBVIOUS
<1>2. saved \in Cursors /\ Placed(saved) /\ Behind(Carried, saved) /\ Carried \subseteq 1..written
  BY DEF TypeInv, TypeOK, Places, TellsOn, Told
<1>3. PICK off \in Nat : off = saved.off
  <2>1. setup.lines \in Nat
    BY SetupIs DEF TypeInv, TypeOK, WorldTypeOK
  <2> QED
    BY <1>2, <2>1 DEF Cursors, Positions
<1>4. /\ DOMAIN t = 1..Len(t) /\ Len(t) \in Nat /\ written \in Nat
      /\ \A x \in DOMAIN t : t[x] \in Nat /\ t[x] > 0
      /\ \A x, y \in DOMAIN t : x < y => t[x] < t[y]
  BY <1>1, LinesAre DEF TypeInv, Renamed, Rising
<1>5. \A l \in Carried : l \in Nat
  BY <1>2, <1>4
<1>6. writer = i /\ 0 \in Numbers /\ \A n \in Numbers : 0 <= n
  BY WriterHas, NumbersAre, NoneIs DEF TypeInv
<1>7. off = 0 => saved.anchor = None
  BY <1>2, <1>3 DEF Placed
<1>8. off # 0 => saved.anchor # None
  BY <1>2, <1>3 DEF Placed
<1>9. PICK fp : fp = saved.fp
  OBVIOUS
<1>10. PICK anchor : anchor = saved.anchor
  OBVIOUS
<1>11. off # 0 => \A l \in Carried : l <= anchor
  BY <1>2, <1>3, <1>10 DEF Behind
<1>12. off = 0 /\ fp # None => \A l \in Carried : l < fp
  BY <1>2, <1>3, <1>9 DEF Behind
<1>13. off = 0 /\ fp = None => AheadOf(Carried, i)
  BY <1>2, <1>3, <1>6, <1>9 DEF Behind
<1>14. (Verdict(i) = "continue") <=> /\ i = saved.ino
                                     /\ ~(fp # None /\ t # <<>> /\ FirstLine(t) # fp)
                                     /\ ~(fp # None /\ t = <<>>)
                                     /\ ~(Len(t) < off)
                                     /\ Anchor(t, off) = anchor
  BY <1>1, <1>3, <1>9, <1>10 DEF Verdict
<1>15. ASSUME Verdict(i) = "continue"
       PROVE  /\ off # 0 => off \in DOMAIN t /\ t[off] = anchor
              /\ off = 0 => AheadOf(Carried, i)
  <2>1. off # 0 => off \in DOMAIN t /\ t[off] = anchor
    BY <1>4, <1>14, <1>15 DEF Anchor
  <2>2. fp # None => 1 \in DOMAIN t /\ t[1] = fp
    BY <1>4, <1>14, <1>15 DEF FirstLine
  <2>3. off = 0 /\ fp # None => AheadOf(Carried, i)
    <3>1. fp # None => \A y \in DOMAIN t : fp <= t[y]
      BY <1>4, <2>2
    <3> QED
      BY <1>1, <1>4, <1>5, <1>12, <2>2, <3>1 DEF AheadOf, Later
  <2> QED
    BY <1>13, <2>1, <2>3
<1>16. ASSUME Verdict(i) # "continue" PROVE AheadOf(Carried, i)
  <2>1. ASSUME NEW l \in MarksOf(saved), HasLine(i, l) PROVE FALSE
    <3>1. i = saved.ino /\ Sits(i, off, anchor, fp)
      BY <1>2, <1>3, <1>6, <1>9, <1>10, <2>1 DEF Placed
    <3>2. fp # None => t # <<>> /\ FirstLine(t) = fp
      BY <1>1, <1>4, <3>1 DEF Sits, FirstLine
    <3>3. off # 0 => off \in DOMAIN t /\ t[off] = anchor
      BY <1>1, <3>1 DEF Sits
    <3>4. ~(Len(t) < off) /\ Anchor(t, off) = anchor
      BY <1>4, <1>7, <1>10, <3>3 DEF Anchor
    <3> QED
      BY <1>14, <1>16, <3>1, <3>2, <3>4
  <2>2. \A l \in MarksOf(saved) : Later(l, i) /\ l \in Nat
    BY <1>2, <1>4, <1>6, <2>1 DEF Placed
  <2>3. CASE off # 0
    <3>1. anchor \in MarksOf(saved)
      BY <1>8, <1>10, <2>3 DEF MarksOf
    <3> QED
      BY <1>1, <1>4, <1>5, <1>11, <2>2, <2>3, <3>1 DEF AheadOf, Later
  <2>4. CASE off = 0 /\ fp # None
    <3>1. fp \in MarksOf(saved)
      BY <1>9, <2>4 DEF MarksOf
    <3> QED
      BY <1>1, <1>4, <1>5, <1>12, <2>2, <2>4, <3>1 DEF AheadOf, Later
  <2> QED
    BY <1>13, <2>3, <2>4
<1> QED
  BY <1>1, <1>3, <1>10, <1>11, <1>15, <1>16

LEMMA OpenOrder ==
  ASSUME TypeInv, Renaming, OrderInv, setup' = setup, Open
  PROVE  OrderInv'
<1> USE DEF OrderInv
<1>1. PICK i : i = dir[Live]
  OBVIOUS
<1>2. PICK v : v = Opened(i)
  OBVIOUS
<1>3. /\ pc = "idle" /\ i # None /\ live' = v
      /\ pc' = (IF Verdict(i) \in {"continue", "first-sight"} THEN "live" ELSE "list")
      /\ calm' = (setup.spaced => rot = AtRest)
      /\ UNCHANGED <<file, dir, writer, rot, written, saved, listing, queue, chain, last, got, mailed, warned>>
  BY <1>1, <1>2 DEF Open, search
<1>4. Same
  BY <1>3 DEF Same
<1>5. Plain(0) = i /\ i \in Inodes /\ 0 \in Numbers
  BY <1>1, <1>3, PlainIs, NumbersAre DEF Plain, TypeInv
<1>6. /\ listing = {} /\ queue = <<>> /\ chain = <<>> /\ got = <<>> /\ last = None
  BY <1>3 DEF Stage
<1>7. PICK t : t = Text(i)
  OBVIOUS
<1>8. PICK off : off = StartOffset(Verdict(i), t)
  OBVIOUS
<1>9. /\ v.ino = i /\ v.fp = FirstLine(t) /\ v.start = off /\ v.off = off
      /\ v.seed = Anchor(t, off) /\ v.anchor = Anchor(t, off)
  BY <1>2, <1>7, <1>8 DEF Opened
<1>10. DOMAIN t = 1..Len(t) /\ Len(t) \in Nat /\ \A x \in DOMAIN t : t[x] \in Nat
  BY <1>5, <1>7, LinesAre DEF TypeInv
<1>11. saved = None => Verdict(i) = "first-sight"
  BY DEF Verdict
<1>12. saved # None => Verdict(i) \in {"continue", "rotated", "truncated"}
  BY DEF Verdict
<1>13. /\ Verdict(i) = "continue" => off = saved.off
       /\ Verdict(i) = "first-sight" => off \in {0, Len(t)}
       /\ Verdict(i) \in {"rotated", "truncated"} => off = 0
  BY <1>8 DEF StartOffset
<1>14. off # 0 => off \in DOMAIN t
  <2>1. CASE Verdict(i) = "continue"
    <3>1. saved # None
      BY <1>11, <2>1
    <3> QED
      BY <1>5, <1>7, <1>13, <2>1, <3>1, OpenTells
  <2>2. CASE Verdict(i) = "first-sight"
    BY <1>10, <1>13, <2>2
  <2> QED
    BY <1>11, <1>12, <1>13, <2>1, <2>2
<1>15. Sits(i, off, Anchor(t, off), FirstLine(t))
  <2>1. FirstLine(t) # None => 1 \in DOMAIN t /\ t[1] = FirstLine(t)
    BY <1>10 DEF FirstLine
  <2>2. off = 0 => Anchor(t, off) = None
    BY DEF Anchor
  <2>3. off # 0 => Anchor(t, off) = t[off]
    BY <1>10, <1>14 DEF Anchor
  <2> QED
    BY <1>7, <1>14, <2>1, <2>2, <2>3 DEF Sits
<1>16. LiveIs'
  <2>1. Sits(i, off, Anchor(t, off), FirstLine(t))' /\ Plain(0)' = i
    BY <1>4, <1>5, <1>15, SameWorld DEF Sits
  <2> QED
    BY <1>3, <1>9, <2>1 DEF LiveIs, Sits, Text
<1>17. Renamed'
  BY <1>4, SameRenamed
<1>18. Rests'
  <2>1. calm' => rot = AtRest
    BY <1>3, Zenon DEF Renaming
  <2> QED
    BY <1>4, <2>1 DEF Same, Rests, AtRest
<1>19. Stage'
  <2>1. pc' # "live" => off = 0
    BY <1>3, <1>11, <1>12, <1>13
  <2>2. pc' \in {"live", "list"}
    BY <1>3
  <2> QED
    BY <1>3, <1>6, <1>9, <2>1, <2>2 DEF Stage
<1>20. ListingIs' /\ ChainIs' /\ QueueIs'
  BY <1>3, <1>6 DEF ListingIs, ChainIs, QueueIs
<1>21. Unseen'
  <2>1. Plain(0)' = i /\ live'.ino = i
    BY <1>3, <1>4, <1>5, <1>9, SameWorld
  <2>2. live' # None
    <3>1. held' = {i}
      BY <1>1 DEF Open
    <3>2. TypeOK'
      BY OpenTypes DEF TypeInv
    <3>3. held' = IF live' = None THEN {} ELSE {live'.ino}
      BY <3>2 DEF TypeOK
    <3> QED
      BY <3>1, <3>3
  <2> QED
    BY <2>1, <2>2 DEF Unseen
<1>22. Places'
  BY <1>3, <1>4, PlacesStay
<1>23. InOrder' /\ MailedOnce'
  BY <1>3, <1>4, SameWorld DEF InOrder, MailedOnce
<1>24. TellsOn'
  <2>1. ToSet(got') = {}
    BY <1>3, <1>6 DEF ToSet
  <2>2. Carried \subseteq 1..written
    BY DEF TellsOn, Told
  <2>3. /\ off # 0 => \A l \in Carried : l <= Anchor(t, off)
        /\ off = 0 => AheadOf(Carried, i)
    <3>1. CASE saved = None
      <4>1. Carried = {}
        BY <3>1 DEF TellsOn
      <4> QED
        BY <4>1 DEF AheadOf
    <3>2. CASE saved # None /\ Verdict(i) = "continue"
      <4>1. off # 0 => Anchor(t, off) = t[off]
        BY <1>10, <1>14 DEF Anchor
      <4> QED
        BY <1>5, <1>7, <1>13, <3>2, <4>1, OpenTells
    <3>3. CASE saved # None /\ Verdict(i) # "continue"
      BY <1>5, <1>12, <1>13, <3>3, OpenTells
    <3> QED
      BY <3>1, <3>2, <3>3
  <2>4. ToSet(got') \cup Carried = Carried
    BY <2>1
  <2>5. pc' # "chain" /\ chain' = <<>>
    BY <1>3, <1>6
  <2> QED
    BY <1>3, <1>4, <1>5, <1>9, <2>1, <2>2, <2>3, <2>4, <2>5, LiveTells
<1> QED
  BY <1>16, <1>17, <1>18, <1>19, <1>20, <1>21, <1>22, <1>23, <1>24

LEMMA ReadLiveOrder ==
  ASSUME TypeInv, OrderInv, setup' = setup, ReadLive
  PROVE  OrderInv'
<1> USE DEF OrderInv
<1>1. live \in LogFiles /\ live # None
  BY DEF ReadLive, TypeInv, TypeOK
<1>2. PICK i \in Inodes : i = live.ino
  BY <1>1 DEF LogFiles
<1>3. PICK off \in Nat : off = live.off
  <2>1. setup.lines \in Nat
    BY SetupIs DEF TypeInv, TypeOK, WorldTypeOK
  <2> QED
    BY <1>1, <2>1 DEF LogFiles, Positions
<1>4. PICK t : t = Text(i)
  OBVIOUS
<1>5. PICK r : r = Rest(t, off)
  OBVIOUS
<1>6. PICK v : v = [live EXCEPT !.off = Len(t), !.anchor = Anchor(t, Len(t))]
  OBVIOUS
<1>7. /\ pc = "live" /\ Len(t) > off /\ pc' = "live" /\ got' = got \o r /\ live' = v
      /\ UNCHANGED <<world, saved, listing, queue, chain, last, mailed, warned, calm>>
  BY <1>2, <1>3, <1>4, <1>5, <1>6 DEF ReadLive, search, history
<1>8. Same
  BY <1>7 DEF Same, world
<1>9. /\ DOMAIN t = 1..Len(t) /\ Len(t) \in Nat /\ written \in Nat
      /\ \A x \in DOMAIN t : t[x] \in Nat /\ t[x] > 0 /\ t[x] <= written
      /\ \A x, y \in DOMAIN t : x < y => t[x] < t[y]
  BY <1>4, LinesAre DEF TypeInv, Renamed, Rising
<1>10. PICK n : n = Len(t)
  OBVIOUS
<1>11. n \in DOMAIN t /\ n # 0 /\ Anchor(t, n) = t[n] /\ off < n /\ \A y \in DOMAIN t : t[y] <= t[n]
  <2>1. n \in DOMAIN t /\ n # 0 /\ off < n /\ n \in Nat
    BY <1>7, <1>9, <1>10
  <2>2. Anchor(t, n) = t[n]
    BY <1>10, <2>1 DEF Anchor
  <2>3. ASSUME NEW y \in DOMAIN t PROVE t[y] <= t[n]
    <3>1. y = n \/ y < n
      BY <1>9, <1>10
    <3> QED
      BY <1>9, <2>1, <3>1
  <2> QED
    BY <2>1, <2>2, <2>3
<1>12. /\ v.ino = i /\ v.off = n /\ v.anchor = t[n] /\ v.fp = live.fp
       /\ v.start = live.start /\ v.seed = live.seed
  BY <1>1, <1>2, <1>6, <1>10, <1>11 DEF LogFiles
<1>13. /\ Plain(0) = i \/ (Plain(1) = i /\ ~calm /\ rot > Kept)
       /\ Sits(i, off, live.anchor, live.fp) /\ Sits(i, live.start, live.seed, live.fp)
  BY <1>1, <1>2, <1>3 DEF LiveIs
<1>14. /\ r \in Seq(Lines) /\ Rises(r)
       /\ \A x \in DOMAIN r : \E y \in DOMAIN t : off < y /\ r[x] = t[y]
  BY <1>4, <1>5, FileReads DEF TypeInv
<1>15. \A l \in ToSet(r) : \E y \in DOMAIN t : off < y /\ l = t[y]
  BY <1>14 DEF ToSet
<1>16. PICK T : T = Told
  OBVIOUS
<1>17. T = ToSet(got) \cup Carried /\ T \subseteq 1..written /\ ToSet(got) \cap Carried = {}
  BY <1>16 DEF Told, TellsOn
<1>18. \A l \in T : l \in Nat /\ \A y \in DOMAIN t : off < y => l < t[y]
  <2>1. \A l \in T : l \in Nat
    BY <1>9, <1>17
  <2>2. CASE off # 0
    <3>1. off \in DOMAIN t /\ \A l \in T : l <= t[off]
      BY <1>1, <1>3, <1>4, <1>13, <1>16, <2>2 DEF Sits, TellsOn
    <3> QED
      BY <1>9, <2>1, <3>1
  <2>3. CASE off = 0
    <3>1. AheadOf(T, i)
      BY <1>1, <1>2, <1>3, <1>16, <2>3 DEF TellsOn
    <3> QED
      BY <1>4, <2>1, <3>1 DEF AheadOf, Later
  <2> QED
    BY <2>2, <2>3
<1>19. \A l \in T, m \in ToSet(r) : l < m
  BY <1>15, <1>18
<1>20. got' \in Seq(Lines) /\ Rises(got') /\ ToSet(got') = ToSet(got) \cup ToSet(r)
  <2>1. got \in Seq(Lines) /\ Rises(got) /\ setup.lines \in Nat
    BY <1>4, TextIs DEF TypeInv, TypeOK, InOrder, Rises
  <2> QED
    BY <1>7, <1>14, <1>17, <1>19, <2>1, ReadsJoin
<1>21. PICK N : N = ToSet(got') \cup Carried
  OBVIOUS
<1>22. N = T \cup ToSet(r)
  BY <1>17, <1>20, <1>21
<1>23. N \subseteq 1..written
  <2>1. \A l \in ToSet(r) : l \in 1..written
    BY <1>9, <1>15
  <2> QED
    BY <1>17, <1>22, <2>1
<1>24. ToSet(got') \cap Carried = {}
  BY <1>17, <1>18, <1>19, <1>20
<1>25. \A l \in N : l <= t[n]
  BY <1>9, <1>11, <1>15, <1>18, <1>22
<1>26. ASSUME NEW j \in Inodes, Plain(0) = j, j # i PROVE AheadOf(N, j)
  <2>1. AheadOf(T, j)
    BY <1>1, <1>2, <1>16, <1>26 DEF TellsOn
  <2>2. Plain(1) = i /\ 0 \in Numbers /\ 1 \in Numbers
    BY <1>13, <1>26, NumbersAre
  <2>3. Earlier(i, j)
    BY <1>26, <2>2 DEF Renamed, InAge
  <2>4. \A l \in ToSet(r) : Later(l, j)
    BY <1>4, <1>15, <2>3 DEF Earlier
  <2> QED
    BY <1>22, <2>1, <2>4 DEF AheadOf
<1>27. chain' = <<>> /\ queue' = <<>> /\ pc' # "chain"
  BY <1>7 DEF Stage
<1>28. TellsOn'
  BY <1>7, <1>8, <1>11, <1>12, <1>21, <1>23, <1>24, <1>25, <1>26, <1>27, LiveTells
<1>29. Renamed'
  BY <1>8, SameRenamed
<1>30. Rests' /\ Stage'
  BY <1>7, <1>8, <1>27 DEF Same, Rests, Stage, AtRest
<1>31. LiveIs'
  <2>1. Sits(i, n, t[n], live.fp)
    BY <1>4, <1>11, <1>13 DEF Sits
  <2>2. Sits(i, v.off, v.anchor, v.fp)' /\ Sits(i, v.start, v.seed, v.fp)'
    BY <1>8, <1>12, <1>13, <2>1, SameWorld DEF Sits
  <2>3. Plain(0)' = i \/ (Plain(1)' = i /\ ~calm' /\ rot' > Kept)
    BY <1>7, <1>8, <1>13, SameWorld DEF Same
  <2> QED
    BY <1>7, <1>12, <2>2, <2>3 DEF LiveIs, Sits, Text
<1>32. ListingIs'
  BY <1>7, <1>8, ListingStays
<1>33. Unseen'
  <2>1. (\A k : Plain(k)' = Plain(k)) /\ \A l, j : Later(l, j)' <=> Later(l, j)
    BY <1>8, SameWorld
  <2>2. live'.ino = live.ino /\ live' # None
    <3>1. TypeOK'
      BY ReadLiveTypes DEF TypeInv
    <3>2. pc' = "live" => live' # None
      BY <3>1 DEF TypeOK
    <3> QED
      BY <1>2, <1>7, <1>12, <3>2
  <2> QED
    BY <1>1, <1>7, <2>1, <2>2 DEF Unseen
<1>34. QueueIs' /\ ChainIs'
  BY <1>27 DEF QueueIs, ChainIs
<1>35. Places'
  BY <1>7, <1>8, PlacesStay
<1>36. InOrder' /\ MailedOnce'
  BY <1>7, <1>8, <1>20, SameWorld DEF InOrder, Rises, MailedOnce
<1> QED
  BY <1>28, <1>29, <1>30, <1>31, <1>32, <1>33, <1>34, <1>35, <1>36

\* What a run that ends has to leave: a position behind all that was mailed.
LEMMA EndOrder ==
  ASSUME TypeInv, OrderInv, setup' = setup, Ended, MailedOnce', NEW D, Carried' = D, D \subseteq 1..written,
         NEW c, saved' = c, c = None => D = {},
         c # None => c.ino \in Inodes /\ Placed(c) /\ Behind(D, c)
  PROVE  OrderInv'
<1> USE DEF OrderInv
<1>1. Moved /\ Renamed'
  BY EndedMoves, EndedRenamed DEF TypeInv
<1>2. /\ pc' = "idle" /\ live' = None /\ listing' = {} /\ queue' = <<>> /\ chain' = <<>>
      /\ last' = None /\ got' = <<>> /\ written' = written
  BY DEF Ended
<1>3. Rests' /\ Stage' /\ LiveIs' /\ ListingIs' /\ Unseen'
  BY <1>2 DEF Rests, Stage, LiveIs, ListingIs, Unseen
<1>4. QueueIs' /\ ChainIs'
  BY <1>2 DEF QueueIs, ChainIs
<1>5. Places'
  <2>1. c # None => Placed(c)'
    BY <1>1, PlacedGoesOn DEF TypeInv
  <2> QED
    BY <1>2, <2>1, SavedNext DEF Places
<1>6. InOrder'
  BY <1>2 DEF InOrder
<1>7. Told' = D /\ ToSet(got)' = {}
  BY <1>2 DEF Told, ToSet
<1>8. saved' # None => Behind(D, saved)'
  <2>1. c # None => Behind(D, c)'
    BY <1>1, BehindGoesOn
  <2> QED
    BY <2>1 DEF Behind, Plain, AheadOf, Later, Text
<1>9. TellsOn'
  BY <1>2, <1>7, <1>8 DEF TellsOn
<1> QED
  BY <1>1, <1>3, <1>4, <1>5, <1>6, <1>9

LEMMA FewerBehind ==
  ASSUME NEW S, NEW D, D \subseteq S, NEW c, Behind(S, c)
  PROVE  Behind(D, c)
BY DEF Behind, AheadOf

\* The positions a run may end with.
LEMMA ParkedPlaced ==
  ASSUME TypeInv, OrderInv, pc = "chain"
  PROVE  Parked # None /\ Parked.ino \in Inodes /\ Placed(Parked) /\ Behind(Told, Parked)
<1> USE DEF OrderInv
<1>1. saved # None /\ saved \in Cursors
  BY DEF TypeInv, TypeOK
<1>2. CASE last = None
  <2>1. Parked = saved /\ got = <<>>
    BY <1>2 DEF Parked, TellsOn
  <2>2. Told = Carried
    BY <2>1 DEF Told, ToSet
  <2> QED
    BY <1>1, <2>1, <2>2 DEF Places, TellsOn, Cursors
<1>3. CASE last # None
  <2>1. PICK c : c = Parked
    OBVIOUS
  <2>2. /\ c.off = last.off /\ c.ino = last.ino /\ c.fp = last.fp /\ c.anchor = last.anchor
    BY <1>3, <2>1 DEF Parked
  <2>3. last \in Segments /\ Placed(last) /\ Behind(Told, last)
    BY <1>3 DEF TypeInv, TypeOK, Places, TellsOn
  <2>4. MarksOf(c) = MarksOf(last)
    BY <2>2 DEF MarksOf
  <2>5. Placed(c)
    BY <2>2, <2>3, <2>4 DEF Placed
  <2>6. Behind(Told, c)
    BY <2>2, <2>3 DEF Behind
  <2>7. c # None
    <3>1. c \in Cursors
      <4>1. now \in Seconds /\ \A x \in Tokens : x \in Marks
        BY DEF TypeInv, TypeOK, WorldTypeOK, Seconds, Marks
      <4> QED
        BY <1>3, <2>1, <2>3, <4>1 DEF Parked, Cursors, Segments
    <3> QED
      BY <3>1, NoneIsNot, SetupIs DEF TypeInv, TypeOK, WorldTypeOK
  <2> QED
    BY <2>1, <2>2, <2>3, <2>5, <2>6, <2>7 DEF Segments
<1> QED
  BY <1>2, <1>3

LEMMA LivePlaced ==
  ASSUME TypeInv, OrderInv, live # None
  PROVE  /\ LiveCursor # None /\ LiveCursor.ino \in Inodes /\ Placed(LiveCursor) /\ Behind(Told, LiveCursor)
         /\ StartCursor # None /\ StartCursor.ino \in Inodes /\ Placed(StartCursor)
         /\ StillTheFile
<1> USE DEF OrderInv
<1>1. PICK i \in Inodes : i = live.ino
  BY DEF TypeInv, TypeOK, LogFiles
<1>2. PICK k \in {0, 1} : Plain(k) = i
  BY <1>1 DEF LiveIs
<1>3. k \in Numbers /\ 0 \in Numbers /\ k \in Nat
  BY NumbersAre
<1>4. Sits(i, live.off, live.anchor, live.fp) /\ Sits(i, live.start, live.seed, live.fp)
  BY <1>1 DEF LiveIs
<1>5. PICK c : c = LiveCursor
  OBVIOUS
<1>6. PICK s : s = StartCursor
  OBVIOUS
<1>7. /\ c.ino = i /\ c.off = live.off /\ c.anchor = live.anchor /\ c.fp = live.fp
      /\ s.ino = i /\ s.off = live.start /\ s.anchor = live.seed /\ s.fp = live.fp
  BY <1>1, <1>5, <1>6 DEF LiveCursor, StartCursor
<1>8. Placed(c) /\ Placed(s)
  BY <1>2, <1>3, <1>4, <1>7, PlaceOfFile DEF TypeInv
<1>9. c # None /\ s # None
  BY <1>5, <1>6, EndCursors, NoneIsNot, SetupIs DEF TypeInv, TypeOK, WorldTypeOK
<1>10. PICK t : t = Text(i)
  OBVIOUS
<1>11. DOMAIN t = 1..Len(t) /\ Len(t) \in Nat /\ written \in Nat /\ \A x \in DOMAIN t : t[x] \in Nat
  BY <1>10, LinesAre DEF TypeInv
<1>12. Behind(Told, c)
  <2>1. live.off # 0 => \A l \in Told : l <= live.anchor
    BY DEF TellsOn
  <2>2. live.off = 0 => AheadOf(Told, i)
    BY <1>1 DEF TellsOn
  <2>3. live.off = 0 /\ live.fp # None => \A l \in Told : l < live.fp
    BY <1>4, <2>2 DEF Sits, AheadOf, Later
  <2>4. ASSUME live.off = 0, NEW m \in Numbers, NEW j \in Inodes, Plain(m) = j,
               \A n \in Numbers : Plain(n) = i => m <= n
        PROVE  AheadOf(Told, j)
    <3>1. m <= k /\ m \in Nat
      BY <1>2, <1>3, <2>4, NumbersAre
    <3>2. CASE m = k
      BY <1>2, <2>2, <2>4, <3>2
    <3>3. CASE m # k
      <4>1. m = 0 /\ k = 1
        BY <1>2, <3>1, <3>3
      <4>2. j # i
        BY <1>2, <1>3, <2>4, <3>3, NoneIs DEF Renamed, OneName
      <4> QED
        BY <1>1, <2>4, <4>1, <4>2 DEF TellsOn
    <3> QED
      BY <3>2, <3>3
  <2> QED
    BY <1>7, <2>1, <2>3, <2>4 DEF Behind
<1>13. StillTheFile
  <2>1. PICK off \in Nat : off = live.off
    <3>1. setup.lines \in Nat
      BY SetupIs DEF TypeInv, TypeOK, WorldTypeOK
    <3> QED
      BY <3>1 DEF TypeInv, TypeOK, LogFiles, Positions
  <2>2. Len(t) >= off /\ Anchor(t, off) = live.anchor
    BY <1>4, <1>10, <1>11, <2>1 DEF Sits, Anchor
  <2>3. live.fp # None => FirstLine(t) = live.fp
    BY <1>4, <1>10, <1>11 DEF Sits, FirstLine
  <2> QED
    BY <1>1, <1>10, <2>1, <2>2, <2>3 DEF StillTheFile
<1> QED
  BY <1>5, <1>6, <1>7, <1>8, <1>9, <1>12, <1>13

LEMMA FinishOrder ==
  ASSUME TypeInv, OrderInv, setup' = setup, NEW cursor, Finish(cursor), saved = None => live # None,
         cursor # None, cursor.ino \in Inodes, Placed(cursor), Behind(Told, cursor)
  PROVE  OrderInv'
<1> USE DEF OrderInv
<1>1. Ended /\ Lines' = Lines /\ warned' = warned
  BY DEF Finish, Ended, Lines
<1>2. /\ got \in Seq(Lines) /\ mailed \in [Lines -> 0..2] /\ Told \subseteq 1..written /\ Carried \subseteq Told
      /\ ToSet(got) \cap Carried = {}
  BY DEF TypeInv, TypeOK, TellsOn, Told
<1> DEFINE count(l) == Cardinality({i \in DOMAIN got : got[i] = l})
<1>3. ASSUME NEW l \in Lines
      PROVE  count(l) = IF l \in ToSet(got) THEN 1 ELSE 0
  <2>1. CASE l \notin ToSet(got)
    <3>1. {i \in DOMAIN got : got[i] = l} = {}
      BY <2>1 DEF ToSet
    <3> QED
      BY <2>1, <3>1, FS_EmptySet
  <2>2. CASE l \in ToSet(got)
    <3>1. PICK x \in DOMAIN got : got[x] = l
      BY <2>2 DEF ToSet
    <3>2. setup.lines \in Nat
      BY SetupIs DEF TypeInv, TypeOK, WorldTypeOK
    <3>3. ASSUME NEW y \in DOMAIN got, got[y] = l PROVE y = x
      <4>1. x \in Nat /\ y \in Nat /\ l \in Nat
        BY <1>2, <3>2 DEF Lines
      <4>2. ~(x < y) /\ ~(y < x)
        BY <3>1, <3>3, <4>1 DEF InOrder
      <4> QED
        BY <4>1, <4>2
    <3>4. {i \in DOMAIN got : got[i] = l} = {x}
      BY <3>1, <3>3
    <3> QED
      BY <2>2, <3>4, FS_Singleton
  <2> QED
    BY <2>1, <2>2
<1>4. CASE /\ saved' = cursor
           /\ mailed' = [l \in Lines |-> LET n == mailed[l] + count(l) IN IF n > 2 THEN 2 ELSE n]
  <2> HIDE DEF count
  <2>1. \A l \in Lines : mailed'[l] = LET n == mailed[l] + count(l) IN IF n > 2 THEN 2 ELSE n
    BY <1>4
  <2>2. \A l \in Lines : mailed[l] \in 0..2
    BY <1>2
  <2>3. ASSUME NEW l \in Lines, ~warned, mailed'[l] > 0 PROVE l \in Told
    <3>1. CASE l \in ToSet(got)
      BY <3>1 DEF Told
    <3>2. CASE l \notin ToSet(got)
      <4>1. mailed[l] > 0
        BY <1>3, <2>1, <2>2, <2>3, <3>2
      <4> QED
        BY <1>2, <2>3, <4>1 DEF Carried
    <3> QED
      BY <3>1, <3>2
  <2>4. Carried' \subseteq Told
    BY <1>1, <2>3 DEF Carried
  <2>5. MailedOnce'
    <3>1. ASSUME NEW l \in Lines, ~warned PROVE mailed'[l] < 2
      <4>1. CASE l \in ToSet(got)
        <5>1. l \notin Carried
          BY <1>2, <4>1
        <5>2. mailed[l] = 0
          BY <2>2, <3>1, <5>1 DEF Carried
        <5> QED
          BY <1>3, <2>1, <4>1, <5>2
      <4>2. CASE l \notin ToSet(got)
        <5>1. mailed[l] < 2
          BY <3>1 DEF MailedOnce
        <5> QED
          BY <1>3, <2>1, <2>2, <4>2, <5>1
      <4> QED
        BY <4>1, <4>2
    <3> QED
      BY <1>1, <3>1 DEF MailedOnce
  <2>6. PICK D : D = Carried'
    OBVIOUS
  <2>7. D \subseteq 1..written /\ Behind(D, cursor)
    BY <1>2, <2>4, <2>6, FewerBehind
  <2> QED
    BY <1>1, <1>4, <2>5, <2>6, <2>7, EndOrder
<1>5. CASE saved' = (IF saved = None THEN StartCursor ELSE saved) /\ mailed' = mailed
  <2>1. PICK D : D = Carried
    OBVIOUS
  <2>2. Carried' = D /\ MailedOnce'
    BY <1>1, <1>5, <2>1 DEF Carried, MailedOnce
  <2>3. PICK c : c = IF saved = None THEN StartCursor ELSE saved
    OBVIOUS
  <2>4. D \subseteq 1..written
    BY <1>2, <2>1
  <2>5. c # None /\ c.ino \in Inodes /\ Placed(c) /\ Behind(D, c)
    <3>1. CASE saved = None
      <4>1. D = {}
        BY <2>1, <3>1 DEF TellsOn
      <4>2. Behind(D, c)
        BY <4>1 DEF Behind, AheadOf
      <4> QED
        BY <2>3, <3>1, <4>2, LivePlaced
    <3>2. CASE saved # None
      BY <2>1, <2>3, <3>2 DEF TypeInv, TypeOK, Cursors, Places, TellsOn
    <3> QED
      BY <3>1, <3>2
  <2>6. saved' = c
    BY <1>5, <2>3, Zenon
  <2> QED
    BY <1>1, <2>2, <2>4, <2>5, <2>6, EndOrder
<1> QED
  BY <1>4, <1>5 DEF Finish

LEMMA EndsOrder ==
  ASSUME TypeInv, OrderInv, setup' = setup, Stopped \/ NoLiveRead \/ LiveEnds \/ LiveTruncated
  PROVE  OrderInv'
<1>1. pc = "chain" => saved # None
  BY DEF TypeInv
<1>2. CASE Stopped \/ NoLiveRead
  <2>1. pc = "chain" /\ Finish(Parked)
    BY <1>2 DEF Stopped, NoLiveRead
  <2> QED
    BY <1>1, <2>1, ParkedPlaced, FinishOrder
<1>3. CASE LiveEnds
  <2>1. live # None /\ Finish(LiveCursor)
    BY <1>3 DEF LiveEnds, TypeInv, TypeOK
  <2> QED
    BY <2>1, LivePlaced, FinishOrder
<1>4. ~LiveTruncated
  BY LivePlaced DEF LiveTruncated, TypeInv, TypeOK
<1> QED
  BY <1>2, <1>3, <1>4

LEMMA DiesOrder ==
  ASSUME TypeInv, OrderInv, setup' = setup, Dies
  PROVE  OrderInv'
<1> USE DEF OrderInv
<1>1. Ended /\ saved' = saved /\ mailed' = mailed /\ warned' = warned /\ Lines' = Lines
  BY DEF Dies, Ended, Lines
<1>2. PICK D : D = Carried
  OBVIOUS
<1>3. PICK c : c = saved
  OBVIOUS
<1>4. Carried' = D /\ MailedOnce'
  BY <1>1, <1>2 DEF Carried, MailedOnce
<1>5. D \subseteq 1..written /\ (c = None => D = {})
  BY <1>2, <1>3 DEF TellsOn, Told
<1>6. c # None => c.ino \in Inodes /\ Placed(c) /\ Behind(D, c)
  BY <1>2, <1>3 DEF TypeInv, TypeOK, Cursors, Places, TellsOn
<1> QED
  BY <1>1, <1>3, <1>4, <1>5, <1>6, EndOrder

LEMMA OrderInit == Init /\ Renaming => OrderInv
<1> SUFFICES ASSUME Init, Renaming PROVE OrderInv
  OBVIOUS
<1>1. TypeInv /\ WorldTypes
  BY TypesInit DEF TypeInv
<1>2. PICK i \in Inodes :
        /\ writer = i /\ dir = [n \in Names |-> IF n = Live THEN i ELSE None]
        /\ file = [j \in Inodes |-> IF j = i THEN [Blank EXCEPT !.text = Fresh(0)] ELSE Blank]
  BY DEF Init, WorldInit
<1>3. /\ pc = "idle" /\ live = None /\ listing = {} /\ queue = <<>> /\ chain = <<>> /\ last = None
      /\ got = <<>> /\ saved = None /\ mailed = [l \in Lines |-> 0] /\ warned = FALSE /\ calm = TRUE
      /\ rot = AtRest
  BY DEF Init, WorldInit, Idle
<1>4. Plain(0) = i /\ \A k \in Numbers : k # 0 => Plain(k) = None
  <2>1. Plain(0) = i
    BY <1>2, NumbersAre DEF Plain
  <2>2. ASSUME NEW k \in Numbers, k # 0 PROVE Plain(k) = None
    <3>1. <<k, FALSE>> \in Names /\ <<k, FALSE>> # Live
      BY <2>2, NumbersAre, NamesDiffer DEF Live
    <3> QED
      BY <1>2, <3>1 DEF Plain
  <2> QED
    BY <2>1, <2>2
<1>5. \A k \in 1..Kept + 1 : dir[<<k, TRUE>>] = None
  <2>1. ASSUME NEW k \in 1..Kept + 1 PROVE dir[<<k, TRUE>>] = None
    <3>1. <<k, TRUE>> \in Names /\ <<k, TRUE>> # Live
      BY NamesAre, NamesDiffer DEF Live
    <3> QED
      BY <1>2, <3>1
  <2> QED
    BY <2>1
<1>6. \A j \in Inodes : Text(j) = <<>> \/ Text(j) = <<1>>
  <2>1. Fresh(0) = <<>> \/ Fresh(0) = <<1>>
    BY DEF Fresh, Renaming
  <2>2. \A j \in Inodes : Text(j) = Fresh(0) \/ Text(j) = <<>>
    BY <1>2 DEF Text, Blank
  <2> QED
    BY <2>1, <2>2
<1>7. OneName /\ InAge
  <2>1. i # None /\ \A k \in Numbers : k \in Nat
    BY NoneIs, NumbersAre
  <2>2. OneName
    BY <1>4, <2>1 DEF OneName
  <2>3. InAge
    <3>1. ASSUME NEW k \in Numbers, NEW m \in Numbers, NEW g \in Inodes, NEW h \in Inodes,
                 k < m, Plain(k) = g, Plain(m) = h
          PROVE  FALSE
      <4>1. m # 0
        BY <2>1, <3>1
      <4> QED
        BY <1>4, <3>1, <4>1, NoneIs
    <3> QED
      BY <3>1 DEF InAge
  <2> QED
    BY <2>2, <2>3
<1>8. Rising
  <2>1. \A j \in Inodes : \A x \in DOMAIN Text(j) : Text(j)[x] = 1 /\ x = 1
    BY <1>6
  <2> QED
    BY <2>1 DEF Rising
<1>9. WriterIs /\ Room
  <2>1. rot = Kept + 1 /\ Kept \in Nat /\ AtRest # Remaking
    BY <1>3, NumbersAre DEF AtRest, Remaking
  <2>2. Plain(Kept + 1) = None
    BY <1>4, <2>1, NumbersAre
  <2> QED
    BY <1>2, <1>3, <1>4, <2>1, <2>2 DEF WriterIs, Room
<1>10. Renamed
  BY <1>5, <1>7, <1>8, <1>9 DEF Renamed, NoneIsPacked
<1>11. /\ Rests /\ Stage /\ LiveIs /\ ListingIs /\ QueueIs /\ ChainIs /\ Unseen /\ Places
       /\ InOrder /\ MailedOnce
  BY <1>3 DEF Rests, Stage, LiveIs, ListingIs, QueueIs, ChainIs, Unseen, Places, InOrder, MailedOnce
<1>12. TellsOn
  <2>1. Carried = {} /\ ToSet(got) = {} /\ Told = {}
    BY <1>3 DEF Carried, ToSet, Told
  <2> QED
    BY <1>3, <2>1 DEF TellsOn
<1> QED
  BY <1>10, <1>11, <1>12 DEF OrderInv

LEMMA OrderStep ==
  ASSUME TypeInv, Renaming, OrderInv, [Next]_vars
  PROVE  OrderInv'
<1>1. CASE UNCHANGED vars
  BY <1>1, UnchangedOrder
<1>2. CASE Next
  <2>1. setup' = setup
    BY <1>2 DEF Next
  <2>2. CASE RunNext
    <3>1. CASE Open
      BY <2>1, <3>1, OpenOrder
    <3>2. CASE Absent
      BY <2>1, <3>2, AbsentOrder
    <3>3. CASE NothingYet
      BY <3>3, UnchangedOrder DEF NothingYet
    <3>4. CASE List
      BY <2>1, <3>4, ListOrder
    <3>5. CASE Stat
      BY <2>1, <3>5, StatOrder
    <3>6. CASE TryRenamed \/ TryMisfit \/ TryUnreadable
      BY <2>1, <3>6, TryOrder
    <3>7. CASE TryFits
      BY <2>1, <3>7, TryFitsOrder
    <3>8. CASE Unmatched
      BY <2>1, <3>8, UnmatchedOrder
    <3>9. CASE ReadNext
      BY <2>1, <3>9, ReadNextOrder
    <3>10. CASE ToLive
      BY <2>1, <3>10, ToLiveOrder
    <3>11. CASE ReadLive
      BY <2>1, <3>11, ReadLiveOrder
    <3>12. CASE Stopped \/ NoLiveRead \/ LiveEnds \/ LiveTruncated
      BY <2>1, <3>12, EndsOrder
    <3> QED
      BY <2>2, <3>1, <3>2, <3>3, <3>4, <3>5, <3>6, <3>7, <3>8, <3>9, <3>10, <3>11, <3>12 DEF RunNext
  <2>3. CASE Dies
    BY <2>1, <2>3, DiesOrder
  <2>4. CASE Beside
    BY <2>1, <2>4, BesideOrder
  <2> QED
    BY <1>2, <2>2, <2>3, <2>4 DEF Next
<1> QED
  BY <1>1, <1>2

\* What a log is like stays, and with it what holds of one that is rotated by renaming.
LEMMA OrderHolds == Spec => [](TypeInv /\ (Renaming => OrderInv))
<1> DEFINE I == TypeInv /\ (Renaming => OrderInv)
<1>1. Init => I
  BY TypesInit, OrderInit
<1>2. I /\ [Next]_vars => I'
  <2> SUFFICES ASSUME I, [Next]_vars PROVE I'
    OBVIOUS
  <2>1. TypeInv'
    BY TypesStep
  <2>2. setup' = setup
    BY DEF Next, vars
  <2>3. Renaming' <=> Renaming
    BY <2>2 DEF Renaming
  <2>4. Renaming => OrderInv'
    BY OrderStep
  <2> QED
    BY <2>1, <2>3, <2>4
<1> HIDE DEF I
<1> QED
  BY <1>1, <1>2, PTL DEF Spec, I

\* However a log that is rotated by renaming moves beside the runs that read it, and whatever fails,
\* dies or cannot be read, a run reads the matched copy, the newer ones and the live file in the
\* order in which they were written (_oldest_first, CatchUpSource).
THEOREM ReadInOrder == Spec => [](Renaming => InOrder)
<1>1. TypeInv /\ (Renaming => OrderInv) => (Renaming => InOrder)
  BY DEF OrderInv
<1> QED
  BY <1>1, OrderHolds, PTL

\* Of such a log no line is in two accepted mails -- not from a copy that is the live handle's own
\* file, not by the run after one that stopped or parked on a copy -- unless a run has said that no
\* copy holds the saved position (issues #32, #65).
THEOREM NeverMailedTwice == Spec => [](Renaming => MailedOnce)
<1>1. TypeInv /\ (Renaming => OrderInv) => (Renaming => MailedOnce)
  BY DEF OrderInv
<1> QED
  BY <1>1, OrderHolds, PTL

-----------------------------------------------------------------------------
(* What every run owes: the lines of before this run that are not mailed *)

\* Every file has a first line to be known by, and a listing is one step.
Traceable == Renaming /\ setup.filled /\ "stat" \in Still

\* A line that does not lie behind a cursor.
Past(l, c) == IF c.off # 0 THEN c.anchor < l ELSE c.fp <= l
AllPast(S, c) == \A k \in Numbers, i \in Inodes, l \in S : Plain(k) = i /\ HasLine(i, l) => Past(l, c)

\* What is logalert's to mail and was neither mailed nor in a copy that it could not read; of it,
\* what this run has not read.
Unmailed == {l \in Lines : l >= origin /\ mailed[l] = 0 /\ l \notin lost}
Owed == Unmailed \ ToSet(got)

\* A line older than one that is still to be read: of a copy that is where it was listed, or of the
\* live file.  What is owed of it is in these copies.
Due(l, S) ==
  \/ \E a \in S : Plain(a.k) = a.ino /\ \E y \in DOMAIN Text(a.ino) : l < Text(a.ino)[y]
  \/ live # None /\ l < live.fp
Complete(S) ==
  \A k \in Numbers, i \in Inodes, l \in Owed :
    Plain(k) = i /\ HasLine(i, l) /\ Due(l, S) => \E a \in S : a.ino = i

Filled == \A k \in Numbers, i \in Inodes : Plain(k) = i => Text(i) # <<>>
Known == (saved # None => saved.fp # None) /\ (live # None => live.fp # None)

\* What is owed has not been passed: by the cursor, by the last copy read, by the live handle.
Owes ==
  /\ saved # None => AllPast(Unmailed, saved)
  /\ saved = None => \A l \in Lines : mailed[l] = 0
  /\ last # None => AllPast(Owed, last)
  /\ pc = "live" => AllPast(Owed, live)
  /\ saved = None /\ live # None =>
       \A l \in Lines : l >= origin => IF live.start # 0 THEN live.seed < l ELSE live.fp <= l

\* A copy that cannot be read is given up for good, unless it is the newest and still grows.
Spoiled ==
  \A k \in 1..Kept + 1, i \in Inodes : <<k, FALSE, i>> \in unreadable =>
    /\ live # None => live.ino # i
    /\ IF Plain(0) = i THEN ~calm /\ rot > Kept
       ELSE \/ \A y \in DOMAIN Text(i) : Text(i)[y] \in lost
            \/ live = None /\ Plain(1) = i /\ ~calm /\ rot > Kept

OweInv ==
  /\ Filled /\ Known
  /\ ~warned =>
       /\ Owes /\ Spoiled
       /\ pc = "idle" => unreadable = {}
       /\ pc = "stat" => names = {n \in Names : dir[n] # None}
       /\ pc = "try" => Complete(Readable(listing))
       /\ pc = "chain" => Complete(ToSet(chain))

\* A line that a file has under a name it had there before, where it is not a new one.
LEMMA OldLine ==
  ASSUME Moved, NEW k \in Numbers, NEW i \in Inodes, NEW l \in Nat, l <= written,
         Plain(k)' = i, HasLine(i, l)'
  PROVE  Longer(i) /\ HasLine(i, l) /\ \E m \in Numbers : Plain(m) = i
<1>1. NewFile(i) \/ (Longer(i) /\ \E m \in Numbers : Plain(m) = i)
  BY DEF Moved, NamesGoOn
<1>2. ~NewFile(i)
  BY LineGoesOn
<1>3. HasLine(i, l)
  BY <1>1, <1>2, LineGoesOn
<1> QED
  BY <1>1, <1>2, <1>3

\* The lines that a cursor knows have been written.
Young(c) == /\ c.fp \in Nat /\ c.fp <= written
            /\ c.off # 0 => c.anchor \in Nat /\ c.anchor <= written

LEMMA PastGoesOn ==
  ASSUME Moved, NEW S \in SUBSET Nat, NEW c, Young(c), AllPast(S, c)
  PROVE  AllPast(S, c)'
<1>1. ASSUME NEW k \in Numbers, NEW i \in Inodes, NEW l \in S, Plain(k)' = i, HasLine(i, l)'
      PROVE  Past(l, c)
  <2>1. l \in Nat /\ written \in Nat
    BY DEF Moved
  <2>2. CASE l <= written
    <3>1. HasLine(i, l) /\ \E m \in Numbers : Plain(m) = i
      BY <1>1, <2>1, <2>2, OldLine
    <3> QED
      BY <3>1 DEF AllPast
  <2>3. CASE ~(l <= written)
    BY <2>1, <2>3 DEF Young, Past
  <2> QED
    BY <2>2, <2>3
<1> QED
  BY <1>1 DEF AllPast, Past

LEMMA SavedYoung ==
  ASSUME WorldTypes, NEW c, Placed(c), c.fp # None
  PROVE  Young(c)
<1>1. written \in Nat
  BY DEF WorldTypes, WorldTypeOK
<1>2. c.fp \in MarksOf(c) /\ (c.off # 0 => c.anchor \in MarksOf(c))
  BY DEF Placed, MarksOf
<1> QED
  BY <1>1, <1>2 DEF Placed, Young

LEMMA LiveYoung ==
  ASSUME WorldTypes, Rising, NEW i \in Inodes, NEW c, Sits(i, c.off, c.anchor, c.fp), c.fp # None
  PROVE  Young(c) /\ (c.off # 0 => c.fp <= c.anchor)
<1>1. PICK t : t = Text(i)
  OBVIOUS
<1>2. /\ DOMAIN t = 1..Len(t) /\ Len(t) \in Nat
      /\ \A x \in DOMAIN t : t[x] \in Nat /\ t[x] <= written
      /\ \A x, y \in DOMAIN t : x < y => t[x] < t[y]
  BY <1>1, LinesAre DEF Rising
<1>3. /\ 1 \in DOMAIN t /\ t[1] = c.fp
      /\ c.off # 0 => c.off \in DOMAIN t /\ t[c.off] = c.anchor
  BY <1>1 DEF Sits
<1>4. Young(c)
  BY <1>2, <1>3 DEF Young
<1>5. ASSUME NEW x \in DOMAIN t PROVE t[1] <= t[x]
  <2>1. x = 1 \/ 1 < x
    BY <1>2
  <2> QED
    BY <1>2, <1>3, <2>1
<1> QED
  BY <1>3, <1>4, <1>5

LEMMA FilledBeside ==
  ASSUME TypeInv, Traceable, OrderInv, Filled, setup' = setup, Beside
  PROVE  Filled'
<1>1. Logged \/ Ticked \/ Begun \/ MovedUp \/ Made \/ Pruned
  BY BesideIs DEF Traceable, OrderInv
<1> SUFFICES ASSUME NEW k \in Numbers, NEW i \in Inodes, Plain(k)' = i PROVE Text(i)' # <<>>
  BY DEF Filled
<1>2. \A m \in Numbers : Plain(m) = i => 1 \in DOMAIN Text(i)
  <2>1. DOMAIN Text(i) = 1..Len(Text(i)) /\ Text(i) \in Seq(Nat)
    BY LinesAre DEF TypeInv
  <2>2. Text(i) # <<>> => 1 \in DOMAIN Text(i)
    <3>1. PICK t : t = Text(i)
      OBVIOUS
    <3> QED
      BY <2>1, <3>1
  <2> QED
    BY <2>2 DEF Filled
<1>3. CASE Made
  <2>1. PICK j \in Inodes : MadeAs(j)
    BY <1>3 DEF Made
  <2>2. CASE i = j
    <3>1. Text(i)' = <<written + 1>>
      BY <2>1, <2>2 DEF MadeAs, Traceable
    <3> QED
      BY <3>1
  <2>3. CASE i # j
    <3>1. Text(i)' = Text(i) /\ k # 0
      BY <2>1, <2>3 DEF MadeAs
    <3>2. Plain(k) = i
      BY <2>1, <3>1, NumbersAre DEF MadeAs
    <3> QED
      BY <3>1, <3>2 DEF Filled
  <2> QED
    BY <2>2, <2>3
<1>4. CASE ~Made
  <2>1. \E m \in Numbers : Plain(m) = i
    <3>1. CASE Logged \/ Ticked \/ Begun
      BY <3>1 DEF Logged, Ticked, Begun, SameNames
    <3>2. CASE MovedUp
      BY <3>2, MovedUpIs, NoneIs DEF OrderInv, TypeInv
    <3>3. CASE Pruned
      <4>1. k # Kept + 1
        BY <3>3, NoneIs DEF Pruned
      <4>2. k \in 0..Kept
        BY <4>1, NumbersAre DEF Numbers
      <4> QED
        BY <3>3, <4>2 DEF Pruned
    <3> QED
      BY <1>1, <1>4, <3>1, <3>2, <3>3
  <2>2. Longer(i) \/ (Pruned /\ Text(i)' = Text(i))
    <3>1. CASE Ticked \/ Begun \/ MovedUp
      BY <3>1, SameTextLonger DEF Ticked, Begun, MovedUp, SameTexts
    <3>2. CASE Logged
      <4>1. PICK m \in Numbers : Plain(m) = i
        BY <2>1
      <4>2. SameNames /\ Moved
        BY <3>2, LoggedMoves DEF Logged, OrderInv, TypeInv
      <4>3. NewFile(i) \/ Longer(i)
        BY <4>2 DEF Moved, NamesGoOn
      <4>4. CASE i = writer
        <5>1. PICK t : t = Text(i)
          OBVIOUS
        <5>2. Text(i)' = Append(t, written + 1) /\ t \in Seq(Nat) /\ 1 \in DOMAIN t /\ written \in Nat
          BY <3>2, <4>1, <4>4, <5>1, <1>2, LinesAre DEF Logged, TypeInv
        <5>3. 1 \in DOMAIN Append(t, written + 1) /\ Append(t, written + 1)[1] = t[1]
          BY <5>2
        <5>4. t[1] <= written /\ t[1] \in Nat
          BY <5>1, <5>2, LinesAre DEF TypeInv
        <5>5. ~NewFile(i)
          BY <5>2, <5>3, <5>4 DEF NewFile
        <5> QED
          BY <4>3, <5>5
      <4>5. CASE i # writer
        BY <3>2, <4>5, SameTextLonger DEF Logged
      <4> QED
        BY <4>4, <4>5
    <3>3. CASE Pruned
      <4>1. k # Kept + 1
        BY <3>3, NoneIs DEF Pruned
      <4>2. k \in 0..Kept
        BY <4>1, NumbersAre DEF Numbers
      <4> QED
        BY <3>3, <4>2 DEF Pruned
    <3> QED
      BY <1>1, <1>4, <3>1, <3>2, <3>3
  <2>3. 1 \in DOMAIN Text(i)
    BY <1>2, <2>1
  <2>4. 1 \in DOMAIN Text(i)'
    BY <2>2, <2>3 DEF Longer
  <2> QED
    BY <2>4
<1> QED
  BY <1>3, <1>4

\* What a step of the log does to the copies that were listed: one that is where it was listed was
\* there before, and only what the program writes to now grows.
LEMMA ListedBeside ==
  ASSUME TypeInv, Renaming, OrderInv, setup' = setup, Beside,
         NEW a \in listing, a.k > 0, Plain(a.k)' = a.ino
  PROVE  /\ Plain(a.k) = a.ino /\ a.k \in Numbers /\ a.ino \in Inodes
         /\ Text(a.ino)' = Text(a.ino)
            \/ (Logged /\ a.ino = writer /\ Text(a.ino)' = Append(Text(a.ino), written + 1))
<1> USE DEF OrderInv
<1>1. Logged \/ Ticked \/ Begun \/ MovedUp \/ Made \/ Pruned
  BY BesideIs
<1>2. a.k \in Numbers /\ a.k \in Nat /\ a.k \in 1..Kept + 1 /\ a.ino \in Inodes /\ Kept \in Nat
  BY NumbersAre DEF TypeInv, TypeOK, Copies, Numbers
<1>3. PICK k \in Numbers : k = a.k
  BY <1>2
<1>4. PICK i \in Inodes : i = a.ino
  BY <1>2
<1>5. \A m \in Numbers : Plain(m) = i => m = k \/ m = k + 1
  BY <1>3, <1>4 DEF ListingIs
<1>6. Plain(k)' = i /\ k \in 1..Kept + 1 /\ i # None
  BY <1>2, <1>3, <1>4, NoneIs
<1>7. CASE Logged \/ Ticked \/ Begun
  BY <1>3, <1>4, <1>6, <1>7 DEF Logged, Ticked, Begun, SameNames, SameTexts
<1>8. CASE MovedUp
  <2>1. PICK m \in Numbers : Plain(m) = i /\ k = (IF m = rot THEN rot + 1 ELSE m)
    BY <1>6, <1>8, MovedUpIs DEF TypeInv
  <2>2. m = k \/ m = k + 1
    BY <1>5, <2>1
  <2>3. m \in Nat /\ k \in Nat /\ (m = rot => k = m + 1)
    BY <2>1, NumbersAre
  <2>4. m = k
    BY <2>2, <2>3, <2>1
  <2> QED
    BY <1>3, <1>4, <1>8, <2>1, <2>4 DEF MovedUp, SameTexts
<1>9. CASE Made
  <2>1. PICK j \in Inodes : MadeAs(j)
    BY <1>9 DEF Made
  <2>2. Plain(k) = i
    BY <1>6, <2>1 DEF MadeAs
  <2>3. i # j
    BY <2>1, <2>2 DEF MadeAs
  <2>4. Text(i)' = Text(i)
    BY <2>1, <2>3 DEF MadeAs
  <2> QED
    BY <1>3, <1>4, <2>2, <2>4
<1>10. CASE Pruned
  <2>1. k # Kept + 1
    BY <1>6, <1>10 DEF Pruned
  <2>2. k \in 0..Kept
    BY <1>2, <1>6, <2>1
  <2>3. Plain(k) = i
    BY <1>6, <1>10, <2>2 DEF Pruned
  <2>4. Text(i)' = Text(i)
    BY <1>10, <2>2, <2>3 DEF Pruned
  <2> QED
    BY <1>3, <1>4, <2>3, <2>4
<1> QED
  BY <1>1, <1>2, <1>7, <1>8, <1>9, <1>10

LEMMA WrittenBeside ==
  ASSUME TypeInv, Renaming, OrderInv, setup' = setup, Beside
  PROVE  /\ written' \in {written, written + 1} /\ written \in Nat
         /\ \A i \in Inodes : \A y \in DOMAIN Text(i)' : Text(i)'[y] \in Nat /\ Text(i)'[y] <= written'
<1>1. Logged \/ Ticked \/ Begun \/ MovedUp \/ Made \/ Pruned
  BY BesideIs DEF OrderInv
<1>2. written' \in {written, written + 1}
  BY <1>1 DEF Logged, Ticked, Begun, MovedUp, Made, MadeAs, Pruned
<1>3. WorldTypes'
  BY WorldStepTypes DEF Beside, TypeInv
<1>4. ASSUME NEW i \in Inodes, NEW y \in DOMAIN Text(i)' PROVE Text(i)'[y] \in Nat /\ Text(i)'[y] <= written'
  <2>1. /\ setup.lines \in Nat /\ written' \in 0..setup.lines /\ Text(i)' \in Seq(0..setup.lines)
        /\ Numbered(Text(i)', written')
    BY <1>3, SetupIs DEF WorldTypes, WorldTypeOK, Tokens, Text, Numbered
  <2>2. PICK t : t = Text(i)'
    OBVIOUS
  <2>3. t[y] \in 0..setup.lines
    BY <1>4, <2>1, <2>2, ElementsAre
  <2> QED
    BY <1>4, <2>1, <2>2, <2>3 DEF Numbered
<1> QED
  BY <1>2, <1>4 DEF TypeInv, WorldTypes, WorldTypeOK

LEMMA CompleteBeside ==
  ASSUME TypeInv, Renaming, OrderInv, Filled, setup' = setup, Beside,
         live # None => live.fp \in Nat /\ live.fp <= written,
         NEW S \in SUBSET {a \in listing : a.k > 0}, Complete(S)
  PROVE  Complete(S)'
<1> USE DEF OrderInv
<1>1. Moved /\ UNCHANGED <<live, got, mailed, origin, lost>>
  BY BesideIs
<1>2. Owed' = Owed /\ Owed \subseteq Nat
  BY <1>1 DEF Owed, Unmailed, Lines
<1> SUFFICES ASSUME NEW k \in Numbers, NEW i \in Inodes, NEW l \in Owed,
                    Plain(k)' = i, HasLine(i, l)', Due(l, S)'
             PROVE  \E a \in S : a.ino = i
  BY <1>2 DEF Complete
<1>3. l \in Nat /\ written \in Nat
  BY <1>1, <1>2 DEF Moved
<1>4. CASE live # None /\ l < live.fp
  <2>1. l <= written
    BY <1>3, <1>4
  <2>2. HasLine(i, l) /\ \E m \in Numbers : Plain(m) = i
    BY <1>1, <1>3, <2>1, OldLine
  <2>3. Due(l, S)
    BY <1>4 DEF Due
  <2> QED
    BY <2>2, <2>3 DEF Complete
<1>5. ASSUME NEW a \in S, Plain(a.k)' = a.ino, NEW y \in DOMAIN Text(a.ino)', l < Text(a.ino)'[y]
      PROVE  \E b \in S : b.ino = i
  <2>1. /\ Plain(a.k) = a.ino /\ a.k \in Numbers /\ a.ino \in Inodes
        /\ Text(a.ino)' = Text(a.ino)
           \/ (Logged /\ a.ino = writer /\ Text(a.ino)' = Append(Text(a.ino), written + 1))
    BY <1>5, ListedBeside
  <2>2. PICK h \in Inodes : h = a.ino
    BY <2>1
  <2>3. l <= written
    <3>1. Text(h)'[y] \in Nat /\ Text(h)'[y] <= written' /\ written' \in {written, written + 1}
      BY <1>5, <2>2, WrittenBeside
    <3> QED
      BY <1>3, <1>5, <2>2, <3>1
  <2>4. HasLine(i, l) /\ \E m \in Numbers : Plain(m) = i
    BY <1>1, <1>3, <2>3, OldLine
  <2>5. CASE \E z \in DOMAIN Text(h) : l < Text(h)[z]
    <3>1. Due(l, S)
      BY <2>1, <2>2, <2>5 DEF Due
    <3> QED
      BY <2>4, <3>1 DEF Complete
  <2>6. CASE ~\E z \in DOMAIN Text(h) : l < Text(h)[z]
    <3>1. h = writer
      BY <1>5, <2>1, <2>2, <2>6
    <3>2. PICK m \in Numbers : Plain(m) = i
      BY <2>4
    <3>3. i = h
      <4>1. ASSUME i # h PROVE FALSE
        <5>1. Plain(m) # None /\ Plain(a.k) = h
          BY <2>1, <2>2, <3>2, NoneIs
        <5>2. a.k <= m /\ a.k # m
          BY <2>1, <3>1, <3>2, <4>1, <5>1, WriterHas DEF TypeInv
        <5>3. a.k < m
          <6>1. PICK k1 \in Numbers : k1 = a.k
            BY <2>1
          <6>2. k1 \in Nat /\ m \in Nat
            BY NumbersAre
          <6> QED
            BY <5>2, <6>1, <6>2
        <5>4. Earlier(i, h)
          BY <2>1, <3>2, <5>1, <5>3 DEF Renamed, InAge
        <5>5. Text(h) # <<>> /\ Text(h) \in Seq(Nat)
          BY <2>1, <5>1, LinesAre DEF Filled, TypeInv
        <5>6. 1 \in DOMAIN Text(h)
          <6>1. PICK t : t = Text(h)
            OBVIOUS
          <6> QED
            BY <5>5, <6>1
        <5> QED
          BY <2>4, <2>6, <5>4, <5>6 DEF Earlier, Later, HasLine
      <4> QED
        BY <4>1
    <3> QED
      BY <2>2, <3>3
  <2> QED
    BY <2>5, <2>6
<1>6. Due(l, S)' <=> \/ \E a \in S : Plain(a.k)' = a.ino /\ \E y \in DOMAIN Text(a.ino)' : l < Text(a.ino)'[y]
                     \/ live # None /\ l < live.fp
  BY <1>1 DEF Due
<1> QED
  BY <1>4, <1>5, <1>6

LEMMA SpoiledBeside ==
  ASSUME TypeInv, Renaming, OrderInv, Spoiled, pc = "idle" => unreadable = {}, setup' = setup, Beside
  PROVE  Spoiled'
<1> USE DEF OrderInv
<1>1. /\ Logged \/ Ticked \/ Begun \/ MovedUp \/ Made \/ Pruned
      /\ UNCHANGED <<live, unreadable, lost>>
      /\ pc # "idle" /\ Begun => calm /\ ~calm'
      /\ pc = "idle" \/ ~Begun => calm' = calm
  BY BesideIs
<1>2. Kept \in Nat /\ 0 \in Numbers /\ 1 \in Numbers
  BY NumbersAre
<1>3. ASSUME pc # "idle", ~calm, rot > Kept PROVE ~calm' /\ rot' > Kept /\ ~MovedUp
  <2>1. ~Begun /\ ~MovedUp
    <3>1. ~Begun
      BY <1>1, <1>3, Zenon
    <3>2. ASSUME rot \in 0..Kept PROVE FALSE
      BY <1>2, <1>3, <3>2
    <3> QED
      BY <3>1, <3>2 DEF MovedUp
  <2>2. ~calm'
    BY <1>1, <1>3, <2>1, Zenon
  <2>3. rot' > Kept
    BY <1>1, <1>2, <1>3, <2>1 DEF Logged, Ticked, Made, Pruned, AtRest, Pruning
  <2> QED
    BY <2>1, <2>2, <2>3
<1>4. ASSUME NEW k \in 1..Kept + 1, NEW i \in Inodes, <<k, FALSE, i>> \in unreadable
      PROVE  IF Plain(0)' = i THEN ~calm' /\ rot' > Kept
             ELSE \/ \A y \in DOMAIN Text(i)' : Text(i)'[y] \in lost
                  \/ live = None /\ Plain(1)' = i /\ ~calm' /\ rot' > Kept
  <2>1. /\ pc # "idle"
        /\ live # None => live.ino # i
        /\ Plain(0) = i => ~calm /\ rot > Kept
        /\ Plain(0) # i => \/ \A y \in DOMAIN Text(i) : Text(i)[y] \in lost
                           \/ live = None /\ Plain(1) = i /\ ~calm /\ rot > Kept
    BY <1>4 DEF Spoiled
  <2>2. rot # AtRest => ~calm
    BY <2>1 DEF Rests
  <2>3. CASE Ticked \/ Begun
    <3>1. Plain(0)' = Plain(0) /\ Plain(1)' = Plain(1) /\ Text(i)' = Text(i)
      BY <1>2, <2>3 DEF Ticked, Begun, SameNames, SameTexts
    <3> QED
      BY <1>3, <2>1, <3>1, Zenon
  <2>4. CASE MovedUp
    <3>1. ~(~calm /\ rot > Kept)
      BY <1>3, <2>1, <2>4
    <3>2. Plain(0) # i /\ \A y \in DOMAIN Text(i) : Text(i)[y] \in lost
      BY <2>1, <3>1
    <3>3. Text(i)' = Text(i) /\ Plain(0)' \in {Plain(0), None}
      <4>1. rot \in 0..Kept /\ 0 # rot + 1
        BY <1>2, <2>4 DEF MovedUp
      <4> QED
        BY <1>2, <2>4, <4>1 DEF MovedUp, SameTexts
    <3> QED
      BY <3>2, <3>3, NoneIs
  <2>5. CASE Made
    <3>1. PICK j \in Inodes : MadeAs(j)
      BY <2>5 DEF Made
    <3>2. Plain(0) = None /\ ~calm /\ rot > Kept
      BY <1>2, <2>2, <2>5 DEF Made, Renamed, WriterIs, Remaking, AtRest
    <3>3. ~calm' /\ rot' > Kept
      BY <1>3, <2>1, <3>2, Zenon
    <3>4. CASE i = j
      BY <3>1, <3>3, <3>4 DEF MadeAs
    <3>5. CASE i # j
      <4>1. Text(i)' = Text(i) /\ Plain(0)' # i /\ Plain(1)' = Plain(1)
        BY <1>2, <3>1, <3>5, NumbersAre DEF MadeAs
      <4>2. Plain(0) # i
        BY <3>2, NoneIs
      <4> QED
        BY <2>1, <3>3, <4>1, <4>2
    <3> QED
      BY <3>4, <3>5
  <2>6. CASE Pruned
    <3>1. Plain(0)' = Plain(0) /\ (Text(i)' = Text(i) \/ Text(i)' = <<>>)
      BY <1>2, <2>6 DEF Pruned
    <3>2. Plain(1) = i => Plain(1)' = i
      <4>1. 1 \in 0..Kept
        BY NumbersAre
      <4> QED
        BY <2>6, <4>1 DEF Pruned
    <3>3. ASSUME \A y \in DOMAIN Text(i) : Text(i)[y] \in lost
          PROVE  \A y \in DOMAIN Text(i)' : Text(i)'[y] \in lost
      <4>1. CASE Text(i)' = Text(i)
        BY <3>3, <4>1
      <4>2. CASE Text(i)' = <<>>
        BY <4>2
      <4> QED
        BY <3>1, <4>1, <4>2
    <3> QED
      BY <1>3, <2>1, <3>1, <3>2, <3>3, Zenon
  <2>7. CASE Logged
    <3>1. Plain(0)' = Plain(0) /\ Plain(1)' = Plain(1)
      BY <1>2, <2>7 DEF Logged, SameNames
    <3>2. CASE i # writer
      <4>1. Text(i)' = Text(i)
        BY <2>7, <3>2 DEF Logged
      <4> QED
        BY <1>3, <2>1, <3>1, <4>1, Zenon
    <3>3. CASE i = writer /\ Plain(0) # i
      <4>1. rot = Remaking /\ Plain(0) = None /\ Plain(1) = i
        BY <3>3 DEF Renamed, WriterIs
      <4>2. ~calm /\ rot > Kept
        BY <1>2, <2>2, <4>1 DEF Remaking, AtRest
      <4>3. live = None
        <5>1. ASSUME live # None PROVE FALSE
          <6>1. live.ino \in Inodes /\ (Plain(0) = live.ino \/ Plain(1) = live.ino)
            BY <5>1 DEF LiveIs, TypeInv, TypeOK, LogFiles
          <6> QED
            BY <2>1, <4>1, <5>1, <6>1, NoneIs
        <5> QED
          BY <5>1
      <4> QED
        BY <1>3, <2>1, <3>1, <3>3, <4>1, <4>2, <4>3, Zenon
    <3>4. CASE Plain(0) = i
      BY <1>3, <2>1, <3>1, <3>4, Zenon
    <3> QED
      BY <3>2, <3>3, <3>4
  <2> QED
    BY <1>1, <2>3, <2>4, <2>5, <2>6, <2>7
<1>5. \A k \in 1..Kept + 1, i \in Inodes : <<k, FALSE, i>> \in unreadable => (live # None => live.ino # i)
  BY DEF Spoiled
<1>6. live' = live /\ unreadable' = unreadable /\ lost' = lost
  BY <1>1
<1> QED
  BY <1>4, <1>5, <1>6 DEF Spoiled

\* What is owed is owed on while the variables that say so stay.
LEMMA OwedNat ==
  ASSUME TypeInv
  PROVE  Unmailed \in SUBSET Nat /\ Owed \in SUBSET Nat /\ Owed \subseteq Unmailed /\ Unmailed \subseteq Lines
<1>1. setup.lines \in Nat
  BY SetupIs DEF TypeInv, TypeOK, WorldTypeOK
<1> QED
  BY <1>1 DEF Unmailed, Owed, Lines

LEMMA PastStays ==
  ASSUME NEW S, NEW c, NEW D, NEW e, D = S, e = c, AllPast(S, c)
  PROVE  AllPast(D, e)
OBVIOUS

\* The copies that are still to be looked at, or to be read, are archives of the listing.
LEMMA ToReadListed ==
  ASSUME OrderInv
  PROVE  /\ Readable(listing) \in SUBSET {a \in listing : a.k > 0}
         /\ ToSet(chain) \in SUBSET {a \in listing : a.k > 0}
<1>1. Readable(listing) \in SUBSET {a \in listing : a.k > 0}
  BY DEF Readable, Archives, Everything
<1>2. \A x \in DOMAIN chain : chain[x] \in listing /\ chain[x].k > 0
  BY DEF OrderInv, ChainIs, Everything
<1> QED
  BY <1>1, <1>2 DEF ToSet

\* The places that a run keeps are of lines that were written.
LEMMA PlacesYoung ==
  ASSUME TypeInv, OrderInv, Known
  PROVE  /\ saved # None => Young(saved)
         /\ last # None => Young(last)
         /\ live # None => Young(live) /\ (live.off # 0 => live.fp <= live.anchor)
<1>1. WorldTypes /\ Rising
  BY DEF TypeInv, OrderInv, Renamed
<1>2. saved # None => Young(saved)
  BY <1>1, SavedYoung DEF OrderInv, Places, Known
<1>3. last # None => Young(last)
  <2>1. last # None => last.fp \in Tokens
    BY DEF TypeInv, TypeOK, Segments
  <2>2. setup.lines \in Nat /\ None \notin Nat
    BY SetupIs, NoneIs DEF TypeInv, TypeOK, WorldTypeOK
  <2>3. last # None => last.fp # None
    BY <2>1, <2>2 DEF Tokens
  <2> QED
    BY <1>1, <2>3, SavedYoung DEF OrderInv, Places
<1>4. live # None => Young(live) /\ (live.off # 0 => live.fp <= live.anchor)
  <2>1. live # None => live.ino \in Inodes /\ Sits(live.ino, live.off, live.anchor, live.fp) /\ live.fp # None
    BY DEF TypeInv, TypeOK, LogFiles, OrderInv, LiveIs, Known
  <2> QED
    BY <1>1, <2>1, LiveYoung
<1> QED
  BY <1>2, <1>3, <1>4

LEMMA OweBeside ==
  ASSUME TypeInv, Traceable, OrderInv, OweInv, setup' = setup, Beside
  PROVE  OweInv'
<1>1. /\ Renaming /\ Renamed /\ Moved
      /\ UNCHANGED <<saved, pc, live, names, listing, again, queue, moved, unreadable, chain, last,
                     got, mailed, origin, lost, warned>>
  BY BesideIs DEF Traceable, OrderInv
<1>2. Filled'
  BY FilledBeside DEF OweInv
<1>3. Known /\ Known'
  BY <1>1 DEF OweInv, Known
<1>4. PICK S \in SUBSET Nat : S = Unmailed
  BY OwedNat
<1>5. PICK R \in SUBSET Nat : R = Owed
  BY OwedNat
<1>6. Unmailed' = S /\ Owed' = R /\ Lines' = Lines
  BY <1>1, <1>4, <1>5 DEF Unmailed, Owed, Lines
<1>7. PICK c : c = saved
  OBVIOUS
<1>8. PICK p : p = last
  OBVIOUS
<1>9. PICK v : v = live
  OBVIOUS
<1>10. saved' = c /\ last' = p /\ live' = v
  BY <1>1, <1>7, <1>8, <1>9
<1> SUFFICES ASSUME ~warned PROVE (Owes /\ Spoiled /\ (pc = "idle" => unreadable = {})
                                   /\ (pc = "stat" => names = {n \in Names : dir[n] # None})
                                   /\ (pc = "try" => Complete(Readable(listing)))
                                   /\ (pc = "chain" => Complete(ToSet(chain))))'
  BY <1>1, <1>2, <1>3 DEF OweInv
<1>11. /\ Owes /\ Spoiled /\ (pc = "idle" => unreadable = {})
       /\ (pc = "try" => Complete(Readable(listing)))
       /\ (pc = "chain" => Complete(ToSet(chain)))
  BY DEF OweInv
<1>12. Owes'
  <2>1. /\ c # None => Young(c) /\ AllPast(S, c)
        /\ p # None => Young(p) /\ AllPast(R, p)
        /\ pc = "live" => v # None /\ Young(v) /\ AllPast(R, v)
    BY <1>3, <1>4, <1>5, <1>7, <1>8, <1>9, <1>11, PlacesYoung DEF Owes, TypeInv, TypeOK
  <2>2. /\ c # None => AllPast(S, c)'
        /\ p # None => AllPast(R, p)'
        /\ pc = "live" => AllPast(R, v)'
    BY <1>1, <2>1, PastGoesOn
  <2>3. /\ c # None => AllPast(Unmailed, saved)'
        /\ p # None => AllPast(Owed, last)'
        /\ pc = "live" => AllPast(Owed, live)'
    BY <1>6, <1>10, <2>2 DEF AllPast, Past
  <2>4. /\ (saved = None => \A l \in Lines : mailed[l] = 0)'
        /\ (saved = None /\ live # None =>
             \A l \in Lines : l >= origin => IF live.start # 0 THEN live.seed < l ELSE live.fp <= l)'
    BY <1>1, <1>6, <1>11 DEF Owes
  <2> QED
    BY <1>1, <1>7, <1>8, <1>9, <1>10, <2>3, <2>4 DEF Owes
<1>13. Spoiled'
  BY <1>1, <1>11, SpoiledBeside
<1>14. pc # "stat"
  BY DEF Beside, Traceable
<1>15. live # None => live.fp \in Nat /\ live.fp <= written
  BY <1>3, PlacesYoung DEF Young
<1>16. ASSUME pc = "try" PROVE Complete(Readable(listing))'
  <2>1. PICK Q \in SUBSET {a \in listing : a.k > 0} : Q = Readable(listing)
    BY ToReadListed
  <2>2. Complete(Q)'
    BY <1>1, <1>11, <1>15, <1>16, <2>1, CompleteBeside DEF OweInv
  <2>3. Readable(listing)' = Q
    BY <1>1, <2>1 DEF Readable, Archives, Everything, IsLive
  <2> QED
    BY <2>2, <2>3 DEF Complete, Due
<1>17. ASSUME pc = "chain" PROVE Complete(ToSet(chain))'
  <2>1. PICK Q \in SUBSET {a \in listing : a.k > 0} : Q = ToSet(chain)
    BY ToReadListed
  <2>2. Complete(Q)'
    BY <1>1, <1>11, <1>15, <1>17, <2>1, CompleteBeside DEF OweInv
  <2>3. ToSet(chain)' = Q
    BY <1>1, <2>1 DEF ToSet
  <2> QED
    BY <2>2, <2>3 DEF Complete, Due
<1> QED
  BY <1>1, <1>11, <1>12, <1>13, <1>14, <1>16, <1>17

\* What is behind a position of a text that begins with a line of its own is read from there.
LEMMA RestHas ==
  ASSUME NEW t \in Seq(Nat), NEW off \in Nat, FirstLine(t) # 0, NEW y \in DOMAIN t, off < y
  PROVE  t[y] \in ToSet(Rest(t, off))
<1>1. Rest(t, off) = SubSeq(t, off + 1, Len(t))
  BY DEF Rest
<1>2. PICK s : s = SubSeq(t, off + 1, Len(t))
  OBVIOUS
<1>3. y - off \in DOMAIN s /\ s[y - off] = t[y]
  BY <1>2
<1> QED
  BY <1>1, <1>2, <1>3 DEF ToSet

-----------------------------------------------------------------------------
(* A file that is read, and what is owed after a step *)

\* A copy that is read is read to its end, or what follows was in a copy that could not be read.
LEMMA CopyTakes ==
  ASSUME TypeInv, Renamed, NEW a, NEW i \in Inodes, a.ino = i, NEW from \in Nat,
         from <= Len(Text(i)), ReadOn(a, from)
  PROVE  /\ \A y \in DOMAIN Text(i) : from < y => Text(i)[y] \in ToSet(got') \cup lost'
         /\ ToSet(got) \subseteq ToSet(got') /\ lost \subseteq lost'
         /\ \E to \in from..Len(Text(i)) :
              1 \in DOMAIN Text(i) =>
                /\ last'.fp = Text(i)[1] /\ last'.off = to
                /\ to # 0 => to \in DOMAIN Text(i) /\ last'.anchor = Text(i)[to]
<1>1. PICK t : t = Text(i)
  OBVIOUS
<1>2. /\ t \in Seq(Nat) /\ DOMAIN t = 1..Len(t) /\ Len(t) \in Nat
      /\ \A x \in DOMAIN t : t[x] \in Nat /\ t[x] > 0
  BY <1>1, LinesAre DEF TypeInv, Renamed, Rising
<1>3. PICK to \in from..Len(t) :
        /\ ReadCopy(a, from, to)
        /\ (to = Len(t) /\ lost' = lost) \/ lost' = lost \cup ToSet(Rest(t, to))
  <2>1. Len(t) \in from..Len(t)
    BY <1>1, <1>2
  <2> QED
    BY <1>1, <2>1 DEF ReadOn, Flawed
<1>4. to \in Nat /\ to \in 0..Len(t) /\ from <= to
  BY <1>2
<1>5. PICK q : q = SubSeq(t, 1, to)
  OBVIOUS
<1>6. q \in Seq(Nat) /\ \A y \in DOMAIN t : y <= to => y \in DOMAIN q /\ q[y] = t[y]
  BY <1>2, <1>4, <1>5
<1>7. FirstLine(q) # 0 /\ FirstLine(t) # 0
  <2>1. None # 0
    BY NoneIs
  <2>2. t # <<>> => 1 \in DOMAIN t
    BY <1>2
  <2>3. q # <<>> => 1 \in DOMAIN t /\ q[1] = t[1]
    <3>1. q # <<>> => 1 \in DOMAIN q /\ 1 <= to
      BY <1>2, <1>4, <1>5
    <3>2. ASSUME 1 <= to PROVE 1 \in DOMAIN t
      <4>1. 1 <= Len(t)
        BY <1>2, <1>4, <3>2
      <4> QED
        BY <1>2, <4>1
    <3> QED
      BY <1>6, <3>1, <3>2
  <2> QED
    BY <1>2, <2>1, <2>2, <2>3 DEF FirstLine
<1>8. PICK r : r = Rest(q, from)
  OBVIOUS
<1>9. r \in Seq(Lines) /\ got \in Seq(Lines) /\ got' = got \o r
  <2>1. r \in Seq(Lines)
    BY <1>1, <1>4, <1>5, <1>8, CopyReads DEF TypeInv
  <2>2. got \in Seq(Lines)
    BY DEF TypeInv, TypeOK
  <2> QED
    BY <1>1, <1>3, <1>5, <1>8, <2>1, <2>2 DEF ReadCopy
<1>10. ToSet(got) \subseteq ToSet(got') /\ ToSet(r) \subseteq ToSet(got')
  <2>1. \A x \in DOMAIN got : x \in DOMAIN got' /\ got'[x] = got[x]
    BY <1>9
  <2>2. \A x \in DOMAIN r : Len(got) + x \in DOMAIN got' /\ got'[Len(got) + x] = r[x]
    BY <1>9
  <2> QED
    BY <2>1, <2>2 DEF ToSet
<1>11. ASSUME NEW y \in DOMAIN t, from < y PROVE t[y] \in ToSet(got') \cup lost'
  <2>1. CASE y <= to
    <3>1. y \in DOMAIN q /\ q[y] = t[y]
      BY <1>6, <2>1
    <3>2. q[y] \in ToSet(r)
      BY <1>6, <1>7, <1>8, <1>11, <3>1, RestHas
    <3> QED
      BY <1>10, <3>1, <3>2
  <2>2. CASE ~(y <= to)
    <3>1. to < y /\ y <= Len(t)
      BY <1>2, <1>4, <2>2
    <3>2. t[y] \in ToSet(Rest(t, to))
      BY <1>2, <1>4, <1>7, <3>1, RestHas
    <3>3. to # Len(t)
      <4>1. y \in Nat
        BY <1>2
      <4> QED
        BY <1>4, <3>1, <4>1
    <3> QED
      BY <1>3, <3>2, <3>3
  <2> QED
    BY <2>1, <2>2
<1>12. lost \subseteq lost'
  BY <1>3
<1>13. 1 \in DOMAIN t => /\ last'.fp = t[1] /\ last'.off = to
                         /\ to # 0 => to \in DOMAIN t /\ last'.anchor = t[to]
  <2>1. 1 \in DOMAIN t => FirstLine(t) = t[1] /\ t[1] # None
    <3>1. 1 \in DOMAIN t => t # <<>> /\ t[1] \in Nat
      BY <1>2
    <3> QED
      BY <3>1, NoneIs DEF FirstLine
  <2>2. 1 \in DOMAIN t => last' = Copy(a, from, to)
    BY <1>1, <1>3, <2>1 DEF ReadCopy
  <2>3. to # 0 => to \in DOMAIN t /\ Anchor(t, to) = t[to]
    BY <1>2, <1>4 DEF Anchor
  <2>4. Copy(a, from, to).fp = FirstLine(t) /\ Copy(a, from, to).off = to /\ Copy(a, from, to).anchor = Anchor(t, to)
    BY <1>1 DEF Copy
  <2> QED
    BY <2>1, <2>2, <2>3, <2>4
<1> QED
  BY <1>1, <1>10, <1>11, <1>12, <1>13

\* Nothing of a set is in a file up to one of its lines, nor in an older file.
OnlyBehind(S, k, i, from) ==
  /\ \A l \in S, y \in DOMAIN Text(i) : l = Text(i)[y] => from < y
  /\ \A m \in Numbers, j \in Inodes, l \in S : Plain(m) = j /\ HasLine(j, l) => m <= k

\* When a copy was read, and nothing was owed of it before where the read began nor of an older
\* one, all that is owed now is of newer files.
LEMMA AfterCopy ==
  ASSUME TypeInv, Renamed, Filled, NEW a, NEW k \in Numbers, NEW i \in Inodes, a.ino = i, Plain(k) = i,
         NEW from \in Nat, from <= Len(Text(i)), ReadOn(a, from), NEW R, NEW S, R \subseteq S,
         R \cap (ToSet(got') \cup lost') = {}, OnlyBehind(S, k, i, from)
  PROVE  /\ AllPast(R, last')
         /\ \A m \in Numbers, j \in Inodes, l \in R : Plain(m) = j /\ HasLine(j, l) => m < k
<1>1. PICK t : t = Text(i)
  OBVIOUS
<1>2. 1 \in DOMAIN t
  <2>1. t \in Seq(Nat) /\ t # <<>>
    BY <1>1, LinesAre DEF TypeInv, Filled
  <2> QED
    BY <2>1
<1>3. PICK to \in from..Len(t) :
        /\ last'.fp = t[1] /\ last'.off = to
        /\ to # 0 => to \in DOMAIN t /\ last'.anchor = t[to]
  BY <1>1, <1>2, CopyTakes
<1>4. \A y \in DOMAIN t : from < y => t[y] \in ToSet(got') \cup lost'
  BY <1>1, CopyTakes
<1>5. ASSUME NEW m \in Numbers, NEW j \in Inodes, NEW l \in R, Plain(m) = j, HasLine(j, l)
      PROVE  m < k /\ Past(l, last')
  <2>1. m <= k /\ m \in Nat /\ k \in Nat
    BY <1>5, NumbersAre DEF OnlyBehind
  <2>2. m # k
    <3>1. ASSUME m = k PROVE FALSE
      <4>1. \E y \in DOMAIN t : t[y] = l
        BY <1>1, <1>5, <3>1 DEF HasLine
      <4> QED
        BY <1>1, <1>4, <1>5, <4>1 DEF OnlyBehind
    <3> QED
      BY <3>1
  <2>3. m < k
    BY <2>1, <2>2
  <2>4. Earlier(i, j)
    BY <1>5, <2>3 DEF Renamed, InAge
  <2>5. \A x \in DOMAIN t : t[x] < l
    BY <1>1, <1>5, <2>4 DEF Earlier, Later, HasLine
  <2>6. l \in Nat /\ t[1] \in Nat
    BY <1>1, <1>2, <1>5, LinesAre DEF TypeInv, HasLine
  <2> QED
    BY <1>2, <1>3, <2>3, <2>5, <2>6 DEF Past
<1> QED
  BY <1>5 DEF AllPast

\* What a step that reads a copy, or passes over one, has to leave for the rest of the run.
LEMMA OweRead ==
  ASSUME TypeInv, OrderInv, OweInv, Same, UNCHANGED <<saved, live, unreadable, mailed, origin, warned, calm>>,
         saved # None, pc' = "chain", ToSet(got) \subseteq ToSet(got'), lost \subseteq lost',
         NEW p, last' = p, NEW Q, ToSet(chain') = Q, NEW R, Owed' = R,
         ~warned => /\ p # None => AllPast(R, p)
                    /\ \A k \in Numbers, i \in Inodes, l \in R :
                         Plain(k) = i /\ HasLine(i, l) /\ Due(l, Q) => \E a \in Q : a.ino = i
  PROVE  OweInv'
<1>1. (\A i : Text(i)' = Text(i)) /\ (\A k : Plain(k)' = Plain(k)) /\ Lines' = Lines
  BY SameWorld
<1>2. Filled' /\ Known'
  BY <1>1 DEF OweInv, Filled, Known
<1> SUFFICES ASSUME ~warned PROVE Owes' /\ Spoiled' /\ Complete(ToSet(chain))'
  BY <1>2 DEF OweInv
<1>3. PICK S : S = Unmailed
  OBVIOUS
<1>4. PICK T : T = Unmailed'
  OBVIOUS
<1>5. T \subseteq S
  BY <1>1, <1>3, <1>4 DEF Unmailed
<1>6. PICK c : c = saved
  OBVIOUS
<1>7. AllPast(S, c)
  BY <1>3, <1>6 DEF OweInv, Owes
<1>8. Owes'
  <2>1. AllPast(Unmailed, saved)'
    BY <1>1, <1>4, <1>5, <1>6, <1>7 DEF AllPast, Past, HasLine
  <2>2. last' # None => AllPast(Owed, last)'
    BY <1>1 DEF AllPast, Past, HasLine
  <2> QED
    BY <2>1, <2>2 DEF Owes
<1>9. Spoiled'
  <2>1. Spoiled
    BY DEF OweInv
  <2>2. rot' = rot
    BY DEF Same
  <2> QED
    BY <1>1, <2>1, <2>2 DEF Spoiled
<1>10. Complete(ToSet(chain))'
  <2>1. \A l : Due(l, Q)' => Due(l, Q)
    BY <1>1 DEF Due
  <2>2. \A l : Due(l, ToSet(chain))' => Due(l, Q)
    BY <2>1 DEF Due
  <2> QED
    BY <1>1, <2>2 DEF Complete, HasLine
<1> QED
  BY <1>8, <1>9, <1>10

\* What is owed after a step that mails nothing was owed before.
LEMMA OwedLess ==
  ASSUME setup' = setup, UNCHANGED <<mailed, origin>>, ToSet(got) \subseteq ToSet(got'), lost \subseteq lost'
  PROVE  Owed' \subseteq Owed /\ Owed' \cap (ToSet(got') \cup lost') = {}
BY DEF Owed, Unmailed, Lines

\* The lines of a file that has a name.
LEMMA FilledText ==
  ASSUME TypeInv, Renamed, Filled, NEW k \in Numbers, NEW i \in Inodes, Plain(k) = i
  PROVE  /\ Text(i) \in Seq(Nat) /\ DOMAIN Text(i) = 1..Len(Text(i)) /\ Len(Text(i)) \in Nat
         /\ 1 \in DOMAIN Text(i) /\ FirstLine(Text(i)) = Text(i)[1] /\ FirstLine(Text(i)) # 0
         /\ \A x \in DOMAIN Text(i) : Text(i)[x] \in Nat /\ Text(i)[x] > 0 /\ Text(i)[1] <= Text(i)[x]
         /\ \A x, y \in DOMAIN Text(i) : x < y => Text(i)[x] < Text(i)[y]
<1>1. PICK t : t = Text(i)
  OBVIOUS
<1>2. /\ t \in Seq(Nat) /\ DOMAIN t = 1..Len(t) /\ Len(t) \in Nat /\ t # <<>>
      /\ \A x \in DOMAIN t : t[x] \in Nat /\ t[x] > 0
      /\ \A x, y \in DOMAIN t : x < y => t[x] < t[y]
  BY <1>1, LinesAre DEF TypeInv, Renamed, Rising, Filled
<1>3. 1 \in DOMAIN t
  BY <1>2
<1>4. FirstLine(t) = t[1]
  BY <1>2 DEF FirstLine
<1>5. ASSUME NEW x \in DOMAIN t PROVE t[1] <= t[x]
  <2>1. x = 1 \/ 1 < x
    BY <1>2
  <2> QED
    BY <1>2, <1>3, <2>1
<1>6. FirstLine(t) # 0
  BY <1>2, <1>3, <1>4
<1> QED
  BY <1>1, <1>2, <1>3, <1>4, <1>5, <1>6

\* The lines owed of a chain are in its first copy and in those behind it.
LEMMA OweReadNext ==
  ASSUME TypeInv, OrderInv, OweInv, setup' = setup, ReadNext
  PROVE  OweInv'
<1> USE DEF OrderInv
<1>1. PICK a : a = Head(chain)
  OBVIOUS
<1>2. /\ pc = "chain" /\ chain # <<>> /\ At(a) = a.ino /\ pc' = "chain" /\ chain' = Tail(chain)
      /\ ReadOn(a, 0) \/ (Flawed(a, 0) /\ UNCHANGED <<got, last>>)
      /\ UNCHANGED <<world, saved, live, unreadable, origin, mailed, warned, calm>>
  BY <1>1 DEF ReadNext, search
<1>3. Same /\ saved # None
  BY <1>2 DEF Same, world, TypeInv
<1>4. /\ 1 \in DOMAIN chain /\ chain[1] = a
      /\ \A x \in DOMAIN chain : x = 1 \/ (x - 1 \in DOMAIN chain' /\ chain'[x - 1] = chain[x] /\ 1 < x)
      /\ \A x \in DOMAIN chain' : x + 1 \in DOMAIN chain /\ chain'[x] = chain[x + 1]
  <2>1. chain \in Seq(Copies)
    BY DEF TypeInv, TypeOK
  <2> QED
    BY <1>1, <1>2, <2>1, TailIs
<1>5. a \in Everything(listing) /\ a.k > 0
  BY <1>4 DEF ChainIs
<1>6. /\ a.k \in Numbers /\ a.ino \in Inodes /\ Plain(a.k) = a.ino
      /\ \A b \in Everything(listing), m \in Numbers : b.k < a.k /\ Plain(m) = b.ino => m < a.k
  BY <1>2, <1>5, CopyFound
<1>7. PICK k \in Numbers : k = a.k
  BY <1>6
<1>8. PICK i \in Inodes : i = a.ino
  BY <1>6
<1>9. PICK Q : Q = ToSet(chain')
  OBVIOUS
<1>10. PICK C : C = ToSet(chain)
  OBVIOUS
<1>11. a \in C /\ C = {a} \cup Q
  BY <1>4, <1>9, <1>10 DEF ToSet
<1>12. PICK R : R = Owed'
  OBVIOUS
<1>13. PICK S : S = Owed
  OBVIOUS
<1>14. PICK p : p = last'
  OBVIOUS
<1>15. PICK t : t = Text(i)
  OBVIOUS
<1>16. Plain(k) = i /\ k \in Nat
  BY <1>6, <1>7, <1>8, NumbersAre
<1>17. /\ t \in Seq(Nat) /\ DOMAIN t = 1..Len(t) /\ Len(t) \in Nat
       /\ 1 \in DOMAIN t /\ FirstLine(t) # 0
  BY <1>15, <1>16, FilledText DEF OweInv
<1>18. ToSet(got) \subseteq ToSet(got') /\ lost \subseteq lost'
       /\ \A y \in DOMAIN t : t[y] \in ToSet(got') \cup lost'
  <2>1. CASE ReadOn(a, 0)
    <3>1. 0 <= Len(Text(i)) /\ \A y \in DOMAIN t : 0 < y
      BY <1>15, <1>17
    <3> QED
      BY <1>8, <1>15, <2>1, <3>1, CopyTakes
  <2>2. CASE Flawed(a, 0) /\ UNCHANGED <<got, last>>
    <3>1. lost' = lost \cup ToSet(Rest(t, 0))
      BY <1>8, <1>15, <2>2 DEF Flawed
    <3>2. \A y \in DOMAIN t : 0 < y
      BY <1>17
    <3>3. \A y \in DOMAIN t : t[y] \in ToSet(Rest(t, 0))
      BY <1>17, <3>2, RestHas
    <3> QED
      BY <2>2, <3>1, <3>3
  <2> QED
    BY <1>2, <2>1, <2>2
<1>19. R \subseteq S /\ R \cap (ToSet(got') \cup lost') = {}
  BY <1>2, <1>12, <1>13, <1>18, OwedLess
<1>20. ASSUME ~warned
       PROVE  /\ p # None => AllPast(R, p)
              /\ \A m \in Numbers, j \in Inodes, l \in R :
                   Plain(m) = j /\ HasLine(j, l) /\ Due(l, Q) => \E b \in Q : b.ino = j
  <2>1. /\ Complete(C) /\ (last # None => AllPast(S, last))
    BY <1>2, <1>10, <1>13, <1>20 DEF OweInv, Owes
  <2>2. ASSUME NEW m \in Numbers, NEW j \in Inodes, NEW l \in S, Plain(m) = j, HasLine(j, l) PROVE m <= k
    <3>1. ASSUME k < m PROVE FALSE
      <4>1. Earlier(j, i)
        BY <1>16, <2>2, <3>1 DEF Renamed, InAge
      <4>2. l < t[1]
        BY <1>15, <1>17, <2>2, <4>1 DEF Earlier, Later, HasLine
      <4>3. Due(l, C)
        BY <1>6, <1>8, <1>11, <1>15, <1>17, <4>2 DEF Due
      <4>4. PICK b \in C : b.ino = j
        BY <1>13, <2>1, <2>2, <4>3 DEF Complete
      <4>5. PICK x \in DOMAIN chain : chain[x] = b
        BY <1>10, <4>4 DEF ToSet
      <4>6. CASE x = 1
        <5>1. j = i
          BY <1>4, <1>8, <4>4, <4>5, <4>6
        <5>2. Plain(k) # None /\ Plain(k) = Plain(m) /\ k # m
          BY <1>16, <2>2, <3>1, <5>1, NumbersAre, NoneIs
        <5> QED
          BY <5>2 DEF Renamed, OneName
      <4>7. CASE 1 < x
        <5>1. b.k < a.k /\ b \in Everything(listing)
          <6>1. chain[1].k > chain[x].k
            BY <1>4, <4>7 DEF ChainIs
          <6>2. chain[x] \in Everything(listing)
            BY DEF ChainIs
          <6> QED
            BY <1>4, <4>5, <6>1, <6>2
        <5>2. m < k
          BY <1>6, <1>7, <2>2, <4>4, <5>1
        <5> QED
          BY <1>16, <3>1, <5>2, NumbersAre
      <4> QED
        BY <1>4, <4>6, <4>7
    <3>2. m \in Nat
      BY NumbersAre
    <3> QED
      BY <1>16, <3>1, <3>2
  <2>3. p # None => AllPast(R, p)
    <3>1. CASE ReadOn(a, 0)
      <4>1. 0 <= Len(Text(i)) /\ \A y \in DOMAIN Text(i) : 0 < y
        BY <1>15, <1>17
      <4>2. OnlyBehind(S, k, i, 0)
        BY <2>2, <4>1 DEF OnlyBehind
      <4>3. a.ino = i /\ Filled /\ 0 \in Nat
        BY <1>8 DEF OweInv
      <4>4. Renamed /\ Plain(k) = i
        BY <1>16
      <4> HIDE DEF OrderInv
      <4>5. AllPast(R, last')
        BY <1>19, <3>1, <4>1, <4>2, <4>3, <4>4, AfterCopy
      <4> QED
        BY <1>14, <4>5
    <3>2. CASE UNCHANGED <<got, last>>
      BY <1>14, <1>19, <2>1, <3>2 DEF AllPast
    <3> QED
      BY <1>2, <3>1, <3>2
  <2>4. ASSUME NEW m \in Numbers, NEW j \in Inodes, NEW l \in R, Plain(m) = j, HasLine(j, l), Due(l, Q)
        PROVE  \E b \in Q : b.ino = j
    <3>1. Due(l, C)
      BY <1>11, <2>4 DEF Due
    <3>2. PICK b \in C : b.ino = j
      BY <1>13, <1>19, <2>1, <2>4, <3>1 DEF Complete
    <3>3. b # a
      <4>1. ASSUME b = a PROVE FALSE
        <5>1. \E y \in DOMAIN t : t[y] = l
          BY <1>8, <1>15, <2>4, <3>2, <4>1 DEF HasLine
        <5> QED
          BY <1>18, <1>19, <5>1
      <4> QED
        BY <4>1
    <3> QED
      BY <1>11, <3>2, <3>3
  <2> QED
    BY <2>3, <2>4
<1> QED
  BY <1>2, <1>3, <1>9, <1>12, <1>14, <1>18, <1>20, OweRead

\* When the copy with the saved position is found, all that is owed is behind that position or in
\* the newer copies, which are the chain.
LEMMA OweTryFits ==
  ASSUME TypeInv, OrderInv, OweInv, setup' = setup, TryFits
  PROVE  OweInv'
<1> USE DEF OrderInv
<1>1. PICK a : a = Head(queue).copy
  OBVIOUS
<1>2. PICK B : B = {b \in Readable(listing) : b # a /\ Newer(b, a)}
  OBVIOUS
<1>3. /\ pc = "try" /\ queue # <<>> /\ Listed(a) /\ Fits(a) /\ ReadOn(a, saved.off)
      /\ chain' = OldestFirst(B) /\ pc' = "chain"
      /\ UNCHANGED <<world, saved, live, unreadable, mailed, origin, warned, calm>>
  BY <1>1, <1>2 DEF TryFits
<1>4. Same
  BY <1>3 DEF Same, world
<1>5. a \in May(listing)
  <2>1. Head(queue) \in Items(listing)
    BY <1>3, TailIs DEF QueueIs
  <2> QED
    BY <1>1, <2>1 DEF Items
<1>6. a \in Everything(listing) /\ At(a) = a.ino
  BY <1>3, <1>5 DEF May, Listed
<1>7. a.k \in Numbers /\ a.ino \in Inodes /\ Plain(a.k) = a.ino /\ (live # None => live.ino # a.ino)
  BY <1>6, CopyFound
<1>8. PICK k \in Numbers : k = a.k
  BY <1>7
<1>9. PICK i \in Inodes : i = a.ino
  BY <1>7
<1>10. PICK t : t = Text(i)
  OBVIOUS
<1>11. saved # None /\ saved \in Cursors /\ Placed(saved) /\ got = <<>> /\ saved.fp # None
  BY <1>3 DEF TypeInv, TypeOK, Places, Stage, OweInv, Known
<1>12. PICK off \in Nat : off = saved.off
  <2>1. setup.lines \in Nat
    BY SetupIs DEF TypeInv, TypeOK, WorldTypeOK
  <2> QED
    BY <1>11, <2>1 DEF Cursors, Positions
<1>13. Plain(k) = i /\ k \in Nat
  BY <1>7, <1>8, <1>9, NumbersAre
<1>14. /\ DOMAIN t = 1..Len(t) /\ Len(t) \in Nat /\ 1 \in DOMAIN t /\ FirstLine(t) = t[1]
       /\ \A x \in DOMAIN t : t[x] \in Nat /\ t[x] > 0 /\ t[1] <= t[x]
       /\ \A x, y \in DOMAIN t : x < y => t[x] < t[y]
  BY <1>10, <1>13, FilledText DEF OweInv
<1>15. saved.fp = t[1]
  BY <1>3, <1>9, <1>10, <1>11, <1>14 DEF Fits
<1>16. off # 0 => off \in DOMAIN t /\ t[off] = saved.anchor
  <2>1. ASSUME off # 0 PROVE off \in DOMAIN t /\ t[off] = saved.anchor
    <3>1. saved.anchor # None /\ Anchor(t, off) = saved.anchor
      BY <1>3, <1>9, <1>10, <1>11, <1>12, <2>1 DEF Placed, Fits
    <3> QED
      BY <1>14, <2>1, <3>1 DEF Anchor
  <2> QED
    BY <2>1
<1>17. k > 0
  <2>1. ASSUME k = 0 PROVE FALSE
    <3>1. Later(saved.fp, i)
      BY <1>3, <1>7, <1>9, <1>11, <1>13, <2>1 DEF Unseen
    <3>2. t[1] < t[1] /\ t[1] \in Nat
      BY <1>10, <1>14, <1>15, <3>1 DEF Later
    <3> QED
      BY <3>2
  <2> QED
    BY <1>13, <2>1
<1>18. off <= Len(t)
  BY <1>14, <1>16
<1>19. /\ \A y \in DOMAIN t : off < y => t[y] \in ToSet(got') \cup lost'
       /\ ToSet(got) \subseteq ToSet(got') /\ lost \subseteq lost'
  BY <1>3, <1>9, <1>10, <1>12, <1>18, CopyTakes
<1>20. PICK Q : Q = ToSet(chain')
  OBVIOUS
<1>21. Q = B
  <2>1. B \in SUBSET Archives(listing)
    BY <1>2 DEF Readable
  <2>2. ToSet(OldestFirst(B)) = B
    BY <2>1, ArchivesChain
  <2> QED
    BY <1>3, <1>20, <2>2
<1>22. PICK R : R = Owed'
  OBVIOUS
<1>23. PICK S : S = Owed
  OBVIOUS
<1>24. PICK p : p = last'
  OBVIOUS
<1>25. R \subseteq S /\ R \cap (ToSet(got') \cup lost') = {}
  BY <1>3, <1>19, <1>22, <1>23, OwedLess
<1>26. ASSUME ~warned
       PROVE  /\ p # None => AllPast(R, p)
              /\ \A m \in Numbers, j \in Inodes, l \in R :
                   Plain(m) = j /\ HasLine(j, l) /\ Due(l, Q) => \E b \in Q : b.ino = j
  <2>1. Complete(Readable(listing)) /\ AllPast(Unmailed, saved)
    BY <1>3, <1>11, <1>26 DEF OweInv, Owes
  <2>2. AllPast(S, saved)
    <3>1. S \subseteq Unmailed
      BY <1>23 DEF Owed
    <3> QED
      BY <2>1, <3>1 DEF AllPast
  <2>3. ASSUME NEW m \in Numbers, NEW j \in Inodes, NEW l \in S, Plain(m) = j, HasLine(j, l)
        PROVE  m <= k /\ \A y \in DOMAIN t : l = t[y] => off < y
    <3>1. Past(l, saved)
      BY <2>2, <2>3 DEF AllPast
    <3>2. l \in Nat /\ m \in Nat
      BY <2>3, LinesAre, NumbersAre DEF TypeInv, HasLine
    <3>3. IF off # 0 THEN off \in DOMAIN t /\ t[off] < l ELSE t[1] <= l
      BY <1>12, <1>15, <1>16, <3>1 DEF Past
    <3>4. \A y \in DOMAIN t : l = t[y] => off < y
      <4>1. ASSUME NEW y \in DOMAIN t, l = t[y] PROVE off < y
        <5>1. y \in Nat /\ y # 0
          BY <1>14
        <5>2. CASE off # 0
          <6>1. off \in DOMAIN t /\ t[off] < t[y] /\ t[off] \in Nat /\ t[y] \in Nat
            BY <1>14, <3>3, <4>1, <5>2
          <6>2. ~(y < off) /\ y # off
            BY <1>14, <6>1
          <6> QED
            BY <5>1, <6>2
        <5> QED
          BY <5>1, <5>2
      <4> QED
        BY <4>1
    <3>5. ASSUME k < m PROVE FALSE
      <4>1. Earlier(j, i)
        BY <1>13, <2>3, <3>5 DEF Renamed, InAge
      <4>2. \A x \in DOMAIN t : l < t[x]
        BY <1>10, <2>3, <4>1 DEF Earlier, Later, HasLine
      <4>3. PICK z \in DOMAIN t : t[z] <= l
        BY <1>14, <3>2, <3>3
      <4> QED
        BY <1>14, <3>2, <4>2, <4>3
    <3> QED
      BY <1>13, <3>2, <3>4, <3>5
  <2>4. /\ AllPast(R, last')
        /\ \A m \in Numbers, j \in Inodes, l \in R : Plain(m) = j /\ HasLine(j, l) => m < k
    <3>1. OnlyBehind(S, k, i, off)
      BY <1>10, <1>13, <2>3 DEF OnlyBehind, HasLine
    <3>2. a.ino = i /\ Filled /\ ReadOn(a, off) /\ off <= Len(Text(i)) /\ Renamed
      BY <1>3, <1>9, <1>10, <1>12, <1>18 DEF OweInv
    <3> HIDE DEF OrderInv
    <3> QED
      BY <1>13, <1>25, <3>1, <3>2, AfterCopy
  <2>5. ASSUME NEW m \in Numbers, NEW j \in Inodes, NEW l \in R, Plain(m) = j, HasLine(j, l), Due(l, Q)
        PROVE  \E b \in Q : b.ino = j
    <3>1. Due(l, Readable(listing))
      BY <1>2, <1>21, <2>5 DEF Due
    <3>2. PICK b \in Readable(listing) : b.ino = j
      BY <1>23, <1>25, <2>1, <2>5, <3>1 DEF Complete
    <3>3. m < k
      BY <2>4, <2>5
    <3>4. b \in listing /\ b.k \in Nat /\ m \in Nat
      <4>1. b \in listing
        BY DEF Readable, Archives, Everything
      <4> QED
        BY <4>1, NumbersAre DEF TypeInv, TypeOK, Copies
    <3>5. m = b.k \/ m = b.k + 1
      BY <2>5, <3>2, <3>4 DEF ListingIs
    <3>6. b.k < a.k
      BY <1>8, <1>13, <3>3, <3>4, <3>5
    <3>7. b # a
      BY <1>8, <1>13, <3>6
    <3> QED
      BY <1>2, <1>8, <1>17, <1>21, <3>2, <3>6, <3>7 DEF Newer
  <2> QED
    BY <1>24, <2>4, <2>5
<1> QED
  BY <1>3, <1>4, <1>11, <1>19, <1>20, <1>22, <1>24, <1>26, OweRead

\* A step that reads nothing and mails nothing owes what was owed, or less of it.
LEMMA OweStays ==
  ASSUME TypeInv, OweInv, Same, UNCHANGED <<saved, live, last, got, mailed, origin, warned>>, lost \subseteq lost'
  PROVE  /\ Filled' /\ Known' /\ Owed' \subseteq Owed
         /\ ~warned /\ pc' # "live" => Owes'
         /\ ~warned /\ unreadable' = unreadable /\ (calm' => calm) => Spoiled'
         /\ unreadable' = {} => Spoiled'
<1>1. (\A i : Text(i)' = Text(i)) /\ (\A k : Plain(k)' = Plain(k)) /\ Lines' = Lines
  BY SameWorld
<1>2. Filled' /\ Known'
  BY <1>1 DEF OweInv, Filled, Known
<1>3. PICK S : S = Unmailed
  OBVIOUS
<1>4. PICK T : T = Unmailed'
  OBVIOUS
<1>5. PICK R : R = Owed
  OBVIOUS
<1>6. PICK Q : Q = Owed'
  OBVIOUS
<1>7. T \subseteq S /\ Q \subseteq R
  BY <1>1, <1>3, <1>4, <1>5, <1>6 DEF Unmailed, Owed
<1>8. PICK c : c = saved
  OBVIOUS
<1>9. PICK p : p = last
  OBVIOUS
<1>10. ASSUME ~warned, pc' # "live" PROVE Owes'
  <2>1. (c # None => AllPast(S, c)) /\ (p # None => AllPast(R, p))
    BY <1>3, <1>5, <1>8, <1>9, <1>10 DEF OweInv, Owes
  <2>2. saved' # None => AllPast(Unmailed, saved)'
    BY <1>1, <1>4, <1>7, <1>8, <2>1 DEF AllPast, Past, HasLine
  <2>3. last' # None => AllPast(Owed, last)'
    BY <1>1, <1>6, <1>7, <1>9, <2>1 DEF AllPast, Past, HasLine
  <2>4. /\ (saved = None => \A l \in Lines : mailed[l] = 0)'
        /\ (saved = None /\ live # None =>
             \A l \in Lines : l >= origin => IF live.start # 0 THEN live.seed < l ELSE live.fp <= l)'
    BY <1>1, <1>10 DEF OweInv, Owes
  <2> QED
    BY <1>10, <2>2, <2>3, <2>4 DEF Owes
<1>11. ASSUME ~warned, unreadable' = unreadable, calm' => calm PROVE Spoiled'
  <2>1. Spoiled
    BY <1>11 DEF OweInv
  <2>2. rot' = rot
    BY DEF Same
  <2> QED
    BY <1>1, <1>11, <2>1, <2>2 DEF Spoiled
<1>12. unreadable' = {} => Spoiled'
  BY DEF Spoiled
<1> QED
  BY <1>2, <1>5, <1>6, <1>7, <1>10, <1>11, <1>12

\* What is due among copies that are the same, where they were.
LEMMA CompleteStays ==
  ASSUME Same, live' = live, NEW S, NEW R, R = Owed', R \subseteq Owed, Complete(S),
         NEW D, D \subseteq S,
         \A i \in Inodes, l \in R : HasLine(i, l) => \A a \in S : a.ino = i => a \in D
  PROVE  Complete(D)'
<1>1. (\A i : Text(i)' = Text(i)) /\ (\A k : Plain(k)' = Plain(k))
  BY SameWorld
<1>2. \A l : Due(l, D)' => Due(l, S)
  BY <1>1 DEF Due
<1>3. ASSUME NEW k \in Numbers, NEW i \in Inodes, NEW l \in R, Plain(k)' = i, HasLine(i, l)', Due(l, D)'
      PROVE  \E a \in D : a.ino = i
  <2>1. Plain(k) = i /\ HasLine(i, l) /\ Due(l, S) /\ l \in Owed
    BY <1>1, <1>2, <1>3 DEF HasLine
  <2>2. PICK a \in S : a.ino = i
    BY <2>1 DEF Complete
  <2> QED
    BY <2>1, <2>2
<1> QED
  BY <1>3 DEF Complete

LEMMA OweList ==
  ASSUME TypeInv, OrderInv, OweInv, setup' = setup, List \/ Absent
  PROVE  OweInv'
<1>1. /\ UNCHANGED <<file, dir, writer, rot, written, saved, live, last, got, mailed, origin, warned, lost, unreadable>>
      /\ pc' \in {"stat", "list"}
      /\ pc' = "stat" => names' = {n \in Names : dir[n] # None}
      /\ pc = "idle" \/ (calm' => calm)
  BY DEF List, Absent, world, search, history
<1>2. Same
  BY <1>1 DEF Same
<1>3. /\ Filled' /\ Known' /\ (~warned => Owes')
      /\ ~warned /\ (calm' => calm) => Spoiled'
      /\ unreadable' = {} => Spoiled'
  BY <1>1, <1>2, OweStays
<1>4. ~warned => Spoiled'
  BY <1>1, <1>3 DEF OweInv
<1>5. pc' = "stat" => (names = {n \in Names : dir[n] # None})'
  BY <1>1
<1> QED
  BY <1>1, <1>3, <1>4, <1>5 DEF OweInv

LEMMA OweTryOther ==
  ASSUME TypeInv, OrderInv, OweInv, setup' = setup, TryRenamed \/ TryMisfit
  PROVE  OweInv'
<1>1. /\ UNCHANGED <<world, saved, live, last, got, mailed, origin, warned, lost, unreadable, listing, calm>>
      /\ pc = "try" /\ pc' = "try"
  BY DEF TryRenamed, TryMisfit, history
<1>2. Same
  BY <1>1 DEF Same, world
<1>3. Filled' /\ Known' /\ Owed' \subseteq Owed /\ (~warned => Owes' /\ Spoiled')
  BY <1>1, <1>2, OweStays
<1>4. PICK S : S = Readable(listing)
  OBVIOUS
<1>5. PICK R : R = Owed'
  OBVIOUS
<1>6. Readable(listing)' = S
  BY <1>1, <1>4 DEF Readable, Archives, Everything, IsLive
<1>7. ASSUME ~warned PROVE Complete(Readable(listing))'
  <2>1. Complete(S)
    BY <1>1, <1>4, <1>7 DEF OweInv
  <2>2. Complete(S)'
    BY <1>1, <1>2, <1>3, <1>5, <2>1, CompleteStays
  <2> QED
    BY <1>6, <2>2 DEF Complete, Due
<1> QED
  BY <1>1, <1>3, <1>7 DEF OweInv

\* A copy that cannot be read is given up with all its lines.
LEMMA OweTryUnreadable ==
  ASSUME TypeInv, OrderInv, OweInv, setup' = setup, TryUnreadable
  PROVE  OweInv'
<1> USE DEF OrderInv
<1>1. PICK a : a = Head(queue).copy
  OBVIOUS
<1>2. /\ pc = "try" /\ queue # <<>> /\ Listed(a) /\ Flawed(a, 0) /\ pc' = "try"
      /\ unreadable' = unreadable \cup {Identity(a)}
      /\ UNCHANGED <<world, saved, live, last, got, mailed, origin, warned, listing, calm>>
  BY <1>1 DEF TryUnreadable
<1>3. Same
  BY <1>2 DEF Same, world
<1>4. a \in May(listing)
  <2>1. Head(queue) \in Items(listing)
    BY <1>2, TailIs DEF QueueIs
  <2> QED
    BY <1>1, <2>1 DEF Items
<1>5. a \in Everything(listing) /\ At(a) = a.ino
  BY <1>2, <1>4 DEF May, Listed
<1>6. a.k \in Numbers /\ a.ino \in Inodes /\ Plain(a.k) = a.ino /\ (live # None => live.ino # a.ino)
  BY <1>5, CopyFound
<1>7. PICK k \in Numbers : k = a.k
  BY <1>6
<1>8. PICK i \in Inodes : i = a.ino
  BY <1>6
<1>9. PICK t : t = Text(i)
  OBVIOUS
<1>10. Plain(k) = i
  BY <1>6, <1>7, <1>8
<1>11. t \in Seq(Nat) /\ FirstLine(t) # 0 /\ DOMAIN t = 1..Len(t)
  BY <1>9, <1>10, FilledText DEF OweInv
<1>12. lost \subseteq lost' /\ \A y \in DOMAIN t : t[y] \in lost'
  <2>1. lost' = lost \cup ToSet(Rest(t, 0))
    BY <1>2, <1>8, <1>9 DEF Flawed
  <2>2. \A y \in DOMAIN t : 0 < y
    BY <1>11
  <2>3. \A y \in DOMAIN t : t[y] \in ToSet(Rest(t, 0))
    BY <1>11, <2>2, RestHas
  <2> QED
    BY <2>1, <2>3
<1>13. Filled' /\ Known' /\ Owed' \subseteq Owed /\ (~warned => Owes')
  BY <1>2, <1>3, <1>12, OweStays
<1>14. PICK S : S = Readable(listing)
  OBVIOUS
<1>15. PICK D : D = Readable(listing)'
  OBVIOUS
<1>16. PICK R : R = Owed'
  OBVIOUS
<1>17. D = {b \in S : Identity(b) # Identity(a)}
  BY <1>2, <1>14, <1>15 DEF Readable, Archives, Everything, IsLive, Identity
<1>18. ASSUME NEW j \in Inodes, NEW l \in R, HasLine(j, l), NEW b \in S, b.ino = j PROVE b \in D
  <2>1. l \notin lost'
    BY <1>16 DEF Owed, Unmailed
  <2>2. j # i
    BY <1>9, <1>12, <1>18, <2>1 DEF HasLine
  <2>3. Identity(b) # Identity(a)
    BY <1>8, <1>18, <2>2 DEF Identity
  <2> QED
    BY <1>17, <2>3
<1>19. ASSUME ~warned PROVE Complete(Readable(listing))'
  <2>1. Complete(S) /\ D \subseteq S
    BY <1>2, <1>14, <1>17, <1>19 DEF OweInv
  <2>2. Complete(D)'
    BY <1>2, <1>3, <1>13, <1>16, <1>18, <2>1, CompleteStays
  <2> QED
    BY <1>15, <2>2 DEF Complete, Due
<1>20. ASSUME ~warned PROVE Spoiled'
  <2>1. Spoiled
    BY <1>20 DEF OweInv
  <2>2. (\A j : Text(j)' = Text(j)) /\ (\A m : Plain(m)' = Plain(m)) /\ rot' = rot
    BY <1>3, SameWorld DEF Same
  <2>3. ASSUME NEW m \in 1..Kept + 1, NEW j \in Inodes, <<m, FALSE, j>> \in unreadable'
        PROVE  /\ live # None => live.ino # j
               /\ IF Plain(0) = j THEN ~calm /\ rot > Kept
                  ELSE \/ \A y \in DOMAIN Text(j) : Text(j)[y] \in lost'
                       \/ live = None /\ Plain(1) = j /\ ~calm /\ rot > Kept
    <3>1. CASE <<m, FALSE, j>> \in unreadable
      BY <1>12, <2>1, <3>1 DEF Spoiled
    <3>2. CASE <<m, FALSE, j>> = Identity(a)
      <4>1. m = k /\ j = i
        BY <1>7, <1>8, <3>2 DEF Identity
      <4>2. k # 0 /\ 0 \in Numbers
        BY <4>1, NumbersAre
      <4>3. Plain(0) # i
        BY <1>10, <4>2, NoneIs DEF Renamed, OneName
      <4> QED
        BY <1>6, <1>8, <1>9, <1>12, <4>1, <4>3
    <3> QED
      BY <1>2, <2>3, <3>1, <3>2
  <2> QED
    BY <1>2, <2>2, <2>3 DEF Spoiled
<1> QED
  BY <1>2, <1>13, <1>19, <1>20 DEF OweInv

\* With no match the run says so, or lists once more.
LEMMA OweUnmatched ==
  ASSUME TypeInv, OrderInv, OweInv, setup' = setup, Unmatched
  PROVE  OweInv'
<1>1. UNCHANGED <<world, saved, live, last, got, mailed, origin, unreadable, calm>>
  BY DEF Unmatched
<1>2. Same
  BY <1>1 DEF Same, world
<1>3. CASE again
  <2>1. warned' = TRUE
    BY <1>3 DEF Unmatched
  <2>2. (\A i : Text(i)' = Text(i)) /\ (\A k : Plain(k)' = Plain(k))
    BY <1>2, SameWorld
  <2>3. Filled' /\ Known'
    BY <1>1, <2>2 DEF OweInv, Filled, Known
  <2> QED
    BY <2>1, <2>3 DEF OweInv
<1>4. CASE ~again
  <2>1. warned' = warned /\ lost' = lost /\ pc' = "list"
    BY <1>4 DEF Unmatched
  <2>2. Filled' /\ Known' /\ (~warned => Owes' /\ Spoiled')
    BY <1>1, <1>2, <2>1, OweStays
  <2> QED
    BY <2>1, <2>2 DEF OweInv
<1> QED
  BY <1>3, <1>4

\* When nothing of the copies is left to read, nothing older than the live file is owed.
LEMMA OweToLive ==
  ASSUME TypeInv, OrderInv, OweInv, setup' = setup, ToLive
  PROVE  OweInv'
<1>1. /\ UNCHANGED <<world, saved, live, last, got, mailed, origin, warned, lost, unreadable, calm>>
      /\ pc = "chain" /\ chain = <<>> /\ live # None /\ pc' = "live"
  BY DEF ToLive, search, history
<1>2. Same
  BY <1>1 DEF Same, world
<1>3. Filled' /\ Known' /\ (~warned => Spoiled')
  BY <1>1, <1>2, OweStays
<1>4. ASSUME ~warned PROVE Owes'
  <2>1. (\A i : Text(i)' = Text(i)) /\ (\A k : Plain(k)' = Plain(k)) /\ Lines' = Lines
    BY <1>2, SameWorld
  <2>2. PICK S : S = Unmailed
    OBVIOUS
  <2>3. PICK R : R = Owed
    OBVIOUS
  <2>4. Unmailed' = S /\ Owed' = R
    BY <1>1, <2>1, <2>2, <2>3 DEF Unmailed, Owed
  <2>5. PICK c : c = saved
    OBVIOUS
  <2>6. PICK p : p = last
    OBVIOUS
  <2>7. PICK v : v = live
    OBVIOUS
  <2>8. Complete({}) /\ (c # None => AllPast(S, c)) /\ (p # None => AllPast(R, p))
    <3>1. ToSet(chain) = {}
      BY <1>1 DEF ToSet
    <3> QED
      BY <1>1, <1>4, <2>2, <2>3, <2>5, <2>6, <3>1 DEF OweInv, Owes
  <2>9. AllPast(R, v)
    <3>1. live.off = 0 /\ live.fp \in Nat
      BY <1>1, PlacesYoung DEF OrderInv, Stage, OweInv, Young
    <3>2. ASSUME NEW k \in Numbers, NEW i \in Inodes, NEW l \in R, Plain(k) = i, HasLine(i, l) PROVE Past(l, v)
      <4>1. ~Due(l, {})
        BY <2>3, <2>8, <3>2 DEF Complete
      <4>2. l \in Nat
        BY <2>3, OwedNat
      <4> QED
        BY <1>1, <2>7, <3>1, <4>1, <4>2 DEF Due, Past
    <3> QED
      BY <3>2 DEF AllPast
  <2>10. /\ c # None => AllPast(Unmailed, saved)'
         /\ p # None => AllPast(Owed, last)'
         /\ AllPast(Owed, live)'
    BY <1>1, <2>1, <2>4, <2>5, <2>6, <2>7, <2>8, <2>9 DEF AllPast, Past, HasLine
  <2>11. saved # None
    BY <1>1 DEF TypeInv
  <2> QED
    BY <1>1, <2>5, <2>6, <2>10, <2>11 DEF Owes
<1> QED
  BY <1>1, <1>3, <1>4 DEF OweInv

-----------------------------------------------------------------------------
(* The position saved, and where the live file is read from *)

\* A file with a line that comes after one of another file is that file, or a newer one.
LEMMA DueBefore ==
  ASSUME TypeInv, Renamed, NEW k \in Numbers, NEW i \in Inodes, NEW l, Plain(k) = i, HasLine(i, l),
         NEW m \in Numbers, NEW j \in Inodes, Plain(m) = j, \E y \in DOMAIN Text(j) : l < Text(j)[y]
  PROVE  m <= k
<1>1. k \in Nat /\ m \in Nat /\ l \in Nat
  BY NumbersAre, LinesAre DEF TypeInv, HasLine
<1>2. ASSUME k < m PROVE FALSE
  <2>1. Earlier(j, i)
    BY <1>2 DEF Renamed, InAge
  <2>2. PICK y \in DOMAIN Text(j) : l < Text(j)[y]
    OBVIOUS
  <2>3. Text(j)[y] < l /\ Text(j)[y] \in Nat
    BY <2>1, LinesAre DEF Earlier, Later, HasLine, TypeInv
  <2> QED
    BY <1>1, <2>2, <2>3
<1> QED
  BY <1>1, <1>2

\* Lines of the live handle's own file are not older than its first one.
LEMMA LiveFirst ==
  ASSUME TypeInv, OrderInv, Known, live # None, NEW l, HasLine(live.ino, l)
  PROVE  ~(l < live.fp)
<1>1. PICK i \in Inodes : i = live.ino
  BY DEF TypeInv, TypeOK, LogFiles
<1>2. PICK t : t = Text(i)
  OBVIOUS
<1>3. /\ DOMAIN t = 1..Len(t) /\ Len(t) \in Nat
      /\ \A x \in DOMAIN t : t[x] \in Nat
      /\ \A x, y \in DOMAIN t : x < y => t[x] < t[y]
  BY <1>2, LinesAre DEF TypeInv, OrderInv, Renamed, Rising
<1>4. 1 \in DOMAIN t /\ t[1] = live.fp
  BY <1>1, <1>2 DEF OrderInv, LiveIs, Sits, Known
<1>5. PICK y \in DOMAIN t : t[y] = l
  BY <1>1, <1>2 DEF HasLine
<1>6. y = 1 \/ 1 < y
  BY <1>3
<1> QED
  BY <1>3, <1>4, <1>5, <1>6

\* A listing that is one step shows every file that has something due.
LEMMA OweStat ==
  ASSUME TypeInv, Traceable, OrderInv, OweInv, setup' = setup, Stat
  PROVE  OweInv'
<1> USE DEF OrderInv
<1>1. /\ UNCHANGED <<world, saved, live, last, got, mailed, origin, warned, lost, unreadable, calm>>
      /\ pc = "stat" /\ pc' = "try" /\ listing' = Found
  BY DEF Stat, history
<1>2. Same
  BY <1>1 DEF Same, world
<1>3. Filled' /\ Known' /\ Owed' \subseteq Owed /\ (~warned => Owes' /\ Spoiled')
  BY <1>1, <1>2, OweStays
<1>4. PICK L : L = Found
  OBVIOUS
<1>5. PICK S : S = Readable(L)
  OBVIOUS
<1>6. PICK R : R = Owed'
  OBVIOUS
<1>7. Readable(listing)' = S
  <2>1. listing' = L
    BY <1>1, <1>4
  <2> QED
    BY <1>1, <1>5, <2>1 DEF Readable, Archives, Everything, IsLive
<1>8. \A a \in L : a.gz = FALSE /\ a.k \in Numbers /\ Plain(a.k) = a.ino /\ a.ino \in Inodes
  BY <1>4, FoundOrder
<1>9. \A a \in S : /\ a \in L /\ a.k > 0 /\ (live # None => a.ino # live.ino)
                   /\ <<a.k, FALSE, a.ino>> \notin unreadable
  BY <1>5, <1>8 DEF Readable, Archives, Everything, IsLive, Identity
<1>10. ASSUME ~warned PROVE Complete(S)
  <2>1. ASSUME NEW k \in Numbers, NEW i \in Inodes, NEW l \in Owed, Plain(k) = i, HasLine(i, l), Due(l, S)
        PROVE  \E a \in S : a.ino = i
    <3>1. k \in Nat /\ 0 \in Numbers /\ 1 \in Numbers /\ i # None
      BY NumbersAre, NoneIs
    <3>2. ASSUME NEW a \in S, Plain(a.k) = a.ino, NEW y \in DOMAIN Text(a.ino), l < Text(a.ino)[y]
          PROVE  a.k <= k /\ a.k > 0 /\ a.k \in Nat /\ (live # None => a.ino # live.ino)
      <4>1. PICK m \in Numbers : m = a.k
        BY <1>8, <1>9
      <4>2. PICK j \in Inodes : j = a.ino
        BY <1>8, <1>9
      <4>3. m <= k
        BY <2>1, <3>2, <4>1, <4>2, DueBefore
      <4> QED
        BY <1>9, <4>1, <4>3, NumbersAre
    <3>3. live # None /\ live.ino = i => ~(l < live.fp)
      BY <2>1, LiveFirst DEF OweInv
    <3>4. live # None /\ l < live.fp => k > 0
      <4>1. ASSUME live # None, l < live.fp, k = 0 PROVE FALSE
        <5>1. PICK j \in Inodes : j = live.ino
          BY <4>1 DEF TypeInv, TypeOK, LogFiles
        <5>2. Plain(1) = j
          BY <2>1, <3>3, <4>1, <5>1 DEF LiveIs
        <5>3. 1 \in DOMAIN Text(j) /\ Text(j)[1] = live.fp
          BY <4>1, <5>1 DEF LiveIs, Sits, OweInv, Known
        <5>4. 1 <= k
          BY <2>1, <3>1, <4>1, <5>2, <5>3, DueBefore
        <5> QED
          BY <4>1, <5>4
      <4> QED
        BY <3>1, <4>1
    <3>5. k > 0
      BY <2>1, <3>1, <3>2, <3>4 DEF Due
    <3>6. live # None => live.ino # i
      <4>1. ASSUME live # None, live.ino = i PROVE FALSE
        <5>1. Plain(0) = i \/ Plain(1) = i
          BY <4>1 DEF LiveIs
        <5>2. k = 0 \/ k = 1
          BY <2>1, <3>1, <5>1 DEF Renamed, OneName
        <5>3. PICK a \in S : Plain(a.k) = a.ino /\ \E y \in DOMAIN Text(a.ino) : l < Text(a.ino)[y]
          BY <2>1, <3>3, <4>1 DEF Due
        <5>4. a.k = k /\ a.ino # i
          BY <3>1, <3>2, <4>1, <5>2, <5>3
        <5> QED
          BY <2>1, <5>3, <5>4
      <4> QED
        BY <4>1
    <3>7. <<k, FALSE, i>> \notin unreadable
      <4>1. ASSUME <<k, FALSE, i>> \in unreadable PROVE FALSE
        <5>1. k \in 1..Kept + 1
          BY <3>5, NumbersAre
        <5>2. Plain(0) # i
          BY <2>1, <3>1, <3>5 DEF Renamed, OneName
        <5>3. (\A y \in DOMAIN Text(i) : Text(i)[y] \in lost) \/ (live = None /\ Plain(1) = i)
          BY <1>10, <4>1, <5>1, <5>2 DEF OweInv, Spoiled
        <5>4. l \notin lost
          BY <2>1 DEF Owed, Unmailed
        <5>5. live = None /\ Plain(1) = i
          BY <2>1, <5>3, <5>4 DEF HasLine
        <5>6. k = 1
          BY <2>1, <3>1, <5>5 DEF Renamed, OneName
        <5>7. PICK a \in S : Plain(a.k) = a.ino /\ \E y \in DOMAIN Text(a.ino) : l < Text(a.ino)[y]
          BY <2>1, <5>5 DEF Due
        <5>8. a.k = k
          BY <3>2, <5>6, <5>7
        <5>9. a.ino = i
          BY <2>1, <5>7, <5>8
        <5> QED
          BY <1>9, <4>1, <5>8, <5>9
      <4> QED
        BY <4>1
    <3>8. PICK r : r = [k |-> k, gz |-> FALSE, ino |-> i, size |-> Len(Text(i)), mtime |-> file[i].mtime]
      OBVIOUS
    <3>9. r \in L
      <4>1. names = {n \in Names : dir[n] # None}
        BY <1>1, <1>10 DEF OweInv
      <4>2. PICK n \in Names : n = <<k, FALSE>>
        BY NumbersAre
      <4>3. dir[n] = i /\ n[1] = k /\ n[2] = FALSE
        BY <2>1, <4>2 DEF Plain
      <4>4. n \in {m \in names : dir[m] # None}
        BY <3>1, <4>1, <4>3
      <4> QED
        BY <1>4, <3>8, <4>3, <4>4 DEF Found
    <3>10. r.k = k /\ r.gz = FALSE /\ r.ino = i
      BY <3>8
    <3>11. r \in S
      BY <1>5, <3>5, <3>6, <3>7, <3>9, <3>10 DEF Readable, Archives, Everything, IsLive, Identity
    <3> QED
      BY <3>10, <3>11
  <2> QED
    BY <2>1 DEF Complete
<1>11. ASSUME ~warned PROVE Complete(Readable(listing))'
  <2>1. Complete(S)'
    BY <1>1, <1>2, <1>3, <1>6, <1>10, <1>11, CompleteStays
  <2> QED
    BY <1>7, <2>1 DEF Complete, Due
<1> QED
  BY <1>1, <1>3, <1>11 DEF OweInv

\* A live file that is read on from the saved position, or for the first time, is read from
\* where its lines are owed.
LEMMA OweOpen ==
  ASSUME TypeInv, Traceable, OrderInv, OweInv, setup' = setup, Open
  PROVE  OweInv'
<1> USE DEF OrderInv
<1>1. PICK i : i = dir[Live]
  OBVIOUS
<1>2. PICK v : v = Opened(i)
  OBVIOUS
<1>3. PICK t : t = Text(i)
  OBVIOUS
<1>4. /\ pc = "idle" /\ i # None /\ live' = v
      /\ pc' = (IF Verdict(i) \in {"continue", "first-sight"} THEN "live" ELSE "list")
      /\ origin' = (IF saved # None THEN origin
                    ELSE IF FromStart /\ Rest(t, 0) # <<>> THEN Rest(t, 0)[1] ELSE written + 1)
      /\ UNCHANGED <<file, dir, writer, rot, written, saved, last, got, mailed, lost, warned, unreadable>>
  BY <1>1, <1>2, <1>3 DEF Open, search
<1>5. Same
  BY <1>4 DEF Same
<1>6. (\A j : Text(j)' = Text(j)) /\ (\A k : Plain(k)' = Plain(k)) /\ Lines' = Lines
  BY <1>5, SameWorld
<1>7. Plain(0) = i /\ i \in Inodes /\ 0 \in Numbers
  BY <1>1, <1>4, PlainIs, NumbersAre DEF Plain, TypeInv
<1>8. /\ t \in Seq(Nat) /\ DOMAIN t = 1..Len(t) /\ Len(t) \in Nat
      /\ 1 \in DOMAIN t /\ FirstLine(t) = t[1] /\ FirstLine(t) # 0
      /\ \A x \in DOMAIN t : t[x] \in Nat
  BY <1>3, <1>7, FilledText DEF OweInv
<1>9. PICK off : off = StartOffset(Verdict(i), t)
  OBVIOUS
<1>10. /\ v.ino = i /\ v.fp = t[1] /\ v.start = off /\ v.off = off
       /\ v.seed = Anchor(t, off) /\ v.anchor = Anchor(t, off)
  BY <1>2, <1>3, <1>8, <1>9 DEF Opened
<1>11. last = None /\ got = <<>>
  BY <1>4 DEF Stage
<1>12. Filled'
  BY <1>6 DEF OweInv, Filled
<1>13. Known'
  BY <1>4, <1>8, <1>10, NoneIs DEF OweInv, Known
<1> SUFFICES ASSUME ~warned PROVE Owes' /\ Spoiled'
  BY <1>4, <1>12, <1>13 DEF OweInv
<1>14. unreadable' = {}
  BY <1>4 DEF OweInv
<1>15. PICK U : U = Unmailed'
  OBVIOUS
<1>16. Owed' = U
  BY <1>4, <1>11, <1>15 DEF Owed, ToSet
<1>17. CASE saved # None
  <2>1. PICK c : c = saved
    OBVIOUS
  <2>2. U = Unmailed /\ AllPast(U, c)
    <3>1. U = Unmailed
      BY <1>4, <1>6, <1>15, <1>17 DEF Unmailed
    <3> QED
      BY <1>17, <2>1, <3>1 DEF OweInv, Owes
  <2>3. ASSUME pc' = "live" PROVE AllPast(U, v)
    <3>1. Verdict(i) = "continue"
      BY <1>4, <1>17, <2>3 DEF Verdict
    <3>2. off = c.off
      BY <1>9, <2>1, <3>1 DEF StartOffset
    <3>3. c.fp # None
      BY <1>17, <2>1 DEF OweInv, Known
    <3>4. c.fp = t[1] /\ Anchor(t, c.off) = c.anchor
      BY <1>3, <1>8, <1>17, <2>1, <3>1, <3>3 DEF Verdict
    <3>5. \A l : Past(l, v) <=> Past(l, c)
      BY <1>10, <3>2, <3>4 DEF Past
    <3> QED
      BY <2>2, <3>5 DEF AllPast
  <2>4. AllPast(Unmailed, saved)'
    BY <1>4, <1>6, <1>15, <2>1, <2>2 DEF AllPast, Past, HasLine
  <2>5. pc' = "live" => AllPast(Owed, live)'
    BY <1>4, <1>6, <1>16, <2>3 DEF AllPast, Past, HasLine
  <2>6. Owes'
    BY <1>4, <1>11, <1>17, <2>4, <2>5 DEF Owes
  <2> QED
    BY <1>14, <2>6 DEF Spoiled
<1>18. CASE saved = None
  <2>1. off = (IF FromStart THEN 0 ELSE Len(t))
    BY <1>9, <1>18 DEF Verdict, StartOffset
  <2>2. \A l \in Lines : mailed[l] = 0
    BY <1>18 DEF OweInv, Owes
  <2>3. written \in Nat /\ setup.lines \in Nat /\ \A x \in DOMAIN t : t[x] <= written
    BY <1>3, <1>7, LinesAre, TextIs DEF TypeInv
  <2>4. ASSUME NEW l \in Lines, l >= origin' PROVE IF off # 0 THEN Anchor(t, off) < l ELSE t[1] <= l
    <3>1. l \in Nat
      BY <2>3 DEF Lines
    <3>2. CASE FromStart
      <4>1. Rest(t, 0) # <<>> /\ Rest(t, 0)[1] = t[1]
        <5>1. Rest(t, 0) = SubSeq(t, 1, Len(t))
          BY <1>8 DEF Rest
        <5>2. 1 <= Len(t)
          BY <1>8
        <5> QED
          BY <1>8, <5>1, <5>2
      <4>2. origin' = t[1] /\ t[1] \in Nat
        BY <1>4, <1>8, <1>18, <3>2, <4>1
      <4> QED
        BY <2>1, <2>4, <3>1, <3>2, <4>2
    <3>3. CASE ~FromStart
      <4>1. off = Len(t) /\ off # 0 /\ off \in DOMAIN t
        BY <1>8, <2>1, <3>3
      <4>2. Anchor(t, off) = t[off]
        BY <1>8, <4>1 DEF Anchor
      <4>3. origin' = written + 1
        BY <1>4, <1>18, <3>3
      <4> QED
        BY <1>8, <2>3, <2>4, <3>1, <4>1, <4>2, <4>3
    <3> QED
      BY <3>2, <3>3
  <2>5. \A l \in U : l \in Lines /\ l >= origin'
    BY <1>6, <1>15 DEF Unmailed
  <2>6. AllPast(U, v)
    BY <1>10, <2>4, <2>5 DEF AllPast, Past
  <2>7. AllPast(Owed, live)'
    BY <1>4, <1>6, <1>16, <2>6 DEF AllPast, Past, HasLine
  <2>8. (\A l \in Lines : l >= origin => IF live.start # 0 THEN live.seed < l ELSE live.fp <= l)'
    BY <1>4, <1>6, <1>10, <2>4
  <2>9. (\A l \in Lines : mailed[l] = 0)'
    BY <1>4, <1>6, <2>2
  <2>10. Owes'
    BY <1>4, <1>11, <1>18, <2>7, <2>8, <2>9 DEF Owes
  <2> QED
    BY <1>14, <2>10 DEF Spoiled
<1> QED
  BY <1>17, <1>18

\* What the live handle has read is owed no more; what is owed is behind it.
LEMMA OweReadLive ==
  ASSUME TypeInv, OrderInv, OweInv, setup' = setup, ReadLive
  PROVE  OweInv'
<1> USE DEF OrderInv
<1>1. live \in LogFiles /\ live # None
  BY DEF ReadLive, TypeInv, TypeOK
<1>2. PICK i \in Inodes : i = live.ino
  BY <1>1 DEF LogFiles
<1>3. PICK off \in Nat : off = live.off
  <2>1. setup.lines \in Nat
    BY SetupIs DEF TypeInv, TypeOK, WorldTypeOK
  <2> QED
    BY <1>1, <2>1 DEF LogFiles, Positions
<1>4. PICK t : t = Text(i)
  OBVIOUS
<1>5. PICK r : r = Rest(t, off)
  OBVIOUS
<1>6. PICK v : v = [live EXCEPT !.off = Len(t), !.anchor = Anchor(t, Len(t))]
  OBVIOUS
<1>7. /\ pc = "live" /\ Len(t) > off /\ pc' = "live" /\ got' = got \o r /\ live' = v
      /\ UNCHANGED <<world, saved, last, mailed, origin, lost, warned, unreadable, calm>>
  BY <1>2, <1>3, <1>4, <1>5, <1>6 DEF ReadLive, search, history
<1>8. Same
  BY <1>7 DEF Same, world
<1>9. PICK k \in {0, 1} : Plain(k) = i
  BY <1>1, <1>2 DEF LiveIs
<1>10. k \in Numbers /\ k \in Nat
  BY NumbersAre
<1>11. /\ t \in Seq(Nat) /\ DOMAIN t = 1..Len(t) /\ Len(t) \in Nat /\ 1 \in DOMAIN t /\ FirstLine(t) # 0
       /\ \A x \in DOMAIN t : t[x] \in Nat
       /\ \A x, y \in DOMAIN t : x < y => t[x] < t[y]
  BY <1>4, <1>9, <1>10, FilledText DEF OweInv
<1>12. PICK n : n = Len(t)
  OBVIOUS
<1>13. n \in DOMAIN t /\ n # 0 /\ Anchor(t, n) = t[n]
  <2>1. n \in DOMAIN t /\ n # 0 /\ n \in Nat
    BY <1>7, <1>11, <1>12
  <2>2. Anchor(t, n) = t[n]
    BY <1>12, <2>1 DEF Anchor
  <2> QED
    BY <2>1, <2>2
<1>14. /\ v.ino = i /\ v.off = n /\ v.anchor = t[n] /\ v.fp = live.fp
       /\ v.start = live.start /\ v.seed = live.seed
  BY <1>1, <1>2, <1>6, <1>12, <1>13 DEF LogFiles
<1>15. live.fp = t[1] /\ (off # 0 => off \in DOMAIN t /\ t[off] = live.anchor)
  BY <1>1, <1>2, <1>3, <1>4 DEF LiveIs, Sits, OweInv, Known
<1>16. ToSet(got) \subseteq ToSet(got') /\ ToSet(r) \subseteq ToSet(got')
  <2>1. r \in Seq(Lines) /\ got \in Seq(Lines)
    BY <1>4, <1>5, FileReads DEF TypeInv, TypeOK
  <2>2. \A x \in DOMAIN got : x \in DOMAIN got' /\ got'[x] = got[x]
    BY <1>7, <2>1
  <2>3. \A x \in DOMAIN r : Len(got) + x \in DOMAIN got' /\ got'[Len(got) + x] = r[x]
    BY <1>7, <2>1
  <2> QED
    BY <2>2, <2>3 DEF ToSet
<1>17. (\A j : Text(j)' = Text(j)) /\ (\A m : Plain(m)' = Plain(m)) /\ Lines' = Lines
  BY <1>8, SameWorld
<1>18. Filled'
  BY <1>17 DEF OweInv, Filled
<1>19. Known'
  BY <1>1, <1>7, <1>14 DEF OweInv, Known
<1> SUFFICES ASSUME ~warned PROVE Owes' /\ Spoiled'
  BY <1>7, <1>18, <1>19 DEF OweInv
<1>20. PICK U : U = Unmailed
  OBVIOUS
<1>21. PICK S : S = Owed
  OBVIOUS
<1>22. PICK R : R = Owed'
  OBVIOUS
<1>23. Unmailed' = U /\ R \subseteq S /\ R \cap ToSet(got') = {}
  BY <1>7, <1>16, <1>17, <1>20, <1>21, <1>22 DEF Unmailed, Owed
<1>24. PICK c : c = saved
  OBVIOUS
<1>25. PICK p : p = last
  OBVIOUS
<1>26. (c # None => AllPast(U, c)) /\ (p # None => AllPast(S, p)) /\ AllPast(S, live)
  BY <1>7, <1>20, <1>21, <1>24, <1>25 DEF OweInv, Owes
<1>27. AllPast(R, v)
  <2>1. ASSUME NEW m \in Numbers, NEW j \in Inodes, NEW l \in R, Plain(m) = j, HasLine(j, l) PROVE t[n] < l
    <3>1. IF off # 0 THEN off \in DOMAIN t /\ t[off] < l ELSE t[1] <= l
      BY <1>3, <1>15, <1>23, <1>26, <2>1 DEF AllPast, Past
    <3>2. l \in Nat /\ m \in Nat
      BY <2>1, LinesAre, NumbersAre DEF TypeInv, HasLine
    <3>3. CASE m = k
      <4>1. PICK y \in DOMAIN t : t[y] = l
        BY <1>4, <1>9, <2>1, <3>3 DEF HasLine
      <4>2. off < y
        <5>1. y \in Nat /\ y # 0
          BY <1>11
        <5>2. CASE off # 0
          <6>1. off \in DOMAIN t /\ t[off] < t[y] /\ t[off] \in Nat /\ t[y] \in Nat
            BY <1>11, <3>1, <4>1, <5>2
          <6>2. ~(y < off) /\ y # off
            BY <1>11, <6>1
          <6> QED
            BY <5>1, <6>2
        <5> QED
          BY <5>1, <5>2
      <4>3. l \in ToSet(r)
        BY <1>5, <1>11, <4>1, <4>2, RestHas
      <4> QED
        BY <1>16, <1>23, <2>1, <4>3
    <3>4. CASE m < k
      <4>1. Earlier(i, j)
        BY <1>9, <1>10, <2>1, <3>4 DEF Renamed, InAge
      <4> QED
        BY <1>4, <1>13, <2>1, <4>1 DEF Earlier, Later, HasLine
    <3>5. CASE k < m
      <4>1. Earlier(j, i)
        BY <1>9, <1>10, <2>1, <3>5 DEF Renamed, InAge
      <4>2. \A x \in DOMAIN t : l < t[x]
        BY <1>4, <2>1, <4>1 DEF Earlier, Later, HasLine
      <4>3. PICK z \in DOMAIN t : t[z] <= l
        BY <1>11, <3>1, <3>2
      <4> QED
        BY <1>11, <3>2, <4>2, <4>3
    <3> QED
      BY <1>10, <3>2, <3>3, <3>4, <3>5
  <2> QED
    BY <1>13, <1>14, <2>1 DEF AllPast, Past
<1>28. Owes'
  <2>1. /\ c # None => AllPast(Unmailed, saved)'
        /\ p # None => AllPast(Owed, last)'
        /\ AllPast(Owed, live)'
    BY <1>7, <1>17, <1>22, <1>23, <1>24, <1>25, <1>26, <1>27 DEF AllPast, Past, HasLine
  <2>2. /\ (saved = None => \A l \in Lines : mailed[l] = 0)'
        /\ (saved = None /\ live # None =>
             \A l \in Lines : l >= origin => IF live.start # 0 THEN live.seed < l ELSE live.fp <= l)'
    BY <1>1, <1>7, <1>14, <1>17 DEF OweInv, Owes
  <2> QED
    BY <1>7, <1>24, <1>25, <2>1, <2>2 DEF Owes
<1>29. Spoiled'
  <2>1. Spoiled
    BY DEF OweInv
  <2>2. live.ino = v.ino /\ rot' = rot
    BY <1>2, <1>8, <1>14 DEF Same
  <2>3. live' = v /\ unreadable' = unreadable /\ lost' = lost /\ calm' = calm
    BY <1>7
  <2>4. live' # None
    BY <1>7, ReadLiveTypes DEF TypeInv, TypeOK
  <2> QED
    BY <1>1, <1>17, <2>1, <2>2, <2>3, <2>4 DEF Spoiled
<1> QED
  BY <1>28, <1>29

\* What a run that ends has to leave: a position behind which all is that is owed.
LEMMA OweEnds ==
  ASSUME TypeInv, OrderInv, OweInv, setup' = setup, Ended, NEW c, saved' = c,
         c # None => c.fp # None /\ Placed(c), NEW U, U = Unmailed',
         ~warned => /\ c # None => AllPast(U, c)
                    /\ c = None => \A l \in Lines : mailed'[l] = 0
  PROVE  OweInv'
<1>1. Moved
  BY EndedMoves DEF TypeInv
<1>2. /\ pc' = "idle" /\ live' = None /\ last' = None /\ got' = <<>> /\ unreadable' = {}
      /\ warned' = warned /\ file' = Referred(dir, {}) /\ dir' = dir
  BY DEF Ended
<1>3. Lines' = Lines /\ \A k : Plain(k)' = Plain(k)
  BY <1>2 DEF Lines, Plain
<1>4. Filled'
  <2>1. ASSUME NEW k \in Numbers, NEW i \in Inodes, Plain(k) = i PROVE Text(i)' = Text(i)
    <3>1. PICK n \in Names : dir[n] = i
      BY <2>1, NumbersAre DEF Plain
    <3>2. file'[i] = file[i]
      BY <1>2, <3>1 DEF Referred
    <3> QED
      BY <3>2 DEF Text
  <2> QED
    BY <1>3, <2>1 DEF OweInv, Filled
<1>5. Known'
  BY <1>2 DEF Known
<1> SUFFICES ASSUME ~warned PROVE Owes' /\ Spoiled'
  BY <1>2, <1>4, <1>5 DEF OweInv
<1>6. c # None => AllPast(U, c)'
  <2>1. U \in SUBSET Nat
    <3>1. setup.lines \in Nat
      BY SetupIs DEF TypeInv, TypeOK, WorldTypeOK
    <3> QED
      BY <1>3, <3>1 DEF Unmailed, Lines
  <2>2. c # None => Young(c)
    BY SavedYoung DEF TypeInv
  <2> QED
    BY <1>1, <2>1, <2>2, PastGoesOn
<1>7. saved' # None => AllPast(Unmailed, saved)'
  BY <1>6 DEF AllPast, Past
<1>8. (saved = None => \A l \in Lines : mailed[l] = 0)'
  BY <1>3
<1>9. Owes'
  BY <1>2, <1>7, <1>8 DEF Owes
<1>10. Spoiled'
  BY <1>2 DEF Spoiled
<1> QED
  BY <1>9, <1>10

\* The mail is accepted, and what was read is owed no more; or it is refused, and all is owed on.
LEMMA OweFinish ==
  ASSUME TypeInv, OrderInv, OweInv, setup' = setup, NEW cursor, Finish(cursor), saved = None => live # None,
         cursor # None, cursor.fp # None, Placed(cursor), ~warned => AllPast(Owed, cursor)
  PROVE  OweInv'
<1>1. Ended /\ Lines' = Lines /\ origin' = origin /\ lost' = lost
  BY DEF Finish, Ended, Lines
<1>2. PICK U : U = Unmailed'
  OBVIOUS
<1> DEFINE count(l) == Cardinality({i \in DOMAIN got : got[i] = l})
<1>3. CASE /\ saved' = cursor
           /\ mailed' = [l \in Lines |-> LET n == mailed[l] + count(l) IN IF n > 2 THEN 2 ELSE n]
  <2>1. got \in Seq(Lines) /\ \A l \in Lines : mailed[l] \in 0..2
    BY DEF TypeInv, TypeOK
  <2>2. \A l \in Lines : count(l) \in Nat /\ (count(l) = 0 => l \notin ToSet(got))
    <3>1. ASSUME NEW l \in Lines PROVE count(l) \in Nat /\ (count(l) = 0 => l \notin ToSet(got))
      <4>1. IsFiniteSet({i \in DOMAIN got : got[i] = l}) /\ count(l) \in Nat
        BY <2>1, CountIs
      <4>2. count(l) = 0 => {i \in DOMAIN got : got[i] = l} = {}
        BY <4>1, FS_EmptySet
      <4>3. count(l) = 0 => l \notin ToSet(got)
        BY <4>2 DEF ToSet
      <4> HIDE DEF count
      <4> QED
        BY <4>1, <4>3
    <3> HIDE DEF count
    <3> QED
      BY <3>1
  <2> HIDE DEF count
  <2>3. \A l \in Lines : mailed'[l] = 0 => mailed[l] = 0 /\ l \notin ToSet(got)
    <3>1. ASSUME NEW l \in Lines, mailed'[l] = 0 PROVE mailed[l] = 0 /\ count(l) = 0
      <4>1. mailed'[l] = LET n == mailed[l] + count(l) IN IF n > 2 THEN 2 ELSE n
        BY <1>3
      <4> QED
        BY <2>1, <2>2, <3>1, <4>1
    <3> QED
      BY <2>2, <3>1
  <2>4. U \subseteq Owed
    BY <1>1, <1>2, <2>3 DEF Unmailed, Owed
  <2>5. ~warned => AllPast(U, cursor)
    BY <2>4 DEF AllPast
  <2> QED
    BY <1>1, <1>2, <1>3, <2>5, OweEnds
<1>4. CASE saved' = (IF saved = None THEN StartCursor ELSE saved) /\ mailed' = mailed
  <2>1. PICK c : c = IF saved = None THEN StartCursor ELSE saved
    OBVIOUS
  <2>2. saved' = c
    BY <1>4, <2>1, Zenon
  <2>3. U = Unmailed
    BY <1>1, <1>2, <1>4 DEF Unmailed
  <2>4. CASE saved = None
    <3>1. c = StartCursor /\ live # None /\ Placed(c) /\ c # None
      BY <2>1, <2>4, LivePlaced
    <3>2. c.off = live.start /\ c.anchor = live.seed /\ c.fp = live.fp
      BY <3>1 DEF StartCursor
    <3>3. c.fp # None
      BY <3>1, <3>2 DEF OweInv, Known
    <3>4. ~warned => AllPast(U, c)
      <4>1. ~warned => \A l \in U : Past(l, c)
        BY <2>3, <2>4, <3>1, <3>2 DEF OweInv, Owes, Past, Unmailed
      <4> QED
        BY <4>1 DEF AllPast
    <3> QED
      BY <1>1, <1>2, <2>2, <3>1, <3>3, <3>4, OweEnds
  <2>5. CASE saved # None
    <3>1. c = saved
      BY <2>1, <2>5
    <3>2. c # None /\ c.fp # None /\ Placed(c) /\ (~warned => AllPast(U, c))
      BY <2>3, <2>5, <3>1 DEF OweInv, Known, Owes, OrderInv, Places
    <3> QED
      BY <1>1, <1>2, <2>2, <3>2, OweEnds
  <2> QED
    BY <2>4, <2>5
<1> QED
  BY <1>3, <1>4 DEF Finish

LEMMA OweStops ==
  ASSUME TypeInv, OrderInv, OweInv, setup' = setup, Stopped \/ NoLiveRead \/ LiveEnds \/ LiveTruncated
  PROVE  OweInv'
<1>1. CASE Stopped \/ NoLiveRead
  <2>1. pc = "chain" /\ Finish(Parked) /\ saved # None
    BY <1>1 DEF Stopped, NoLiveRead, TypeInv
  <2>2. PICK c : c = Parked
    OBVIOUS
  <2>3. c # None /\ Placed(c)
    BY <2>1, <2>2, ParkedPlaced
  <2>4. c.fp # None /\ (~warned => AllPast(Owed, c))
    <3>1. CASE last = None
      <4>1. c = saved
        BY <2>2, <3>1 DEF Parked
      <4>2. c.fp # None /\ (~warned => AllPast(Unmailed, c))
        BY <2>1, <4>1 DEF OweInv, Known, Owes
      <4> QED
        BY <4>2 DEF AllPast, Owed
    <3>2. CASE last # None
      <4>1. c.off = last.off /\ c.anchor = last.anchor /\ c.fp = last.fp
        BY <2>2, <3>2 DEF Parked
      <4>2. Young(last)
        BY <3>2, PlacesYoung DEF OweInv
      <4>3. c.fp # None
        BY <4>1, <4>2, NoneIs DEF Young
      <4>4. ~warned => AllPast(Owed, last)
        BY <3>2 DEF OweInv, Owes
      <4> QED
        BY <4>1, <4>3, <4>4 DEF AllPast, Past
    <3> QED
      BY <3>1, <3>2
  <2> QED
    BY <2>1, <2>2, <2>3, <2>4, OweFinish
<1>2. CASE LiveEnds
  <2>1. pc = "live" /\ live # None /\ Finish(LiveCursor)
    BY <1>2 DEF LiveEnds, TypeInv, TypeOK
  <2>2. PICK c : c = LiveCursor
    OBVIOUS
  <2>3. c # None /\ Placed(c)
    BY <2>1, <2>2, LivePlaced
  <2>4. c.off = live.off /\ c.anchor = live.anchor /\ c.fp = live.fp
    BY <2>2 DEF LiveCursor
  <2>5. c.fp # None
    BY <2>1, <2>4 DEF OweInv, Known
  <2>6. ~warned => AllPast(Owed, c)
    BY <2>1, <2>4 DEF OweInv, Owes, AllPast, Past
  <2> QED
    BY <2>1, <2>2, <2>3, <2>5, <2>6, OweFinish
<1>3. ~LiveTruncated
  BY LivePlaced DEF LiveTruncated, TypeInv, TypeOK
<1> QED
  BY <1>1, <1>2, <1>3

LEMMA OweDies ==
  ASSUME TypeInv, OrderInv, OweInv, setup' = setup, Dies
  PROVE  OweInv'
<1>1. /\ Ended /\ saved' = saved /\ mailed' = mailed /\ Lines' = Lines
      /\ origin' = origin /\ lost' = lost
  BY DEF Dies, Ended, Lines
<1>2. PICK U : U = Unmailed'
  OBVIOUS
<1>3. U = Unmailed
  BY <1>1, <1>2 DEF Unmailed
<1>4. PICK c : c = saved
  OBVIOUS
<1>5. c # None => c.fp # None /\ Placed(c)
  BY <1>4 DEF OweInv, Known, OrderInv, Places
<1>6. ~warned => /\ c # None => AllPast(U, c)
                 /\ c = None => \A l \in Lines : mailed'[l] = 0
  BY <1>1, <1>3, <1>4 DEF OweInv, Owes
<1> QED
  BY <1>1, <1>2, <1>4, <1>5, <1>6, OweEnds

LEMMA OweUnchanged ==
  ASSUME TypeInv, OweInv, UNCHANGED vars
  PROVE  OweInv'
<1>1. /\ Same
      /\ UNCHANGED <<dir, saved, pc, live, names, listing, chain, last, got, mailed, origin, lost, warned, unreadable, calm>>
  BY DEF Same, vars, world, run, search, history
<1>2. Filled' /\ Known' /\ Owed' \subseteq Owed /\ (~warned => Spoiled' /\ (pc' # "live" => Owes'))
  BY <1>1, OweStays
<1>3. (\A i : Text(i)' = Text(i)) /\ (\A k : Plain(k)' = Plain(k)) /\ Lines' = Lines
  BY <1>1, SameWorld
<1>4. PICK R : R = Owed'
  OBVIOUS
<1>5. Owed = R
  BY <1>1, <1>3, <1>4 DEF Owed, Unmailed
<1>6. ASSUME ~warned PROVE Owes'
  <2>1. Unmailed' = Unmailed
    BY <1>1, <1>3 DEF Unmailed
  <2>2. Owes
    BY <1>6 DEF OweInv
  <2>3. PICK c : c = saved
    OBVIOUS
  <2>4. PICK p : p = last
    OBVIOUS
  <2>5. PICK v : v = live
    OBVIOUS
  <2>6. PICK U : U = Unmailed
    OBVIOUS
  <2>7. /\ c # None => AllPast(U, c)
        /\ p # None => AllPast(R, p)
        /\ pc = "live" => AllPast(R, v)
    BY <1>5, <2>2, <2>3, <2>4, <2>5, <2>6 DEF Owes
  <2>8. /\ c # None => AllPast(Unmailed, saved)'
        /\ p # None => AllPast(Owed, last)'
        /\ pc = "live" => AllPast(Owed, live)'
    BY <1>1, <1>3, <1>4, <2>1, <2>3, <2>4, <2>5, <2>6, <2>7 DEF AllPast, Past, HasLine
  <2>9. /\ (saved = None => \A l \in Lines : mailed[l] = 0)'
        /\ (saved = None /\ live # None =>
             \A l \in Lines : l >= origin => IF live.start # 0 THEN live.seed < l ELSE live.fp <= l)'
    BY <1>1, <1>3, <2>2 DEF Owes
  <2> QED
    BY <1>1, <2>3, <2>4, <2>5, <2>8, <2>9 DEF Owes
<1>7. PICK S : S = Readable(listing)
  OBVIOUS
<1>8. PICK Q : Q = ToSet(chain)
  OBVIOUS
<1>9. Readable(listing)' = S /\ ToSet(chain)' = Q
  BY <1>1, <1>7, <1>8 DEF Readable, Archives, Everything, IsLive, ToSet
<1>10. (Complete(S) => Complete(S)') /\ (Complete(Q) => Complete(Q)')
  BY <1>1, <1>4, <1>5, CompleteStays
<1>11. /\ Complete(Readable(listing)) => Complete(Readable(listing))'
       /\ Complete(ToSet(chain)) => Complete(ToSet(chain))'
  BY <1>7, <1>8, <1>9, <1>10 DEF Complete, Due
<1>12. pc' = pc /\ warned' = warned
  BY <1>1
<1>13. pc = "stat" /\ ~warned => (names = {n \in Names : dir[n] # None})'
  BY <1>1 DEF OweInv
<1>14. pc = "idle" /\ ~warned => (unreadable = {})'
  BY <1>1 DEF OweInv
<1> QED
  BY <1>2, <1>6, <1>11, <1>12, <1>13, <1>14 DEF OweInv

LEMMA OweInit == Init /\ Traceable => OweInv
<1> SUFFICES ASSUME Init, Traceable PROVE OweInv
  OBVIOUS
<1>1. TypeInv /\ OrderInv
  BY TypesInit, OrderInit DEF Traceable
<1>2. /\ pc = "idle" /\ live = None /\ last = None /\ saved = None /\ mailed = [l \in Lines |-> 0]
      /\ unreadable = {}
  BY DEF Init, Idle
<1>3. PICK i \in Inodes :
        /\ dir = [n \in Names |-> IF n = Live THEN i ELSE None]
        /\ file = [j \in Inodes |-> IF j = i THEN [Blank EXCEPT !.text = Fresh(0)] ELSE Blank]
  BY DEF Init, WorldInit
<1>4. Text(i) = Fresh(0)
  BY <1>3 DEF Text, Blank
<1>5. Fresh(0) # <<>>
  BY DEF Fresh, Traceable, Renaming
<1>6. ASSUME NEW k \in Numbers, NEW j \in Inodes, Plain(k) = j PROVE j = i
  BY <1>3, <1>6, NumbersAre, NoneIs DEF Plain
<1>7. Filled
  BY <1>4, <1>5, <1>6 DEF Filled
<1>8. Known /\ Owes /\ Spoiled
  BY <1>2 DEF Known, Owes, Spoiled
<1> QED
  BY <1>2, <1>7, <1>8 DEF OweInv

LEMMA OweStep ==
  ASSUME TypeInv, Traceable, OrderInv, OweInv, [Next]_vars
  PROVE  OweInv'
<1>1. CASE UNCHANGED vars
  BY <1>1, OweUnchanged
<1>2. CASE Next
  <2>1. setup' = setup
    BY <1>2 DEF Next
  <2>2. CASE RunNext
    <3>1. CASE Open
      BY <2>1, <3>1, OweOpen
    <3>2. CASE List \/ Absent
      BY <2>1, <3>2, OweList
    <3>3. CASE NothingYet
      BY <3>3, OweUnchanged DEF NothingYet
    <3>4. CASE Stat
      BY <2>1, <3>4, OweStat
    <3>5. CASE TryRenamed \/ TryMisfit
      BY <2>1, <3>5, OweTryOther
    <3>6. CASE TryUnreadable
      BY <2>1, <3>6, OweTryUnreadable
    <3>7. CASE TryFits
      BY <2>1, <3>7, OweTryFits
    <3>8. CASE Unmatched
      BY <2>1, <3>8, OweUnmatched
    <3>9. CASE ReadNext
      BY <2>1, <3>9, OweReadNext
    <3>10. CASE ToLive
      BY <2>1, <3>10, OweToLive
    <3>11. CASE ReadLive
      BY <2>1, <3>11, OweReadLive
    <3>12. CASE Stopped \/ NoLiveRead \/ LiveEnds \/ LiveTruncated
      BY <2>1, <3>12, OweStops
    <3> QED
      BY <2>2, <3>1, <3>2, <3>3, <3>4, <3>5, <3>6, <3>7, <3>8, <3>9, <3>10, <3>11, <3>12 DEF RunNext
  <2>3. CASE Dies
    BY <2>1, <2>3, OweDies
  <2>4. CASE Beside
    BY <2>1, <2>4, OweBeside
  <2> QED
    BY <1>2, <2>2, <2>3, <2>4 DEF Next
<1> QED
  BY <1>1, <1>2

\* What is owed is behind every position, so what is mailed has nothing older behind it.
LEMMA NothingBetween ==
  ASSUME TypeInv, Renaming, OrderInv, OweInv
  PROVE  warned \/ NoLineSkipped
<1> USE DEF OrderInv
<1> SUFFICES ASSUME ~warned, NEW b \in Lines, mailed[b] > 0, NEW a \in origin..b, ~(mailed[a] > 0), a \notin Gone, a \notin lost
             PROVE  FALSE
  BY DEF NoLineSkipped
<1>1. setup.lines \in Nat /\ origin \in 1..setup.lines + 1 /\ mailed \in [Lines -> 0..2] /\ written \in Nat
  BY SetupIs, LinesAre DEF TypeInv, TypeOK, WorldTypeOK
<1>2. a \in Lines /\ a \in Nat /\ b \in Nat /\ a <= b /\ a >= origin /\ a > 0
  BY <1>1 DEF Lines
<1>3. a \in Unmailed
  BY <1>1, <1>2 DEF Unmailed
<1>4. b \in Carried
  BY DEF Carried
<1>5. saved # None /\ Behind(Carried, saved) /\ b <= written
  <2>1. Carried \subseteq 1..written /\ (saved = None => Carried = {})
    BY DEF TellsOn, Told
  <2> QED
    BY <1>1, <1>4, <2>1 DEF TellsOn
<1>6. PICK k \in Numbers, i \in Inodes : Plain(k) = i /\ HasLine(i, a)
  <2>1. Holds(a) # {}
    BY <1>1, <1>2, <1>5 DEF Gone
  <2>2. PICK i : i \in Linked /\ HasLine(i, a)
    BY <2>1 DEF Holds, HasLine
  <2>3. PICK n \in Names : dir[n] # None /\ dir[n] = i
    BY <2>2 DEF Linked
  <2>4. i \in Inodes
    BY <2>3 DEF TypeInv, TypeOK, WorldTypeOK
  <2>5. n = Live \/ (n[1] \in 1..Kept + 1 /\ n = <<n[1], FALSE>>)
    BY <2>3, NamesAre DEF Renamed, NoneIsPacked
  <2>6. \E k \in Numbers : n = <<k, FALSE>>
    BY <2>5, NumbersAre
  <2> QED
    BY <2>2, <2>3, <2>4, <2>6 DEF Plain
<1>7. Past(a, saved)
  BY <1>3, <1>5, <1>6 DEF OweInv, Owes, AllPast
<1>8. Young(saved)
  BY <1>5, PlacesYoung DEF OweInv
<1>9. saved.fp # None
  BY <1>5 DEF OweInv, Known
<1> QED
  BY <1>2, <1>4, <1>5, <1>7, <1>8, <1>9 DEF Young, Past, Behind

\* What is owed of a log whose files have a first line from the start, and whose listings are one step.
LEMMA OweHolds == Spec => [](TypeInv /\ (Renaming => OrderInv) /\ (Traceable => OweInv))
<1> DEFINE I == TypeInv /\ (Renaming => OrderInv)
           J == Traceable => OweInv
<1>1. Init => J
  BY OweInit
<1>2. I /\ J /\ [Next]_vars => J'
  <2> SUFFICES ASSUME I, J, [Next]_vars PROVE J'
    OBVIOUS
  <2>1. setup' = setup
    BY DEF Next, vars
  <2>2. Traceable' <=> Traceable
    BY <2>1 DEF Traceable, Renaming
  <2>3. Traceable => OweInv'
    BY OweStep DEF Traceable
  <2> QED
    BY <2>2, <2>3
<1>3. Spec => []I
  BY OrderHolds
<1> HIDE DEF I, J
<1>4. Spec => [](I /\ J)
  BY <1>1, <1>2, <1>3, PTL DEF Spec
<1> QED
  BY <1>4 DEF I, J

\* However a log that is rotated by renaming moves beside the runs that read it, whichever inode is
\* used again, and wherever a run stops, parks, dies or has its mail refused: a line older than one
\* that was mailed has been mailed, or no file that has a name holds it, or it was in a copy that a
\* run said it could not read -- until a run says that no copy holds the position (docs/USAGE.md,
\* "Rotation").  The files have their first line from the start: an empty one has nothing to be
\* known by.  The names are listed and looked at in one step (_list_names, scan_directories).
THEOREM NoneSkipped == Spec => [](Traceable => warned \/ NoLineSkipped)
<1>1. TypeInv /\ (Renaming => OrderInv) /\ (Traceable => OweInv) => (Traceable => warned \/ NoLineSkipped)
  BY NothingBetween DEF Traceable
<1> QED
  BY <1>1, OweHolds, PTL
=============================================================================
