--------------------------- MODULE LogFileProofs ----------------------------
(***************************************************************************)
(* What holds of one file and its readers (LogFile, AsOnTheFile) for every *)
(* text, every chunk size, every cap and number of runs, and every moment  *)
(* at which the file grows or is replaced, checked by TLAPS.               *)
(***************************************************************************)
EXTENDS AsOnTheFile, SequenceTheorems, WellFoundedInduction, TLAPS

-----------------------------------------------------------------------------
(* Sets of numbers *)

\* What is not empty has a least member: the induction of this module.
LEMMA LowestIsThere ==
  ASSUME NEW S \in SUBSET Nat, S # {}
  PROVE  Min(S) \in S /\ \A y \in S : Min(S) <= y
<1> DEFINE R == {ss \in Nat \X Nat : ss[1] < ss[2]}
<1>1. IsWellFoundedOn(R, Nat)
  BY NatLessThanWellFounded DEF OpToRel
<1>2. \E x \in S : \A y \in S : ~(<<y, x>> \in R)
  <2> HIDE DEF R
  <2> QED BY <1>1, WFMin
<1>3. PICK x \in S : \A y \in S : ~(<<y, x>> \in R)
  BY <1>2
<1>4. \A y \in S : x <= y
  <2> SUFFICES ASSUME NEW y \in S, ~(x <= y) PROVE FALSE
    OBVIOUS
  <2>1. x \in Nat /\ y \in Nat /\ y < x
    OBVIOUS
  <2>2. <<y, x>> \in R
    BY <2>1
  <2> QED
    BY <1>3, <2>2
<1> QED
  BY <1>4 DEF Min

LEMMA HighestIsThere ==
  ASSUME NEW n \in Nat, NEW S \in SUBSET (0..n), S # {}
  PROVE  Max(S) \in S /\ \A y \in S : y <= Max(S)
<1> DEFINE D == {d \in 0..n : n - d \in S}
<1>1. D \in SUBSET Nat
  OBVIOUS
<1>2. D # {}
  <2>1. PICK y \in S : TRUE
    OBVIOUS
  <2>2. n - y \in 0..n /\ n - (n - y) = y
    OBVIOUS
  <2> QED
    BY <2>2
<1>3. Min(D) \in D /\ \A d \in D : Min(D) <= d
  BY <1>1, <1>2, LowestIsThere
<1> DEFINE x == n - Min(D)
<1>4. x \in S
  BY <1>3
<1>5. \A y \in S : y <= x
  <2> SUFFICES ASSUME NEW y \in S PROVE y <= x
    OBVIOUS
  <2>1. n - y \in D
    OBVIOUS
  <2>2. Min(D) <= n - y /\ Min(D) \in 0..n
    BY <1>3, <2>1
  <2> QED
    BY <2>2
<1> HIDE DEF x
<1> QED
  BY <1>4, <1>5 DEF Max

-----------------------------------------------------------------------------
(* Pieces of a text *)

LEMMA UptoIs ==
  ASSUME NEW S, NEW s \in Seq(S), NEW n \in Nat
  PROVE  /\ Upto(s, n) \in Seq(S)
         /\ Len(Upto(s, n)) = (IF n < Len(s) THEN n ELSE Len(s))
         /\ \A i \in 1..Len(Upto(s, n)) : Upto(s, n)[i] = s[i]
BY DEF Upto

LEMMA FromIs ==
  ASSUME NEW S, NEW s \in Seq(S), NEW n \in Nat
  PROVE  /\ From(s, n) \in Seq(S)
         /\ Len(From(s, n)) = (IF n < Len(s) THEN Len(s) - n ELSE 0)
         /\ \A i \in 1..Len(From(s, n)) : From(s, n)[i] = s[n + i]
BY DEF From

LEMMA LastOfIs ==
  ASSUME NEW S, NEW s \in Seq(S), NEW n \in Nat
  PROVE  /\ LastOf(s, n) \in Seq(S)
         /\ Len(LastOf(s, n)) = (IF n < Len(s) THEN n ELSE Len(s))
         /\ \A i \in 1..Len(LastOf(s, n)) :
              LastOf(s, n)[i] = s[Len(s) - Len(LastOf(s, n)) + i]
<1> DEFINE k == IF n < Len(s) THEN Len(s) - n ELSE 0
<1>1. k \in Nat /\ LastOf(s, n) = From(s, k)
  BY DEF LastOf
<1> HIDE DEF k
<1>2. /\ From(s, k) \in Seq(S)
      /\ Len(From(s, k)) = (IF k < Len(s) THEN Len(s) - k ELSE 0)
      /\ \A i \in 1..Len(From(s, k)) : From(s, k)[i] = s[k + i]
  BY <1>1, FromIs
<1> QED
  BY <1>1, <1>2 DEF k

LEMMA TailOfIs ==
  ASSUME NEW S, NEW s \in Seq(S), NEW offset \in 0..Len(s), NEW keep \in Nat
  PROVE  TailOf(s, offset, keep) = LastOf(Upto(s, offset), keep)
BY UptoIs DEF TailOf, LastOf

LEMMA NulsAre ==
  ASSUME NEW n \in Nat
  PROVE  Nuls(n) \in Seq(Byte) /\ Len(Nuls(n)) = n /\ \A i \in 1..n : Nuls(n)[i] = "nul"
<1>1. "nul" \in Byte
  BY DEF Byte
<1>2. Nuls(n) \in [1..n -> Byte]
  BY <1>1 DEF Nuls
<1> QED
  BY <1>2 DEF Nuls

LEMMA PrefixIs ==
  ASSUME NEW S, NEW s \in Seq(S), NEW t \in Seq(S)
  PROVE  IsPrefix(s, t) <=> Len(s) <= Len(t) /\ \A i \in 1..Len(s) : s[i] = t[i]
<1>1. CASE Len(s) <= Len(t)
  <2> DEFINE a == SubSeq(s, 1, Len(s))
             b == SubSeq(t, 1, Len(s))
  <2>1. /\ a \in Seq(S) /\ b \in Seq(S) /\ Len(a) = Len(s) /\ Len(b) = Len(s)
        /\ \A i \in 1..Len(s) : a[i] = s[i] /\ b[i] = t[i]
    BY <1>1
  <2>2. IsPrefix(s, t) <=> a = b
    BY <1>1 DEF IsPrefix
  <2> HIDE DEF a, b
  <2>3. a = b <=> \A i \in 1..Len(s) : a[i] = b[i]
    BY <2>1, SeqEqual
  <2> QED
    BY <1>1, <2>1, <2>2, <2>3
<1>2. CASE ~(Len(s) <= Len(t))
  BY <1>2 DEF IsPrefix
<1> QED
  BY <1>1, <1>2

LEMMA ThreeIs ==
  ASSUME NEW S, NEW a \in Seq(S), NEW b \in Seq(S), NEW c \in Seq(S)
  PROVE  /\ a \o b \o c \in Seq(S)
         /\ Len(a \o b \o c) = Len(a) + Len(b) + Len(c)
         /\ \A i \in 1..Len(a) + Len(b) + Len(c) :
              (a \o b \o c)[i] = IF i <= Len(a) THEN a[i]
                                 ELSE IF i <= Len(a) + Len(b) THEN b[i - Len(a)]
                                 ELSE c[i - Len(a) - Len(b)]
OBVIOUS

\* Two texts of the same last bytes.
LEMMA SameTail ==
  ASSUME NEW S, NEW x \in Seq(S), NEW y \in Seq(S), NEW cap \in Nat,
         Len(x) = Len(y) \/ (Len(x) >= cap /\ Len(y) >= cap),
         \A left \in Nat : left < cap /\ left < Len(x) /\ left < Len(y)
                             => x[Len(x) - left] = y[Len(y) - left]
  PROVE  LastOf(x, cap) = LastOf(y, cap)
<1>1. /\ LastOf(x, cap) \in Seq(S)
      /\ Len(LastOf(x, cap)) = (IF cap < Len(x) THEN cap ELSE Len(x))
      /\ \A i \in 1..Len(LastOf(x, cap)) : LastOf(x, cap)[i] = x[Len(x) - Len(LastOf(x, cap)) + i]
  BY LastOfIs
<1>2. /\ LastOf(y, cap) \in Seq(S)
      /\ Len(LastOf(y, cap)) = (IF cap < Len(y) THEN cap ELSE Len(y))
      /\ \A i \in 1..Len(LastOf(y, cap)) : LastOf(y, cap)[i] = y[Len(y) - Len(LastOf(y, cap)) + i]
  BY LastOfIs
<1> DEFINE n == Len(LastOf(x, cap))
<1>3. n = Len(LastOf(y, cap)) /\ n <= cap /\ n <= Len(x) /\ n <= Len(y) /\ n \in Nat
  BY <1>1, <1>2
<1> HIDE DEF n
<1>4. ASSUME NEW i \in 1..n
      PROVE  LastOf(x, cap)[i] = LastOf(y, cap)[i]
  <2>1. LastOf(x, cap)[i] = x[Len(x) - n + i] /\ LastOf(y, cap)[i] = y[Len(y) - n + i]
    BY <1>1, <1>2, <1>3 DEF n
  <2>2. n - i \in Nat /\ n - i < cap /\ n - i < Len(x) /\ n - i < Len(y)
    BY <1>3
  <2>3. x[Len(x) - (n - i)] = y[Len(y) - (n - i)]
    BY <2>2
  <2>4. Len(x) - (n - i) = Len(x) - n + i /\ Len(y) - (n - i) = Len(y) - n + i
    BY <1>3
  <2> QED
    BY <2>1, <2>3, <2>4
<1> QED
  BY <1>1, <1>2, <1>3, <1>4, SeqEqual DEF n

\* What is kept of a text that goes on, from what was kept of it: of a run longer than that, its
\* last bytes are enough.
LEMMA TailGoesOn ==
  ASSUME NEW base \in Seq(Byte), NEW u \in Seq(Byte), NEW n \in Nat, NEW cap \in Nat
  PROVE  LastOf(LastOf(base, cap) \o Nuls(IF n < cap THEN n ELSE cap) \o u, cap)
           = LastOf(base \o Nuls(n) \o u, cap)
<1> DEFINE k == IF n < cap THEN n ELSE cap
           e == "nul"
           S == Byte
           short == LastOf(base, cap)
           run == Nuls(n)
           less == Nuls(k)
           x == short \o less \o u
           y == base \o run \o u
           nb == Len(base)
           ns == Len(short)
           nr == Len(run)
           nl == Len(less)
           nu == Len(u)
<1>a. k \in Nat
  OBVIOUS
<1>b. short \in Seq(S) /\ ns = (IF cap < nb THEN cap ELSE nb)
  BY LastOfIs
<1>c. \A i \in 1..ns : short[i] = base[nb - ns + i]
  BY LastOfIs
<1>d. run \in Seq(S) /\ nr = n /\ \A i \in 1..n : run[i] = e
  BY NulsAre
<1>e. less \in Seq(S) /\ nl = k /\ \A i \in 1..k : less[i] = e
  <2> HIDE DEF k
  <2> QED BY <1>a, NulsAre
<1>4. ns \in Nat /\ nl \in Nat /\ nb \in Nat /\ nr \in Nat /\ nu \in Nat
  BY <1>b, <1>d, <1>e
<1> HIDE DEF short, run, less
<1>1. x \in Seq(S) /\ y \in Seq(S) /\ Len(x) = ns + nl + nu /\ Len(y) = nb + nr + nu
  <2>1. short \in Seq(S) /\ less \in Seq(S) /\ run \in Seq(S)
    BY <1>b, <1>d, <1>e
  <2> QED
    BY <2>1
<1>2. \A i \in 1..ns + nl + nu :
        x[i] = IF i <= ns THEN short[i] ELSE IF i <= ns + nl THEN less[i - ns] ELSE u[i - ns - nl]
  <2>1. short \in Seq(S) /\ less \in Seq(S)
    BY <1>b, <1>e
  <2> QED
    BY <2>1
<1>3. \A i \in 1..nb + nr + nu :
        y[i] = IF i <= nb THEN base[i] ELSE IF i <= nb + nr THEN run[i - nb] ELSE u[i - nb - nr]
  <2>1. run \in Seq(S)
    BY <1>d
  <2> QED
    BY <2>1
<1> HIDE DEF x, y, nb, ns, nr, nl, nu
<1>5. /\ ns = (IF cap < nb THEN cap ELSE nb)
      /\ \A i \in 1..ns : short[i] = base[nb - ns + i]
      /\ nl = (IF nr < cap THEN nr ELSE cap)
      /\ \A i \in 1..nr : run[i] = e
      /\ \A i \in 1..nl : less[i] = e
  BY <1>b, <1>c, <1>d, <1>e
<1> HIDE DEF e, k
<1>6. Len(x) = Len(y) \/ (Len(x) >= cap /\ Len(y) >= cap)
  BY <1>1, <1>4, <1>5, SMTT(30)
<1>7. ASSUME NEW left \in Nat, left < cap, left < Len(x), left < Len(y)
      PROVE  x[Len(x) - left] = y[Len(y) - left]
  <2> DEFINE a == Len(x) - left
             b == Len(y) - left
  <2>1. a \in 1..ns + nl + nu /\ a = ns + nl + (nu - left)
    BY <1>1, <1>4, <1>7
  <2>2. b \in 1..nb + nr + nu /\ b = nb + nr + (nu - left)
    BY <1>1, <1>4, <1>7
  <2> HIDE DEF a, b
  <2>3. x[a] = IF a <= ns THEN short[a] ELSE IF a <= ns + nl THEN less[a - ns] ELSE u[a - ns - nl]
    BY <1>2, <2>1
  <2>4. y[b] = IF b <= nb THEN base[b] ELSE IF b <= nb + nr THEN run[b - nb] ELSE u[b - nb - nr]
    BY <1>3, <2>2
  <2>5. CASE left < nu
    <3>1. a > ns + nl /\ a > ns /\ a - ns - nl = nu - left
      BY <1>4, <2>1, <2>5
    <3>2. b > nb + nr /\ b > nb /\ b - nb - nr = nu - left
      BY <1>4, <2>2, <2>5
    <3>3. x[a] = u[nu - left]
      BY <2>3, <3>1, <2>1, <1>4
    <3>4. y[b] = u[nu - left]
      BY <2>4, <3>2, <2>2, <1>4
    <3> QED
      BY <3>3, <3>4 DEF a, b
  <2>6. CASE nu <= left /\ left < nu + nl
    <3>1. a > ns /\ a <= ns + nl /\ a - ns \in 1..nl
      BY <1>4, <2>1, <2>6
    <3> nl <= nr
      BY <1>4, <1>5
    <3>2. b > nb /\ b <= nb + nr /\ b - nb \in 1..nr
      BY <1>4, <2>2, <2>6
    <3>3. less[a - ns] = e /\ run[b - nb] = e
      BY <1>5, <3>1, <3>2
    <3> QED
      BY <1>4, <2>1, <2>2, <2>3, <2>4, <3>1, <3>2, <3>3 DEF a, b
  <2>7. CASE nu + nl <= left
    <3>1. nl = nr
      BY <1>4, <1>5, <1>7, <2>7
    <3>2. a <= ns /\ b <= nb /\ a \in 1..ns /\ b = nb - ns + a
      BY <1>4, <2>1, <2>2, <2>7, <3>1
    <3>3. short[a] = base[nb - ns + a]
      BY <1>5, <3>2
    <3> QED
      BY <2>3, <2>4, <3>2, <3>3 DEF a, b
  <2> QED
    BY <1>4, <1>7, <2>5, <2>6, <2>7
<1>8. LastOf(x, cap) = LastOf(y, cap)
  BY <1>1, <1>6, <1>7, SameTail
<1> QED
  BY <1>8 DEF x, y, short, run, less, k

-----------------------------------------------------------------------------
(* Where a line, a hole and a file end *)

LEMMA Caps == /\ LINE_CAP \in Nat /\ LINE_CAP > 0 /\ ANCHOR_CAP \in Nat /\ ANCHOR_CAP > 0
              /\ FINGERPRINT_CAP \in Nat /\ FINGERPRINT_CAP > 0
BY CapsAssumption

LEMMA LowOfIs ==
  ASSUME NEW S \in SUBSET Nat, NEW default
  PROVE  /\ S = {} => LowOf(S, default) = default
         /\ S # {} => LowOf(S, default) \in S /\ \A y \in S : LowOf(S, default) <= y
BY LowestIsThere DEF LowOf

LEMMA HoleIs ==
  ASSUME NEW text \in Seq(Byte)
  PROVE  /\ Hole(text) \in 0..Len(text)
         /\ \A i \in 1..Hole(text) : text[i] = "nul"
<1> DEFINE S == DOMAIN text \ At(text, "nul")
           low == LowOf(S, Len(text) + 1)
<1>1. S \in SUBSET Nat /\ \A i \in S : i \in 1..Len(text)
  OBVIOUS
<1>2. \A i \in 1..Len(text) : i \notin S => text[i] = "nul"
  BY DEF At
<1>3. Hole(text) = low - 1
  BY DEF Hole
<1>4. /\ S = {} => low = Len(text) + 1
      /\ S # {} => low \in S /\ \A y \in S : low <= y
  <2> HIDE DEF S
  <2> QED
    BY <1>1, LowOfIs
<1> HIDE DEF S, low
<1>5. low \in 1..Len(text) + 1 /\ \A y \in S : low <= y
  <2>1. CASE S = {}
    BY <1>4, <2>1
  <2>2. CASE S # {}
    <3>1. low \in S /\ \A y \in S : low <= y
      BY <1>4, <2>2
    <3> QED
      BY <1>1, <3>1
  <2> QED
    BY <2>1, <2>2
<1>6. ASSUME NEW i \in 1..Hole(text) PROVE text[i] = "nul"
  <2>1. i \in 1..Len(text) /\ i < low
    BY <1>3, <1>5
  <2>2. i \notin S
    BY <1>5, <2>1
  <2> QED
    BY <1>2, <2>1, <2>2
<1> QED
  BY <1>3, <1>5, <1>6

\* A first sight begins within the file.
LEMMA EndOfLastLineIs ==
  ASSUME NEW text \in Seq(Byte)
  PROVE  EndOfLastLine(text) \in 0..Len(text)
<1> DEFINE size == Len(text)
           start == IF size > LINE_CAP + 1 THEN size - LINE_CAP - 1 ELSE 0
           window == From(text, start)
           newline == HighOf(At(window, "lf"), 0)
<1>1. size \in Nat /\ start \in 0..size
  BY Caps
<1>2. window \in Seq(Byte) /\ Len(window) = size - start
  <2> HIDE DEF start
  <2> QED
    BY <1>1, FromIs
<1>3. newline \in 0..Len(window)
  <2> HIDE DEF window
  <2>1. At(window, "lf") \in SUBSET (0..Len(window))
    BY <1>2 DEF At
  <2>2. Len(window) \in Nat
    BY <1>2
  <2>3. CASE At(window, "lf") = {}
    BY <2>2, <2>3 DEF HighOf
  <2>4. CASE At(window, "lf") # {}
    <3>1. Max(At(window, "lf")) \in At(window, "lf")
      BY <2>1, <2>2, <2>4, HighestIsThere
    <3> QED
      BY <2>1, <2>4, <3>1 DEF HighOf
  <2> QED
    BY <2>3, <2>4
<1>4. EndOfLastLine(text) = IF newline > 0 THEN start + newline
                            ELSE IF size > LINE_CAP THEN size ELSE 0
  BY DEF EndOfLastLine
<1> HIDE DEF size, start, window, newline
<1>5. start + newline \in 0..size
  BY <1>1, <1>2, <1>3
<1> QED
  BY <1>1, <1>4, <1>5 DEF size

-----------------------------------------------------------------------------
(* The line reader *)

ReaderFields == {"offset", "line", "path", "at", "buf", "pos", "hole", "line_start",
                 "mark", "carried", "tail", "nul_bytes", "at_end", "truncated"}

\* A reader between two turns of its loop: what is behind the position and not yet a line is a
\* hole that was folded into the tail, and everything up to at was read into the buffer once.
Resting(r) ==
  /\ DOMAIN r = ReaderFields
  /\ r.offset \in Nat /\ r.at \in Nat /\ r.carried \in Nat
  /\ r.buf \in Seq(Byte)
  /\ r.mark \in 0..Len(r.buf) /\ r.pos = r.mark
  /\ r.hole = IF r.mark = 0 THEN r.carried ELSE 0
  /\ r.tail = None \/ r.tail \in Seq(Byte)
  /\ r.at = r.offset + r.hole + (Len(r.buf) - r.pos)

\* The same but for some fields.
SameBut(r, s, fields) ==
  DOMAIN r = DOMAIN s /\ \A x \in DOMAIN s \ fields : r[x] = s[x]

LEMMA SkipHoleIs ==
  ASSUME NEW r, Resting(r)
  PROVE  /\ SameBut(SkipHole(r), r, {"pos", "hole"})
         /\ SkipHole(r).pos \in r.pos..Len(r.buf)
         /\ SkipHole(r).hole = r.hole + (SkipHole(r).pos - r.pos)
         /\ \A i \in r.pos + 1..SkipHole(r).pos : r.buf[i] = "nul"
<1> DEFINE rest == From(r.buf, r.pos)
           run == IF r.line_start THEN Hole(rest) ELSE 0
<1>1. /\ r.pos \in Nat /\ r.pos <= Len(r.buf) /\ r.buf \in Seq(Byte) /\ r.hole \in Nat
      /\ DOMAIN r = ReaderFields
  BY DEF Resting
<1>2. /\ rest \in Seq(Byte) /\ Len(rest) = Len(r.buf) - r.pos
      /\ \A i \in 1..Len(rest) : rest[i] = r.buf[r.pos + i]
  BY <1>1, FromIs
<1> HIDE DEF rest
<1>3. Hole(rest) \in 0..Len(rest) /\ \A i \in 1..Hole(rest) : rest[i] = "nul"
  BY <1>2, HoleIs
<1>4. run \in 0..Len(rest) /\ \A i \in 1..run : rest[i] = "nul"
  BY <1>2, <1>3
<1>5. SkipHole(r) = [r EXCEPT !.pos = @ + run, !.hole = @ + run]
  BY DEF SkipHole, rest
<1> HIDE DEF run
<1>6. SkipHole(r).pos = r.pos + run /\ SkipHole(r).hole = r.hole + run
  BY <1>1, <1>5 DEF ReaderFields
<1>7. SameBut(SkipHole(r), r, {"pos", "hole"})
  BY <1>5 DEF SameBut
<1>8. r.pos + run \in r.pos..Len(r.buf) /\ run = r.pos + run - r.pos
  BY <1>1, <1>2, <1>4
<1>9. ASSUME NEW i \in r.pos + 1..SkipHole(r).pos PROVE r.buf[i] = "nul"
  <2>0. i \in r.pos + 1..r.pos + run
    BY <1>6
  <2>1. i - r.pos \in 1..run /\ i - r.pos \in 1..Len(rest) /\ r.pos + (i - r.pos) = i
    BY <1>1, <1>2, <1>4, <2>0
  <2> QED
    BY <1>2, <1>4, <2>1
<1>10. /\ SkipHole(r).pos \in r.pos..Len(r.buf)
       /\ SkipHole(r).hole = r.hole + (SkipHole(r).pos - r.pos)
  BY <1>1, <1>4, <1>6, <1>8
<1> QED
  BY <1>7, <1>9, <1>10

LEMMA NewlineIs ==
  ASSUME NEW r, r.buf \in Seq(Byte), r.pos \in 0..Len(r.buf)
  PROVE  NewlineOf(r) = 0 \/ NewlineOf(r) \in r.pos + 1..Len(r.buf)
<1> DEFINE S == {i \in At(r.buf, "lf") : i > r.pos /\ i <= r.pos + LINE_CAP + 2}
           found == LowOf(S, 0)
<1>1. S \in SUBSET Nat /\ \A i \in S : i \in r.pos + 1..Len(r.buf)
  BY DEF At
<1>2. NewlineOf(r) = 0 \/ NewlineOf(r) = found
  BY DEF NewlineOf
<1>3. found = 0 \/ found \in S
  <2> HIDE DEF S
  <2> QED
    BY <1>1, LowOfIs
<1> QED
  BY <1>1, <1>2, <1>3

\* A line goes on from the hole before it to its newline, or to the cap.
LEMMA NextLineIs ==
  ASSUME NEW r, Resting(r), HasLine(SkipHole(r)),
         NEW s, s = SkipHole(r), NEW n, n = NextLine(s).reader
  PROVE  /\ SameBut(n, r, {"pos", "mark", "offset", "nul_bytes", "hole", "line", "line_start"})
         /\ n.pos \in s.pos + 1..Len(r.buf)
         /\ n.mark = n.pos /\ n.hole = 0
         /\ n.offset = r.offset + s.hole + (n.pos - s.pos)
         /\ Resting(n)
<1> DEFINE newline == NewlineOf(s)
           cut == newline = 0
           end == IF cut THEN s.pos + LINE_CAP ELSE newline
<1>1. /\ DOMAIN r = ReaderFields
      /\ r.offset \in Nat /\ r.at \in Nat /\ r.carried \in Nat /\ r.buf \in Seq(Byte)
      /\ r.pos \in 0..Len(r.buf) /\ r.hole \in Nat
      /\ r.tail = None \/ r.tail \in Seq(Byte)
      /\ r.at = r.offset + r.hole + (Len(r.buf) - r.pos)
  BY DEF Resting
<1>2. /\ SameBut(s, r, {"pos", "hole"}) /\ s.pos \in r.pos..Len(r.buf)
      /\ s.hole = r.hole + (s.pos - r.pos)
  BY SkipHoleIs
<1>3. DOMAIN s = ReaderFields /\ s.buf = r.buf /\ s.offset = r.offset
  BY <1>1, <1>2 DEF SameBut, ReaderFields
<1>4. end \in s.pos + 1..Len(r.buf)
  <2>1. newline = 0 \/ newline \in s.pos + 1..Len(r.buf)
    <3>1. s.buf \in Seq(Byte) /\ s.pos \in 0..Len(s.buf) /\ s.buf = r.buf
      BY <1>1, <1>2, <1>3
    <3> QED
      BY <3>1, NewlineIs
  <2>2. cut => Len(r.buf) - s.pos > LINE_CAP
    BY <1>1, <1>2, <1>3, <2>1 DEF HasLine
  <2> QED
    BY <1>1, <1>2, <2>1, <2>2, Caps
<1>5. n = [s EXCEPT !.pos = end, !.mark = end, !.offset = @ + s.hole + (end - s.pos),
                    !.nul_bytes = @ + s.hole, !.hole = 0,
                    !.line = IF cut THEN @ ELSE @ + 1, !.line_start = ~cut]
  BY DEF NextLine
<1> HIDE DEF end, cut, newline
<1>6. n.pos = end /\ n.mark = end /\ n.hole = 0 /\ n.offset = s.offset + s.hole + (end - s.pos)
  BY <1>3, <1>5 DEF ReaderFields
<1>7. SameBut(n, r, {"pos", "mark", "offset", "nul_bytes", "hole", "line", "line_start"})
  <2>1. SameBut(n, s, {"pos", "mark", "offset", "nul_bytes", "hole", "line", "line_start"})
    BY <1>5 DEF SameBut
  <2> QED
    BY <1>2, <2>1 DEF SameBut
<1>8. /\ DOMAIN n = ReaderFields /\ n.at = r.at /\ n.carried = r.carried /\ n.buf = r.buf
      /\ n.tail = r.tail
  BY <1>1, <1>7 DEF SameBut, ReaderFields
<1>9. n.offset \in Nat /\ n.at = n.offset + (Len(n.buf) - n.pos)
  <2>1. n.offset = r.offset + (r.hole + (s.pos - r.pos)) + (end - s.pos)
    BY <1>2, <1>3, <1>6
  <2>2. s.pos \in Nat /\ end \in Nat /\ s.pos <= end /\ r.pos <= s.pos /\ r.pos \in Nat
    BY <1>1, <1>2, <1>4
  <2> DEFINE size == Len(r.buf)
  <2>3. size \in Nat /\ r.at = r.offset + r.hole + (size - r.pos)
    BY <1>1
  <2> HIDE DEF size
  <2>4. r.offset \in Nat /\ r.hole \in Nat
    BY <1>1
  <2>5. n.offset \in Nat /\ r.at = n.offset + (size - end)
    BY <2>1, <2>2, <2>3, <2>4
  <2> QED
    BY <1>6, <1>8, <2>5 DEF size
<1>10. Resting(n)
  <2>1. n.mark \in 0..Len(n.buf) /\ n.pos = n.mark /\ n.mark # 0
    BY <1>1, <1>2, <1>4, <1>6, <1>8
  <2>2. n.at = n.offset + 0 + (Len(n.buf) - n.pos)
    BY <1>9
  <2> QED
    BY <1>1, <1>6, <1>8, <1>9, <2>1, <2>2 DEF Resting
<1> QED
  BY <1>3, <1>4, <1>6, <1>7, <1>10

\* The tail as the bytes before the position: those before the buffer, the hole folded between,
\* and the buffer's up to the mark.
TailIs(r, base) ==
  /\ base \in Seq(Byte)
  /\ r.tail = LastOf(base, ANCHOR_CAP)

Before(r, base) == IF r.mark = 0 THEN base ELSE base \o Nuls(r.carried) \o Upto(r.buf, r.mark)

LEMMA TailNowIs ==
  ASSUME NEW r, NEW base, TailIs(r, base), r.tail # None,
         r.buf \in Seq(Byte), r.mark \in 0..Len(r.buf), r.carried \in Nat
  PROVE  TailNow(r) = LastOf(Before(r, base), ANCHOR_CAP)
<1>1. CASE r.mark = 0
  BY <1>1 DEF TailNow, TailIs, Before
<1>2. CASE r.mark # 0
  <2>1. Upto(r.buf, r.mark) \in Seq(Byte)
    BY UptoIs
  <2>2. /\ TailNow(r) = LastOf(LastOf(base, ANCHOR_CAP)
                                 \o Nuls(IF r.carried < ANCHOR_CAP THEN r.carried ELSE ANCHOR_CAP)
                                 \o Upto(r.buf, r.mark), ANCHOR_CAP)
        /\ Before(r, base) = base \o Nuls(r.carried) \o Upto(r.buf, r.mark)
    BY <1>2 DEF TailNow, TailIs, Before
  <2> QED
    BY <2>1, <2>2, Caps, TailGoesOn DEF TailIs
<1> QED
  BY <1>1, <1>2

LEMMA TailNowType ==
  ASSUME NEW r, Resting(r)
  PROVE  /\ r.tail = None => TailNow(r) = None
         /\ r.tail # None => TailNow(r) \in Seq(Byte)
<1>1. /\ r.buf \in Seq(Byte) /\ r.carried \in Nat /\ r.mark \in 0..Len(r.buf)
      /\ r.tail = None \/ r.tail \in Seq(Byte)
  BY DEF Resting
<1>2. CASE r.tail = None \/ r.mark = 0
  BY <1>1, <1>2 DEF TailNow
<1>3. CASE r.tail # None /\ r.mark # 0
  <2> DEFINE k == IF r.carried < ANCHOR_CAP THEN r.carried ELSE ANCHOR_CAP
  <2>1. k \in Nat
    BY <1>1, Caps
  <2> HIDE DEF k
  <2>2. Nuls(k) \in Seq(Byte) /\ Upto(r.buf, r.mark) \in Seq(Byte) /\ r.tail \in Seq(Byte)
    BY <1>1, <1>3, <2>1, NulsAre, UptoIs
  <2>3. r.tail \o Nuls(k) \o Upto(r.buf, r.mark) \in Seq(Byte)
    BY <2>2
  <2>4. LastOf(r.tail \o Nuls(k) \o Upto(r.buf, r.mark), ANCHOR_CAP) \in Seq(Byte)
    BY <2>3, Caps, LastOfIs
  <2> QED
    BY <1>3, <2>4 DEF TailNow, k
<1> QED
  BY <1>2, <1>3

LEMMA FoldTailIs ==
  ASSUME NEW r, Resting(r), NEW f, f = FoldTail(SkipHole(r))
  PROVE  /\ Resting(f)
         /\ SameBut(f, r, {"tail", "carried", "buf", "pos", "mark", "hole"})
         /\ f.mark = 0
         /\ f.tail = TailNow(r)
         /\ f.buf = From(r.buf, SkipHole(r).pos)
         /\ f.carried = SkipHole(r).hole
<1> DEFINE s == SkipHole(r)
<1>1. /\ DOMAIN r = ReaderFields
      /\ r.offset \in Nat /\ r.at \in Nat /\ r.carried \in Nat /\ r.buf \in Seq(Byte)
      /\ r.mark \in 0..Len(r.buf) /\ r.pos = r.mark
      /\ r.hole = (IF r.mark = 0 THEN r.carried ELSE 0)
      /\ r.tail = None \/ r.tail \in Seq(Byte)
      /\ r.at = r.offset + r.hole + (Len(r.buf) - r.pos)
  BY DEF Resting
<1>2. /\ SameBut(s, r, {"pos", "hole"}) /\ s.pos \in r.pos..Len(r.buf)
      /\ s.hole = r.hole + (s.pos - r.pos)
  BY SkipHoleIs
<1> HIDE DEF s
<1>3. /\ DOMAIN s = ReaderFields /\ s.buf = r.buf /\ s.mark = r.mark /\ s.carried = r.carried
      /\ s.tail = r.tail /\ s.offset = r.offset /\ s.at = r.at
  BY <1>1, <1>2 DEF SameBut, ReaderFields
<1>4. TailNow(s) = TailNow(r)
  BY <1>3 DEF TailNow
<1>5. f = [s EXCEPT !.tail = TailNow(s),
                    !.carried = (IF s.mark = 0 THEN s.carried ELSE 0) + (s.pos - s.mark),
                    !.buf = From(s.buf, s.pos), !.pos = 0, !.mark = 0]
  BY DEF FoldTail, s
<1>6. /\ DOMAIN f = ReaderFields /\ f.mark = 0 /\ f.pos = 0 /\ f.tail = TailNow(r)
      /\ f.buf = From(r.buf, s.pos) /\ f.hole = s.hole /\ f.offset = r.offset /\ f.at = r.at
      /\ f.carried = (IF s.mark = 0 THEN s.carried ELSE 0) + (s.pos - s.mark)
  BY <1>3, <1>4, <1>5 DEF ReaderFields
<1>7. f.carried = s.hole /\ s.hole \in Nat
  BY <1>1, <1>2, <1>3, <1>6
<1>8. SameBut(f, r, {"tail", "carried", "buf", "pos", "mark", "hole"})
  <2>1. SameBut(f, s, {"tail", "carried", "buf", "pos", "mark"})
    BY <1>5 DEF SameBut
  <2> QED
    BY <1>2, <2>1 DEF SameBut
<1>9. f.buf \in Seq(Byte) /\ Len(f.buf) = Len(r.buf) - s.pos
  <2>1. s.pos \in Nat /\ s.pos <= Len(r.buf)
    BY <1>1, <1>2
  <2>2. /\ From(r.buf, s.pos) \in Seq(Byte)
        /\ Len(From(r.buf, s.pos)) = (IF s.pos < Len(r.buf) THEN Len(r.buf) - s.pos ELSE 0)
    BY <1>1, <2>1, FromIs
  <2> QED
    BY <1>1, <1>6, <2>1, <2>2
<1>10. f.tail = None \/ f.tail \in Seq(Byte)
  BY <1>6, TailNowType
<1>11. Resting(f)
  <2>1. f.mark \in 0..Len(f.buf) /\ f.pos = f.mark /\ f.hole = f.carried /\ f.carried \in Nat
    BY <1>6, <1>7, <1>9
  <2>2. f.at = f.offset + f.hole + (Len(f.buf) - f.pos)
    <3>1. r.at = r.offset + r.hole + (Len(r.buf) - r.pos) /\ s.pos \in r.pos..Len(r.buf)
      BY <1>1, <1>2
    <3>2. r.offset \in Nat /\ r.hole \in Nat /\ r.pos \in Nat /\ Len(r.buf) \in Nat
      BY <1>1
    <3>3. r.at = r.offset + (r.hole + (s.pos - r.pos)) + (Len(r.buf) - s.pos)
      BY <3>1, <3>2
    <3> QED
      BY <1>2, <1>6, <1>9, <3>2, <3>3
  <2> QED
    BY <1>1, <1>6, <1>9, <1>10, <2>1, <2>2 DEF Resting
<1> QED
  BY <1>6, <1>7, <1>8, <1>11 DEF s

-----------------------------------------------------------------------------
(* The counting pass over a compressed file *)

NoneCounted == [size |-> 0, newlines |-> 0, boundary |-> 0]

\* A recursive function over the chunks is what its equation says: there is one that satisfies
\* it up to any chunk, or there would be a first chunk up to which there is none.
LEMMA CountedIs ==
  ASSUME NEW text \in Seq(Byte), NEW chunk \in Nat \ {0}
  PROVE  \A k \in 0..Len(text) \div chunk + 1 :
           Counted(text, chunk)[k] =
             IF k = 0 THEN NoneCounted
             ELSE CountChunk(text, chunk, Counted(text, chunk)[k - 1], k - 1)
<1> DEFINE last == Len(text) \div chunk + 1
           Next_(pass, k) == CountChunk(text, chunk, pass, k)
           Counts(g, m) == g = [k \in 0..m |-> IF k = 0 THEN NoneCounted ELSE Next_(g[k - 1], k - 1)]
           Bad == {m \in Nat : ~\E g : Counts(g, m)}
<1> HIDE DEF Next_
<1>1. Bad = {}
  <2> SUFFICES ASSUME Bad # {} PROVE FALSE
    OBVIOUS
  <2> DEFINE m == Min(Bad)
  <2>1. m \in Bad /\ \A y \in Bad : m <= y
    BY LowestIsThere
  <2> HIDE DEF m
  <2>2. CASE m = 0
    <3> DEFINE g == [k \in 0..0 |-> NoneCounted]
    <3>1. g = [k \in 0..0 |-> IF k = 0 THEN NoneCounted ELSE Next_(g[k - 1], k - 1)]
      OBVIOUS
    <3> QED
      BY <2>1, <2>2, <3>1
  <2>3. CASE m # 0
    <3>0. m \in Nat
      BY <2>1
    <3>1. m - 1 \in Nat /\ m - 1 \notin Bad
      <4> HIDE DEF Bad
      <4> QED
        BY <2>1, <2>3, <3>0
    <3>2. PICK h : Counts(h, m - 1)
      BY <3>1
    <3> DEFINE g == [k \in 0..m |-> IF k < m THEN h[k] ELSE Next_(h[m - 1], m - 1)]
    <3>3. ASSUME NEW k \in 0..m
          PROVE  g[k] = IF k = 0 THEN NoneCounted ELSE Next_(g[k - 1], k - 1)
      <4>1. CASE k = m
        BY <2>1, <2>3, <4>1
      <4>2. CASE k # m
        <5>1. k \in 0..m - 1 /\ k < m
          BY <2>1, <4>2
        <5>2. h[k] = IF k = 0 THEN NoneCounted ELSE Next_(h[k - 1], k - 1)
          BY <3>2, <5>1
        <5>3. k # 0 => k - 1 \in 0..m /\ k - 1 < m
          BY <2>1
        <5> QED
          BY <5>1, <5>2, <5>3
      <4> QED
        BY <4>1, <4>2
    <3>4. Counts(g, m)
      <4>1. g = [k \in 0..m |-> g[k]]
        OBVIOUS
      <4> HIDE DEF g
      <4> QED
        BY <3>3, <4>1
    <3> QED
      BY <2>1, <3>4
  <2> QED
    BY <2>2, <2>3
<1>2. last \in Nat
  OBVIOUS
<1>3. \E g : Counts(g, last)
  BY <1>1, <1>2
<1>4. Counted(text, chunk) = CHOOSE g : Counts(g, last)
  BY DEF Counted, NoneCounted, Next_
<1> HIDE DEF last
<1>5. Counts(Counted(text, chunk), last)
  BY <1>3, <1>4
<1> QED
  BY <1>2, <1>5 DEF last, Next_

\* Nor does the first sight of a compressed file begin behind its end.
LEMMA CountingIs ==
  ASSUME NEW text \in Seq(Byte), NEW chunk \in Nat \ {0}
  PROVE  EndOfLastLineCounting(text, chunk).offset \in 0..Len(text)
<1> DEFINE last == Len(text) \div chunk + 1
           f == Counted(text, chunk)
           Good(k) == /\ f[k].size \in Nat /\ f[k].boundary \in 0..f[k].size
                      /\ f[k].size = IF k * chunk < Len(text) THEN k * chunk ELSE Len(text)
           Bad == {k \in 0..last : ~Good(k)}
<1>1. last \in Nat /\ last > 0
  OBVIOUS
<1> HIDE DEF last
<1>2. \A k \in 0..last :
        f[k] = IF k = 0 THEN NoneCounted ELSE CountChunk(text, chunk, f[k - 1], k - 1)
  BY CountedIs DEF last
<1> HIDE DEF f
<1>3. Good(0)
  BY <1>1, <1>2 DEF NoneCounted
<1>4. ASSUME NEW k \in 1..last, Good(k - 1) PROVE Good(k)
  <2> DEFINE pass == f[k - 1]
             from == (k - 1) * chunk
             here == Chunk(text, chunk, k - 1)
             newlines == At(here, "lf")
  <2>1. f[k] = CountChunk(text, chunk, pass, k - 1)
    BY <1>1, <1>2
  <2>2. from \in Nat /\ k * chunk = from + chunk /\ k * chunk \in Nat
    OBVIOUS
  <2>3. /\ pass.size \in Nat /\ pass.boundary \in 0..pass.size
        /\ pass.size = IF from < Len(text) THEN from ELSE Len(text)
    BY <1>4
  <2>4. here = Upto(From(text, from), chunk)
    BY DEF Chunk
  <2> HIDE DEF from, here, pass
  <2>5. /\ From(text, from) \in Seq(Byte)
        /\ Len(From(text, from)) = (IF from < Len(text) THEN Len(text) - from ELSE 0)
    BY <2>2, FromIs
  <2>6. /\ here \in Seq(Byte)
        /\ Len(here) = (IF chunk < Len(From(text, from)) THEN chunk ELSE Len(From(text, from)))
    BY <2>4, <2>5, UptoIs
  <2>7. newlines \in SUBSET (0..Len(here)) /\ Len(here) \in Nat
    BY <2>6 DEF At
  <2>8. newlines # {} => Max(newlines) \in 0..Len(here)
    <3> HIDE DEF newlines
    <3> QED
      BY <2>7, HighestIsThere
  <2>9. /\ f[k].size = pass.size + Len(here)
        /\ f[k].boundary = IF newlines = {} THEN pass.boundary ELSE pass.size + Max(newlines)
    BY <2>1 DEF CountChunk, here
  <2> HIDE DEF newlines
  <2>10. f[k].size \in Nat /\ f[k].boundary \in 0..f[k].size
    BY <2>3, <2>7, <2>8, <2>9
  <2>11. f[k].size = IF k * chunk < Len(text) THEN k * chunk ELSE Len(text)
    <3> DEFINE size == Len(text)
               rest == Len(From(text, from))
               next == k * chunk
               read == Len(here)
    <3>1. size \in Nat /\ chunk \in Nat
      OBVIOUS
    <3>2. from \in Nat /\ next = from + chunk
      BY <2>2
    <3>3. rest = (IF from < size THEN size - from ELSE 0) /\ read = (IF chunk < rest THEN chunk ELSE rest)
      BY <2>5, <2>6
    <3>4. f[k].size = (IF from < size THEN from ELSE size) + read
      BY <2>3, <2>9
    <3> HIDE DEF size, rest, next, read
    <3>5. f[k].size = IF next < size THEN next ELSE size
      BY <3>1, <3>2, <3>3, <3>4
    <3> QED
      BY <3>5 DEF next, size
  <2> QED
    BY <2>10, <2>11
<1> HIDE DEF Good
<1>5. Bad = {}
  <2> SUFFICES ASSUME Bad # {} PROVE FALSE
    OBVIOUS
  <2> DEFINE m == Min(Bad)
  <2>0. Bad \in SUBSET Nat
    BY <1>1
  <2>1. m \in Bad /\ \A y \in Bad : m <= y
    <3> HIDE DEF Bad
    <3> QED
      BY <2>0, LowestIsThere
  <2> HIDE DEF m
  <2>2. m \in 1..last /\ ~Good(m)
    BY <1>1, <1>3, <2>1
  <2>3. m - 1 \in 0..last /\ m - 1 < m
    BY <1>1, <2>2
  <2>4. m - 1 \notin Bad
    <3> HIDE DEF Bad
    <3> QED
      BY <2>1, <2>2, <2>3
  <2> QED
    BY <1>4, <2>2, <2>3, <2>4
<1>6. Good(last)
  BY <1>1, <1>5
<1>7. f[last].size \in 0..Len(text) /\ f[last].boundary \in 0..f[last].size
  BY <1>6 DEF Good
<1>8. EndOfLastLineCounting(text, chunk).offset =
        IF f[last].size - f[last].boundary > LINE_CAP THEN f[last].size ELSE f[last].boundary
  BY DEF EndOfLastLineCounting, f, last
<1> QED
  BY <1>7, <1>8

-----------------------------------------------------------------------------
(* The world, and a run in it *)

LEMMA NoneIsNot == None \notin Seq(Byte)
<1> SUFFICES ASSUME None \in Seq(Byte) PROVE FALSE
  OBVIOUS
<1>1. Len(None) = 1 /\ None[1] = "none"
  BY DEF None
<1>2. None[1] \in Byte
  BY <1>1
<1> QED
  BY <1>1, <1>2 DEF Byte

LEMMA TailOfType ==
  ASSUME NEW text \in Seq(Byte), NEW offset \in Nat, NEW keep \in Nat
  PROVE  TailOf(text, offset, keep) \in Seq(Byte)
<1>1. Upto(text, offset) \in Seq(Byte)
  BY UptoIs
<1> DEFINE k == IF offset > keep THEN offset - keep ELSE 0
<1>2. k \in Nat
  OBVIOUS
<1> HIDE DEF k
<1>3. From(Upto(text, offset), k) \in Seq(Byte)
  BY <1>1, <1>2, FromIs
<1> QED
  BY <1>3 DEF TailOf, k

WorldOK ==
  /\ setup \in Setups
  /\ live \in DOMAIN setup.texts
  /\ len \in [DOMAIN setup.texts -> Nat]
  /\ \A v \in DOMAIN setup.texts : len[v] <= Len(setup.texts[v])
  /\ pc \in PCs

LEMMA SetupIs ==
  ASSUME WorldOK
  PROVE  /\ setup \in SetupType
         /\ setup.texts \in Seq(Seq(Byte))
         /\ setup.how \in {"none", "refill", "rename"}
         /\ setup.how = "none" => DOMAIN setup.texts = {1}
         /\ setup.how # "none" => DOMAIN setup.texts = {1, 2}
         /\ setup.chunk \in Nat /\ setup.chunk > 0
         /\ setup.first \in Nat /\ setup.context \in Nat /\ setup.cap \in Nat
         /\ setup.zip \in BOOLEAN /\ setup.beginning \in BOOLEAN
<1>1. setup \in SetupType /\ Len(setup.texts) = IF setup.how = "none" THEN 1 ELSE 2
  BY SetupsAssumption DEF WorldOK
<1>2. setup.texts \in Seq(Seq(Byte)) /\ setup.how \in {"none", "refill", "rename"}
  BY <1>1 DEF SetupType
<1>3. DOMAIN setup.texts = 1..Len(setup.texts)
  BY <1>2
<1>4. /\ setup.chunk \in Nat /\ setup.chunk > 0
      /\ setup.first \in Nat /\ setup.context \in Nat /\ setup.cap \in Nat
      /\ setup.zip \in BOOLEAN /\ setup.beginning \in BOOLEAN
  BY <1>1 DEF SetupType
<1>5. setup.how = "none" => DOMAIN setup.texts = {1}
  BY <1>1, <1>3
<1>6. setup.how # "none" => DOMAIN setup.texts = {1, 2}
  BY <1>1, <1>3
<1> QED
  BY <1>1, <1>2, <1>4, <1>5, <1>6

LEMMA TextIs ==
  ASSUME WorldOK, NEW v \in DOMAIN setup.texts
  PROVE  /\ setup.texts[v] \in Seq(Byte)
         /\ Text(v) \in Seq(Byte)
         /\ len[v] \in Nat
         /\ Len(Text(v)) = len[v]
         /\ \A i \in 1..len[v] : Text(v)[i] = setup.texts[v][i]
<1>1. setup.texts[v] \in Seq(Byte)
  <2>1. setup.texts \in Seq(Seq(Byte))
    BY SetupIs
  <2> QED
    BY <2>1
<1>2. len[v] \in Nat /\ len[v] <= Len(setup.texts[v])
  BY DEF WorldOK
<1> DEFINE text == setup.texts[v]
           n == len[v]
<1>3. /\ Upto(text, n) \in Seq(Byte)
      /\ Len(Upto(text, n)) = (IF n < Len(text) THEN n ELSE Len(text))
      /\ \A i \in 1..Len(Upto(text, n)) : Upto(text, n)[i] = text[i]
  <2> HIDE DEF text, n
  <2>1. text \in Seq(Byte) /\ n \in Nat
    BY <1>1, <1>2 DEF text, n
  <2> QED
    BY <2>1, UptoIs
<1>4. Len(Upto(text, n)) = n
  BY <1>1, <1>2, <1>3
<1> QED
  BY <1>1, <1>2, <1>3, <1>4 DEF Text

LEMMA UnderIs ==
  ASSUME WorldOK, NEW v \in DOMAIN setup.texts
  PROVE  Under(v) \in Seq(Byte)
BY TextIs DEF Under, WorldOK

LEMMA WorldInit == Init => WorldOK
<1> SUFFICES ASSUME Init PROVE WorldOK
  OBVIOUS
<1>1. setup \in SetupType /\ Len(setup.texts) = IF setup.how = "none" THEN 1 ELSE 2
  BY SetupsAssumption DEF Init
<1>2. setup.texts \in Seq(Seq(Byte)) /\ setup.first \in Nat
  BY <1>1 DEF SetupType
<1>3. 1 \in DOMAIN setup.texts
  BY <1>1, <1>2
<1>4. setup.texts[1] \in Seq(Byte)
  BY <1>2, <1>3
<1> DEFINE n == Len(Upto(setup.texts[1], setup.first))
<1>5. n \in Nat /\ n <= Len(setup.texts[1])
  <2>1. /\ Upto(setup.texts[1], setup.first) \in Seq(Byte)
        /\ n = (IF setup.first < Len(setup.texts[1]) THEN setup.first ELSE Len(setup.texts[1]))
    BY <1>2, <1>4, UptoIs
  <2> QED
    BY <1>2, <1>4, <2>1
<1> HIDE DEF n
<1>6. len = [v \in DOMAIN setup.texts |-> IF v # 1 THEN 0 ELSE n]
  BY DEF Init, n
<1>7. ASSUME NEW v \in DOMAIN setup.texts PROVE 0 <= Len(setup.texts[v])
  BY <1>2
<1>8. \A v \in DOMAIN setup.texts : len[v] \in Nat /\ len[v] <= Len(setup.texts[v])
  BY <1>5, <1>6, <1>7
<1> QED
  BY <1>3, <1>6, <1>8 DEF Init, WorldOK, PCs

\* What the hook asks for, and the group it is asked by at the end of a read,
\* touch nothing but the hook's answer and the scan.
Asking == HookOpen \/ HookHead \/ HookTail \/ HookReads \/ LastGroup
Aside == <<setup, live, len, pc, file, todo, reader, cursor, got, told, alerted, seen, origin,
           was, blind, runs>>

LEMMA AskingAside == Asking \/ UNCHANGED vars => UNCHANGED Aside
BY DEF Asking, Aside, HookOpen, HookHead, HookTail, HookReads, HookSteps, LastGroup, vars, world,
   history

LEMMA WorldStep == WorldOK /\ [Next]_vars => WorldOK'
<1> SUFFICES ASSUME WorldOK, [Next]_vars PROVE WorldOK'
  OBVIOUS
<1> USE DEF PCs, Reading
<1>1. ASSUME NEW v \in DOMAIN setup.texts, NEW from \in Nat, NEW n \in Written(v, from)
      PROVE  n \in Nat /\ n <= Len(setup.texts[v])
  <2>1. setup.texts[v] \in Seq(Byte)
    BY TextIs
  <2>2. Len(setup.texts[v]) \in Nat
    BY <2>1
  <2> QED
    BY <1>1, <2>2 DEF Written
<1>2. CASE Append_
  <2>1. PICK n \in Written(live, len[live] + 1) : len' = [len EXCEPT ![live] = n]
    BY <1>2 DEF Append_
  <2>2. n \in Nat /\ n <= Len(setup.texts[live])
    <3>1. live \in DOMAIN setup.texts /\ len[live] + 1 \in Nat
      BY DEF WorldOK
    <3> QED
      BY <1>1, <2>1, <3>1
  <2>3. \A v \in DOMAIN setup.texts : len'[v] \in Nat /\ len'[v] <= Len(setup.texts[v])
    BY <2>1, <2>2 DEF WorldOK
  <2> QED
    BY <1>2, <2>1, <2>2, <2>3 DEF Append_, WorldOK
<1>3. CASE Replace
  <2>1. PICK n \in Written(2, 0) : len' = [len EXCEPT ![2] = n]
    BY <1>3 DEF Replace
  <2>2. 2 \in DOMAIN setup.texts
    BY <1>3, SetupIs DEF Replace
  <2>3. n \in Nat /\ n <= Len(setup.texts[2])
    BY <1>1, <2>1, <2>2
  <2>4. \A v \in DOMAIN setup.texts : len'[v] \in Nat /\ len'[v] <= Len(setup.texts[v])
    BY <2>1, <2>2, <2>3 DEF WorldOK
  <2> QED
    BY <1>3, <2>1, <2>2, <2>3, <2>4 DEF Replace, WorldOK
<1>4. CASE OpenUnchanged
  BY <1>4 DEF OpenUnchanged, WorldOK, world
<1>5. CASE OpenHead
  BY <1>5 DEF OpenHead, WorldOK, world
<1>6. CASE OpenTail
  BY <1>6 DEF OpenTail, WorldOK, world
<1>7. CASE Consume
  BY <1>7 DEF Consume, WorldOK, world
<1>8. CASE Dry
  BY <1>8 DEF Dry, WorldOK, world
<1>9. CASE ReadChunk
  BY <1>9 DEF ReadChunk, WorldOK, world
<1>10. CASE Check
  BY <1>10 DEF Check, WorldOK, world
<1>11. CASE Accepted
  BY <1>11 DEF Accepted, WorldOK, world
<1>12. CASE Refused
  BY <1>12 DEF Refused, WorldOK, world
<1>13. CASE Asking \/ UNCHANGED vars
  BY <1>13, AskingAside DEF Aside, WorldOK
<1> QED
  BY <1>2, <1>3, <1>4, <1>5, <1>6, <1>7, <1>8, <1>9, <1>10, <1>11, <1>12, <1>13
     DEF Next, Asking

FileFields == {"version", "hash", "begins", "size", "verdict", "start", "line", "seed",
               "stamp", "copied"}

\* The live file behind a copy, waiting for the copy to be read.
Fresh(r) ==
  /\ Resting(r)
  /\ r.offset = 0 /\ r.mark = 0 /\ r.carried = 0 /\ r.buf = <<>> /\ r.path = "log"
  /\ r.tail = IF setup.zip THEN None ELSE <<>>

RunOK ==
  /\ Resting(reader)
  /\ DOMAIN file = FileFields
  /\ file.version \in DOMAIN setup.texts /\ file.start \in Nat
  /\ todo # <<>> => Fresh(todo[1]) /\ pc \in {"consume", "read", "check"} /\ file.copied
  /\ pc \in {"read", "check"} => reader.mark = 0
  /\ cursor.offset \in Nat
  /\ seen \in Seq(Byte) /\ was \in Seq(Byte)
  /\ pc \in Reading =>
       /\ reader.path \in {"copy", "log"}
       /\ reader.path = "copy" <=> todo # <<>>
       /\ file.copied \in BOOLEAN
       /\ file.copied => setup.how = "rename" /\ file.verdict = "rotated"
       /\ file.verdict = "first-sight" <=> ~Saved
       /\ ~setup.zip => reader.tail # None
       /\ setup.zip /\ reader.path = "log" => reader.tail = None

LEMMA NewReaderIs ==
  ASSUME NEW offset \in Nat, NEW line, NEW tail, NEW path,
         tail = None \/ tail \in Seq(Byte),
         NEW r, r = NewReader(offset, line, tail, path)
  PROVE  /\ Resting(r)
         /\ r.offset = offset /\ r.at = offset /\ r.tail = tail /\ r.path = path
         /\ r.mark = 0 /\ r.pos = 0 /\ r.hole = 0 /\ r.carried = 0 /\ r.buf = <<>>
<1>1. /\ DOMAIN r = ReaderFields
      /\ r.offset = offset /\ r.at = offset /\ r.tail = tail /\ r.path = path
      /\ r.mark = 0 /\ r.pos = 0 /\ r.hole = 0 /\ r.carried = 0 /\ r.buf = <<>>
  BY DEF NewReader, ReaderFields
<1>2. <<>> \in Seq(Byte) /\ Len(<<>>) = 0
  OBVIOUS
<1> QED
  BY <1>1, <1>2 DEF Resting

\* What the second look of an open computes.
Probe == IF setup.zip THEN <<>> ELSE TailOf(Under(file.version), cursor.offset, ANCHOR_CAP)
Judged == Identify(AnchorOf(Probe))
Verdict == IF Judged = "continue" /\ setup.zip /\ Len(Under(file.version)) < cursor.offset
           THEN "truncated" ELSE Judged
Start == StartOf(Verdict, Under(file.version))
StartsAt == StartLine(Verdict, Start, Under(file.version))
Seed == IF setup.zip THEN None
        ELSE IF Start = 0 THEN <<>>
        ELSE IF Verdict = "continue" THEN Probe
        ELSE TailOf(Under(file.version), Start, ANCHOR_CAP)
Copied == setup.how = "rename" /\ Verdict = "rotated"
Own == NewReader(Start, StartsAt, Seed, "log")
Copy == NewReader(cursor.offset, cursor.line, TailOf(Text(1), cursor.offset, ANCHOR_CAP), "copy")

LEMMA OpenTailIs ==
  OpenTail =>
    /\ pc = "opened" /\ pc' = "consume"
    /\ file' = [file EXCEPT !.verdict = Verdict, !.start = Start, !.line = StartsAt,
                            !.seed = Seed, !.copied = Copied]
    /\ reader' = IF Copied THEN Copy ELSE Own
    /\ todo' = IF Copied THEN <<Own>> ELSE <<>>
    /\ seen' = IF Copied THEN Upto(Text(1), cursor.offset) ELSE Upto(Under(file.version), Start)
    /\ scan' = NewScan
    /\ UNCHANGED <<world, cursor, got, told, alerted, was, blind, runs>>
BY DEF OpenTail, Probe, Judged, Verdict, Start, StartsAt, Seed, Copied, Own, Copy

LEMMA VerdictIs ==
  /\ Judged \in {"first-sight", "rotated", "truncated", "continue"}
  /\ Verdict \in {"first-sight", "rotated", "truncated", "continue"}
  /\ Verdict = "first-sight" <=> ~Saved
BY DEF Verdict, Judged, Identify

\* Where a run's read of the live file begins, and what it keeps of what stands before it.
LEMMA StartIs ==
  ASSUME WorldOK, RunOK
  PROVE  /\ Under(file.version) \in Seq(Byte)
         /\ Start \in Nat
         /\ Verdict # "continue" => Start <= Len(Under(file.version))
         /\ Verdict = "continue" => Start = cursor.offset
         /\ Verdict \in {"rotated", "truncated"} => Start = 0
         /\ Probe \in Seq(Byte)
         /\ setup.zip => Seed = None
         /\ ~setup.zip => Seed = TailOf(Under(file.version), Start, ANCHOR_CAP) /\ Seed \in Seq(Byte)
<1> DEFINE text == Under(file.version)
<1>1. text \in Seq(Byte)
  BY UnderIs DEF RunOK
<1>2. cursor.offset \in Nat
  BY DEF RunOK
<1> HIDE DEF text
<1>3. EndOfLastLine(text) \in 0..Len(text)
  BY <1>1, EndOfLastLineIs
<1>4. EndOfLastLineCounting(text, setup.chunk).offset \in 0..Len(text)
  BY <1>1, SetupIs, CountingIs
<1>5. Start = StartOf(Verdict, text)
  BY DEF Start, text
<1>6. Start \in Nat /\ (Verdict # "continue" => Start <= Len(text))
  BY <1>1, <1>2, <1>3, <1>4, <1>5, VerdictIs DEF StartOf
<1>7. /\ Verdict = "continue" => Start = cursor.offset
      /\ Verdict \in {"rotated", "truncated"} => Start = 0
  BY <1>5 DEF StartOf
<1>8. TailOf(text, cursor.offset, ANCHOR_CAP) \in Seq(Byte) /\ TailOf(text, Start, ANCHOR_CAP) \in Seq(Byte)
  BY <1>1, <1>2, <1>6, Caps, TailOfType
<1>9. Probe = IF setup.zip THEN <<>> ELSE TailOf(text, cursor.offset, ANCHOR_CAP)
  BY DEF Probe, text
<1>10. Probe \in Seq(Byte)
  BY <1>8, <1>9
<1>11. TailOf(text, 0, ANCHOR_CAP) = <<>>
  <2>1. Upto(text, 0) \in Seq(Byte) /\ Len(Upto(text, 0)) = 0
    BY <1>1, UptoIs
  <2>2. From(Upto(text, 0), 0) \in Seq(Byte) /\ Len(From(Upto(text, 0), 0)) = 0
    BY <2>1, FromIs
  <2>3. TailOf(text, 0, ANCHOR_CAP) = From(Upto(text, 0), 0)
    BY Caps DEF TailOf
  <2> QED
    BY <2>2, <2>3
<1>12. /\ setup.zip => Seed = None
       /\ ~setup.zip => Seed = IF Start = 0 THEN <<>>
                               ELSE IF Verdict = "continue" THEN Probe
                               ELSE TailOf(text, Start, ANCHOR_CAP)
  BY DEF Seed, text
<1>13. ~setup.zip => Seed = TailOf(text, Start, ANCHOR_CAP)
  BY <1>7, <1>9, <1>11, <1>12
<1> QED
  BY <1>1, <1>6, <1>7, <1>8, <1>10, <1>12, <1>13 DEF text

LEMMA RunInit == Init => RunOK
<1> SUFFICES ASSUME Init PROVE RunOK
  OBVIOUS
<1>1. WorldOK
  BY WorldInit
<1>2. <<>> \in Seq(Byte)
  OBVIOUS
<1>3. Resting(NewReader(0, 0, <<>>, NoPath))
  BY <1>2, NewReaderIs
<1>4. 1 \in DOMAIN setup.texts
  BY <1>1, SetupIs
<1> QED
  BY <1>2, <1>3, <1>4 DEF Init, RunOK, NoFile, NoCursor, FileFields, Reading

LEMMA RunWorld == WorldOK /\ RunOK /\ (Append_ \/ Replace) => RunOK'
<1> SUFFICES ASSUME RunOK, Append_ \/ Replace PROVE RunOK'
  OBVIOUS
<1>1. UNCHANGED <<setup, pc, file, todo, reader, cursor, seen, was>>
  BY DEF Append_, Replace, history
<1> QED
  BY <1>1 DEF RunOK, Fresh, Saved

LEMMA RunOpenUnchanged == WorldOK /\ RunOK /\ OpenUnchanged => RunOK'
<1> SUFFICES ASSUME WorldOK, RunOK, OpenUnchanged PROVE RunOK'
  OBVIOUS
<1> DEFINE r == NewReader(cursor.offset, cursor.line, None, "log")
<1>1. cursor.offset \in Nat
  BY DEF RunOK
<1>2. Resting(r) /\ r.path = "log" /\ r.tail = None
  BY <1>1, NewReaderIs
<1>3. reader' = [r EXCEPT !.at_end = TRUE]
  BY DEF OpenUnchanged
<1> HIDE DEF r
<1>4. Resting(reader') /\ reader'.path = "log" /\ reader'.tail = None
  BY <1>2, <1>3 DEF Resting, ReaderFields
<1>5. /\ DOMAIN file' = FileFields /\ file'.version = live /\ file'.start = cursor.offset
      /\ file'.verdict = "unchanged" /\ file'.copied = FALSE
  BY DEF OpenUnchanged, NoFile, FileFields
<1>6. UNCHANGED <<setup, cursor, seen, was>> /\ setup.zip /\ Saved /\ pc' = "ended" /\ todo' = <<>>
  BY DEF OpenUnchanged, world, history
<1>7. Saved'
  BY <1>6 DEF Saved
<1>8. Resting(reader)'
  BY <1>4 DEF Resting
<1>9. live \in DOMAIN setup.texts
  BY DEF WorldOK
<1> QED
  BY <1>1, <1>4, <1>5, <1>6, <1>7, <1>8, <1>9 DEF RunOK

LEMMA RunOpenHead == WorldOK /\ RunOK /\ OpenHead => RunOK'
<1> SUFFICES ASSUME WorldOK, RunOK, OpenHead PROVE RunOK'
  OBVIOUS
<1>1. /\ DOMAIN file' = FileFields /\ file'.version = live /\ file'.start = 0
  BY DEF OpenHead, NoFile, FileFields
<1>2. UNCHANGED <<setup, cursor, reader, todo, seen, was>> /\ pc = "idle" /\ pc' = "opened"
  BY DEF OpenHead, world, history
<1>3. live \in DOMAIN setup.texts /\ todo = <<>>
  BY <1>2 DEF WorldOK, RunOK
<1> QED
  BY <1>1, <1>2, <1>3 DEF RunOK, Reading

LEMMA RunOpenTail == WorldOK /\ RunOK /\ OpenTail => RunOK'
<1> SUFFICES ASSUME WorldOK, RunOK, OpenTail PROVE RunOK'
  OBVIOUS
<1>1. /\ Under(file.version) \in Seq(Byte) /\ Start \in Nat
      /\ Verdict \in {"rotated", "truncated"} => Start = 0
      /\ setup.zip => Seed = None
      /\ ~setup.zip => Seed = TailOf(Under(file.version), Start, ANCHOR_CAP) /\ Seed \in Seq(Byte)
  BY StartIs
<1>2. /\ pc = "opened" /\ pc' = "consume"
      /\ file' = [file EXCEPT !.verdict = Verdict, !.start = Start, !.line = StartsAt,
                              !.seed = Seed, !.copied = Copied]
      /\ reader' = IF Copied THEN Copy ELSE Own
      /\ todo' = IF Copied THEN <<Own>> ELSE <<>>
      /\ seen' = IF Copied THEN Upto(Text(1), cursor.offset) ELSE Upto(Under(file.version), Start)
      /\ UNCHANGED <<world, cursor, was>>
  BY OpenTailIs
<1>3. DOMAIN file = FileFields /\ file.version \in DOMAIN setup.texts /\ cursor.offset \in Nat
      /\ was \in Seq(Byte)
  BY DEF RunOK
<1>4. /\ DOMAIN file' = FileFields /\ file'.version = file.version /\ file'.start = Start
      /\ file'.verdict = Verdict /\ file'.copied = Copied
  BY <1>2, <1>3 DEF FileFields
<1>5. Resting(Own) /\ Own.offset = Start /\ Own.mark = 0 /\ Own.carried = 0 /\ Own.buf = <<>>
      /\ Own.path = "log" /\ Own.tail = Seed
  BY <1>1, NewReaderIs DEF Own
<1>6. Text(1) \in Seq(Byte)
  BY TextIs, SetupIs
<1>7. TailOf(Text(1), cursor.offset, ANCHOR_CAP) \in Seq(Byte)
  BY <1>3, <1>6, Caps, TailOfType
<1>8. Resting(Copy) /\ Copy.path = "copy" /\ Copy.mark = 0 /\ Copy.tail \in Seq(Byte)
  BY <1>3, <1>7, NewReaderIs DEF Copy
<1>9. Copied => Start = 0 /\ setup.how = "rename" /\ Verdict = "rotated"
  BY <1>1 DEF Copied
<1>10. Copied => (Seed = IF setup.zip THEN None ELSE <<>>)
  <2>1. Seed = IF setup.zip THEN None ELSE IF Start = 0 THEN <<>>
                 ELSE IF Verdict = "continue" THEN Probe
                 ELSE TailOf(Under(file.version), Start, ANCHOR_CAP)
    BY DEF Seed
  <2> QED
    BY <1>9, <2>1
<1>11. seen' \in Seq(Byte)
  BY <1>1, <1>2, <1>3, <1>6, UptoIs
<1>12. setup' = setup /\ cursor' = cursor /\ was' = was
  BY <1>2 DEF world
<1>13. Resting(reader)'
  BY <1>2, <1>5, <1>8 DEF Resting
<1>14. todo' # <<>> => Copied /\ Fresh(todo[1])'
  <2> SUFFICES ASSUME Copied PROVE Fresh(todo[1])'
    BY <1>2
  <2>1. todo'[1] = Own
    BY <1>2
  <2> QED
    BY <1>5, <1>9, <1>10, <1>12, <2>1 DEF Fresh, Resting
<1>15. /\ reader'.path \in {"copy", "log"}
       /\ reader'.path = "copy" <=> todo' # <<>>
       /\ reader'.mark = 0
       /\ ~setup.zip => reader'.tail # None
       /\ setup.zip /\ reader'.path = "log" => reader'.tail = None
  BY <1>1, <1>2, <1>5, <1>8, NoneIsNot
<1>16. Copied \in BOOLEAN /\ (Verdict = "first-sight" <=> ~Saved)
  BY VerdictIs DEF Copied
<1>17. Saved' <=> Saved
  BY <1>12 DEF Saved
<1> QED
  BY <1>1, <1>2, <1>3, <1>4, <1>9, <1>11, <1>12, <1>13, <1>14, <1>15, <1>16, <1>17 DEF RunOK

LEMMA RunConsume == WorldOK /\ RunOK /\ Consume => RunOK'
<1> SUFFICES ASSUME WorldOK, RunOK, Consume PROVE RunOK'
  OBVIOUS
<1> DEFINE s == SkipHole(reader)
           n == NextLine(s).reader
<1>1. Resting(reader) /\ HasLine(s) /\ pc = "consume"
  BY DEF RunOK, Consume
<1>2. /\ reader' = n /\ seen' = seen \o Nuls(s.hole) \o SubSeq(s.buf, s.pos + 1, n.pos)
      /\ UNCHANGED <<setup, pc, file, todo, cursor, was>>
  BY DEF Consume, world
<1>3. /\ SameBut(n, reader, {"pos", "mark", "offset", "nul_bytes", "hole", "line", "line_start"})
      /\ Resting(n)
  BY <1>1, NextLineIs
<1>4. /\ SameBut(s, reader, {"pos", "hole"}) /\ s.pos \in reader.pos..Len(reader.buf)
      /\ s.hole = reader.hole + (s.pos - reader.pos)
  BY <1>1, SkipHoleIs
<1> HIDE DEF s, n
<1>5. DOMAIN reader = ReaderFields /\ reader.buf \in Seq(Byte) /\ reader.pos \in Nat /\ reader.hole \in Nat
  BY <1>1 DEF Resting
<1>6. n.path = reader.path /\ n.tail = reader.tail /\ s.buf = reader.buf
  BY <1>3, <1>4, <1>5 DEF SameBut, ReaderFields
<1>7. s.hole \in Nat /\ s.pos \in Nat /\ n.pos \in Nat /\ n.pos <= Len(reader.buf)
  <2>1. n.buf = reader.buf
    BY <1>3, <1>5 DEF SameBut, ReaderFields
  <2>2. n.pos \in 0..Len(n.buf)
    BY <1>3 DEF Resting
  <2> QED
    BY <1>4, <1>5, <2>1, <2>2
<1>8. seen' \in Seq(Byte)
  <2>1. Nuls(s.hole) \in Seq(Byte)
    BY <1>7, NulsAre
  <2>2. SubSeq(s.buf, s.pos + 1, n.pos) \in Seq(Byte)
    BY <1>5, <1>6, <1>7
  <2>3. seen \in Seq(Byte)
    BY DEF RunOK
  <2> QED
    BY <1>2, <2>1, <2>2, <2>3
<1>9. Resting(reader)'
  BY <1>2, <1>3 DEF Resting
<1>10. todo # <<>> => Fresh(todo[1])'
  BY <1>2 DEF RunOK, Fresh, Resting
<1> QED
  BY <1>1, <1>2, <1>6, <1>8, <1>9, <1>10 DEF RunOK, Reading, Saved

LEMMA RunDry == WorldOK /\ RunOK /\ Dry => RunOK'
<1> SUFFICES ASSUME RunOK, Dry PROVE RunOK'
  OBVIOUS
<1> DEFINE f == FoldTail(SkipHole(reader))
<1>1. Resting(reader) /\ pc = "consume" /\ pc' = "read" /\ reader' = f
  BY DEF RunOK, Dry
<1>2. UNCHANGED <<setup, file, todo, cursor, seen, was>>
  BY DEF Dry, world, history
<1>3. /\ Resting(f) /\ f.mark = 0 /\ f.tail = TailNow(reader)
      /\ SameBut(f, reader, {"tail", "carried", "buf", "pos", "mark", "hole"})
  BY <1>1, FoldTailIs
<1> HIDE DEF f
<1>4. f.path = reader.path
  BY <1>1, <1>3 DEF SameBut, ReaderFields, Resting
<1>5. /\ reader.tail = None => f.tail = None
      /\ reader.tail # None => f.tail # None
  BY <1>1, <1>3, TailNowType, NoneIsNot
<1>6. Resting(reader)'
  BY <1>1, <1>3 DEF Resting
<1>7. todo # <<>> => Fresh(todo[1])'
  BY <1>2 DEF RunOK, Fresh, Resting
<1> QED
  BY <1>1, <1>2, <1>3, <1>4, <1>5, <1>6, <1>7 DEF RunOK, Reading, Saved

LEMMA PartTextIs == WorldOK /\ RunOK => PartText \in Seq(Byte)
<1> SUFFICES ASSUME WorldOK, RunOK PROVE PartText \in Seq(Byte)
  OBVIOUS
<1>1. Text(1) \in Seq(Byte)
  BY TextIs, SetupIs
<1>2. Under(file.version) \in Seq(Byte)
  BY UnderIs DEF RunOK
<1> QED
  BY <1>1, <1>2 DEF PartText

\* The buffer holds what was read of the part, and nothing behind it was.
LEMMA ReadChunkIs ==
  ASSUME WorldOK, RunOK, ReadChunk,
         NEW chunk, chunk = Upto(From(PartText, reader.at), setup.chunk)
  PROVE  /\ chunk \in Seq(Byte)
         /\ Len(chunk) <= Len(PartText) - reader.at \/ chunk = <<>>
         /\ \A i \in 1..Len(chunk) : chunk[i] = PartText[reader.at + i]
         /\ SameBut(reader', reader, {"buf", "at", "at_end"})
         /\ reader'.buf = reader.buf \o chunk /\ reader'.at = reader.at + Len(chunk)
         /\ reader'.mark = 0 /\ reader'.pos = 0 /\ reader.mark = 0
         /\ Resting(reader')
<1>1. /\ DOMAIN reader = ReaderFields
      /\ reader.offset \in Nat /\ reader.at \in Nat /\ reader.carried \in Nat
      /\ reader.buf \in Seq(Byte)
      /\ reader.pos = reader.mark
      /\ reader.hole = (IF reader.mark = 0 THEN reader.carried ELSE 0)
      /\ reader.tail = None \/ reader.tail \in Seq(Byte)
      /\ reader.at = reader.offset + reader.hole + (Len(reader.buf) - reader.pos)
  BY DEF RunOK, Resting
<1>2. reader.mark = 0
  BY DEF RunOK, ReadChunk
<1>3. PartText \in Seq(Byte) /\ setup.chunk \in Nat
  BY PartTextIs, SetupIs
<1> DEFINE rest == From(PartText, reader.at)
<1>4. /\ rest \in Seq(Byte)
      /\ Len(rest) = (IF reader.at < Len(PartText) THEN Len(PartText) - reader.at ELSE 0)
      /\ \A i \in 1..Len(rest) : rest[i] = PartText[reader.at + i]
  BY <1>1, <1>3, FromIs
<1>5. reader' = [reader EXCEPT !.buf = @ \o chunk, !.at = @ + Len(chunk), !.at_end = chunk = <<>>]
  BY DEF ReadChunk
<1> HIDE DEF rest
<1>6. /\ chunk \in Seq(Byte)
      /\ Len(chunk) = (IF setup.chunk < Len(rest) THEN setup.chunk ELSE Len(rest))
      /\ \A i \in 1..Len(chunk) : chunk[i] = rest[i]
  BY <1>3, <1>4, UptoIs DEF rest
<1>7. Len(chunk) <= Len(PartText) - reader.at \/ chunk = <<>>
  <2>1. Len(chunk) <= Len(rest) /\ Len(chunk) \in Nat
    BY <1>3, <1>4, <1>6
  <2>2. CASE reader.at < Len(PartText)
    BY <1>4, <2>1, <2>2
  <2>3. CASE ~(reader.at < Len(PartText))
    BY <1>4, <1>6, <2>1, <2>3
  <2> QED
    BY <2>2, <2>3
<1>8. \A i \in 1..Len(chunk) : chunk[i] = PartText[reader.at + i]
  BY <1>3, <1>4, <1>6
<1>9. SameBut(reader', reader, {"buf", "at", "at_end"})
  BY <1>5 DEF SameBut
<1>10. reader'.buf = reader.buf \o chunk /\ reader'.at = reader.at + Len(chunk)
  BY <1>1, <1>5 DEF ReaderFields
<1>11. /\ DOMAIN reader' = ReaderFields /\ reader'.offset = reader.offset
       /\ reader'.carried = reader.carried /\ reader'.mark = 0 /\ reader'.pos = 0
       /\ reader'.hole = reader.hole /\ reader'.tail = reader.tail
  BY <1>1, <1>2, <1>9 DEF SameBut, ReaderFields
<1>12. reader'.buf \in Seq(Byte) /\ Len(reader'.buf) = Len(reader.buf) + Len(chunk)
  <2>1. reader.buf \in Seq(Byte) /\ chunk \in Seq(Byte)
    BY <1>1, <1>6
  <2>2. reader.buf \o chunk \in Seq(Byte) /\ Len(reader.buf \o chunk) = Len(reader.buf) + Len(chunk)
    BY <2>1
  <2> QED
    BY <1>10, <2>2
<1>13. /\ reader'.at \in Nat
       /\ reader'.at = reader'.offset + reader'.hole + (Len(reader'.buf) - reader'.pos)
  <2>1. Len(chunk) \in Nat /\ Len(reader.buf) \in Nat /\ reader.hole \in Nat
    BY <1>1, <1>6
  <2> DEFINE old == Len(reader.buf)
             new == Len(chunk)
  <2>2. reader.at = reader.offset + reader.hole + old /\ old \in Nat /\ new \in Nat
    BY <1>1, <1>2, <2>1
  <2>3. /\ reader'.at = reader.at + new /\ Len(reader'.buf) = old + new
        /\ reader'.offset = reader.offset /\ reader'.hole = reader.hole /\ reader'.pos = 0
    BY <1>10, <1>11, <1>12
  <2> HIDE DEF old, new
  <2> QED
    BY <1>1, <2>1, <2>2, <2>3
<1>14. Resting(reader')
  <2>0. reader'.buf \in Seq(Byte) /\ reader'.mark = 0
    BY <1>11, <1>12
  <2>1. reader'.mark \in 0..Len(reader'.buf)
    BY <2>0
  <2> DEFINE r == reader'
  <2>2. /\ DOMAIN r = ReaderFields /\ r.offset \in Nat /\ r.at \in Nat /\ r.carried \in Nat
        /\ r.buf \in Seq(Byte) /\ r.mark \in 0..Len(r.buf) /\ r.pos = r.mark
        /\ r.hole = (IF r.mark = 0 THEN r.carried ELSE 0)
        /\ r.tail = None \/ r.tail \in Seq(Byte)
        /\ r.at = r.offset + r.hole + (Len(r.buf) - r.pos)
    BY <1>1, <1>2, <1>11, <1>12, <1>13, <2>1
  <2> HIDE DEF r
  <2>3. Resting(r)
    BY <2>2 DEF Resting
  <2> QED
    BY <2>3 DEF r
<1> QED
  BY <1>2, <1>6, <1>7, <1>8, <1>9, <1>10, <1>11, <1>14

LEMMA RunReadChunk == WorldOK /\ RunOK /\ ReadChunk => RunOK'
<1> SUFFICES ASSUME WorldOK, RunOK, ReadChunk PROVE RunOK'
  OBVIOUS
<1>1. /\ Resting(reader') /\ reader'.mark = 0
      /\ SameBut(reader', reader, {"buf", "at", "at_end"})
  BY ReadChunkIs
<1>2. pc = "read" /\ pc' = "check" /\ UNCHANGED <<setup, file, todo, cursor, seen, was>>
  BY DEF ReadChunk, world, history
<1>3. reader'.path = reader.path /\ reader'.tail = reader.tail
  <2>1. DOMAIN reader = ReaderFields
    BY DEF RunOK, Resting
  <2> QED
    BY <1>1, <2>1 DEF SameBut, ReaderFields
<1>4. Resting(reader)'
  BY <1>1 DEF Resting
<1>5. todo # <<>> => Fresh(todo[1])'
  BY <1>2 DEF RunOK, Fresh, Resting
<1> QED
  BY <1>1, <1>2, <1>3, <1>4, <1>5 DEF RunOK, Reading, Saved

LEMMA CheckIs ==
  ASSUME RunOK, Check
  PROVE  LET lost == Asks /\ ~StillTheFile
             ends == lost \/ reader.at_end
         IN /\ pc = "check"
            /\ reader' = IF lost THEN [reader EXCEPT !.truncated = TRUE, !.at_end = FALSE]
                         ELSE IF ends /\ todo # <<>> THEN todo[1] ELSE reader
            /\ todo # <<>> => ~lost
            /\ todo' = IF ends THEN <<>> ELSE todo
            /\ seen' = IF ends /\ todo # <<>> THEN <<>> ELSE seen
            /\ pc' = IF ends /\ todo = <<>> THEN "ended" ELSE "consume"
            /\ UNCHANGED <<world, file, cursor, was, blind>>
BY DEF RunOK, Check, Asks, Reading

LEMMA RunCheck == WorldOK /\ RunOK /\ Check => RunOK'
<1> SUFFICES ASSUME WorldOK, RunOK, Check PROVE RunOK'
  OBVIOUS
<1> DEFINE lost == Asks /\ ~StillTheFile
           ends == lost \/ reader.at_end
<1>1. /\ pc = "check"
      /\ reader' = IF lost THEN [reader EXCEPT !.truncated = TRUE, !.at_end = FALSE]
                   ELSE IF ends /\ todo # <<>> THEN todo[1] ELSE reader
      /\ todo # <<>> => ~lost
      /\ todo' = IF ends THEN <<>> ELSE todo
      /\ seen' = IF ends /\ todo # <<>> THEN <<>> ELSE seen
      /\ pc' = IF ends /\ todo = <<>> THEN "ended" ELSE "consume"
      /\ UNCHANGED <<world, file, cursor, was>>
  BY CheckIs
<1> HIDE DEF lost, ends
<1>2. setup' = setup
  BY <1>1 DEF world
<1>3. Resting(reader) /\ (todo # <<>> => Fresh(todo[1]))
  BY DEF RunOK
<1>4. CASE lost
  <2> DEFINE r == [reader EXCEPT !.truncated = TRUE, !.at_end = FALSE]
  <2>1. todo = <<>> /\ reader' = r /\ todo' = <<>> /\ pc' = "ended" /\ seen' = seen
    BY <1>1, <1>4 DEF ends
  <2>2. SameBut(r, reader, {"truncated", "at_end"})
    BY DEF SameBut
  <2> HIDE DEF r
  <2>3. Resting(reader)'
    BY <1>3, <2>1, <2>2 DEF Resting, SameBut, ReaderFields
  <2>4. reader'.path = reader.path /\ reader'.tail = reader.tail
    BY <1>3, <2>1, <2>2 DEF Resting, SameBut, ReaderFields
  <2> QED
    BY <1>1, <1>2, <2>1, <2>3, <2>4 DEF RunOK, Reading, Saved
<1>5. CASE ~lost /\ ends /\ todo # <<>>
  <2>1. reader' = todo[1] /\ todo' = <<>> /\ pc' = "consume" /\ seen' = <<>>
    BY <1>1, <1>5
  <2>2. Fresh(todo[1])
    BY <1>3, <1>5
  <2>3. Resting(reader)' /\ reader'.path = "log" /\ reader'.tail = IF setup.zip THEN None ELSE <<>>
    BY <2>1, <2>2 DEF Fresh, Resting
  <2>4. <<>> \in Seq(Byte) /\ <<>> # None
    <3>1. <<>> \in Seq(Byte)
      OBVIOUS
    <3> QED
      BY <3>1, NoneIsNot
  <2> QED
    BY <1>1, <1>2, <2>1, <2>3, <2>4 DEF RunOK, Reading, Saved
<1>6. CASE ~lost /\ ~(ends /\ todo # <<>>)
  <2>1. reader' = reader /\ todo' = todo /\ pc' \in {"ended", "consume"} /\ seen' = seen
        /\ (pc' = "ended" => todo = <<>>)
    BY <1>1, <1>6
  <2>2. Resting(reader)'
    BY <1>3, <2>1 DEF Resting
  <2>3. todo # <<>> => Fresh(todo[1])'
    BY <1>2, <1>3, <2>1 DEF Fresh, Resting
  <2> QED
    BY <1>1, <1>2, <2>1, <2>2, <2>3 DEF RunOK, Reading, Saved
<1> QED
  BY <1>4, <1>5, <1>6

LEMMA RunAccepted == WorldOK /\ RunOK /\ Accepted => RunOK'
<1> SUFFICES ASSUME RunOK, Accepted PROVE RunOK'
  OBVIOUS
<1>1. /\ pc = "ended" /\ pc' = "idle" /\ cursor' = (IF Stopped THEN cursor ELSE EndCursor)
      /\ was' = (IF Stopped THEN was ELSE seen)
      /\ UNCHANGED <<setup, file, todo, reader, seen>>
  BY DEF Accepted, Reported, world
<1>2. todo = <<>>
  BY <1>1 DEF RunOK
<1>3. Resting(reader)'
  BY <1>1 DEF RunOK, Resting
<1>4. EndCursor.offset = reader.offset /\ reader.offset \in Nat
  BY DEF EndCursor, RunOK, Resting
<1>5. cursor'.offset \in Nat /\ was' \in Seq(Byte)
  BY <1>1, <1>4 DEF RunOK
<1> QED
  BY <1>1, <1>2, <1>3, <1>5 DEF RunOK, Reading

LEMMA RunRefused == WorldOK /\ RunOK /\ Refused => RunOK'
<1> SUFFICES ASSUME RunOK, Refused PROVE RunOK'
  OBVIOUS
<1>1. /\ pc = "ended" /\ pc' = "idle" /\ cursor' = (IF Saved THEN cursor ELSE StartCursor)
      /\ was' = (IF Saved THEN was ELSE Upto(seen, file.start))
      /\ UNCHANGED <<setup, file, todo, reader, seen>>
  BY DEF Refused, Reported, world
<1>2. todo = <<>>
  BY <1>1 DEF RunOK
<1>3. Resting(reader)'
  BY <1>1 DEF RunOK, Resting
<1>4. StartCursor.offset = file.start /\ file.start \in Nat
  BY DEF StartCursor, RunOK
<1>5. cursor'.offset \in Nat
  BY <1>1, <1>4 DEF RunOK
<1>6. was' \in Seq(Byte)
  BY <1>1, UptoIs DEF RunOK
<1> QED
  BY <1>1, <1>2, <1>3, <1>5, <1>6 DEF RunOK, Reading

LEMMA RunStep == WorldOK /\ RunOK /\ [Next]_vars => RunOK'
<1> SUFFICES ASSUME WorldOK, RunOK, [Next]_vars PROVE RunOK'
  OBVIOUS
<1>1. CASE Asking \/ UNCHANGED vars
  BY <1>1, AskingAside DEF Aside, RunOK, Fresh, Resting, Saved
<1>2. CASE Next
  BY <1>1, <1>2, RunWorld, RunOpenUnchanged, RunOpenHead, RunOpenTail, RunConsume, RunDry,
     RunReadChunk, RunCheck, RunAccepted, RunRefused DEF Next, Asking
<1> QED
  BY <1>1, <1>2

-----------------------------------------------------------------------------
(* The scan *)

ScanFields == {"group", "pending", "after", "last", "last_path", "emitted", "first_path",
               "current_path", "capped", "entries", "matches", "matched", "excluded",
               "lines", "priority"}

IsSequence(x) == \E S : x \in Seq(S)

\* The window of a match and the lines that wait are within the context, and as many matches are
\* stored as there were, up to the cap.
ScanWell(s, context, cap) ==
  /\ DOMAIN s = ScanFields
  /\ s.after \in 0..context
  /\ IsSequence(s.pending) /\ Len(s.pending) <= context
  /\ IsSequence(s.matches) /\ Len(s.matches) <= cap
  /\ s.matched \in Nat /\ Len(s.matches) <= s.matched

LEMMA SequenceIs == ASSUME NEW x, IsSequence(x) PROVE Len(x) \in Nat
BY DEF IsSequence

LEMMA EmptyIs == IsSequence(<<>>) /\ Len(<<>>) = 0
<1>1. <<>> \in Seq({}) /\ Len(<<>>) = 0
  OBVIOUS
<1> QED
  BY <1>1 DEF IsSequence

LEMMA AppendIs ==
  ASSUME NEW x, NEW e, IsSequence(x)
  PROVE  IsSequence(Append(x, e)) /\ Len(Append(x, e)) = Len(x) + 1
<1>1. PICK S : x \in Seq(S)
  BY DEF IsSequence
<1> DEFINE U == S \union {e}
<1>2. x \in Seq(U) /\ e \in U
  BY <1>1
<1> HIDE DEF U
<1>3. Append(x, e) \in Seq(U) /\ Len(Append(x, e)) = Len(x) + 1
  BY <1>2
<1> QED
  BY <1>3 DEF IsSequence

LEMMA LastOfSequence ==
  ASSUME NEW x, IsSequence(x), NEW n \in Nat
  PROVE  IsSequence(LastOf(x, n)) /\ Len(LastOf(x, n)) <= n
<1>1. PICK S : x \in Seq(S)
  BY DEF IsSequence
<1>2. /\ LastOf(x, n) \in Seq(S)
      /\ Len(LastOf(x, n)) = (IF n < Len(x) THEN n ELSE Len(x))
  BY <1>1, LastOfIs
<1>3. IsSequence(LastOf(x, n))
  BY <1>2 DEF IsSequence
<1>4. Len(x) \in Nat
  BY SequenceIs
<1>5. Len(LastOf(x, n)) <= n
  BY <1>2, <1>4
<1> QED
  BY <1>3, <1>5

LEMMA EmitAllIs ==
  ASSUME NEW s, NEW lines, NEW kind
  PROVE  SameBut(EmitAll(s, lines, kind), s, {"last", "last_path", "emitted", "entries"})
<1> DEFINE e == Emitted(s, lines, kind)
<1>1. EmitAll(s, lines, kind) =
        [s EXCEPT !.last = e.last, !.last_path = e.last_path,
                  !.emitted = e.emitted, !.entries = e.entries]
  BY DEF EmitAll
<1> HIDE DEF e
<1> QED
  BY <1>1 DEF SameBut

\* What is said of a scan depends on few of its fields.
LEMMA WellSame ==
  ASSUME NEW context, NEW cap, NEW s, NEW t, ScanWell(s, context, cap), DOMAIN t = ScanFields,
         t.after = s.after, t.pending = s.pending, t.matches = s.matches, t.matched = s.matched
  PROVE  ScanWell(t, context, cap)
BY DEF ScanWell

LEMMA EmitAllWell ==
  ASSUME NEW context, NEW cap, NEW s, NEW lines, NEW kind, ScanWell(s, context, cap)
  PROVE  ScanWell(EmitAll(s, lines, kind), context, cap)
<1> DEFINE t == EmitAll(s, lines, kind)
<1>1. SameBut(t, s, {"last", "last_path", "emitted", "entries"}) /\ DOMAIN s = ScanFields
  BY EmitAllIs DEF ScanWell
<1> HIDE DEF t
<1>2. DOMAIN t = ScanFields /\ t.after = s.after /\ t.pending = s.pending
      /\ t.matches = s.matches /\ t.matched = s.matched
  BY <1>1 DEF SameBut, ScanFields
<1>3. ScanWell(t, context, cap)
  BY <1>2, WellSame
<1> QED
  BY <1>3 DEF t

LEMMA EnterFileWell ==
  ASSUME NEW context \in Nat, NEW cap, NEW s, NEW path, ScanWell(s, context, cap)
  PROVE  ScanWell(EnterFile(s, path), context, cap)
<1>1. CASE path = s.current_path
  BY <1>1 DEF EnterFile
<1>2. CASE path # s.current_path
  <2> DEFINE t == [s EXCEPT !.pending = <<>>, !.after = 0, !.current_path = path,
                            !.first_path = IF @ = NoPath THEN path ELSE @]
  <2>1. EnterFile(s, path) = t
    BY <1>2 DEF EnterFile
  <2>2. /\ DOMAIN t = ScanFields /\ t.after = 0 /\ t.pending = <<>>
        /\ t.matches = s.matches /\ t.matched = s.matched
    BY DEF ScanWell, ScanFields
  <2> HIDE DEF t
  <2>3. 0 \in 0..context /\ 0 <= context
    OBVIOUS
  <2>4. ScanWell(t, context, cap)
    BY <2>2, <2>3, EmptyIs DEF ScanWell
  <2> QED
    BY <2>1, <2>4
<1> QED
  BY <1>1, <1>2

LEMMA TakeHitWell ==
  ASSUME NEW context \in Nat, NEW cap \in Nat, NEW s, NEW group, NEW hits, NEW before,
         ScanWell(s, context, cap)
  PROVE  ScanWell(TakeHit(s, group, hits, context, cap, before), context, cap)
<1> DEFINE priority == Highest({Patterns[i].priority : i \in hits})
           counted  == [s EXCEPT !.matched = @ + 1, !.priority = Highest({@, priority})]
           match    == [number |-> group[1].number, path |-> group[1].path]
           stored   == IF counted.matched > cap THEN [counted EXCEPT !.capped = TRUE]
                       ELSE [counted EXCEPT !.matches = Append(@, match)]
           earlier  == IF Wanted(s, context) > 0 THEN before[Wanted(s, context)] ELSE <<>>
           lines    == earlier \o FlattenSeq(s.pending)
           window   == EmitAll(stored, lines, "context")
           whole    == EmitAll(window, group, "match")
<1>1. TakeHit(s, group, hits, context, cap, before)
        = [whole EXCEPT !.pending = <<>>, !.after = context]
  BY DEF TakeHit
<1> HIDE DEF lines, match, priority
<1>2. /\ DOMAIN s = ScanFields /\ s.after \in 0..context
      /\ IsSequence(s.pending) /\ Len(s.pending) <= context
      /\ IsSequence(s.matches) /\ Len(s.matches) <= cap
      /\ s.matched \in Nat /\ Len(s.matches) <= s.matched
  BY DEF ScanWell
<1>3. /\ DOMAIN counted = ScanFields /\ counted.after = s.after /\ counted.pending = s.pending
      /\ counted.matches = s.matches /\ counted.matched = s.matched + 1
  BY <1>2 DEF ScanFields
<1> HIDE DEF counted
<1>4. ScanWell(stored, context, cap)
  <2>0. Len(s.matches) \in Nat
    BY <1>2, SequenceIs
  <2>1. CASE counted.matched > cap
    <3> DEFINE t == [counted EXCEPT !.capped = TRUE]
    <3>1. stored = t
      BY <2>1
    <3>2. DOMAIN t = ScanFields /\ t.after = s.after /\ t.pending = s.pending
          /\ t.matches = s.matches /\ t.matched = s.matched + 1
      BY <1>3 DEF ScanFields
    <3> HIDE DEF t, stored
    <3>3. s.matched + 1 \in Nat /\ Len(s.matches) <= s.matched + 1
      BY <1>2, <2>0
    <3>4. ScanWell(t, context, cap)
      BY <1>2, <3>2, <3>3 DEF ScanWell
    <3> QED
      BY <3>1, <3>4
  <2>2. CASE ~(counted.matched > cap)
    <3> DEFINE t == [counted EXCEPT !.matches = Append(@, match)]
    <3>1. stored = t
      BY <2>2
    <3>2. DOMAIN t = ScanFields /\ t.after = s.after /\ t.pending = s.pending
          /\ t.matches = Append(s.matches, match) /\ t.matched = s.matched + 1
      BY <1>3 DEF ScanFields
    <3> HIDE DEF t, stored
    <3>3. IsSequence(Append(s.matches, match)) /\ Len(Append(s.matches, match)) = Len(s.matches) + 1
      BY <1>2, AppendIs
    <3>4. s.matched + 1 \in Nat /\ Len(s.matches) + 1 <= s.matched + 1 /\ Len(s.matches) + 1 <= cap
      BY <1>2, <1>3, <2>0, <2>2
    <3>5. ScanWell(t, context, cap)
      BY <1>2, <3>2, <3>3, <3>4 DEF ScanWell
    <3> QED
      BY <3>1, <3>5
  <2> QED
    BY <2>1, <2>2
<1> HIDE DEF stored
<1>5. ScanWell(window, context, cap)
  BY <1>4, EmitAllWell
<1> HIDE DEF window
<1>6. ScanWell(whole, context, cap)
  BY <1>5, EmitAllWell
<1> HIDE DEF whole
<1> DEFINE t == [whole EXCEPT !.pending = <<>>, !.after = context]
<1>7. DOMAIN t = ScanFields /\ t.after = context /\ t.pending = <<>>
      /\ t.matches = whole.matches /\ t.matched = whole.matched
  BY <1>6 DEF ScanWell, ScanFields
<1> HIDE DEF t
<1>8. context \in 0..context /\ 0 <= context
  OBVIOUS
<1>9. ScanWell(t, context, cap)
  BY <1>6, <1>7, <1>8, EmptyIs DEF ScanWell
<1> QED
  BY <1>1, <1>9 DEF t

LEMMA TakeGroupWell ==
  ASSUME NEW context \in Nat, NEW cap \in Nat, NEW s0, NEW group, NEW before,
         ScanWell(s0, context, cap)
  PROVE  ScanWell(TakeGroup(s0, group, context, cap, before), context, cap)
<1> DEFINE entered == EnterFile(s0, group[1].path)
           s    == [entered EXCEPT !.lines = @ + 1]
           text == TextOf(group)
           hits == Matching(text)
           drop == hits # {} /\ IsExcluded(text)
           kept == IF drop THEN [s EXCEPT !.excluded = @ + 1] ELSE s
           shown == EmitAll(kept, group, "context")
           waits == LastOf(Append(kept.pending, group), context)
<1> HIDE DEF text
<1>1. TakeGroup(s0, group, context, cap, before) =
        IF hits # {} /\ ~drop THEN TakeHit(s, group, hits, context, cap, before)
        ELSE IF s.after > 0 THEN [shown EXCEPT !.after = @ - 1]
        ELSE [kept EXCEPT !.pending = waits]
  BY DEF TakeGroup, text
<1> HIDE DEF entered, hits, drop
<1>2. ScanWell(entered, context, cap)
  BY EnterFileWell DEF entered
<1>3. ScanWell(s, context, cap)
  <2>1. DOMAIN s = ScanFields /\ s.after = entered.after /\ s.pending = entered.pending
        /\ s.matches = entered.matches /\ s.matched = entered.matched
    BY <1>2 DEF ScanWell, ScanFields
  <2> HIDE DEF s
  <2> QED
    BY <1>2, <2>1, WellSame
<1> HIDE DEF s
<1>4. ScanWell(kept, context, cap) /\ kept.after = s.after
  <2> DEFINE t == [s EXCEPT !.excluded = @ + 1]
  <2>1. DOMAIN t = ScanFields /\ t.after = s.after /\ t.pending = s.pending
        /\ t.matches = s.matches /\ t.matched = s.matched
    BY <1>3 DEF ScanWell, ScanFields
  <2>2. kept = IF drop THEN t ELSE s
    OBVIOUS
  <2> HIDE DEF t, kept
  <2>3. ScanWell(t, context, cap)
    BY <1>3, <2>1, WellSame
  <2> QED
    BY <1>3, <2>1, <2>2, <2>3
<1> HIDE DEF kept
<1>5. CASE hits # {} /\ ~drop
  BY <1>1, <1>3, <1>5, TakeHitWell
<1>6. CASE ~(hits # {} /\ ~drop) /\ s.after > 0
  <2>1. ScanWell(shown, context, cap)
    BY <1>4, EmitAllWell
  <2>2. SameBut(shown, kept, {"last", "last_path", "emitted", "entries"})
    BY EmitAllIs
  <2> HIDE DEF shown
  <2>3. shown.after = s.after
    BY <1>4, <2>2 DEF SameBut, ScanWell, ScanFields
  <2> DEFINE t == [shown EXCEPT !.after = @ - 1]
  <2>4. DOMAIN t = ScanFields /\ t.after = shown.after - 1 /\ t.pending = shown.pending
        /\ t.matches = shown.matches /\ t.matched = shown.matched
    BY <2>1 DEF ScanWell, ScanFields
  <2> HIDE DEF t
  <2>5. shown.after - 1 \in 0..context
    <3>1. shown.after \in 0..context /\ shown.after > 0
      BY <1>6, <2>1, <2>3 DEF ScanWell
    <3> QED
      BY <3>1
  <2>6. ScanWell(t, context, cap)
    BY <2>1, <2>4, <2>5 DEF ScanWell
  <2> QED
    BY <1>1, <1>6, <2>6 DEF t
<1>7. CASE ~(hits # {} /\ ~drop) /\ ~(s.after > 0)
  <2> DEFINE t == [kept EXCEPT !.pending = waits]
  <2>1. IsSequence(Append(kept.pending, group))
    BY <1>4, AppendIs DEF ScanWell
  <2>2. IsSequence(waits) /\ Len(waits) <= context
    BY <2>1, LastOfSequence
  <2> HIDE DEF waits
  <2>3. DOMAIN t = ScanFields /\ t.after = kept.after /\ t.pending = waits
        /\ t.matches = kept.matches /\ t.matched = kept.matched
    BY <1>4 DEF ScanWell, ScanFields
  <2> HIDE DEF t
  <2>4. ScanWell(t, context, cap)
    BY <1>4, <2>2, <2>3 DEF ScanWell
  <2> QED
    BY <1>1, <1>7, <2>4 DEF t
<1> QED
  BY <1>5, <1>6, <1>7

LEMMA EndGroupWell ==
  ASSUME NEW context \in Nat, NEW cap \in Nat, NEW s, NEW before, ScanWell(s, context, cap)
  PROVE  ScanWell(EndGroup(s, context, cap, before), context, cap)
<1> DEFINE taken == TakeGroup(s, s.group, context, cap, before)
           t == [taken EXCEPT !.group = <<>>]
<1>1. EndGroup(s, context, cap, before) = IF s.group = <<>> THEN s ELSE t
  BY DEF EndGroup
<1>2. ScanWell(taken, context, cap)
  BY TakeGroupWell
<1> HIDE DEF taken
<1>3. DOMAIN t = ScanFields /\ t.after = taken.after /\ t.pending = taken.pending
      /\ t.matches = taken.matches /\ t.matched = taken.matched
  BY <1>2 DEF ScanWell, ScanFields
<1> HIDE DEF t
<1>4. ScanWell(t, context, cap)
  BY <1>2, <1>3, WellSame
<1> QED
  BY <1>1, <1>4

LEMMA FeedWell ==
  ASSUME NEW context \in Nat, NEW cap \in Nat, NEW s0, NEW line, NEW before,
         ScanWell(s0, context, cap)
  PROVE  ScanWell(Feed(s0, line, context, cap, before), context, cap)
<1> DEFINE s == IF Another(s0, line) THEN EndGroup(s0, context, cap, before) ELSE s0
           t == [s EXCEPT !.group = IF Len(@) < MAX_FRAGMENTS THEN Append(@, line) ELSE @]
<1>1. Feed(s0, line, context, cap, before) = t
  BY DEF Feed
<1>2. ScanWell(s, context, cap)
  BY EndGroupWell
<1> HIDE DEF s
<1>3. DOMAIN t = ScanFields /\ t.after = s.after /\ t.pending = s.pending
      /\ t.matches = s.matches /\ t.matched = s.matched
  BY <1>2 DEF ScanWell, ScanFields
<1> HIDE DEF t
<1>4. ScanWell(t, context, cap)
  BY <1>2, <1>3, WellSame
<1> QED
  BY <1>1, <1>4

ScanOK == ScanWell(scan, setup.context, setup.cap)

LEMMA NewScanWell ==
  ASSUME NEW context \in Nat, NEW cap \in Nat
  PROVE  ScanWell(NewScan, context, cap)
<1>1. /\ DOMAIN NewScan = ScanFields /\ NewScan.after = 0 /\ NewScan.pending = <<>>
      /\ NewScan.matches = <<>> /\ NewScan.matched = 0
  BY DEF NewScan, ScanFields
<1>2. 0 \in 0..context /\ 0 <= context /\ 0 <= cap /\ 0 \in Nat /\ 0 <= 0
  OBVIOUS
<1> QED
  BY <1>1, <1>2, EmptyIs DEF ScanWell

LEMMA ScanInit == Init => ScanOK
<1> SUFFICES ASSUME Init PROVE ScanOK
  OBVIOUS
<1>1. setup.context \in Nat /\ setup.cap \in Nat
  BY WorldInit, SetupIs
<1>2. ScanWell(NewScan, setup.context, setup.cap)
  BY <1>1, NewScanWell
<1> QED
  BY <1>2 DEF Init, ScanOK

LEMMA ScanStep == WorldOK /\ ScanOK /\ [Next]_vars => ScanOK'
<1> SUFFICES ASSUME WorldOK, ScanOK, [Next]_vars PROVE ScanOK'
  OBVIOUS
<1> DEFINE context == setup.context
           cap == setup.cap
           Well(s) == ScanWell(s, context, cap)
<1>1. context \in Nat /\ cap \in Nat /\ Well(scan)
  BY SetupIs DEF ScanOK
<1>2. setup' = setup
  BY DEF Next, vars, world, Append_, Replace, OpenUnchanged, OpenHead, OpenTail, Consume, Dry,
         ReadChunk, Check, LastGroup, Accepted, Refused, HookOpen, HookHead, HookTail, HookReads,
         HookSteps
<1>3. SUFFICES Well(scan')
  BY <1>2 DEF ScanOK, ScanWell, IsSequence
<1> HIDE DEF context, cap
<1>4. Well(NewScan)
  BY <1>1, NewScanWell
<1>5. CASE scan' = scan
  BY <1>1, <1>5
<1>6. CASE OpenUnchanged \/ OpenTail
  BY <1>4, <1>6 DEF OpenUnchanged, OpenTail
<1>7. CASE Consume
  <2> DEFINE next == NextLine(SkipHole(reader))
             fed == Feed(scan, next.yields[1], context, cap, ContextBefore)
  <2>1. scan' = IF next.yields = <<>> THEN scan ELSE fed
    BY <1>7 DEF Consume, context, cap
  <2> HIDE DEF next
  <2>2. Well(fed)
    BY <1>1, FeedWell
  <2> HIDE DEF fed
  <2> QED
    BY <1>1, <2>1, <2>2
<1>8. CASE LastGroup
  <2> DEFINE ended == EndGroup(scan, context, cap, ContextBefore)
  <2>1. scan' = ended
    BY <1>8 DEF LastGroup, context, cap
  <2>2. Well(ended)
    BY <1>1, EndGroupWell
  <2> HIDE DEF ended
  <2> QED
    BY <1>1, <2>1, <2>2
<1>9. CASE Append_ \/ Replace \/ OpenHead \/ Dry \/ ReadChunk \/ Check \/ Accepted \/ Refused
           \/ HookOpen \/ HookHead \/ HookTail \/ HookReads \/ UNCHANGED vars
  BY <1>5, <1>9 DEF Append_, Replace, OpenHead, Dry, ReadChunk, Check, Accepted, Refused, vars,
     HookOpen, HookHead, HookTail, HookReads, HookSteps
<1> QED
  BY <1>6, <1>7, <1>8, <1>9 DEF Next

-----------------------------------------------------------------------------
(* The types *)

LEMMA ReaderTypes ==
  ASSUME NEW r, Resting(r)
  PROVE  /\ r.pos \in 0..Len(r.buf) /\ r.mark \in 0..r.pos
         /\ r.offset + r.hole <= r.at + r.carried
<1>1. /\ r.offset \in Nat /\ r.at \in Nat /\ r.carried \in Nat /\ r.buf \in Seq(Byte)
      /\ r.mark \in 0..Len(r.buf) /\ r.pos = r.mark
      /\ r.hole = (IF r.mark = 0 THEN r.carried ELSE 0)
      /\ r.at = r.offset + r.hole + (Len(r.buf) - r.pos)
  BY DEF Resting
<1> DEFINE size == Len(r.buf)
<1>2. size \in Nat /\ r.pos \in Nat /\ r.pos <= size /\ r.hole \in Nat
      /\ r.at = r.offset + r.hole + (size - r.pos)
  BY <1>1
<1> HIDE DEF size
<1>3. r.offset + r.hole <= r.at + r.carried
  BY <1>1, <1>2, SMTT(30)
<1> QED
  BY <1>1, <1>2, <1>3 DEF size

HookOK == hook.at \in Hooks

LEMMA HookStep == HookOK /\ [Next]_vars => HookOK'
<1> SUFFICES ASSUME hook.at \in Hooks, [Next]_vars PROVE hook'.at \in Hooks
  BY DEF HookOK
<1>1. CASE hook' = hook
  BY <1>1
<1>2. CASE hook' = NoHook
  BY <1>2 DEF NoHook, Hooks
<1>3. CASE HookOpen \/ HookHead \/ HookTail \/ HookReads
  BY <1>3 DEF HookOpen, HookHead, HookTail, HookReads, HookSteps, NoHook, Answer, Hooks
<1>4. CASE Consume \/ LastGroup
  BY <1>2, <1>4 DEF Consume, LastGroup, Answered
<1>5. CASE \/ Append_ \/ Replace \/ OpenUnchanged \/ OpenHead \/ OpenTail \/ Dry \/ ReadChunk
           \/ Check \/ Accepted \/ Refused \/ UNCHANGED vars
  BY <1>1, <1>5 DEF Append_, Replace, OpenUnchanged, OpenHead, OpenTail, Dry, ReadChunk, Check,
     Accepted, Refused, vars, asked
<1> QED
  BY <1>3, <1>4, <1>5 DEF Next

\* The types of the variables: the reader's position and mark lie in its buffer, its offset never
\* runs ahead of what was read, no more lines wait for a match than the context takes and no more
\* matches are stored than max_lines, for every file, chunk, cap and number of runs.
THEOREM Types == Spec => []TypeOK
<1>1. Init => WorldOK /\ RunOK /\ ScanOK
  BY WorldInit, RunInit, ScanInit
<1>2. WorldOK /\ RunOK /\ ScanOK /\ [Next]_vars => (WorldOK /\ RunOK /\ ScanOK)'
  BY WorldStep, RunStep, ScanStep
<1>3. Init => HookOK
  BY DEF Init, HookOK, NoHook, Hooks
<1>4. WorldOK /\ RunOK /\ ScanOK /\ HookOK => TypeOK
  <2> SUFFICES ASSUME WorldOK, RunOK, ScanOK, hook.at \in Hooks PROVE TypeOK
    BY DEF HookOK
  <2>1. setup.how \in {"none", "refill", "rename"} /\ live \in DOMAIN setup.texts /\ pc \in PCs
    BY SetupIs DEF WorldOK
  <2>2. \A v \in DOMAIN setup.texts : len[v] \in 0..Len(setup.texts[v])
    <3> TAKE v \in DOMAIN setup.texts
    <3>1. setup.texts[v] \in Seq(Byte) /\ len[v] \in Nat
      BY TextIs
    <3>2. len[v] <= Len(setup.texts[v]) /\ Len(setup.texts[v]) \in Nat
      BY <3>1 DEF WorldOK
    <3> QED
      BY <3>1, <3>2
  <2>3. /\ reader.pos \in 0..Len(reader.buf) /\ reader.mark \in 0..reader.pos
        /\ reader.offset + reader.hole <= reader.at + reader.carried
    BY ReaderTypes DEF RunOK
  <2>4. /\ scan.after \in 0..setup.context /\ Len(scan.pending) <= setup.context
        /\ Len(scan.matches) <= setup.cap
    BY DEF ScanOK, ScanWell
  <2> QED
    BY <2>1, <2>2, <2>3, <2>4 DEF TypeOK
<1> QED
  BY <1>1, <1>2, <1>3, <1>4, HookStep, PTL DEF Spec

-----------------------------------------------------------------------------
(* Where the saved position, the open and the reader stand in the file *)

LEMMA HoleEnds ==
  ASSUME NEW text \in Seq(Byte)
  PROVE  Hole(text) < Len(text) => text[Hole(text) + 1] # "nul"
<1> DEFINE S == DOMAIN text \ At(text, "nul")
           low == LowOf(S, Len(text) + 1)
<1>1. S \in SUBSET Nat /\ \A i \in S : i \in 1..Len(text) /\ text[i] # "nul"
  BY DEF At
<1>2. Hole(text) = low - 1
  BY DEF Hole
<1>3. /\ S = {} => low = Len(text) + 1
      /\ S # {} => low \in S
  <2> HIDE DEF S
  <2> QED
    BY <1>1, LowOfIs
<1> HIDE DEF S, low
<1>4. CASE S = {}
  BY <1>2, <1>3, <1>4
<1>5. CASE S # {}
  <2>1. low \in 1..Len(text) /\ text[low] # "nul"
    BY <1>1, <1>3, <1>5
  <2>2. Hole(text) + 1 = low
    BY <1>2, <2>1
  <2> QED
    BY <2>1, <2>2
<1> QED
  BY <1>4, <1>5

\* What identifies a file by its first line goes on to as the file grows.
LEMMA HashStays ==
  ASSUME NEW x \in Seq(Byte), NEW y \in Seq(Byte), Len(x) <= Len(y),
         \A i \in 1..Len(x) : x[i] = y[i],
         FirstLine(x).hash # None
  PROVE  FirstLine(y).hash = FirstLine(x).hash
<1> DEFINE b == Hole(x)
           cap == FINGERPRINT_CAP
           Window(t) == Upto(From(t, b), cap)
           wx == Window(x)
           wy == Window(y)
<1>1. b \in 0..Len(x) /\ (\A i \in 1..b : x[i] = "nul") /\ (b < Len(x) => x[b + 1] # "nul")
  BY HoleIs, HoleEnds
<1>2. FirstLine(x).hash = HashOf(wx)
  BY DEF FirstLine, LineHash
<1> HIDE DEF b
<1>3. ASSUME NEW t \in Seq(Byte), b <= Len(t)
      PROVE  /\ Window(t) \in Seq(Byte)
             /\ Len(Window(t)) = IF cap < Len(t) - b THEN cap ELSE Len(t) - b
             /\ \A i \in 1..Len(Window(t)) : Window(t)[i] = t[b + i]
  <2> DEFINE rest == From(t, b)
  <2>1. b \in Nat /\ cap \in Nat
    BY <1>1, Caps
  <2>2. /\ rest \in Seq(Byte)
        /\ Len(rest) = (IF b < Len(t) THEN Len(t) - b ELSE 0)
        /\ \A i \in 1..Len(rest) : rest[i] = t[b + i]
    BY <2>1, FromIs
  <2> HIDE DEF rest
  <2>3. /\ Upto(rest, cap) \in Seq(Byte)
        /\ Len(Upto(rest, cap)) = (IF cap < Len(rest) THEN cap ELSE Len(rest))
        /\ \A i \in 1..Len(Upto(rest, cap)) : Upto(rest, cap)[i] = rest[i]
    BY <2>1, <2>2, UptoIs
  <2>4. Len(rest) = Len(t) - b
    BY <1>3, <2>1, <2>2
  <2>5. \A i \in 1..Len(Upto(rest, cap)) : Upto(rest, cap)[i] = t[b + i]
    BY <2>1, <2>2, <2>3
  <2> QED
    BY <2>3, <2>4, <2>5 DEF rest
<1>4. /\ wx \in Seq(Byte)
      /\ Len(wx) = (IF cap < Len(x) - b THEN cap ELSE Len(x) - b)
      /\ \A i \in 1..Len(wx) : wx[i] = x[b + i]
  BY <1>1, <1>3
<1>5. /\ wy \in Seq(Byte)
      /\ Len(wy) = (IF cap < Len(y) - b THEN cap ELSE Len(y) - b)
      /\ \A i \in 1..Len(wy) : wy[i] = y[b + i]
  <2>1. b <= Len(y)
    BY <1>1
  <2> QED
    BY <1>3, <2>1
<1>6. FirstLine(y).hash = HashOf(Upto(From(y, Hole(y)), cap))
  BY DEF FirstLine, LineHash
<1> HIDE DEF wx, wy, Window
<1>7. b < Len(x)
  <2> SUFFICES ASSUME b = Len(x) PROVE FALSE
    BY <1>1
  <2>1. Len(wx) = 0
    BY <1>4, Caps
  <2>2. At(wx, "lf") = {}
    BY <1>4, <2>1 DEF At
  <2> QED
    BY <1>2, <2>1, <2>2, Caps DEF HashOf
<1>8. Hole(y) = b
  <2> DEFINE h == Hole(y)
  <2>1. h \in 0..Len(y) /\ (\A i \in 1..h : y[i] = "nul") /\ (h < Len(y) => y[h + 1] # "nul")
    BY HoleIs, HoleEnds
  <2> HIDE DEF h
  <2>2. CASE h < b
    <3>1. h + 1 \in 1..b /\ h + 1 \in 1..Len(x) /\ h < Len(y)
      BY <1>1, <2>1, <2>2
    <3> QED
      BY <1>1, <2>1, <3>1
  <2>3. CASE b < h
    <3>1. b + 1 \in 1..h /\ b + 1 \in 1..Len(x)
      BY <1>1, <1>7, <2>1, <2>3
    <3> QED
      BY <1>1, <1>7, <2>1, <3>1
  <2> QED
    BY <1>1, <2>1, <2>2, <2>3 DEF h
<1>9. FirstLine(y).hash = HashOf(wy)
  BY <1>6, <1>8 DEF wy, Window
<1>10. Len(wx) <= Len(wy) /\ \A i \in 1..Len(wx) : wx[i] = wy[i]
  <2>1. Len(wx) <= Len(wy)
    BY <1>1, <1>4, <1>5, Caps
  <2>2. Len(wx) <= Len(x) - b
    BY <1>1, <1>4, Caps
  <2>3. ASSUME NEW i \in 1..Len(wx) PROVE wx[i] = wy[i]
    <3>1. i \in 1..Len(wy) /\ b + i \in 1..Len(x)
      BY <1>1, <1>4, <1>5, <2>1, <2>2
    <3> QED
      BY <1>4, <1>5, <3>1
  <2> QED
    BY <2>1, <2>3
<1>11. CASE At(wx, "lf") # {}
  <2> DEFINE X == At(wx, "lf")
             Y == At(wy, "lf")
             m == Min(X)
             l == Min(Y)
  <2>1. X \in SUBSET Nat /\ Y \in SUBSET Nat
    BY <1>4, <1>5 DEF At
  <2>2. \A i \in X : i \in Y
    BY <1>4, <1>5, <1>10 DEF At
  <2>3. \A i \in Y : i <= Len(wx) => i \in X
    BY <1>4, <1>5, <1>10 DEF At
  <2>4. \A i \in X : i \in 1..Len(wx)
    BY <1>4 DEF At
  <2> HIDE DEF X, Y
  <2>5. m \in X /\ \A i \in X : m <= i
    BY <1>11, <2>1, LowestIsThere DEF X
  <2>6. Y # {}
    BY <2>2, <2>5
  <2>7. l \in Y /\ \A i \in Y : l <= i
    BY <2>1, <2>6, LowestIsThere
  <2> HIDE DEF m, l
  <2>8. m = l
    <3>1. m \in Y /\ m \in 1..Len(wx) /\ l \in Nat /\ Len(wx) \in Nat
      BY <1>4, <2>1, <2>2, <2>4, <2>5, <2>7
    <3>2. l <= m
      BY <2>7, <3>1
    <3>3. l \in X
      BY <2>3, <2>7, <3>1, <3>2
    <3> QED
      BY <2>5, <3>1, <3>2, <3>3
  <2>9. HashOf(wx) = Upto(wx, m - 1) /\ HashOf(wy) = Upto(wy, m - 1)
    BY <1>11, <2>6, <2>8 DEF HashOf, X, Y, m, l
  <2> DEFINE k == m - 1
  <2>10. k \in Nat /\ k <= Len(wx) /\ k <= Len(wy)
    BY <1>4, <1>5, <1>10, <2>4, <2>5
  <2> HIDE DEF k
  <2>11. /\ Upto(wx, k) \in Seq(Byte) /\ Len(Upto(wx, k)) = k
         /\ \A i \in 1..k : Upto(wx, k)[i] = wx[i]
    <3>1. /\ Upto(wx, k) \in Seq(Byte) /\ Len(Upto(wx, k)) = (IF k < Len(wx) THEN k ELSE Len(wx))
          /\ \A i \in 1..Len(Upto(wx, k)) : Upto(wx, k)[i] = wx[i]
      BY <1>4, <2>10, UptoIs
    <3>2. Len(Upto(wx, k)) = k
      BY <1>4, <2>10, <3>1
    <3> QED
      BY <3>1, <3>2
  <2>12. /\ Upto(wy, k) \in Seq(Byte) /\ Len(Upto(wy, k)) = k
         /\ \A i \in 1..k : Upto(wy, k)[i] = wy[i]
    <3>1. /\ Upto(wy, k) \in Seq(Byte) /\ Len(Upto(wy, k)) = (IF k < Len(wy) THEN k ELSE Len(wy))
          /\ \A i \in 1..Len(Upto(wy, k)) : Upto(wy, k)[i] = wy[i]
      BY <1>5, <2>10, UptoIs
    <3>2. Len(Upto(wy, k)) = k
      BY <1>5, <2>10, <3>1
    <3> QED
      BY <3>1, <3>2
  <2>13. \A i \in 1..k : Upto(wx, k)[i] = Upto(wy, k)[i]
    BY <1>4, <1>10, <2>10, <2>11, <2>12, SMTT(30)
  <2>14. Upto(wx, k) = Upto(wy, k)
    BY <2>11, <2>12, <2>13, SeqEqual
  <2> QED
    BY <1>2, <1>9, <2>9, <2>14 DEF k
<1>12. CASE At(wx, "lf") = {}
  <2>1. Len(wx) >= cap
    BY <1>2, <1>12 DEF HashOf
  <2>2. Len(wx) = cap /\ Len(wy) = cap
    BY <1>1, <1>4, <1>5, <1>10, <2>1, Caps
  <2>3. wx = wy
    BY <1>4, <1>5, <1>10, <2>2, SeqEqual
  <2> QED
    BY <1>2, <1>9, <2>3
<1> QED
  BY <1>11, <1>12

\* Of a file that is not refilled: the saved position, what the run opened and where its reader
\* is are in the file they are of.
CursorIn ==
  setup.how # "refill" /\ Saved =>
    /\ cursor.ino \in DOMAIN setup.texts /\ cursor.ino <= live
    /\ cursor.offset <= len[cursor.ino]
    /\ cursor.stamp # None => cursor.stamp[1] = cursor.ino
    /\ cursor.hash # None => cursor.hash = FirstLine(Text(cursor.ino)).hash

FileIn ==
  setup.how # "refill" /\ pc # "idle" =>
    /\ file.version <= live
    /\ Saved => cursor.ino <= file.version
    /\ file.stamp[1] = file.version
    /\ file.hash # None => file.hash = FirstLine(Text(file.version)).hash

ReaderIn ==
  setup.how # "refill" /\ pc \in Reading =>
    /\ file.start <= len[file.version]
    /\ reader.at <= len[IF reader.path = "copy" THEN 1 ELSE file.version]

\* Of one that is, and not found torn: what identify compares the position with is still there
\* when the bytes before it are read.
SizeIn ==
  setup.how = "refill" /\ ~setup.torn /\ pc = "opened" /\ ~(file.size < cursor.offset)
    => cursor.offset <= len[live]

PlacesOK == CursorIn /\ FileIn /\ ReaderIn /\ SizeIn

\* A file that is only appended to or renamed away: what was written of it stays.
LEMMA WorldGrows ==
  ASSUME WorldOK, WorldOK', Append_ \/ Replace, setup.how # "refill"
  PROVE  /\ setup' = setup /\ live \in {1, 2} /\ live <= live' /\ live' \in {1, 2}
         /\ \A v \in DOMAIN setup.texts : v <= live =>
              /\ len[v] <= len'[v]
              /\ FirstLine(Text(v)).hash # None => FirstLine(Text(v))'.hash = FirstLine(Text(v)).hash
<1>1. setup' = setup
  BY DEF Append_, Replace
<1>2. live \in DOMAIN setup.texts /\ live' \in DOMAIN setup.texts /\ DOMAIN setup.texts \subseteq {1, 2}
  BY <1>1, SetupIs DEF WorldOK
<1>3. live <= live' /\ \A v \in DOMAIN setup.texts : v <= live => len[v] <= len'[v]
  <2>1. CASE Append_
    <3>1. PICK n \in Written(live, len[live] + 1) \ 0..len[live] : len' = [len EXCEPT ![live] = n]
      BY <2>1 DEF Append_
    <3>2. live' = live
      BY <2>1 DEF Append_
    <3>3. len \in [DOMAIN setup.texts -> Nat] /\ len' \in [DOMAIN setup.texts -> Nat]
      BY <1>1 DEF WorldOK
    <3>4. len'[live] = n /\ n \in Nat /\ len[live] \in Nat
      BY <1>2, <3>1, <3>3
    <3>5. len[live] <= n
      BY <3>1, <3>4
    <3> QED
      BY <1>2, <3>1, <3>2, <3>3, <3>4, <3>5
  <2>2. CASE Replace
    <3>1. live = 1 /\ live' = 2
      BY <2>2 DEF Replace
    <3>2. PICK n \in Written(2, 0) : len' = [len EXCEPT ![2] = n]
      BY <2>2 DEF Replace
    <3>3. len \in [DOMAIN setup.texts -> Nat]
      BY DEF WorldOK
    <3> QED
      BY <1>2, <3>1, <3>2, <3>3
  <2> QED
    BY <2>1, <2>2
<1>4. ASSUME NEW v \in DOMAIN setup.texts, v <= live, FirstLine(Text(v)).hash # None
      PROVE  FirstLine(Text(v))'.hash = FirstLine(Text(v)).hash
  <2>1. Text(v) \in Seq(Byte) /\ Len(Text(v)) = len[v]
        /\ \A i \in 1..len[v] : Text(v)[i] = setup.texts[v][i]
    BY TextIs
  <2> DEFINE y == Upto(setup.texts[v], len'[v])
  <2>2. setup.texts[v] \in Seq(Byte) /\ len'[v] \in Nat /\ len'[v] <= Len(setup.texts[v]) /\ len[v] \in Nat
    BY <1>1, TextIs DEF WorldOK
  <2>3. /\ y \in Seq(Byte)
        /\ Len(y) = (IF len'[v] < Len(setup.texts[v]) THEN len'[v] ELSE Len(setup.texts[v]))
        /\ \A i \in 1..Len(y) : y[i] = setup.texts[v][i]
    BY <2>2, UptoIs
  <2>4. FirstLine(Text(v))' = FirstLine(y)
    BY <1>1 DEF Text
  <2> HIDE DEF y
  <2>5. Len(y) = len'[v]
    BY <2>2, <2>3
  <2>6. len[v] <= len'[v]
    BY <1>3, <1>4
  <2>7. \A i \in 1..Len(Text(v)) : Text(v)[i] = y[i]
    BY <2>1, <2>2, <2>3, <2>5, <2>6
  <2>8. FirstLine(y).hash = FirstLine(Text(v)).hash
    BY <1>4, <2>1, <2>3, <2>5, <2>6, <2>7, HashStays
  <2> QED
    BY <2>4, <2>8
<1> QED
  BY <1>1, <1>2, <1>3, <1>4

LEMMA PlacesInit == Init => PlacesOK
BY DEF Init, PlacesOK, CursorIn, FileIn, ReaderIn, SizeIn, Saved, Reading

LEMMA PlacesWorld ==
  WorldOK /\ WorldOK' /\ RunOK /\ PlacesOK /\ (Append_ \/ Replace) => PlacesOK'
<1> SUFFICES ASSUME WorldOK, WorldOK', RunOK, PlacesOK, Append_ \/ Replace PROVE PlacesOK'
  OBVIOUS
<1>1. UNCHANGED <<setup, pc, file, reader, cursor>>
  BY DEF Append_, Replace, history
<1>2. Saved' = Saved
  BY <1>1 DEF Saved
<1>3. CASE setup.how # "refill"
  <2>1. /\ live \in {1, 2} /\ live <= live' /\ live' \in {1, 2}
        /\ \A v \in DOMAIN setup.texts : v <= live =>
              /\ len[v] <= len'[v]
              /\ FirstLine(Text(v)).hash # None => FirstLine(Text(v))'.hash = FirstLine(Text(v)).hash
    BY <1>3, WorldGrows
  <2>2. /\ len \in [DOMAIN setup.texts -> Nat] /\ len' \in [DOMAIN setup.texts -> Nat]
        /\ DOMAIN setup.texts \subseteq {1, 2} /\ 1 \in DOMAIN setup.texts
    BY <1>1, SetupIs DEF WorldOK
  <2>3. CursorIn'
    <3> SUFFICES ASSUME Saved PROVE
           /\ cursor.ino \in DOMAIN setup.texts /\ cursor.ino <= live'
           /\ cursor.offset <= len'[cursor.ino]
           /\ cursor.stamp # None => cursor.stamp[1] = cursor.ino
           /\ cursor.hash # None => cursor.hash = FirstLine(Text(cursor.ino))'.hash
      BY <1>1, <1>2 DEF CursorIn, Text
    <3>1. /\ cursor.ino \in DOMAIN setup.texts /\ cursor.ino <= live
          /\ cursor.offset <= len[cursor.ino]
          /\ cursor.stamp # None => cursor.stamp[1] = cursor.ino
          /\ cursor.hash # None => cursor.hash = FirstLine(Text(cursor.ino)).hash
      BY <1>3 DEF PlacesOK, CursorIn
    <3>2. cursor.ino \in {1, 2} /\ cursor.offset \in Nat /\ len[cursor.ino] \in Nat /\ len'[cursor.ino] \in Nat
      BY <2>2, <3>1 DEF RunOK
    <3>3. /\ len[cursor.ino] <= len'[cursor.ino]
          /\ FirstLine(Text(cursor.ino)).hash # None
               => FirstLine(Text(cursor.ino))'.hash = FirstLine(Text(cursor.ino)).hash
      <4> DEFINE v == cursor.ino
      <4>1. v \in DOMAIN setup.texts /\ v <= live /\ v' = v
        BY <1>1, <3>1
      <4> DEFINE text == Text(v)
      <4>2. len[v] <= len'[v] /\ (FirstLine(text).hash # None => FirstLine(text)'.hash = FirstLine(text).hash)
        BY <1>1, <2>1, <4>1 DEF Text
      <4> QED
        BY <4>2
    <3>4. cursor.offset <= len'[cursor.ino] /\ cursor.ino <= live'
      BY <2>1, <3>1, <3>2, <3>3
    <3> QED
      BY <3>1, <3>3, <3>4
  <2>4. FileIn'
    <3> SUFFICES ASSUME pc # "idle" PROVE
           /\ file.version <= live'
           /\ Saved => cursor.ino <= file.version
           /\ file.stamp[1] = file.version
           /\ file.hash # None => file.hash = FirstLine(Text(file.version))'.hash
      BY <1>1, <1>2 DEF FileIn, Text
    <3>1. /\ file.version <= live
          /\ Saved => cursor.ino <= file.version
          /\ file.stamp[1] = file.version
          /\ file.hash # None => file.hash = FirstLine(Text(file.version)).hash
      BY <1>3 DEF PlacesOK, FileIn
    <3>2. file.version \in DOMAIN setup.texts /\ file.version \in {1, 2}
      BY <2>2 DEF RunOK
    <3>3. FirstLine(Text(file.version)).hash # None
             => FirstLine(Text(file.version))'.hash = FirstLine(Text(file.version)).hash
      <4> DEFINE v == file.version
      <4>1. v \in DOMAIN setup.texts /\ v <= live /\ v' = v
        BY <1>1, <3>1, <3>2
      <4> DEFINE text == Text(v)
      <4>2. FirstLine(text).hash # None => FirstLine(text)'.hash = FirstLine(text).hash
        BY <1>1, <2>1, <4>1 DEF Text
      <4> QED
        BY <4>2
    <3> QED
      BY <2>1, <3>1, <3>2, <3>3
  <2>5. ReaderIn'
    <3> SUFFICES ASSUME pc \in Reading PROVE
           /\ file.start <= len'[file.version]
           /\ reader.at <= len'[IF reader.path = "copy" THEN 1 ELSE file.version]
      BY <1>1 DEF ReaderIn
    <3>1. /\ file.start <= len[file.version]
          /\ reader.at <= len[IF reader.path = "copy" THEN 1 ELSE file.version]
      BY <1>3 DEF PlacesOK, ReaderIn
    <3> DEFINE v == file.version
               w == IF reader.path = "copy" THEN 1 ELSE v
    <3>2. pc # "idle"
      BY DEF Reading
    <3>3. v \in DOMAIN setup.texts /\ v <= live
      BY <1>3, <3>2 DEF RunOK, PlacesOK, FileIn
    <3>4. w \in DOMAIN setup.texts /\ w <= live
      BY <2>1, <2>2, <3>3
    <3>5. file.start \in Nat /\ reader.at \in Nat
      BY DEF RunOK, Resting
    <3> HIDE DEF v, w
    <3>6. len[v] <= len'[v] /\ len[w] <= len'[w]
      BY <2>1, <3>3, <3>4
    <3>7. len[v] \in Nat /\ len'[v] \in Nat /\ len[w] \in Nat /\ len'[w] \in Nat
      BY <2>2, <3>3, <3>4
    <3>8. file.start <= len'[v] /\ reader.at <= len'[w]
      BY <3>1, <3>5, <3>6, <3>7 DEF v, w
    <3> QED
      BY <3>8 DEF v, w
  <2>6. SizeIn'
    BY <1>1, <1>3 DEF SizeIn
  <2> QED
    BY <2>3, <2>4, <2>5, <2>6 DEF PlacesOK
<1>4. CASE setup.how = "refill"
  <2>1. CursorIn' /\ FileIn' /\ ReaderIn'
    BY <1>1, <1>4 DEF CursorIn, FileIn, ReaderIn
  <2>2. SizeIn'
    <3> SUFFICES ASSUME ~setup.torn, pc = "opened", ~(file.size < cursor.offset)
                 PROVE  cursor.offset <= len'[live']
      BY <1>1 DEF SizeIn
    <3>1. cursor.offset <= len[live] /\ cursor.offset \in Nat
      BY <1>4 DEF PlacesOK, SizeIn, RunOK
    <3>2. /\ live \in DOMAIN setup.texts
          /\ len \in [DOMAIN setup.texts -> Nat] /\ len' \in [DOMAIN setup.texts -> Nat]
      BY <1>1 DEF WorldOK
    <3>3. CASE Append_
      <4>1. PICK n \in Written(live, len[live] + 1) \ 0..len[live] : len' = [len EXCEPT ![live] = n]
        BY <3>3 DEF Append_
      <4>2. live' = live
        BY <3>3 DEF Append_
      <4>3. len'[live] = n /\ n \in Nat /\ len[live] \in Nat
        BY <3>2, <4>1
      <4>4. len[live] <= n
        BY <4>1, <4>3
      <4> QED
        BY <3>1, <4>2, <4>3, <4>4
    <3>4. CASE Replace
      <4>1. PICK n \in Written(2, 0) :
              n >= cursor.offset /\ len' = [len EXCEPT ![2] = n]
        BY <1>4, <3>4 DEF Replace
      <4>2. live' = 2 /\ 2 \in DOMAIN setup.texts
        BY <1>4, <3>4, SetupIs DEF Replace
      <4>3. len'[2] = n /\ n \in Nat
        BY <3>2, <4>1, <4>2
      <4> QED
        BY <3>1, <4>1, <4>2, <4>3
    <3> QED
      BY <3>3, <3>4
  <2> QED
    BY <2>1, <2>2 DEF PlacesOK
<1> QED
  BY <1>3, <1>4

LEMMA CursorStays == CursorIn /\ UNCHANGED <<setup, live, len, cursor>> => CursorIn'
<1> SUFFICES ASSUME CursorIn, UNCHANGED <<setup, live, len, cursor>> PROVE CursorIn'
  OBVIOUS
<1>1. \A v \in DOMAIN setup.texts : FirstLine(Text(v))' = FirstLine(Text(v))
  BY DEF Text
<1> QED
  BY <1>1 DEF CursorIn, Saved, Text

LEMMA FileStays ==
  FileIn /\ pc # "idle" /\ UNCHANGED <<setup, live, len, cursor>>
    /\ file'.version = file.version /\ file'.stamp = file.stamp /\ file'.hash = file.hash => FileIn'
BY DEF FileIn, Saved, Text

LEMMA PlacesOpenUnchanged == WorldOK /\ RunOK /\ PlacesOK /\ OpenUnchanged => PlacesOK'
<1> SUFFICES ASSUME WorldOK, RunOK, PlacesOK, OpenUnchanged PROVE PlacesOK'
  OBVIOUS
<1>1. /\ UNCHANGED <<setup, live, len, cursor>> /\ pc' = "ended"
      /\ Saved /\ cursor.stamp = <<live, len[live]>>
  BY DEF OpenUnchanged, world, history, Stamp
<1>2. /\ file'.version = live /\ file'.hash = cursor.hash /\ file'.start = cursor.offset
      /\ file'.stamp = cursor.stamp
  BY DEF OpenUnchanged, NoFile
<1>3. reader'.at = cursor.offset /\ reader'.path = "log"
  BY DEF OpenUnchanged, NewReader
<1>4. CursorIn' /\ SizeIn'
  BY <1>1, CursorStays DEF PlacesOK, SizeIn
<1>5. CASE setup.how # "refill"
  <2>1. cursor.stamp # None /\ cursor.stamp[1] = live
    BY <1>1 DEF None
  <2>2. /\ cursor.ino = live /\ cursor.ino <= live /\ cursor.offset <= len[cursor.ino]
        /\ cursor.hash # None => cursor.hash = FirstLine(Text(cursor.ino)).hash
    BY <1>1, <1>5, <2>1 DEF PlacesOK, CursorIn
  <2>3. FileIn'
    BY <1>1, <1>2, <2>1, <2>2 DEF FileIn, Text
  <2>4. ReaderIn'
    BY <1>1, <1>2, <1>3, <2>2 DEF ReaderIn
  <2> QED
    BY <1>4, <2>3, <2>4 DEF PlacesOK
<1>6. CASE setup.how = "refill"
  BY <1>1, <1>4, <1>6 DEF PlacesOK, FileIn, ReaderIn
<1> QED
  BY <1>5, <1>6

LEMMA PlacesOpenHead == WorldOK /\ RunOK /\ PlacesOK /\ OpenHead => PlacesOK'
<1> SUFFICES ASSUME WorldOK, RunOK, PlacesOK, OpenHead PROVE PlacesOK'
  OBVIOUS
<1>1. UNCHANGED <<setup, live, len, cursor>> /\ pc' = "opened"
  BY DEF OpenHead, world, history
<1>2. /\ file'.version = live /\ file'.hash = FirstLine(Text(live)).hash
      /\ file'.stamp = <<live, len[live]>> /\ file'.size = Size(live)
  BY DEF OpenHead, NoFile, Stamp
<1>3. CursorIn' /\ ReaderIn'
  BY <1>1, CursorStays DEF PlacesOK, ReaderIn, Reading
<1>4. live \in Nat /\ len[live] \in Nat
  BY SetupIs DEF WorldOK
<1>5. FileIn'
  BY <1>1, <1>2, <1>4 DEF PlacesOK, FileIn, CursorIn, Text, Saved
<1>6. SizeIn'
  <2>1. Size(live) <= len[live] /\ Size(live) \in Nat /\ cursor.offset \in Nat
    BY <1>4 DEF Size, RunOK
  <2> QED
    BY <1>1, <1>2, <1>4, <2>1 DEF SizeIn
<1> QED
  BY <1>3, <1>5, <1>6 DEF PlacesOK

\* The open begins to read where there is something to read from: not behind the end of the file
\* as its second look finds it, and the saved position not behind that of the copy it is in.
LEMMA StartsWithin ==
  ASSUME WorldOK, RunOK, PlacesOK, pc = "opened", ~(setup.how = "refill" /\ setup.torn)
  PROVE  /\ Start <= Len(Under(file.version))
         /\ Copied => Saved /\ cursor.offset <= len[1]
<1>1. /\ file.version \in DOMAIN setup.texts /\ cursor.offset \in Nat
      /\ live \in DOMAIN setup.texts
  BY DEF WorldOK, RunOK
<1>2. /\ Verdict # "continue" => Start <= Len(Under(file.version))
      /\ Verdict = "continue" => Start = cursor.offset
  BY StartIs
<1>3. ASSUME Verdict = "continue"
      PROVE  /\ Saved /\ Inode(file.version) = cursor.ino
             /\ ~setup.zip => ~(file.size < cursor.offset)
             /\ setup.zip => ~(Len(Under(file.version)) < cursor.offset)
  BY <1>3 DEF Verdict, Judged, Identify
<1>4. /\ Len(Text(live)) = len[live] /\ Len(Text(file.version)) = len[file.version]
      /\ len[live] \in Nat /\ len[file.version] \in Nat
  BY <1>1, TextIs
<1>5. CASE setup.how # "refill"
  <2>1. Inode(file.version) = file.version /\ Under(file.version) = Text(file.version)
    BY <1>5 DEF Inode, Under
  <2>2. Start <= Len(Under(file.version))
    <3>1. CASE Verdict # "continue"
      BY <1>2, <3>1
    <3>2. CASE Verdict = "continue"
      <4>1. Saved /\ cursor.ino = file.version
        BY <1>3, <2>1, <3>2
      <4>2. cursor.offset <= len[cursor.ino]
        BY <1>5, <4>1 DEF PlacesOK, CursorIn
      <4> QED
        BY <1>2, <1>4, <2>1, <3>2, <4>1, <4>2
    <3> QED
      BY <3>1, <3>2
  <2>3. ASSUME Copied PROVE Saved /\ cursor.offset <= len[1]
    <3>1. Verdict = "rotated" /\ Saved
      BY <2>3, VerdictIs DEF Copied
    <3>2. Judged = "rotated"
      BY <3>1 DEF Verdict
    <3>3. /\ cursor.ino \in DOMAIN setup.texts /\ cursor.offset <= len[cursor.ino]
          /\ cursor.hash # None => cursor.hash = FirstLine(Text(cursor.ino)).hash
      BY <1>5, <3>1 DEF PlacesOK, CursorIn
    <3>4. /\ cursor.ino <= file.version
          /\ file.hash # None => file.hash = FirstLine(Text(file.version)).hash
      BY <1>5, <3>1 DEF PlacesOK, FileIn
    <3>5. \/ file.version # cursor.ino
          \/ cursor.hash # None /\ file.hash # None /\ cursor.hash # file.hash
      BY <2>1, <3>1, <3>2 DEF Judged, Identify
    <3>6. file.version # cursor.ino
      BY <3>3, <3>4, <3>5
    <3>7. cursor.ino \in {1, 2} /\ file.version \in {1, 2}
      BY <1>1, <3>3, SetupIs
    <3>8. cursor.ino = 1
      BY <3>4, <3>6, <3>7
    <3> QED
      BY <3>1, <3>3, <3>8
  <2> QED
    BY <2>2, <2>3
<1>6. CASE setup.how = "refill"
  <2>1. ~Copied
    BY <1>6 DEF Copied
  <2>2. Under(file.version) = Text(live)
    BY <1>6 DEF Under, Inode
  <2>3. Start <= Len(Under(file.version))
    <3>1. CASE Verdict # "continue"
      BY <1>2, <3>1
    <3>2. CASE Verdict = "continue" /\ setup.zip
      BY <1>1, <1>2, <1>3, <1>4, <2>2, <3>2
    <3>3. CASE Verdict = "continue" /\ ~setup.zip
      <4>1. ~(file.size < cursor.offset)
        BY <1>3, <3>3
      <4>2. cursor.offset <= len[live]
        BY <1>6, <4>1 DEF PlacesOK, SizeIn
      <4> QED
        BY <1>2, <1>4, <2>2, <3>3, <4>2
    <3> QED
      BY <3>1, <3>2, <3>3, SetupIs
  <2> QED
    BY <2>1, <2>3
<1> QED
  BY <1>5, <1>6

LEMMA PlacesOpenTail ==
  WorldOK /\ RunOK /\ RunOK' /\ PlacesOK /\ OpenTail => PlacesOK'
<1> SUFFICES ASSUME WorldOK, RunOK, RunOK', PlacesOK, OpenTail PROVE PlacesOK'
  OBVIOUS
<1>1. /\ pc = "opened" /\ pc' = "consume"
      /\ file' = [file EXCEPT !.verdict = Verdict, !.start = Start, !.line = StartsAt,
                              !.seed = Seed, !.copied = Copied]
      /\ reader' = IF Copied THEN Copy ELSE Own
      /\ UNCHANGED <<setup, live, len, cursor>>
  BY OpenTailIs DEF world
<1>2. DOMAIN file = FileFields
  BY DEF RunOK
<1>3. file'.version = file.version /\ file'.stamp = file.stamp /\ file'.hash = file.hash
      /\ file'.start = Start
  BY <1>1, <1>2 DEF FileFields
<1>4. CursorIn' /\ SizeIn' /\ FileIn'
  BY <1>1, <1>3, CursorStays, FileStays DEF PlacesOK, SizeIn
<1>5. CASE setup.how # "refill"
  <2>1. Start <= Len(Under(file.version)) /\ (Copied => cursor.offset <= len[1])
    BY <1>1, <1>5, StartsWithin
  <2>2. Under(file.version) = Text(file.version)
    BY <1>5 DEF Inode, Under
  <2>3. file.version \in DOMAIN setup.texts
    BY DEF RunOK
  <2>4. Start <= len[file.version]
    BY <2>1, <2>2, <2>3, TextIs
  <2>5. Copied => reader'.at = cursor.offset /\ reader'.path = "copy"
    BY <1>1 DEF Copy, NewReader
  <2>6. ~Copied => reader'.at = Start /\ reader'.path = "log"
    BY <1>1 DEF Own, NewReader
  <2>7. ReaderIn'
    BY <1>1, <1>3, <2>1, <2>4, <2>5, <2>6 DEF ReaderIn
  <2> QED
    BY <1>4, <2>7 DEF PlacesOK
<1>6. CASE setup.how = "refill"
  BY <1>1, <1>4, <1>6 DEF PlacesOK, ReaderIn
<1> QED
  BY <1>5, <1>6

\* The reader goes on over what it has read.
LEMMA PlacesSame ==
  PlacesOK /\ pc \in Reading /\ pc' \in Reading
    /\ UNCHANGED <<setup, live, len, cursor, file>>
    /\ reader'.at = reader.at /\ reader'.path = reader.path => PlacesOK'
<1> SUFFICES ASSUME PlacesOK, pc \in Reading, pc' \in Reading,
                    UNCHANGED <<setup, live, len, cursor, file>>,
                    reader'.at = reader.at, reader'.path = reader.path
             PROVE  PlacesOK'
  OBVIOUS
<1>1. pc # "idle" /\ pc' # "opened"
  BY DEF Reading
<1>2. CursorIn' /\ FileIn'
  BY <1>1, CursorStays, FileStays DEF PlacesOK
<1>3. ReaderIn' /\ SizeIn'
  BY <1>1 DEF PlacesOK, ReaderIn, SizeIn
<1> QED
  BY <1>2, <1>3 DEF PlacesOK

LEMMA PlacesConsume == WorldOK /\ RunOK /\ PlacesOK /\ Consume => PlacesOK'
<1> SUFFICES ASSUME RunOK, PlacesOK, Consume PROVE PlacesOK'
  OBVIOUS
<1> DEFINE s == SkipHole(reader)
           n == NextLine(s).reader
<1>1. Resting(reader) /\ HasLine(s) /\ pc = "consume" /\ pc' = pc /\ reader' = n
  BY DEF RunOK, Consume
<1>2. UNCHANGED <<setup, live, len, cursor, file>>
  BY DEF Consume, world
<1>3. SameBut(n, reader, {"pos", "mark", "offset", "nul_bytes", "hole", "line", "line_start"})
  BY <1>1, NextLineIs
<1> HIDE DEF s, n
<1>4. n.at = reader.at /\ n.path = reader.path
  BY <1>1, <1>3 DEF SameBut, Resting, ReaderFields
<1> QED
  BY <1>1, <1>2, <1>4, PlacesSame DEF Reading

LEMMA PlacesDry == WorldOK /\ RunOK /\ PlacesOK /\ Dry => PlacesOK'
<1> SUFFICES ASSUME RunOK, PlacesOK, Dry PROVE PlacesOK'
  OBVIOUS
<1> DEFINE f == FoldTail(SkipHole(reader))
<1>1. Resting(reader) /\ pc = "consume" /\ pc' = "read" /\ reader' = f
  BY DEF RunOK, Dry
<1>2. UNCHANGED <<setup, live, len, cursor, file>>
  BY DEF Dry, world, history
<1>3. SameBut(f, reader, {"tail", "carried", "buf", "pos", "mark", "hole"})
  BY <1>1, FoldTailIs
<1> HIDE DEF f
<1>4. f.at = reader.at /\ f.path = reader.path
  BY <1>1, <1>3 DEF SameBut, Resting, ReaderFields
<1> QED
  BY <1>1, <1>2, <1>4, PlacesSame DEF Reading

LEMMA PlacesReadChunk == WorldOK /\ RunOK /\ PlacesOK /\ ReadChunk => PlacesOK'
<1> SUFFICES ASSUME WorldOK, RunOK, PlacesOK, ReadChunk PROVE PlacesOK'
  OBVIOUS
<1> DEFINE chunk == Upto(From(PartText, reader.at), setup.chunk)
<1>1. /\ chunk \in Seq(Byte)
      /\ Len(chunk) <= Len(PartText) - reader.at \/ chunk = <<>>
      /\ SameBut(reader', reader, {"buf", "at", "at_end"})
      /\ reader'.at = reader.at + Len(chunk)
  BY ReadChunkIs
<1> HIDE DEF chunk
<1>2. pc = "read" /\ pc' = "check" /\ UNCHANGED <<setup, live, len, cursor, file>>
  BY DEF ReadChunk, world, history
<1>3. DOMAIN reader = ReaderFields /\ reader.at \in Nat /\ file.version \in DOMAIN setup.texts
  BY DEF RunOK, Resting
<1>4. reader'.path = reader.path
  BY <1>1, <1>3 DEF SameBut, ReaderFields
<1>5. CursorIn' /\ FileIn' /\ SizeIn'
  BY <1>2, CursorStays, FileStays DEF PlacesOK, SizeIn
<1>6. CASE setup.how # "refill"
  <2> DEFINE v == IF reader.path = "copy" THEN 1 ELSE file.version
  <2>1. file.start <= len[file.version] /\ reader.at <= len[v]
    BY <1>2, <1>6 DEF PlacesOK, ReaderIn, Reading
  <2>2. v \in DOMAIN setup.texts
    BY <1>3, SetupIs
  <2>3. PartText = Text(v)
    BY <1>6 DEF PartText, Under, Inode
  <2> HIDE DEF v
  <2>4. Len(PartText) = len[v] /\ len[v] \in Nat
    BY <2>2, <2>3, TextIs
  <2>5. reader'.at <= len[v]
    <3>1. CASE chunk = <<>>
      BY <1>1, <1>3, <2>1, <3>1
    <3>2. CASE Len(chunk) <= Len(PartText) - reader.at
      <4>1. Len(chunk) \in Nat
        BY <1>1
      <4> QED
        BY <1>1, <1>3, <2>4, <3>2, <4>1
    <3> QED
      BY <1>1, <3>1, <3>2
  <2>6. ReaderIn'
    BY <1>2, <1>4, <2>1, <2>5 DEF ReaderIn, v
  <2> QED
    BY <1>5, <2>6 DEF PlacesOK
<1>7. CASE setup.how = "refill"
  BY <1>2, <1>5, <1>7 DEF PlacesOK, ReaderIn
<1> QED
  BY <1>6, <1>7

LEMMA PlacesCheck == WorldOK /\ RunOK /\ PlacesOK /\ Check => PlacesOK'
<1> SUFFICES ASSUME WorldOK, RunOK, PlacesOK, Check PROVE PlacesOK'
  OBVIOUS
<1>1. pc = "check" /\ UNCHANGED <<setup, live, len, cursor, file>>
  BY DEF Check, world
<1>2. pc' \in {"ended", "consume"}
  BY DEF Check
<1>3. DOMAIN reader = ReaderFields /\ (todo # <<>> => Fresh(todo[1]))
  BY DEF RunOK, Resting
<1>4. \/ reader' = reader
      \/ reader' = [reader EXCEPT !.truncated = TRUE, !.at_end = FALSE]
      \/ todo # <<>> /\ reader' = todo[1]
  BY DEF Check
<1>5. CASE reader'.at = reader.at /\ reader'.path = reader.path
  BY <1>1, <1>2, <1>5, PlacesSame DEF Reading
<1>6. CASE todo # <<>> /\ reader' = todo[1]
  <2>1. CursorIn' /\ FileIn' /\ SizeIn'
    BY <1>1, <1>2, CursorStays, FileStays DEF PlacesOK, SizeIn
  <2>2. reader'.at = 0 /\ reader'.path = "log"
    <3> DEFINE r == todo[1]
    <3>1. /\ r.offset = 0 /\ r.mark = 0 /\ r.carried = 0 /\ r.buf = <<>> /\ r.path = "log"
          /\ r.at = r.offset + r.hole + (Len(r.buf) - r.pos)
          /\ r.pos = r.mark /\ r.hole = IF r.mark = 0 THEN r.carried ELSE 0
      BY <1>3, <1>6 DEF Fresh, Resting
    <3>2. Len(<<>>) = 0
      OBVIOUS
    <3>3. r.at = 0
      BY <3>1, <3>2
    <3> QED
      BY <1>6, <3>1, <3>3
  <2>3. file.version \in DOMAIN setup.texts /\ len[file.version] \in Nat
    BY DEF RunOK, WorldOK
  <2>4. ReaderIn'
    BY <1>1, <1>2, <2>2, <2>3 DEF PlacesOK, ReaderIn, Reading
  <2> QED
    BY <2>1, <2>4 DEF PlacesOK
<1>7. CASE reader' = [reader EXCEPT !.truncated = TRUE, !.at_end = FALSE]
  <2>1. reader'.at = reader.at /\ reader'.path = reader.path
    BY <1>3, <1>7 DEF ReaderFields
  <2> QED
    BY <1>5, <2>1
<1> QED
  BY <1>4, <1>5, <1>6, <1>7

\* The position the next run begins at is one of the file this run opened.
LEMMA PlacesAccepted == WorldOK /\ RunOK /\ PlacesOK /\ Accepted => PlacesOK'
<1> SUFFICES ASSUME WorldOK, RunOK, PlacesOK, Accepted PROVE PlacesOK'
  OBVIOUS
<1>1. /\ pc = "ended" /\ pc' = "idle" /\ cursor' = (IF Stopped THEN cursor ELSE EndCursor)
      /\ UNCHANGED <<setup, live, len, file, reader>>
  BY DEF Accepted, Reported, world
<1>2. FileIn' /\ ReaderIn' /\ SizeIn'
  BY <1>1 DEF FileIn, ReaderIn, SizeIn, Reading
<1>3. CASE cursor' = cursor
  BY <1>1, <1>2, <1>3, CursorStays DEF PlacesOK
<1>4. CASE cursor' = EndCursor
  <2>1. /\ cursor'.offset = reader.offset /\ cursor'.ino = Inode(file.version)
        /\ cursor'.hash = file.hash /\ cursor'.stamp = IF Settled THEN file.stamp ELSE None
    BY <1>4 DEF EndCursor
  <2>2. CASE setup.how # "refill"
    <3>1. cursor'.ino = file.version /\ file.version \in DOMAIN setup.texts
      BY <2>1, <2>2 DEF Inode, RunOK
    <3>2. reader.path = "log"
      BY <1>1 DEF RunOK, Reading
    <3>3. reader.at <= len[file.version] /\ file.version <= live /\ file.stamp[1] = file.version
          /\ (file.hash # None => file.hash = FirstLine(Text(file.version)).hash)
      BY <1>1, <2>2, <3>2 DEF PlacesOK, ReaderIn, FileIn, Reading
    <3>4. reader.offset <= len[file.version]
      <4>1. reader.offset \in Nat /\ reader.hole \in Nat /\ reader.at \in Nat /\ reader.carried \in Nat
        BY DEF RunOK, Resting
      <4>2. /\ reader.at = reader.offset + reader.hole + (Len(reader.buf) - reader.pos)
            /\ reader.pos \in 0..Len(reader.buf) /\ reader.buf \in Seq(Byte)
        BY DEF RunOK, Resting
      <4>3. reader.offset <= reader.at
        BY <4>1, <4>2
      <4>4. len[file.version] \in Nat
        BY <3>1 DEF WorldOK
      <4> QED
        BY <3>3, <4>1, <4>3, <4>4
    <3>5. CursorIn'
      BY <1>1, <2>1, <3>1, <3>3, <3>4 DEF CursorIn, Text
    <3> QED
      BY <1>2, <3>5 DEF PlacesOK
  <2>3. CASE setup.how = "refill"
    BY <1>1, <1>2, <2>3 DEF PlacesOK, CursorIn
  <2> QED
    BY <2>2, <2>3
<1> QED
  BY <1>1, <1>3, <1>4

LEMMA PlacesRefused == WorldOK /\ RunOK /\ PlacesOK /\ Refused => PlacesOK'
<1> SUFFICES ASSUME WorldOK, RunOK, PlacesOK, Refused PROVE PlacesOK'
  OBVIOUS
<1>1. /\ pc = "ended" /\ pc' = "idle" /\ cursor' = (IF Saved THEN cursor ELSE StartCursor)
      /\ UNCHANGED <<setup, live, len, file, reader>>
  BY DEF Refused, Reported, world
<1>2. FileIn' /\ ReaderIn' /\ SizeIn'
  BY <1>1 DEF FileIn, ReaderIn, SizeIn, Reading
<1>3. CASE cursor' = cursor
  BY <1>1, <1>2, <1>3, CursorStays DEF PlacesOK
<1>4. CASE cursor' = StartCursor
  <2>1. /\ cursor'.offset = file.start /\ cursor'.ino = Inode(file.version)
        /\ cursor'.hash = file.hash /\ cursor'.stamp = None
    BY <1>4 DEF StartCursor
  <2>2. CASE setup.how # "refill"
    <3>1. cursor'.ino = file.version /\ file.version \in DOMAIN setup.texts
      BY <2>1, <2>2 DEF Inode, RunOK
    <3>2. file.start <= len[file.version] /\ file.version <= live
          /\ (file.hash # None => file.hash = FirstLine(Text(file.version)).hash)
      BY <1>1, <2>2 DEF PlacesOK, ReaderIn, FileIn, Reading
    <3>3. CursorIn'
      BY <1>1, <2>1, <3>1, <3>2 DEF CursorIn, Text
    <3> QED
      BY <1>2, <3>3 DEF PlacesOK
  <2>3. CASE setup.how = "refill"
    BY <1>1, <1>2, <2>3 DEF PlacesOK, CursorIn
  <2> QED
    BY <2>2, <2>3
<1> QED
  BY <1>1, <1>3, <1>4

BaseOK == WorldOK /\ RunOK /\ PlacesOK

LEMMA BaseInit == Init => BaseOK
BY WorldInit, RunInit, PlacesInit DEF BaseOK

LEMMA BaseStep == BaseOK /\ [Next]_vars => BaseOK'
<1> SUFFICES ASSUME WorldOK, RunOK, PlacesOK, [Next]_vars PROVE BaseOK'
  BY DEF BaseOK
<1>1. WorldOK' /\ RunOK'
  BY WorldStep, RunStep
<1> SUFFICES PlacesOK'
  BY <1>1 DEF BaseOK
<1>2. CASE Asking \/ UNCHANGED vars
  <2>1. UNCHANGED <<setup, live, len, cursor, pc, file, reader>>
    BY <1>2, AskingAside DEF Aside
  <2>2. CursorIn'
    BY <2>1, CursorStays DEF PlacesOK
  <2>3. FileIn'
    BY <2>1 DEF PlacesOK, FileIn, Saved, Text
  <2>4. ReaderIn' /\ SizeIn'
    BY <2>1 DEF PlacesOK, ReaderIn, SizeIn
  <2> QED
    BY <2>2, <2>3, <2>4 DEF PlacesOK
<1>3. CASE Next
  <2>1. CASE Append_ \/ Replace
    BY <1>1, <2>1, PlacesWorld
  <2>2. CASE OpenUnchanged \/ OpenHead
    BY <2>2, PlacesOpenUnchanged, PlacesOpenHead
  <2>3. CASE OpenTail
    BY <1>1, <2>3, PlacesOpenTail
  <2>4. CASE Consume \/ Dry \/ ReadChunk \/ Check
    BY <2>4, PlacesConsume, PlacesDry, PlacesReadChunk, PlacesCheck
  <2>5. CASE Accepted \/ Refused
    BY <2>5, PlacesAccepted, PlacesRefused
  <2> QED
    BY <1>2, <1>3, <2>1, <2>2, <2>3, <2>4, <2>5 DEF Next, Asking
<1> QED
  BY <1>2, <1>3

-----------------------------------------------------------------------------
(* The tail *)

\* The bytes before the position, and behind it in the buffer a hole up to q and a line up to p.
LineAhead(base, sofar, buf, c, h, m, q, p) ==
  /\ base \in Seq(Byte) /\ sofar \in Seq(Byte) /\ buf \in Seq(Byte)
  /\ c \in Nat /\ h \in Nat /\ m \in Nat /\ q \in Nat /\ p \in Nat
  /\ m <= q /\ q <= p /\ p <= Len(buf)
  /\ \A i \in m + 1..q : buf[i] = "nul"
  /\ \/ m = 0 /\ sofar = base /\ h = c + q
     \/ m # 0 /\ sofar = base \o Nuls(c) \o Upto(buf, m) /\ h = q - m

LineTaken(base, sofar, buf, c, h, q, p) ==
  sofar \o Nuls(h) \o SubSeq(buf, q + 1, p) = base \o Nuls(c) \o Upto(buf, p)

\* The hole before a line and the line, behind the bytes that were before the position: the
\* hole is what the NULs in the buffer are, and those whose buffer is gone.
LEMMA BeforeGoesOn ==
  ASSUME NEW base, NEW sofar, NEW buf, NEW c, NEW h, NEW m, NEW q, NEW p,
         LineAhead(base, sofar, buf, c, h, m, q, p)
  PROVE  LineTaken(base, sofar, buf, c, h, q, p)
<1> SUFFICES ASSUME base \in Seq(Byte), sofar \in Seq(Byte), buf \in Seq(Byte),
                    c \in Nat, h \in Nat, m \in Nat, q \in Nat, p \in Nat,
                    m <= q, q <= p, p <= Len(buf),
                    \A i \in m + 1..q : buf[i] = "nul",
                    \/ m = 0 /\ sofar = base /\ h = c + q
                    \/ m # 0 /\ sofar = base \o Nuls(c) \o Upto(buf, m) /\ h = q - m
             PROVE  sofar \o Nuls(h) \o SubSeq(buf, q + 1, p) = base \o Nuls(c) \o Upto(buf, p)
  BY DEF LineAhead, LineTaken
<1> DEFINE run == Nuls(h)
           line == SubSeq(buf, q + 1, p)
           hole == Nuls(c)
           text == Upto(buf, p)
           x == sofar \o run \o line
           y == base \o hole \o text
           nb == Len(base)
           ns == Len(sofar)
<1>1. nb \in Nat /\ ns \in Nat
  OBVIOUS
<1>2. /\ run \in Seq(Byte) /\ Len(run) = h /\ \A i \in 1..h : run[i] = "nul"
      /\ hole \in Seq(Byte) /\ Len(hole) = c /\ \A i \in 1..c : hole[i] = "nul"
  BY NulsAre
<1>3. line \in Seq(Byte) /\ Len(line) = p - q /\ \A i \in 1..p - q : line[i] = buf[q + i]
  <2>1. p - q \in Nat
    OBVIOUS
  <2> QED
    BY <2>1
<1>4. text \in Seq(Byte) /\ Len(text) = p /\ \A i \in 1..p : text[i] = buf[i]
  <2>1. /\ text \in Seq(Byte) /\ Len(text) = (IF p < Len(buf) THEN p ELSE Len(buf))
        /\ \A i \in 1..Len(text) : text[i] = buf[i]
    BY UptoIs
  <2>2. Len(text) = p
    BY <2>1
  <2> QED
    BY <2>1, <2>2
<1>5. m # 0 => /\ ns = nb + c + m
               /\ \A i \in 1..nb + c + m :
                    sofar[i] = IF i <= nb THEN base[i] ELSE IF i <= nb + c THEN "nul"
                               ELSE buf[i - nb - c]
  <2> SUFFICES ASSUME m # 0
               PROVE  /\ ns = nb + c + m
                      /\ \A i \in 1..nb + c + m :
                           sofar[i] = IF i <= nb THEN base[i] ELSE IF i <= nb + c THEN "nul"
                                      ELSE buf[i - nb - c]
    OBVIOUS
  <2> DEFINE head == Upto(buf, m)
  <2>1. /\ head \in Seq(Byte) /\ Len(head) = (IF m < Len(buf) THEN m ELSE Len(buf))
        /\ \A i \in 1..Len(head) : head[i] = buf[i]
    BY UptoIs
  <2>2. Len(head) = m
    BY <2>1
  <2>3. sofar = base \o hole \o head
    OBVIOUS
  <2> HIDE DEF head, hole
  <2>4. /\ Len(base \o hole \o head) = Len(base) + Len(hole) + Len(head)
        /\ \A i \in 1..Len(base) + Len(hole) + Len(head) :
              (base \o hole \o head)[i] = IF i <= Len(base) THEN base[i]
                                 ELSE IF i <= Len(base) + Len(hole) THEN hole[i - Len(base)]
                                 ELSE head[i - Len(base) - Len(hole)]
    <3>1. hole \in Seq(Byte) /\ head \in Seq(Byte)
      BY <1>2, <2>1
    <3> QED
      BY <3>1, ThreeIs
  <2>5. ns = nb + c + m
    BY <1>2, <2>2, <2>3, <2>4
  <2>6. ASSUME NEW i \in 1..nb + c + m
        PROVE  sofar[i] = IF i <= nb THEN base[i] ELSE IF i <= nb + c THEN "nul"
                          ELSE buf[i - nb - c]
    <3>1. sofar[i] = IF i <= nb THEN base[i] ELSE IF i <= nb + c THEN hole[i - nb]
                     ELSE head[i - nb - c]
      BY <1>2, <2>2, <2>3, <2>4
    <3>2. ~(i <= nb) /\ i <= nb + c => i - nb \in 1..c
      BY <1>1
    <3>3. ~(i <= nb) /\ ~(i <= nb + c) => i - nb - c \in 1..m
      BY <1>1
    <3> QED
      BY <1>2, <2>1, <2>2, <3>1, <3>2, <3>3
  <2> QED
    BY <2>5, <2>6
<1> HIDE DEF run, line, hole, text
<1>6. /\ x \in Seq(Byte) /\ Len(x) = ns + h + (p - q)
      /\ \A i \in 1..ns + h + (p - q) :
            x[i] = IF i <= ns THEN sofar[i] ELSE IF i <= ns + h THEN run[i - ns] ELSE line[i - ns - h]
  <2>1. run \in Seq(Byte) /\ line \in Seq(Byte)
    BY <1>2, <1>3
  <2>2. /\ x \in Seq(Byte) /\ Len(x) = Len(sofar) + Len(run) + Len(line)
        /\ \A i \in 1..Len(sofar) + Len(run) + Len(line) :
              x[i] = IF i <= Len(sofar) THEN sofar[i]
                     ELSE IF i <= Len(sofar) + Len(run) THEN run[i - Len(sofar)]
                     ELSE line[i - Len(sofar) - Len(run)]
    BY <2>1, ThreeIs, SMTT(30)
  <2>3. Len(sofar) = ns /\ Len(run) = h /\ Len(line) = p - q
    BY <1>2, <1>3
  <2> HIDE DEF x, ns
  <2> QED
    BY <2>2, <2>3
<1>7. /\ y \in Seq(Byte) /\ Len(y) = nb + c + p
      /\ \A i \in 1..nb + c + p :
            y[i] = IF i <= nb THEN base[i] ELSE IF i <= nb + c THEN hole[i - nb] ELSE text[i - nb - c]
  <2>1. hole \in Seq(Byte) /\ text \in Seq(Byte)
    BY <1>2, <1>4
  <2>2. /\ y \in Seq(Byte) /\ Len(y) = Len(base) + Len(hole) + Len(text)
        /\ \A i \in 1..Len(base) + Len(hole) + Len(text) :
              y[i] = IF i <= Len(base) THEN base[i]
                     ELSE IF i <= Len(base) + Len(hole) THEN hole[i - Len(base)]
                     ELSE text[i - Len(base) - Len(hole)]
    BY <2>1, ThreeIs
  <2>3. Len(base) = nb /\ Len(hole) = c /\ Len(text) = p
    BY <1>2, <1>4
  <2> HIDE DEF y, nb
  <2> QED
    BY <2>2, <2>3
<1> HIDE DEF x, y
<1>8. m = 0 => sofar = base /\ ns = nb /\ h = c + q
  OBVIOUS
<1>9. m # 0 => h = q - m
  OBVIOUS
<1> HIDE DEF nb, ns
<1>10. ns + h = nb + c + q
  BY <1>1, <1>5, <1>8, <1>9
<1>11. ASSUME NEW i \in 1..nb + c + p
       PROVE  y[i] = IF i <= nb THEN base[i] ELSE IF i <= nb + c THEN "nul" ELSE buf[i - nb - c]
  <2>1. ~(i <= nb) /\ i <= nb + c => i - nb \in 1..c
    BY <1>1
  <2>2. ~(i <= nb) /\ ~(i <= nb + c) => i - nb - c \in 1..p
    BY <1>1
  <2> QED
    BY <1>2, <1>4, <1>7, <2>1, <2>2
<1>12. ASSUME NEW i \in 1..nb + c + p
       PROVE  x[i] = IF i <= nb THEN base[i] ELSE IF i <= nb + c THEN "nul" ELSE buf[i - nb - c]
  <2>1. x[i] = IF i <= ns THEN sofar[i] ELSE IF i <= ns + h THEN run[i - ns] ELSE line[i - ns - h]
    <3>1. i \in 1..ns + h + (p - q)
      BY <1>1, <1>10
    <3> QED
      BY <1>6, <3>1
  <2>2. CASE i > ns + h
    <3>1. i - ns - h \in 1..p - q /\ i > nb + c /\ i > nb /\ q + (i - ns - h) = i - nb - c
      BY <1>1, <1>10, <2>2
    <3>2. ~(i <= ns) /\ ~(i <= ns + h)
      BY <1>1, <2>2
    <3>3. x[i] = buf[i - nb - c]
      BY <1>3, <2>1, <3>1, <3>2
    <3> QED
      BY <1>1, <3>1, <3>3
  <2>3. CASE i > ns /\ i <= ns + h
    <3>1. i - ns \in 1..h /\ ~(i <= ns)
      BY <1>1, <2>3
    <3>2. x[i] = "nul"
      BY <1>2, <2>1, <2>3, <3>1
    <3>3. i > nb /\ (i > nb + c => i - nb - c \in m + 1..q)
      <4>1. CASE m = 0
        BY <1>1, <1>8, <1>10, <2>3, <4>1
      <4>2. CASE m # 0
        BY <1>1, <1>5, <1>10, <2>3, <4>2
      <4> QED
        BY <4>1, <4>2
    <3>4. i > nb + c => buf[i - nb - c] = "nul"
      BY <3>3
    <3> QED
      BY <1>1, <3>2, <3>3, <3>4
  <2>4. CASE i <= ns
    <3>1. x[i] = sofar[i]
      BY <2>1, <2>4
    <3>2. CASE m = 0
      BY <1>1, <1>8, <2>4, <3>1, <3>2
    <3>3. CASE m # 0
      BY <1>1, <1>5, <2>4, <3>1, <3>3
    <3> QED
      BY <3>2, <3>3
  <2> QED
    BY <1>1, <2>2, <2>3, <2>4
<1>13. Len(x) = Len(y)
  BY <1>1, <1>6, <1>7, <1>10
<1>14. \A i \in 1..Len(x) : x[i] = y[i]
  BY <1>7, <1>11, <1>12, <1>13
<1>15. x = y
  BY <1>6, <1>7, <1>13, <1>14, SeqEqual
<1> QED
  BY <1>15 DEF x, y, run, line, hole, text

\* A file that is refilled and may be found empty by the second look of an open is what the
\* fourth run of the check is of: a saved position can then lie behind what is there.
Sound == ~(setup.how = "refill" /\ setup.torn)

TailOK ==
  Sound /\ pc \in Reading /\ reader.tail # None =>
    /\ Len(seen) = reader.offset
    /\ \E base : TailIs(reader, base) /\ seen = Before(reader, base)

LEMMA TailInit == Init => TailOK
BY DEF Init, TailOK, Reading

\* At an open the tail is taken from the file.
LEMMA OpensWith ==
  ASSUME NEW text \in Seq(Byte), NEW offset \in Nat, offset <= Len(text), NEW r,
         r.tail = TailOf(text, offset, ANCHOR_CAP), r.mark = 0
  PROVE  /\ Len(Upto(text, offset)) = offset
         /\ TailIs(r, Upto(text, offset)) /\ Upto(text, offset) = Before(r, Upto(text, offset))
<1>1. Upto(text, offset) \in Seq(Byte)
      /\ Len(Upto(text, offset)) = IF offset < Len(text) THEN offset ELSE Len(text)
  BY UptoIs
<1>2. offset \in 0..Len(text)
  OBVIOUS
<1>3. TailOf(text, offset, ANCHOR_CAP) = LastOf(Upto(text, offset), ANCHOR_CAP)
  BY <1>2, Caps, TailOfIs
<1>4. Len(Upto(text, offset)) = offset
  BY <1>1, <1>2
<1> QED
  BY <1>1, <1>3, <1>4 DEF TailIs, Before

LEMMA TailOpenTail == BaseOK /\ TailOK /\ OpenTail => TailOK'
<1> SUFFICES ASSUME WorldOK, RunOK, PlacesOK, OpenTail, Sound, reader'.tail # None
             PROVE  /\ Len(seen') = reader'.offset
                    /\ \E base : TailIs(reader', base) /\ seen' = Before(reader', base)
  <2>1. OpenTail => setup' = setup
    BY DEF OpenTail, world
  <2> QED
    BY <2>1 DEF BaseOK, TailOK, Sound, TailIs, Before
<1>1. /\ pc = "opened"
      /\ reader' = IF Copied THEN Copy ELSE Own
      /\ seen' = IF Copied THEN Upto(Text(1), cursor.offset) ELSE Upto(Under(file.version), Start)
  BY OpenTailIs
<1>2. Start <= Len(Under(file.version)) /\ (Copied => cursor.offset <= len[1])
  BY <1>1, StartsWithin DEF Sound
<1>3. Under(file.version) \in Seq(Byte) /\ Start \in Nat
      /\ (setup.zip => Seed = None)
      /\ (~setup.zip => Seed = TailOf(Under(file.version), Start, ANCHOR_CAP))
  BY StartIs
<1>4. CASE Copied
  <2>1. reader'.tail = TailOf(Text(1), cursor.offset, ANCHOR_CAP) /\ reader'.mark = 0
        /\ reader'.offset = cursor.offset
    BY <1>1, <1>4 DEF Copy, NewReader
  <2>2. Text(1) \in Seq(Byte) /\ Len(Text(1)) = len[1] /\ cursor.offset \in Nat
    BY TextIs, SetupIs DEF RunOK
  <2> QED
    BY <1>1, <1>2, <1>4, <2>1, <2>2, OpensWith
<1>5. CASE ~Copied
  <2>1. reader'.tail = Seed /\ reader'.mark = 0 /\ reader'.offset = Start
    BY <1>1, <1>5 DEF Own, NewReader
  <2>2. reader'.tail = TailOf(Under(file.version), Start, ANCHOR_CAP)
    BY <1>3, <2>1
  <2> QED
    BY <1>1, <1>2, <1>3, <1>5, <2>1, <2>2, OpensWith
<1> QED
  BY <1>4, <1>5

LEMMA TailConsume == BaseOK /\ TailOK /\ Consume => TailOK'
<1> SUFFICES ASSUME RunOK, TailOK, Consume, Sound, reader'.tail # None
             PROVE  /\ Len(seen') = reader'.offset
                    /\ \E base : TailIs(reader', base) /\ seen' = Before(reader', base)
  <2>1. Consume => setup' = setup
    BY DEF Consume, world
  <2> QED
    BY <2>1 DEF BaseOK, TailOK, Sound, TailIs, Before
<1> DEFINE s == SkipHole(reader)
           n == NextLine(s).reader
           r == reader
<1>1. Resting(r) /\ HasLine(s) /\ pc = "consume" /\ reader' = n
      /\ seen' = seen \o Nuls(s.hole) \o SubSeq(s.buf, s.pos + 1, n.pos)
  BY DEF RunOK, Consume
<1>2. /\ SameBut(n, r, {"pos", "mark", "offset", "nul_bytes", "hole", "line", "line_start"})
      /\ n.pos \in s.pos + 1..Len(r.buf)
      /\ n.mark = n.pos /\ n.hole = 0
      /\ n.offset = r.offset + s.hole + (n.pos - s.pos)
  BY <1>1, NextLineIs
<1>3. /\ SameBut(s, r, {"pos", "hole"}) /\ s.pos \in r.pos..Len(r.buf)
      /\ s.hole = r.hole + (s.pos - r.pos)
      /\ \A i \in r.pos + 1..s.pos : r.buf[i] = "nul"
  BY <1>1, SkipHoleIs
<1>4. /\ DOMAIN r = ReaderFields /\ r.buf \in Seq(Byte) /\ r.carried \in Nat /\ r.offset \in Nat
      /\ r.mark \in 0..Len(r.buf) /\ r.pos = r.mark /\ r.hole = IF r.mark = 0 THEN r.carried ELSE 0
  BY <1>1 DEF Resting
<1> HIDE DEF s, n
<1>5. n.tail = r.tail /\ n.buf = r.buf /\ n.carried = r.carried /\ s.buf = r.buf
  BY <1>2, <1>3, <1>4 DEF SameBut, ReaderFields
<1>6. r.tail # None
  BY <1>1, <1>5
<1>7. Len(seen) = r.offset /\ \E base : TailIs(r, base) /\ seen = Before(r, base)
  BY <1>1, <1>6 DEF TailOK, Reading
<1>8. PICK base : TailIs(r, base) /\ seen = Before(r, base)
  BY <1>7
<1> HIDE DEF r
<1>9. s.pos \in Nat /\ r.mark \in Nat /\ n.pos \in Nat /\ s.hole \in Nat
      /\ r.mark <= s.pos /\ s.pos <= n.pos /\ n.pos <= Len(r.buf) /\ n.pos # 0
  BY <1>2, <1>3, <1>4, SMTT(30)
<1>10. seen \in Seq(Byte) /\ base \in Seq(Byte)
  BY <1>8 DEF RunOK, TailIs
<1>11. \/ r.mark = 0 /\ seen = base /\ s.hole = r.carried + s.pos
       \/ r.mark # 0 /\ seen = base \o Nuls(r.carried) \o Upto(r.buf, r.mark) /\ s.hole = s.pos - r.mark
  <2>1. CASE r.mark = 0
    BY <1>3, <1>4, <1>8, <1>9, <2>1 DEF Before
  <2>2. CASE r.mark # 0
    BY <1>3, <1>4, <1>8, <1>9, <2>2, SMTT(30) DEF Before
  <2> QED
    BY <2>1, <2>2
<1>12. \A i \in r.mark + 1..s.pos : r.buf[i] = "nul"
  BY <1>3, <1>4
<1> DEFINE buf == r.buf
           c == r.carried
           h == s.hole
           m == r.mark
           q == s.pos
           p == n.pos
<1>13. /\ buf \in Seq(Byte) /\ c \in Nat /\ h \in Nat /\ m \in Nat /\ q \in Nat /\ p \in Nat
       /\ m <= q /\ q <= p /\ p <= Len(buf)
  BY <1>4, <1>9
<1>14. /\ \A i \in m + 1..q : buf[i] = "nul"
       /\ \/ m = 0 /\ seen = base /\ h = c + q
          \/ m # 0 /\ seen = base \o Nuls(c) \o Upto(buf, m) /\ h = q - m
  BY <1>11, <1>12
<1>15. seen' = seen \o Nuls(h) \o SubSeq(buf, q + 1, p)
  BY <1>1, <1>5
<1> HIDE DEF buf, c, h, m, q, p
<1>16. seen \o Nuls(h) \o SubSeq(buf, q + 1, p) = base \o Nuls(c) \o Upto(buf, p)
  <2>1. LineAhead(base, seen, buf, c, h, m, q, p)
    BY <1>10, <1>13, <1>14 DEF LineAhead
  <2>2. LineTaken(base, seen, buf, c, h, q, p)
    BY <2>1, BeforeGoesOn
  <2> QED
    BY <2>2 DEF LineTaken
<1>17. seen' = Before(n, base) /\ TailIs(n, base)
  BY <1>2, <1>5, <1>8, <1>9, <1>15, <1>16 DEF Before, TailIs, buf, c, p
<1>18. Len(seen') = n.offset
  <2>1. Nuls(h) \in Seq(Byte) /\ Len(Nuls(h)) = h
    BY <1>13, NulsAre
  <2>2. SubSeq(buf, q + 1, p) \in Seq(Byte) /\ Len(SubSeq(buf, q + 1, p)) = p - q
    BY <1>13
  <2>3. Len(seen') = Len(seen) + Len(Nuls(h)) + Len(SubSeq(buf, q + 1, p))
    <3> DEFINE x == seen
               y == Nuls(h)
               z == SubSeq(buf, q + 1, p)
    <3>1. x \in Seq(Byte) /\ y \in Seq(Byte) /\ z \in Seq(Byte)
      BY <1>10, <2>1, <2>2
    <3>2. seen' = x \o y \o z
      BY <1>15
    <3> HIDE DEF x, y, z
    <3>3. Len(x \o y \o z) = Len(x) + Len(y) + Len(z)
      BY <3>1
    <3> QED
      BY <3>2, <3>3 DEF x, y, z
  <2>4. Len(seen) = r.offset /\ n.offset = r.offset + h + (p - q)
    BY <1>2, <1>7 DEF h, p, q
  <2> QED
    BY <2>1, <2>2, <2>3, <2>4
<1> QED
  BY <1>1, <1>17, <1>18

LEMMA TailDry == BaseOK /\ TailOK /\ Dry => TailOK'
<1> SUFFICES ASSUME RunOK, TailOK, Dry, Sound, reader'.tail # None
             PROVE  /\ Len(seen') = reader'.offset
                    /\ \E base : TailIs(reader', base) /\ seen' = Before(reader', base)
  <2>1. Dry => setup' = setup
    BY DEF Dry, world
  <2> QED
    BY <2>1 DEF BaseOK, TailOK, Sound, TailIs, Before
<1> DEFINE f == FoldTail(SkipHole(reader))
<1>1. Resting(reader) /\ pc = "consume" /\ reader' = f /\ seen' = seen
  BY DEF RunOK, Dry, history
<1>2. /\ f.mark = 0 /\ f.tail = TailNow(reader)
      /\ SameBut(f, reader, {"tail", "carried", "buf", "pos", "mark", "hole"})
  BY <1>1, FoldTailIs
<1> HIDE DEF f
<1>3. f.offset = reader.offset
  BY <1>1, <1>2 DEF SameBut, ReaderFields, Resting
<1>4. reader.tail # None
  BY <1>1, <1>2, TailNowType
<1>5. Len(seen) = reader.offset /\ \E base : TailIs(reader, base) /\ seen = Before(reader, base)
  BY <1>1, <1>4 DEF TailOK, Reading
<1>6. PICK base : TailIs(reader, base) /\ seen = Before(reader, base)
  BY <1>5
<1>7. reader.buf \in Seq(Byte) /\ reader.mark \in 0..Len(reader.buf) /\ reader.carried \in Nat
  BY <1>1 DEF Resting
<1>8. TailNow(reader) = LastOf(seen, ANCHOR_CAP)
  BY <1>4, <1>6, <1>7, TailNowIs
<1>9. seen \in Seq(Byte)
  BY DEF RunOK
<1>10. TailIs(f, seen) /\ seen = Before(f, seen)
  BY <1>2, <1>8, <1>9 DEF TailIs, Before
<1> QED
  BY <1>1, <1>3, <1>5, <1>10

LEMMA TailReadChunk == BaseOK /\ TailOK /\ ReadChunk => TailOK'
<1> SUFFICES ASSUME WorldOK, RunOK, TailOK, ReadChunk, Sound, reader'.tail # None
             PROVE  /\ Len(seen') = reader'.offset
                    /\ \E base : TailIs(reader', base) /\ seen' = Before(reader', base)
  <2>1. ReadChunk => setup' = setup
    BY DEF ReadChunk, world
  <2> QED
    BY <2>1 DEF BaseOK, TailOK, Sound, TailIs, Before
<1>1. SameBut(reader', reader, {"buf", "at", "at_end"}) /\ reader'.mark = 0 /\ reader.mark = 0
  BY ReadChunkIs
<1>2. pc = "read" /\ seen' = seen
  BY DEF ReadChunk, history
<1>3. reader'.tail = reader.tail /\ reader'.offset = reader.offset
  BY <1>1 DEF SameBut, RunOK, Resting, ReaderFields
<1>4. Len(seen) = reader.offset /\ \E base : TailIs(reader, base) /\ seen = Before(reader, base)
  BY <1>2, <1>3 DEF TailOK, Reading
<1> QED
  BY <1>1, <1>2, <1>3, <1>4 DEF TailIs, Before

LEMMA TailCheck == BaseOK /\ TailOK /\ Check => TailOK'
<1> SUFFICES ASSUME RunOK, TailOK, Check, Sound, reader'.tail # None
             PROVE  /\ Len(seen') = reader'.offset
                    /\ \E base : TailIs(reader', base) /\ seen' = Before(reader', base)
  <2>1. Check => setup' = setup
    BY DEF Check, world
  <2> QED
    BY <2>1 DEF BaseOK, TailOK, Sound, TailIs, Before
<1> DEFINE lost == Asks /\ ~StillTheFile
           ends == lost \/ reader.at_end
<1>1. /\ pc = "check"
      /\ reader' = IF lost THEN [reader EXCEPT !.truncated = TRUE, !.at_end = FALSE]
                   ELSE IF ends /\ todo # <<>> THEN todo[1] ELSE reader
      /\ todo # <<>> => ~lost
      /\ seen' = IF ends /\ todo # <<>> THEN <<>> ELSE seen
  BY CheckIs
<1> HIDE DEF lost, ends
<1>2. DOMAIN reader = ReaderFields
  BY DEF RunOK, Resting
<1>3. CASE ~lost /\ ends /\ todo # <<>>
  <2>1. reader' = todo[1] /\ seen' = <<>>
    BY <1>1, <1>3
  <2>2. Fresh(todo[1])
    BY <1>3 DEF RunOK
  <2>3. reader'.tail = <<>> /\ reader'.offset = 0 /\ reader'.mark = 0
    BY <2>1, <2>2 DEF Fresh
  <2>4. <<>> \in Seq(Byte) /\ Len(<<>>) = 0
    OBVIOUS
  <2>5. LastOf(<<>>, ANCHOR_CAP) \in Seq(Byte) /\ Len(LastOf(<<>>, ANCHOR_CAP)) = 0
    <3>1. <<>> \in Seq(Byte) /\ ANCHOR_CAP \in Nat
      BY Caps
    <3>2. /\ LastOf(<<>>, ANCHOR_CAP) \in Seq(Byte)
          /\ Len(LastOf(<<>>, ANCHOR_CAP)) = IF ANCHOR_CAP < Len(<<>>) THEN ANCHOR_CAP ELSE Len(<<>>)
      BY <3>1, LastOfIs
    <3> QED
      BY <2>4, <3>1, <3>2
  <2>6. LastOf(<<>>, ANCHOR_CAP) = <<>>
    BY <2>5
  <2>7. TailIs(reader', <<>>) /\ seen' = Before(reader', <<>>)
    BY <2>1, <2>3, <2>4, <2>6 DEF TailIs, Before
  <2> QED
    BY <2>1, <2>3, <2>4, <2>7
<1>4. CASE ~(~lost /\ ends /\ todo # <<>>)
  <2>1. seen' = seen /\ (reader' = reader
          \/ reader' = [reader EXCEPT !.truncated = TRUE, !.at_end = FALSE])
    BY <1>1, <1>4
  <2>2. /\ reader'.tail = reader.tail /\ reader'.offset = reader.offset /\ reader'.mark = reader.mark
        /\ reader'.carried = reader.carried /\ reader'.buf = reader.buf
    BY <1>2, <2>1 DEF ReaderFields
  <2>3. Len(seen) = reader.offset /\ \E base : TailIs(reader, base) /\ seen = Before(reader, base)
    BY <1>1, <2>2 DEF TailOK, Reading
  <2> QED
    BY <2>1, <2>2, <2>3 DEF TailIs, Before
<1> QED
  BY <1>3, <1>4

LEMMA TailStep == BaseOK /\ TailOK /\ [Next]_vars => TailOK'
<1> SUFFICES ASSUME BaseOK, TailOK, [Next]_vars PROVE TailOK'
  OBVIOUS
<1>1. CASE UNCHANGED <<setup, pc, reader, seen>>
  BY <1>1 DEF TailOK, Sound, TailIs, Before
<1>2. CASE Append_ \/ Replace \/ Asking \/ UNCHANGED vars
  BY <1>1, <1>2, AskingAside DEF Append_, Replace, Aside, history
<1>3. CASE OpenUnchanged
  <2>1. reader'.tail = None
    BY <1>3 DEF OpenUnchanged, NewReader
  <2> QED
    BY <2>1 DEF TailOK
<1>4. CASE OpenHead \/ Accepted \/ Refused
  <2>1. pc' \notin Reading
    BY <1>4 DEF OpenHead, Accepted, Refused, Reading
  <2> QED
    BY <2>1 DEF TailOK
<1>5. CASE OpenTail \/ Consume \/ Dry \/ ReadChunk \/ Check
  BY <1>5, TailOpenTail, TailConsume, TailDry, TailReadChunk, TailCheck
<1> QED
  BY <1>2, <1>3, <1>4, <1>5 DEF Next, Asking

TailInv == BaseOK /\ TailOK

LEMMA TailAlways == Spec => []TailInv
<1>1. Init => TailInv
  BY BaseInit, TailInit DEF TailInv
<1>2. TailInv /\ [Next]_vars => TailInv'
  BY BaseStep, TailStep DEF TailInv
<1> QED
  BY <1>1, <1>2, PTL DEF Spec

LEMMA AnchorFollows == TailInv => (Sound => AnchorIsTheBytes)
<1> SUFFICES ASSUME TailInv, Sound, pc \in Reading, reader.tail # None
             PROVE  /\ Len(seen) = reader.offset
                    /\ TailNow(reader) = LastOf(seen, ANCHOR_CAP)
  BY DEF AnchorIsTheBytes
<1>1. Len(seen) = reader.offset /\ \E base : TailIs(reader, base) /\ seen = Before(reader, base)
  BY DEF TailInv, TailOK
<1>2. PICK base : TailIs(reader, base) /\ seen = Before(reader, base)
  BY <1>1
<1>3. reader.buf \in Seq(Byte) /\ reader.mark \in 0..Len(reader.buf) /\ reader.carried \in Nat
  BY DEF TailInv, BaseOK, RunOK, Resting
<1>4. TailNow(reader) = LastOf(seen, ANCHOR_CAP)
  BY <1>2, <1>3, TailNowIs
<1> QED
  BY <1>1, <1>4

\* At every moment of a run the tail the next cursor's anchor is taken from is the last bytes
\* before the offset as this run read them: in the middle of a buffer, with a hole open over any
\* number of chunks, after every fold, in a copy and in the live file behind it (LineReader.tail,
\* _fold), for every cap, chunk and text.
THEOREM TheAnchorIsTheBytes == Spec => [](Sound => AnchorIsTheBytes)
<1>1. TailInv => (Sound => AnchorIsTheBytes)
  BY AnchorFollows
<1> QED
  BY <1>1, TailAlways, PTL

-----------------------------------------------------------------------------
(* The saved position, and what stands before it *)

LEMMA UptoAll ==
  ASSUME NEW S, NEW s \in Seq(S)
  PROVE  Upto(s, Len(s)) = s
<1>1. /\ Upto(s, Len(s)) \in Seq(S) /\ Len(Upto(s, Len(s))) = Len(s)
      /\ \A i \in 1..Len(Upto(s, Len(s))) : Upto(s, Len(s))[i] = s[i]
  BY UptoIs
<1> QED
  BY <1>1, SeqEqual

LEMMA UptoOf ==
  ASSUME NEW a \in Seq(Byte), NEW b \in Seq(Byte), NEW n \in Nat, n <= Len(a)
  PROVE  Upto(a \o b, n) = Upto(a, n)
<1> DEFINE c == a \o b
<1>1. c \in Seq(Byte) /\ Len(c) = Len(a) + Len(b) /\ \A i \in 1..Len(a) : c[i] = a[i]
  OBVIOUS
<1> HIDE DEF c
<1>2. /\ Upto(c, n) \in Seq(Byte) /\ Len(Upto(c, n)) = (IF n < Len(c) THEN n ELSE Len(c))
      /\ \A i \in 1..Len(Upto(c, n)) : Upto(c, n)[i] = c[i]
  BY <1>1, UptoIs
<1>3. /\ Upto(a, n) \in Seq(Byte) /\ Len(Upto(a, n)) = (IF n < Len(a) THEN n ELSE Len(a))
      /\ \A i \in 1..Len(Upto(a, n)) : Upto(a, n)[i] = a[i]
  BY UptoIs
<1>4. Len(Upto(c, n)) = n /\ Len(Upto(a, n)) = n
  BY <1>1, <1>2, <1>3
<1>5. \A i \in 1..n : Upto(c, n)[i] = Upto(a, n)[i]
  BY <1>1, <1>2, <1>3, <1>4
<1>6. Upto(c, n) = Upto(a, n)
  BY <1>2, <1>3, <1>4, <1>5, SeqEqual
<1> QED
  BY <1>6 DEF c

\* What a run consumes is appended to what it has seen.
LEMMA SeenGoesOn ==
  RunOK /\ Consume => \E more \in Seq(Byte) : seen' = seen \o more
<1> SUFFICES ASSUME RunOK, Consume PROVE \E more \in Seq(Byte) : seen' = seen \o more
  OBVIOUS
<1> DEFINE s == SkipHole(reader)
           n == NextLine(s).reader
           r == reader
<1>1. Resting(r) /\ HasLine(s)
      /\ seen' = seen \o Nuls(s.hole) \o SubSeq(s.buf, s.pos + 1, n.pos)
  BY DEF RunOK, Consume
<1>2. n.pos \in s.pos + 1..Len(r.buf)
  BY <1>1, NextLineIs
<1>3. /\ SameBut(s, r, {"pos", "hole"}) /\ s.pos \in r.pos..Len(r.buf)
      /\ s.hole = r.hole + (s.pos - r.pos)
  BY <1>1, SkipHoleIs
<1>4. DOMAIN r = ReaderFields /\ r.buf \in Seq(Byte) /\ r.hole \in Nat /\ r.pos \in Nat
  BY <1>1 DEF Resting
<1> HIDE DEF s, n
<1>5. s.buf = r.buf /\ s.hole \in Nat /\ s.pos \in Nat /\ n.pos \in Nat /\ n.pos <= Len(r.buf)
  BY <1>2, <1>3, <1>4 DEF SameBut, ReaderFields
<1> DEFINE run == Nuls(s.hole)
           line == SubSeq(s.buf, s.pos + 1, n.pos)
<1>6. run \in Seq(Byte)
  BY <1>5, NulsAre
<1>7. line \in Seq(Byte)
  BY <1>4, <1>5
<1>8. seen \in Seq(Byte) /\ seen' = seen \o run \o line
  BY <1>1 DEF RunOK
<1> HIDE DEF run, line
<1>9. run \o line \in Seq(Byte) /\ seen \o run \o line = seen \o (run \o line)
  <2>1. run \o line \in Seq(Byte)
    BY <1>6, <1>7
  <2>2. seen \o run \o line = seen \o (run \o line)
    BY <1>6, <1>7, <1>8, ConcatAssociative
  <2> QED
    BY <2>1, <2>2
<1> QED
  BY <1>8, <1>9

Plain == ~setup.zip

\* What the saved anchor, the seed and the check of identify are about.
CursorWas ==
  Saved => /\ Len(was) = cursor.offset
           /\ cursor.anchor = AnchorOf(LastOf(was, ANCHOR_CAP))

SeedIs ==
  pc \in Reading => /\ file.start <= Len(seen)
                    /\ file.seed = LastOf(Upto(seen, file.start), ANCHOR_CAP)

Continues ==
  pc \in Reading /\ file.verdict = "continue" =>
    /\ Len(was) <= Len(seen)
    /\ LastOf(was, ANCHOR_CAP) = TailOf(seen, Len(was), ANCHOR_CAP)

Refilled == setup.how = "refill" /\ Sound /\ Plain

WasOK == Refilled => CursorWas /\ SeedIs /\ Continues

LEMMA WasInit == Init => WasOK
BY DEF Init, WasOK, CursorWas, SeedIs, Continues, Saved, Reading

LEMMA WasOpenTail == TailInv /\ WasOK /\ OpenTail => WasOK'
<1> SUFFICES ASSUME WorldOK, RunOK, PlacesOK, CursorWas, OpenTail, Refilled
             PROVE  (CursorWas /\ SeedIs /\ Continues)'
  <2>1. OpenTail => setup' = setup
    BY DEF OpenTail, world
  <2> QED
    BY <2>1 DEF TailInv, BaseOK, WasOK, Refilled, Sound, Plain
<1> DEFINE text == Under(file.version)
<1>1. /\ pc = "opened" /\ pc' = "consume"
      /\ file' = [file EXCEPT !.verdict = Verdict, !.start = Start, !.line = StartsAt,
                              !.seed = Seed, !.copied = Copied]
      /\ seen' = IF Copied THEN Upto(Text(1), cursor.offset) ELSE Upto(text, Start)
      /\ cursor' = cursor /\ was' = was
  BY OpenTailIs
<1>2. ~Copied /\ setup.how = "refill" /\ ~setup.zip /\ Sound
  BY DEF Copied, Refilled, Plain
<1>3. Start <= Len(text)
  BY <1>1, <1>2, StartsWithin DEF Sound
<1>4. /\ text \in Seq(Byte) /\ Start \in Nat /\ Seed = TailOf(text, Start, ANCHOR_CAP)
      /\ (Verdict = "continue" => Start = cursor.offset)
  BY <1>2, StartIs
<1> HIDE DEF text
<1>5. Seed = LastOf(Upto(text, Start), ANCHOR_CAP)
  <2>1. Start \in 0..Len(text)
    BY <1>3, <1>4
  <2> QED
    BY <1>4, <2>1, Caps, TailOfIs
<1>6. seen' = Upto(text, Start) /\ seen' \in Seq(Byte) /\ Len(seen') = Start
  <2>1. Upto(text, Start) \in Seq(Byte) /\ Len(Upto(text, Start)) = IF Start < Len(text) THEN Start ELSE Len(text)
    BY <1>4, UptoIs
  <2>2. Len(Upto(text, Start)) = Start
    BY <1>3, <1>4, <2>1
  <2> QED
    BY <1>1, <1>2, <2>1, <2>2
<1>7. file'.start = Start /\ file'.seed = Seed /\ file'.verdict = Verdict
  BY <1>1 DEF RunOK, FileFields
<1>8. Upto(seen', Start) = seen'
  BY <1>6, UptoAll
<1>9. SeedIs'
  BY <1>4, <1>5, <1>6, <1>7, <1>8 DEF SeedIs
<1>10. CursorWas'
  BY <1>1 DEF CursorWas, Saved
<1>11. Continues'
  <2> SUFFICES ASSUME Verdict = "continue"
               PROVE  /\ Len(was) <= Len(seen')
                      /\ LastOf(was, ANCHOR_CAP) = TailOf(seen', Len(was), ANCHOR_CAP)
    BY <1>1, <1>7 DEF Continues
  <2>1. Saved
    BY VerdictIs
  <2>2. Len(was) = cursor.offset /\ cursor.anchor = AnchorOf(LastOf(was, ANCHOR_CAP))
    BY <2>1 DEF CursorWas
  <2>3. was \in Seq(Byte) /\ cursor.offset = Start
    BY <1>4 DEF RunOK
  <2>4. Probe = LastOf(seen', ANCHOR_CAP)
    BY <1>2, <1>4, <1>5, <1>6, <2>3 DEF Probe, text
  <2>5. AnchorOf(Probe) = None \/ cursor.anchor = None \/ AnchorOf(Probe) = cursor.anchor
    BY <1>2 DEF Verdict, Judged, Identify
  <2> DEFINE mine == LastOf(was, ANCHOR_CAP)
             here == LastOf(seen', ANCHOR_CAP)
  <2>6. /\ mine \in Seq(Byte) /\ Len(mine) = (IF ANCHOR_CAP < Len(was) THEN ANCHOR_CAP ELSE Len(was))
        /\ here \in Seq(Byte) /\ Len(here) = (IF ANCHOR_CAP < Len(seen') THEN ANCHOR_CAP ELSE Len(seen'))
    BY <1>6, <2>3, Caps, LastOfIs
  <2> HIDE DEF mine, here
  <2>7. mine = here
    <3>1. Len(mine) = Len(here) /\ (Len(mine) = 0 <=> Start = 0)
      BY <1>4, <1>6, <2>2, <2>3, <2>6, Caps
    <3>2. CASE mine = <<>>
      <4>1. Len(<<>>) = 0
        OBVIOUS
      <4>2. Len(here) = 0
        BY <3>1, <3>2, <4>1
      <4>3. here = <<>>
        BY <2>6, <4>2
      <4> QED
        BY <3>2, <4>3
    <3>3. CASE mine # <<>>
      <4>1. here # <<>>
        <5>1. Len(mine) # 0
          BY <2>6, <3>3
        <5>2. Len(<<>>) = 0
          OBVIOUS
        <5> QED
          BY <3>1, <5>1, <5>2
      <4>2. mine # None /\ here # None
        BY <2>6, NoneIsNot
      <4>3. AnchorOf(Probe) = here /\ cursor.anchor = mine
        BY <2>2, <2>4, <3>3, <4>1 DEF AnchorOf, mine, here
      <4> QED
        BY <2>5, <4>2, <4>3
    <3> QED
      BY <3>2, <3>3
  <2>8. TailOf(seen', Start, ANCHOR_CAP) = LastOf(seen', ANCHOR_CAP)
    <3>1. Start \in 0..Len(seen')
      BY <1>4, <1>6
    <3> QED
      BY <1>6, <1>8, <3>1, Caps, TailOfIs
  <2> QED
    BY <1>4, <1>6, <2>2, <2>3, <2>7, <2>8 DEF mine, here
<1> QED
  BY <1>9, <1>10, <1>11

LEMMA WasConsume == TailInv /\ WasOK /\ Consume => WasOK'
<1> SUFFICES ASSUME RunOK, CursorWas, SeedIs, Continues, Consume
             PROVE  (CursorWas /\ SeedIs /\ Continues)'
  <2>1. Consume => setup' = setup
    BY DEF Consume, world
  <2> QED
    BY <2>1 DEF TailInv, BaseOK, WasOK, Refilled, Sound, Plain
<1>1. pc = "consume" /\ UNCHANGED <<pc, file, cursor, was>>
  BY DEF Consume
<1>2. PICK more \in Seq(Byte) : seen' = seen \o more
  BY SeenGoesOn
<1>3. seen \in Seq(Byte) /\ was \in Seq(Byte) /\ file.start \in Nat
  BY DEF RunOK
<1>4. Len(seen') = Len(seen) + Len(more) /\ Len(seen) \in Nat /\ Len(more) \in Nat
  BY <1>2, <1>3
<1>5. SeedIs'
  <2>1. file.start <= Len(seen) /\ file.seed = LastOf(Upto(seen, file.start), ANCHOR_CAP)
    BY <1>1 DEF SeedIs, Reading
  <2>2. Upto(seen', file.start) = Upto(seen, file.start)
    BY <1>2, <1>3, <2>1, UptoOf
  <2>3. file.start <= Len(seen')
    BY <1>3, <1>4, <2>1
  <2> QED
    BY <1>1, <2>1, <2>2, <2>3 DEF SeedIs
<1>6. Continues'
  <2> SUFFICES ASSUME file.verdict = "continue"
               PROVE  /\ Len(was) <= Len(seen')
                      /\ LastOf(was, ANCHOR_CAP) = TailOf(seen', Len(was), ANCHOR_CAP)
    BY <1>1 DEF Continues
  <2>1. /\ Len(was) <= Len(seen)
        /\ LastOf(was, ANCHOR_CAP) = TailOf(seen, Len(was), ANCHOR_CAP)
    BY <1>1 DEF Continues, Reading
  <2> DEFINE k == Len(was)
  <2>2. k \in Nat
    BY <1>3
  <2> HIDE DEF k
  <2>3. Upto(seen', k) = Upto(seen, k)
    BY <1>2, <1>3, <2>1, <2>2, UptoOf DEF k
  <2>4. TailOf(seen', k, ANCHOR_CAP) = TailOf(seen, k, ANCHOR_CAP)
    BY <2>3 DEF TailOf
  <2>5. k <= Len(seen')
    BY <1>4, <2>1, <2>2 DEF k
  <2> QED
    BY <2>1, <2>4, <2>5 DEF k
<1>7. CursorWas'
  BY <1>1 DEF CursorWas, Saved
<1> QED
  BY <1>5, <1>6, <1>7

LEMMA WasCheck == TailInv /\ WasOK /\ Check => WasOK'
<1> SUFFICES ASSUME RunOK, CursorWas, SeedIs, Continues, Check, Refilled
             PROVE  (CursorWas /\ SeedIs /\ Continues)'
  <2>1. Check => setup' = setup
    BY DEF Check, world
  <2> QED
    BY <2>1 DEF TailInv, BaseOK, WasOK, Refilled, Sound, Plain
<1>1. pc = "check" /\ UNCHANGED <<file, cursor, was>>
  BY DEF Check
<1>2. todo = <<>>
  BY <1>1 DEF RunOK, Refilled, Reading
<1>3. seen' = seen
  BY <1>2 DEF Check
<1> QED
  BY <1>1, <1>3 DEF CursorWas, SeedIs, Continues, Saved, Reading

LEMMA WasAccepted == TailInv /\ WasOK /\ Accepted => WasOK'
<1> SUFFICES ASSUME TailInv, CursorWas, Accepted, Refilled
             PROVE  (CursorWas /\ SeedIs /\ Continues)'
  <2>1. Accepted => setup' = setup
    BY DEF Accepted, world
  <2> QED
    BY <2>1 DEF WasOK, Refilled, Sound, Plain
<1>1. /\ pc = "ended" /\ pc' = "idle" /\ cursor' = (IF Stopped THEN cursor ELSE EndCursor)
      /\ was' = (IF Stopped THEN was ELSE seen)
  BY DEF Accepted, Reported
<1>2. CASE Stopped
  BY <1>1, <1>2 DEF CursorWas, SeedIs, Continues, Saved, Reading
<1>3. CASE ~Stopped
  <2>1. pc \in Reading /\ reader.tail # None /\ ~setup.zip /\ Sound
    BY <1>1 DEF TailInv, BaseOK, RunOK, Refilled, Plain, Reading
  <2>2. Len(seen) = reader.offset /\ TailNow(reader) = LastOf(seen, ANCHOR_CAP)
    BY <2>1, AnchorFollows DEF AnchorIsTheBytes
  <2>3. cursor'.offset = reader.offset /\ cursor'.anchor = AnchorOf(TailNow(reader)) /\ was' = seen
    BY <1>1, <1>3, <2>1 DEF EndCursor
  <2> QED
    BY <1>1, <2>2, <2>3 DEF CursorWas, SeedIs, Continues, Reading
<1> QED
  BY <1>2, <1>3

LEMMA WasRefused == TailInv /\ WasOK /\ Refused => WasOK'
<1> SUFFICES ASSUME RunOK, CursorWas, SeedIs, Refused, Refilled
             PROVE  (CursorWas /\ SeedIs /\ Continues)'
  <2>1. Refused => setup' = setup
    BY DEF Refused, world
  <2> QED
    BY <2>1 DEF TailInv, BaseOK, WasOK, Refilled, Sound, Plain
<1>1. /\ pc = "ended" /\ pc' = "idle" /\ cursor' = (IF Saved THEN cursor ELSE StartCursor)
      /\ was' = (IF Saved THEN was ELSE Upto(seen, file.start))
  BY DEF Refused, Reported
<1>2. CASE Saved
  BY <1>1, <1>2 DEF CursorWas, SeedIs, Continues, Saved, Reading
<1>3. CASE ~Saved
  <2>1. /\ file.start <= Len(seen) /\ file.start \in Nat /\ seen \in Seq(Byte)
        /\ file.seed = LastOf(Upto(seen, file.start), ANCHOR_CAP)
    BY <1>1 DEF SeedIs, RunOK, Reading
  <2>2. Len(Upto(seen, file.start)) = IF file.start < Len(seen) THEN file.start ELSE Len(seen)
    BY <2>1, UptoIs
  <2>3. Len(Upto(seen, file.start)) = file.start
    BY <2>1, <2>2
  <2>4. cursor'.offset = file.start /\ cursor'.anchor = AnchorOf(file.seed) /\ was' = Upto(seen, file.start)
    BY <1>1, <1>3 DEF StartCursor, Refilled, Plain
  <2> QED
    BY <1>1, <2>1, <2>3, <2>4 DEF CursorWas, SeedIs, Continues, Reading
<1> QED
  BY <1>2, <1>3

LEMMA WasStep == TailInv /\ WasOK /\ [Next]_vars => WasOK'
<1> SUFFICES ASSUME TailInv, WasOK, [Next]_vars PROVE WasOK'
  OBVIOUS
<1>1. CASE UNCHANGED <<setup, file, cursor, seen, was>> /\ (pc' \in Reading => pc \in Reading)
  BY <1>1 DEF WasOK, Refilled, Sound, Plain, CursorWas, SeedIs, Continues, Saved
<1>2. CASE Append_ \/ Replace \/ Dry \/ ReadChunk \/ Asking \/ UNCHANGED vars
  <2>1. UNCHANGED <<setup, file, cursor, seen, was>> /\ (pc' \in Reading => pc \in Reading)
    BY <1>2, AskingAside DEF Append_, Replace, Dry, ReadChunk, Aside, history, world, Reading
  <2> QED
    BY <1>1, <2>1
<1>3. CASE OpenUnchanged
  <2>1. setup' = setup /\ setup.zip
    BY <1>3 DEF OpenUnchanged, world
  <2> QED
    BY <2>1 DEF WasOK, Refilled, Plain
<1>4. CASE OpenHead
  <2>1. UNCHANGED <<setup, cursor, was>> /\ pc' \notin Reading
    BY <1>4 DEF OpenHead, world, history, Reading
  <2> QED
    BY <2>1 DEF WasOK, Refilled, Sound, Plain, CursorWas, SeedIs, Continues, Saved
<1>5. CASE OpenTail \/ Consume \/ Check \/ Accepted \/ Refused
  BY <1>5, WasOpenTail, WasConsume, WasCheck, WasAccepted, WasRefused
<1> QED
  BY <1>2, <1>3, <1>4, <1>5 DEF Next, Asking

\* A run that continues at the saved offset of a file that may have been truncated and refilled
\* in between, at whatever moment, has before the offset the bytes that were before it when the
\* cursor was taken, as far as the anchor tells: identify's comparison of the probe is enough,
\* for every text, cap and interleaving.
THEOREM TheSameBytesBefore == Spec => [](Sound /\ Plain => SameBytesBefore)
<1>1. Init => TailInv /\ WasOK
  BY BaseInit, TailInit, WasInit DEF TailInv
<1>2. TailInv /\ TailInv' /\ WasOK /\ [Next]_vars => WasOK'
  BY WasStep
<1>3. WasOK => (Sound /\ Plain => SameBytesBefore)
  BY DEF WasOK, Refilled, Continues, SameBytesBefore
<1> QED
  BY <1>1, <1>2, <1>3, TailAlways, PTL DEF Spec

-----------------------------------------------------------------------------
(* A file refilled under the open handle *)

\* What the reader has taken from the file: what it has consumed, the open hole, and what is
\* still in its buffer.
Stream == seen \o Nuls(reader.hole) \o From(reader.buf, reader.pos)

\* Of the live version, and no further than it is written; or of the one before it, which the
\* bytes up to the position are not the beginning of: the next check ends that read.
Newest == reader.at <= len[live] /\ IsPrefix(Stream, setup.texts[live])

Overtaken ==
  /\ live = 2
  /\ ~IsPrefix(seen, setup.texts[2]) /\ IsPrefix(seen, setup.texts[1])
  /\ pc \in {"check", "ended"} \/ IsPrefix(Stream, setup.texts[1])

VersionOK ==
  Refilled =>
    /\ live = 1 => ~blind
    /\ pc \in Reading /\ ~blind => Newest \/ Overtaken

\* "What it cannot see": that the two versions have the same last bytes before the position a
\* check compares, and others before those.
TellsApart ==
  setup.how = "refill" /\ live = 2 /\ pc = "check" =>
    LET p == reader.offset
    IN /\ p <= Len(setup.texts[1]) /\ p <= Len(setup.texts[2])
       /\ TailOf(setup.texts[1], p, ANCHOR_CAP) = TailOf(setup.texts[2], p, ANCHOR_CAP)
       => Upto(setup.texts[1], p) = Upto(setup.texts[2], p)

LEMMA VersionInit == Init => VersionOK
BY DEF Init, VersionOK, Reading

LEMMA PrefixOf ==
  ASSUME NEW a \in Seq(Byte), NEW b \in Seq(Byte), NEW t \in Seq(Byte), IsPrefix(a \o b, t)
  PROVE  IsPrefix(a, t)
<1> DEFINE c == a \o b
<1>1. c \in Seq(Byte) /\ Len(c) = Len(a) + Len(b) /\ \A i \in 1..Len(a) : c[i] = a[i]
  OBVIOUS
<1> HIDE DEF c
<1>2. IsPrefix(c, t)
  BY DEF c
<1>3. Len(c) <= Len(t) /\ \A i \in 1..Len(c) : c[i] = t[i]
  <2>1. c \in Seq(Byte)
    BY <1>1
  <2>2. IsPrefix(c, t) <=> Len(c) <= Len(t) /\ \A i \in 1..Len(c) : c[i] = t[i]
    BY <2>1, PrefixIs, SMTT(60)
  <2> QED
    BY <1>2, <2>2, Zenon
<1>4. Len(a) <= Len(t) /\ Len(a) \in Nat /\ Len(b) \in Nat
  BY <1>1, <1>3
<1>5. \A i \in 1..Len(a) : a[i] = t[i]
  BY <1>1, <1>3, <1>4
<1> QED
  BY <1>4, <1>5, PrefixIs

LEMMA PrefixOfUpto ==
  ASSUME NEW t \in Seq(Byte), NEW n \in Nat
  PROVE  IsPrefix(Upto(t, n), t)
<1>1. /\ Upto(t, n) \in Seq(Byte) /\ Len(Upto(t, n)) = (IF n < Len(t) THEN n ELSE Len(t))
      /\ \A i \in 1..Len(Upto(t, n)) : Upto(t, n)[i] = t[i]
  BY UptoIs
<1>2. Len(Upto(t, n)) <= Len(t)
  BY <1>1
<1> QED
  BY <1>1, <1>2, PrefixIs

LEMMA PrefixThere ==
  ASSUME NEW s \in Seq(Byte), NEW t \in Seq(Byte), IsPrefix(s, t)
  PROVE  Len(s) <= Len(t) /\ Upto(t, Len(s)) = s
<1>1. Len(s) <= Len(t) /\ \A i \in 1..Len(s) : s[i] = t[i]
  BY PrefixIs
<1> DEFINE n == Len(s)
<1>2. /\ Upto(t, n) \in Seq(Byte) /\ Len(Upto(t, n)) = (IF n < Len(t) THEN n ELSE Len(t))
      /\ \A i \in 1..Len(Upto(t, n)) : Upto(t, n)[i] = t[i]
  BY UptoIs
<1>3. Len(Upto(t, n)) = n
  BY <1>1, <1>2
<1>4. Upto(t, n) = s
  BY <1>1, <1>2, <1>3, SeqEqual
<1> QED
  BY <1>1, <1>4

\* The parts of the stream: all of it was read, and nothing twice.
LEMMA StreamIs ==
  ASSUME RunOK
  PROVE  /\ seen \in Seq(Byte) /\ Nuls(reader.hole) \in Seq(Byte)
         /\ From(reader.buf, reader.pos) \in Seq(Byte)
         /\ Stream \in Seq(Byte)
         /\ Len(Stream) = Len(seen) + reader.hole + (Len(reader.buf) - reader.pos)
         /\ Len(seen) = reader.offset => Len(Stream) = reader.at
<1> DEFINE run == Nuls(reader.hole)
           rest == From(reader.buf, reader.pos)
<1>1. /\ reader.buf \in Seq(Byte) /\ reader.hole \in Nat /\ reader.pos \in 0..Len(reader.buf)
      /\ reader.at = reader.offset + reader.hole + (Len(reader.buf) - reader.pos)
      /\ seen \in Seq(Byte)
  BY DEF RunOK, Resting
<1>2. run \in Seq(Byte) /\ Len(run) = reader.hole
  BY <1>1, NulsAre
<1>3. rest \in Seq(Byte) /\ Len(rest) = Len(reader.buf) - reader.pos
  <2>1. reader.pos \in Nat
    BY <1>1
  <2>2. rest \in Seq(Byte)
        /\ Len(rest) = (IF reader.pos < Len(reader.buf) THEN Len(reader.buf) - reader.pos ELSE 0)
    BY <1>1, <2>1, FromIs
  <2> QED
    BY <1>1, <2>2
<1>4. Stream = seen \o run \o rest
  BY DEF Stream
<1> HIDE DEF run, rest
<1>5. Stream \in Seq(Byte) /\ Len(Stream) = Len(seen) + Len(run) + Len(rest)
  <2>1. seen \in Seq(Byte)
    BY <1>1
  <2>2. seen \o run \o rest \in Seq(Byte) /\ Len(seen \o run \o rest) = Len(seen) + Len(run) + Len(rest)
    BY <1>2, <1>3, <2>1, SMTT(30)
  <2> QED
    BY <1>4, <2>2
<1>6. Len(Stream) = Len(seen) + reader.hole + (Len(reader.buf) - reader.pos)
  BY <1>2, <1>3, <1>5
<1>7. Len(seen) = reader.offset => Len(Stream) = reader.at
  BY <1>1, <1>6
<1> QED
  BY <1>1, <1>2, <1>3, <1>5, <1>6, <1>7 DEF run, rest

\* So what was consumed is the beginning of whatever the stream is.
LEMMA SeenOf ==
  ASSUME NEW a \in Seq(Byte), NEW run \in Seq(Byte), NEW rest \in Seq(Byte), NEW t \in Seq(Byte),
         IsPrefix(a \o run \o rest, t)
  PROVE  IsPrefix(a, t)
<1>1. a \o run \in Seq(Byte)
  OBVIOUS
<1>2. IsPrefix((a \o run) \o rest, t)
  OBVIOUS
<1>3. IsPrefix(a \o run, t)
  BY <1>1, <1>2, PrefixOf
<1> QED
  BY <1>3, PrefixOf

LEMMA SeenIn ==
  ASSUME RunOK, NEW t \in Seq(Byte), IsPrefix(Stream, t)
  PROVE  IsPrefix(seen, t)
<1>1. /\ seen \in Seq(Byte) /\ Nuls(reader.hole) \in Seq(Byte)
      /\ From(reader.buf, reader.pos) \in Seq(Byte)
  BY StreamIs
<1>2. IsPrefix(seen \o Nuls(reader.hole) \o From(reader.buf, reader.pos), t)
  BY DEF Stream
<1> QED
  BY <1>1, <1>2, SeenOf

\* A hole in the buffer, behind h NULs whose buffer is gone.
HoleAhead(a, buf, h, m, q) ==
  /\ a \in Seq(Byte) /\ buf \in Seq(Byte) /\ h \in Nat /\ m \in Nat /\ q \in Nat
  /\ m <= q /\ q <= Len(buf)
  /\ \A i \in m + 1..q : buf[i] = "nul"

HoleTaken(a, buf, h, m, q) ==
  a \o Nuls(h + (q - m)) \o From(buf, q) = a \o Nuls(h) \o From(buf, m)

LEMMA HoleStays ==
  ASSUME NEW a, NEW buf, NEW h, NEW m, NEW q, HoleAhead(a, buf, h, m, q)
  PROVE  HoleTaken(a, buf, h, m, q)
<1> DEFINE k == h + (q - m)
           long == Nuls(k)
           beyond == From(buf, q)
           short == Nuls(h)
           soon == From(buf, m)
           x == a \o long \o beyond
           y == a \o short \o soon
           na == Len(a)
           nb == Len(buf)
<1>1. /\ a \in Seq(Byte) /\ buf \in Seq(Byte) /\ h \in Nat /\ m \in Nat /\ q \in Nat
      /\ m <= q /\ q <= nb /\ k \in Nat /\ na \in Nat /\ nb \in Nat
  BY DEF HoleAhead
<1>2. \A i \in m + 1..q : buf[i] = "nul"
  BY DEF HoleAhead
<1>3. /\ long \in Seq(Byte) /\ Len(long) = k /\ \A i \in 1..k : long[i] = "nul"
      /\ short \in Seq(Byte) /\ Len(short) = h /\ \A i \in 1..h : short[i] = "nul"
  <2> HIDE DEF k
  <2> QED
    BY <1>1, NulsAre
<1>4. beyond \in Seq(Byte) /\ Len(beyond) = nb - q /\ \A i \in 1..nb - q : beyond[i] = buf[q + i]
  <2>1. /\ beyond \in Seq(Byte) /\ Len(beyond) = (IF q < nb THEN nb - q ELSE 0)
        /\ \A i \in 1..Len(beyond) : beyond[i] = buf[q + i]
    BY <1>1, FromIs
  <2>2. Len(beyond) = nb - q
    BY <1>1, <2>1
  <2> QED
    BY <2>1, <2>2
<1>5. soon \in Seq(Byte) /\ Len(soon) = nb - m /\ \A i \in 1..nb - m : soon[i] = buf[m + i]
  <2>1. /\ soon \in Seq(Byte) /\ Len(soon) = (IF m < nb THEN nb - m ELSE 0)
        /\ \A i \in 1..Len(soon) : soon[i] = buf[m + i]
    BY <1>1, FromIs
  <2>2. Len(soon) = nb - m
    BY <1>1, <2>1
  <2> QED
    BY <2>1, <2>2
<1> HIDE DEF long, beyond, short, soon
<1>6. /\ x \in Seq(Byte) /\ Len(x) = na + k + (nb - q)
      /\ \A i \in 1..na + k + (nb - q) :
            x[i] = IF i <= na THEN a[i] ELSE IF i <= na + k THEN long[i - na] ELSE beyond[i - na - k]
  <2>1. a \in Seq(Byte) /\ long \in Seq(Byte) /\ beyond \in Seq(Byte)
    BY <1>1, <1>3, <1>4
  <2>2. /\ x \in Seq(Byte) /\ Len(x) = Len(a) + Len(long) + Len(beyond)
        /\ \A i \in 1..Len(a) + Len(long) + Len(beyond) :
              x[i] = IF i <= Len(a) THEN a[i]
                     ELSE IF i <= Len(a) + Len(long) THEN long[i - Len(a)]
                     ELSE beyond[i - Len(a) - Len(long)]
    BY <2>1, ThreeIs
  <2>3. Len(a) = na /\ Len(long) = k /\ Len(beyond) = nb - q
    BY <1>3, <1>4
  <2> HIDE DEF x, na, k, nb
  <2> QED
    BY <2>2, <2>3
<1>7. /\ y \in Seq(Byte) /\ Len(y) = na + h + (nb - m)
      /\ \A i \in 1..na + h + (nb - m) :
            y[i] = IF i <= na THEN a[i] ELSE IF i <= na + h THEN short[i - na] ELSE soon[i - na - h]
  <2>1. a \in Seq(Byte) /\ short \in Seq(Byte) /\ soon \in Seq(Byte)
    BY <1>1, <1>3, <1>5
  <2>2. /\ y \in Seq(Byte) /\ Len(y) = Len(a) + Len(short) + Len(soon)
        /\ \A i \in 1..Len(a) + Len(short) + Len(soon) :
              y[i] = IF i <= Len(a) THEN a[i]
                     ELSE IF i <= Len(a) + Len(short) THEN short[i - Len(a)]
                     ELSE soon[i - Len(a) - Len(short)]
    BY <2>1, ThreeIs
  <2>3. Len(a) = na /\ Len(short) = h /\ Len(soon) = nb - m
    BY <1>3, <1>5
  <2> HIDE DEF y, na, nb
  <2> QED
    BY <2>2, <2>3
<1>8. k = h + (q - m)
  OBVIOUS
<1> HIDE DEF x, y, na, nb, k
<1>9. na + k + (nb - q) = na + h + (nb - m)
  BY <1>1, <1>8
<1>10. ASSUME NEW i \in 1..na + k + (nb - q) PROVE x[i] = y[i]
  <2>1. x[i] = IF i <= na THEN a[i] ELSE IF i <= na + k THEN long[i - na] ELSE beyond[i - na - k]
    BY <1>6
  <2>2. y[i] = IF i <= na THEN a[i] ELSE IF i <= na + h THEN short[i - na] ELSE soon[i - na - h]
    BY <1>7, <1>9
  <2>3. CASE i <= na
    BY <2>1, <2>2, <2>3
  <2>4. CASE na < i /\ i <= na + h
    <3>1. i - na \in 1..h /\ i - na \in 1..k /\ i <= na + k /\ ~(i <= na)
      BY <1>1, <1>8, <2>4
    <3>2. long[i - na] = "nul" /\ short[i - na] = "nul"
      BY <1>3, <3>1
    <3> QED
      BY <2>1, <2>2, <2>4, <3>1, <3>2
  <2>5. CASE na + h < i /\ i <= na + k
    <3>1. i - na \in 1..k /\ ~(i <= na) /\ ~(i <= na + h)
      BY <1>1, <1>8, <2>5
    <3>2. i - na - h \in 1..nb - m /\ m + (i - na - h) \in m + 1..q
      BY <1>1, <1>8, <2>5
    <3>3. soon[i - na - h] = "nul"
      BY <1>2, <1>5, <3>2
    <3>4. long[i - na] = "nul"
      BY <1>3, <3>1
    <3> QED
      BY <2>1, <2>2, <2>5, <3>1, <3>3, <3>4
  <2>6. CASE na + k < i
    <3>1. ~(i <= na) /\ ~(i <= na + h) /\ ~(i <= na + k)
      BY <1>1, <1>8, <2>6
    <3>2. i - na - h \in 1..nb - m /\ i - na - k \in 1..nb - q /\ m + (i - na - h) = q + (i - na - k)
      BY <1>1, <1>8, <2>6
    <3>3. soon[i - na - h] = buf[m + (i - na - h)] /\ beyond[i - na - k] = buf[q + (i - na - k)]
      BY <1>4, <1>5, <3>2
    <3> QED
      BY <2>1, <2>2, <3>1, <3>2, <3>3
  <2> QED
    BY <1>1, <2>3, <2>4, <2>5, <2>6
<1>11. x = y
  BY <1>6, <1>7, <1>9, <1>10, SeqEqual
<1> QED
  BY <1>11 DEF HoleTaken, x, y, long, beyond, short, soon, k

LEMMA LineStays ==
  ASSUME NEW buf \in Seq(Byte), NEW q \in Nat, NEW p \in Nat, q <= p, p <= Len(buf)
  PROVE  SubSeq(buf, q + 1, p) \o From(buf, p) = From(buf, q)
<1> DEFINE line == SubSeq(buf, q + 1, p)
           beyond == From(buf, p)
           soon == From(buf, q)
           x == line \o beyond
           nb == Len(buf)
<1>1. line \in Seq(Byte) /\ Len(line) = p - q /\ \A i \in 1..p - q : line[i] = buf[q + i]
  <2>1. p - q \in Nat
    OBVIOUS
  <2> QED
    BY <2>1
<1>2. beyond \in Seq(Byte) /\ Len(beyond) = nb - p /\ \A i \in 1..nb - p : beyond[i] = buf[p + i]
  <2>1. /\ beyond \in Seq(Byte) /\ Len(beyond) = (IF p < nb THEN nb - p ELSE 0)
        /\ \A i \in 1..Len(beyond) : beyond[i] = buf[p + i]
    BY FromIs
  <2>2. Len(beyond) = nb - p
    BY <2>1
  <2> QED
    BY <2>1, <2>2
<1>3. soon \in Seq(Byte) /\ Len(soon) = nb - q /\ \A i \in 1..nb - q : soon[i] = buf[q + i]
  <2>1. /\ soon \in Seq(Byte) /\ Len(soon) = (IF q < nb THEN nb - q ELSE 0)
        /\ \A i \in 1..Len(soon) : soon[i] = buf[q + i]
    BY FromIs
  <2>2. Len(soon) = nb - q
    BY <2>1
  <2> QED
    BY <2>1, <2>2
<1>4. nb \in Nat
  OBVIOUS
<1> HIDE DEF line, beyond, soon
<1>5. /\ x \in Seq(Byte) /\ Len(x) = Len(line) + Len(beyond)
      /\ \A i \in 1..Len(line) + Len(beyond) :
            x[i] = IF i <= Len(line) THEN line[i] ELSE beyond[i - Len(line)]
  <2>1. line \in Seq(Byte) /\ beyond \in Seq(Byte)
    BY <1>1, <1>2
  <2> QED
    BY <2>1
<1> HIDE DEF x, nb
<1>6. Len(x) = nb - q
  BY <1>1, <1>2, <1>4, <1>5
<1>7. ASSUME NEW i \in 1..nb - q PROVE x[i] = soon[i]
  <2>1. x[i] = IF i <= p - q THEN line[i] ELSE beyond[i - (p - q)]
    BY <1>1, <1>2, <1>5, <1>6
  <2>2. ~(i <= p - q) => i - (p - q) \in 1..nb - p /\ p + (i - (p - q)) = q + i
    BY <1>4
  <2>3. i <= p - q => i \in 1..p - q
    BY <1>4
  <2> QED
    BY <1>1, <1>2, <1>3, <2>1, <2>2, <2>3
<1>8. x = soon
  BY <1>3, <1>5, <1>6, <1>7, SeqEqual
<1> QED
  BY <1>8 DEF x, line, beyond, soon

\* Consuming a line and folding the tail move the position within the stream.
LEMMA StreamStays == RunOK /\ (Consume \/ Dry) => Stream' = Stream
<1> SUFFICES ASSUME RunOK, Consume \/ Dry PROVE Stream' = Stream
  OBVIOUS
<1> DEFINE r == reader
           s == SkipHole(r)
           n == NextLine(s).reader
           f == FoldTail(s)
<1>1. Resting(r) /\ seen \in Seq(Byte)
  BY DEF RunOK
<1>2. /\ SameBut(s, r, {"pos", "hole"}) /\ s.pos \in r.pos..Len(r.buf)
      /\ s.hole = r.hole + (s.pos - r.pos)
      /\ \A i \in r.pos + 1..s.pos : r.buf[i] = "nul"
  BY <1>1, SkipHoleIs
<1>3. DOMAIN r = ReaderFields /\ r.buf \in Seq(Byte) /\ r.hole \in Nat /\ r.pos \in 0..Len(r.buf)
  BY <1>1 DEF Resting
<1>4. s.buf = r.buf
  BY <1>2, <1>3 DEF SameBut, ReaderFields
<1> DEFINE buf == r.buf
           h == r.hole
           m == r.pos
           q == s.pos
<1>5. /\ buf \in Seq(Byte) /\ h \in Nat /\ m \in Nat /\ q \in Nat /\ m <= q /\ q <= Len(buf)
      /\ s.hole = h + (q - m)
  BY <1>2, <1>3
<1>6. HoleAhead(seen, buf, h, m, q)
  BY <1>1, <1>2, <1>5 DEF HoleAhead
<1>7. HoleTaken(seen, buf, h, m, q)
  <2> HIDE DEF buf, h, m, q
  <2> QED
    BY <1>6, HoleStays
<1>8. Stream = seen \o Nuls(h) \o From(buf, m)
  BY DEF Stream
<1> DEFINE run == Nuls(h + (q - m))
<1>9. Stream = seen \o run \o From(buf, q)
  BY <1>7, <1>8 DEF HoleTaken
<1>10. run \in Seq(Byte)
  <2>1. h + (q - m) \in Nat
    BY <1>5
  <2> QED
    BY <2>1, NulsAre
<1>11. CASE Consume
  <2>1. HasLine(s) /\ reader' = n /\ seen' = seen \o Nuls(s.hole) \o SubSeq(s.buf, s.pos + 1, n.pos)
    BY <1>11 DEF Consume
  <2>2. /\ SameBut(n, r, {"pos", "mark", "offset", "nul_bytes", "hole", "line", "line_start"})
        /\ n.pos \in s.pos + 1..Len(r.buf) /\ n.hole = 0
    BY <1>1, <2>1, NextLineIs
  <2> HIDE DEF n
  <2>3. n.buf = buf
    BY <1>3, <2>2 DEF SameBut, ReaderFields
  <2> DEFINE p == n.pos
             line == SubSeq(buf, q + 1, p)
             beyond == From(buf, p)
             front == seen \o run
  <2>4. p \in Nat /\ q <= p /\ p <= Len(buf)
    BY <1>5, <2>2
  <2>5. Stream' = seen' \o Nuls(0) \o beyond
    BY <2>1, <2>2, <2>3 DEF Stream
  <2>6. seen' = front \o line
    BY <1>4, <1>5, <2>1
  <2> HIDE DEF p, s, buf, h, m, q, run
  <2>7. line \o beyond = From(buf, q)
    BY <1>5, <2>4, LineStays
  <2>8. line \in Seq(Byte) /\ front \in Seq(Byte)
    BY <1>1, <1>5, <1>10, <2>4
  <2>9. beyond \in Seq(Byte)
    BY <1>5, <2>4, FromIs
  <2> HIDE DEF line, beyond, front
  <2>10. seen' \in Seq(Byte) /\ seen' \o Nuls(0) = seen'
    <3>1. seen' \in Seq(Byte)
      BY <2>6, <2>8
    <3>2. Nuls(0) \in Seq(Byte) /\ Len(Nuls(0)) = 0
      BY NulsAre
    <3>3. Nuls(0) = <<>>
      BY <3>2
    <3> QED
      BY <3>1, <3>3
  <2>11. front \o line \o beyond = front \o (line \o beyond)
    BY <2>8, <2>9, ConcatAssociative
  <2>12. Stream' = front \o From(buf, q)
    BY <2>5, <2>6, <2>7, <2>10, <2>11
  <2> QED
    BY <1>9, <2>12 DEF front
<1>12. CASE Dry
  <2>1. reader' = f /\ seen' = seen
    BY <1>12 DEF Dry, history
  <2>2. /\ f.mark = 0 /\ f.buf = From(r.buf, s.pos) /\ f.carried = s.hole /\ Resting(f)
    BY <1>1, FoldTailIs
  <2> HIDE DEF f
  <2>3. f.pos = 0 /\ f.hole = s.hole
    BY <2>2 DEF Resting
  <2> DEFINE beyond == From(buf, q)
  <2>4. Stream' = seen \o run \o From(beyond, 0)
    BY <1>5, <2>1, <2>2, <2>3 DEF Stream
  <2> HIDE DEF s, buf, h, m, q, run
  <2>5. beyond \in Seq(Byte)
    BY <1>5, FromIs
  <2> HIDE DEF beyond
  <2>6. From(beyond, 0) = beyond
    <3>1. /\ From(beyond, 0) \in Seq(Byte) /\ Len(From(beyond, 0)) = (IF 0 < Len(beyond) THEN Len(beyond) - 0 ELSE 0)
          /\ \A i \in 1..Len(From(beyond, 0)) : From(beyond, 0)[i] = beyond[0 + i]
      BY <2>5, FromIs
    <3>2. Len(From(beyond, 0)) = Len(beyond)
      BY <2>5, <3>1
    <3>3. \A i \in 1..Len(beyond) : From(beyond, 0)[i] = beyond[i]
      BY <2>5, <3>1, <3>2
    <3> QED
      BY <2>5, <3>1, <3>2, <3>3, SeqEqual
  <2> QED
    BY <1>9, <2>4, <2>6 DEF beyond
<1> QED
  BY <1>11, <1>12

\* A plain file that is refilled: there is no copy, and every look finds the live version.
LEMMA Refilling ==
  ASSUME WorldOK, RunOK, Refilled
  PROVE  /\ setup.texts[1] \in Seq(Byte) /\ setup.texts[2] \in Seq(Byte)
         /\ live \in {1, 2} /\ setup.texts[live] \in Seq(Byte)
         /\ \A v : Under(v) = Text(live)
         /\ pc \in Reading => todo = <<>> /\ reader.path = "log" /\ reader.tail # None
<1>1. DOMAIN setup.texts = {1, 2}
  BY SetupIs DEF Refilled
<1>2. setup.texts[1] \in Seq(Byte) /\ setup.texts[2] \in Seq(Byte)
  BY <1>1, TextIs
<1>3. live \in {1, 2}
  BY <1>1 DEF WorldOK
<1>4. \A v : Under(v) = Text(live)
  BY DEF Under, Inode, Refilled
<1>5. ASSUME pc \in Reading
      PROVE  todo = <<>> /\ reader.path = "log" /\ reader.tail # None
  <2>1. ~file.copied
    BY <1>5 DEF RunOK, Refilled
  <2> QED
    BY <1>5, <2>1 DEF RunOK, Refilled, Plain
<1> QED
  BY <1>2, <1>3, <1>4, <1>5

LEMMA VersionAppend == TailInv /\ VersionOK /\ Append_ => VersionOK'
<1> SUFFICES ASSUME WorldOK, RunOK, VersionOK, Append_ PROVE VersionOK'
  BY DEF TailInv, BaseOK
<1>1. UNCHANGED <<setup, live, pc, reader, seen, blind>>
  BY DEF Append_, history
<1>2. PICK n \in Written(live, len[live] + 1) \ 0..len[live] : len' = [len EXCEPT ![live] = n]
  BY DEF Append_
<1>3. live \in DOMAIN setup.texts /\ len \in [DOMAIN setup.texts -> Nat] /\ reader.at \in Nat
  BY DEF WorldOK, RunOK, Resting
<1>4. n \in Nat
  <2>1. setup.texts[live] \in Seq(Byte) /\ len[live] \in Nat
    BY <1>3, TextIs
  <2> QED
    BY <1>2, <2>1 DEF Written
<1>5. len'[live] = n /\ len[live] \in Nat /\ len[live] <= n
  BY <1>2, <1>3, <1>4
<1>6. reader.at <= len[live] => reader.at <= len'[live]
  BY <1>3, <1>4, <1>5
<1>7. Stream' = Stream
  BY <1>1 DEF Stream
<1> QED
  BY <1>1, <1>6, <1>7 DEF VersionOK, Refilled, Sound, Plain, Newest, Overtaken

\* The refill: what was seen of the version before it is not the beginning of the new one,
\* unless the run is blind to it.
LEMMA VersionReplace == TailInv /\ VersionOK /\ Replace => VersionOK'
<1> SUFFICES ASSUME WorldOK, RunOK, VersionOK, Replace, Refilled
             PROVE  /\ live' = 2
                    /\ pc \in Reading /\ ~blind' => Overtaken'
  <2>1. Replace => setup' = setup /\ pc' = pc
    BY DEF Replace
  <2> QED
    BY <2>1 DEF TailInv, BaseOK, VersionOK, Refilled, Sound, Plain
<1>1. /\ live = 1 /\ live' = 2 /\ UNCHANGED <<setup, pc, reader, seen>>
      /\ blind' = (pc \in Reading /\ IsPrefix(seen, setup.texts[2]))
  BY DEF Replace
<1>2. ASSUME pc \in Reading, ~blind' PROVE Overtaken'
  <2>1. ~IsPrefix(seen, setup.texts[2])
    BY <1>1, <1>2
  <2>2. IsPrefix(Stream, setup.texts[1])
    BY <1>1, <1>2 DEF VersionOK, Newest, Overtaken
  <2>3. IsPrefix(seen, setup.texts[1])
    BY <2>2, SeenIn, Refilling
  <2>4. Stream' = Stream
    BY <1>1 DEF Stream
  <2> QED
    BY <1>1, <2>1, <2>2, <2>3, <2>4 DEF Overtaken
<1> QED
  BY <1>1, <1>2

LEMMA VersionOpenTail == TailInv /\ VersionOK /\ OpenTail => VersionOK'
<1> SUFFICES ASSUME WorldOK, RunOK, PlacesOK, VersionOK, OpenTail, Refilled
             PROVE  (live = 1 => ~blind) /\ Newest'
  <2>1. OpenTail => UNCHANGED <<setup, live, blind>>
    BY DEF OpenTail, world
  <2> QED
    BY <2>1 DEF TailInv, BaseOK, VersionOK, Refilled, Sound, Plain
<1> DEFINE text == Text(live)
           whole == setup.texts[live]
<1>1. pc = "opened" /\ UNCHANGED <<setup, live, len>>
  BY DEF OpenTail, world
<1>2. ~Copied /\ Under(file.version) = text
  BY Refilling DEF Copied, Refilled
<1>3. reader' = Own /\ seen' = Upto(text, Start)
  BY <1>2, OpenTailIs
<1>4. Start \in Nat /\ Start <= Len(text)
  BY <1>1, <1>2, StartIs, StartsWithin DEF Refilled, Sound
<1>5. /\ reader'.at = Start /\ reader'.hole = 0 /\ reader'.pos = 0 /\ reader'.buf = <<>>
  BY <1>3 DEF Own, NewReader
<1>6. /\ whole \in Seq(Byte) /\ text \in Seq(Byte) /\ Len(text) = len[live]
      /\ \A i \in 1..len[live] : text[i] = whole[i]
  BY TextIs DEF WorldOK
<1>7. len[live] <= Len(whole)
  BY DEF WorldOK
<1> HIDE DEF text, whole
<1>8. /\ seen' \in Seq(Byte) /\ Len(seen') = Start
      /\ \A i \in 1..Start : seen'[i] = text[i]
  <2>1. /\ Upto(text, Start) \in Seq(Byte)
        /\ Len(Upto(text, Start)) = (IF Start < Len(text) THEN Start ELSE Len(text))
        /\ \A i \in 1..Len(Upto(text, Start)) : Upto(text, Start)[i] = text[i]
    BY <1>4, <1>6, UptoIs
  <2>2. Len(Upto(text, Start)) = Start
    BY <1>4, <1>6, <2>1
  <2> QED
    BY <1>3, <2>1, <2>2
<1>9. IsPrefix(seen', whole)
  <2>1. Start <= Len(whole) /\ \A i \in 1..Start : seen'[i] = whole[i]
    BY <1>4, <1>6, <1>7, <1>8
  <2> QED
    BY <1>6, <1>8, <2>1, PrefixIs
<1>10. Stream' = seen'
  <2>1. Stream' = seen' \o Nuls(0) \o From(<<>>, 0)
    BY <1>5 DEF Stream
  <2>2. Nuls(0) \in Seq(Byte) /\ Len(Nuls(0)) = 0
    BY NulsAre
  <2>3. From(<<>>, 0) = <<>>
    BY DEF From
  <2>4. Nuls(0) = <<>>
    BY <2>2
  <2> QED
    BY <1>8, <2>1, <2>3, <2>4
<1>11. Newest'
  BY <1>1, <1>4, <1>5, <1>6, <1>9, <1>10 DEF Newest, whole
<1>12. live = 1 => ~blind
  BY DEF VersionOK
<1> QED
  BY <1>11, <1>12

LEMMA VersionBuffer == TailInv /\ VersionOK /\ (Consume \/ Dry) => VersionOK'
<1> SUFFICES ASSUME WorldOK, RunOK, VersionOK, Consume \/ Dry, Refilled, ~blind
             PROVE  Newest' \/ Overtaken'
  <2>1. Consume \/ Dry => UNCHANGED <<setup, live, blind>> /\ pc \in Reading
    BY DEF Consume, Dry, world, history, Reading
  <2> QED
    BY <2>1 DEF TailInv, BaseOK, VersionOK, Refilled, Sound, Plain
<1>1. UNCHANGED <<setup, live, len>> /\ pc = "consume"
  BY DEF Consume, Dry, world
<1>2. reader'.at = reader.at
  <2>1. Resting(reader) /\ DOMAIN reader = ReaderFields
    BY DEF RunOK, Resting
  <2>2. CASE Consume
    <3>1. HasLine(SkipHole(reader)) /\ reader' = NextLine(SkipHole(reader)).reader
      BY <2>2 DEF Consume
    <3>2. SameBut(reader', reader, {"pos", "mark", "offset", "nul_bytes", "hole", "line", "line_start"})
      BY <2>1, <3>1, NextLineIs
    <3> QED
      BY <2>1, <3>2 DEF SameBut, ReaderFields
  <2>3. CASE Dry
    <3>1. reader' = FoldTail(SkipHole(reader))
      BY <2>3 DEF Dry
    <3>2. SameBut(reader', reader, {"tail", "carried", "buf", "pos", "mark", "hole"})
      BY <2>1, <3>1, FoldTailIs
    <3> QED
      BY <2>1, <3>2 DEF SameBut, ReaderFields
  <2> QED
    BY <2>2, <2>3
<1>3. Stream' = Stream
  BY StreamStays
<1>4. CASE Newest
  BY <1>1, <1>2, <1>3, <1>4 DEF Newest
<1>5. CASE Overtaken
  <2>1. /\ live = 2 /\ ~IsPrefix(seen, setup.texts[2])
        /\ IsPrefix(Stream, setup.texts[1])
    BY <1>1, <1>5 DEF Overtaken
  <2>2. setup.texts[1] \in Seq(Byte) /\ setup.texts[2] \in Seq(Byte)
    BY Refilling
  <2>3. RunOK'
    BY RunConsume, RunDry
  <2>4. IsPrefix(Stream, setup.texts[1])'
    BY <1>1, <1>3, <2>1
  <2>5. IsPrefix(seen', setup.texts[1])
    <3> DEFINE run == Nuls(reader'.hole)
               rest == From(reader'.buf, reader'.pos)
    <3>1. /\ seen' \in Seq(Byte) /\ reader'.hole \in Nat /\ reader'.buf \in Seq(Byte)
          /\ reader'.pos \in Nat
      BY <2>3 DEF RunOK, Resting
    <3>2. run \in Seq(Byte) /\ rest \in Seq(Byte)
      BY <3>1, NulsAre, FromIs
    <3>3. IsPrefix(seen' \o run \o rest, setup.texts[1])
      BY <1>1, <2>4 DEF Stream
    <3> HIDE DEF run, rest
    <3> QED
      BY <2>2, <3>1, <3>2, <3>3, SeenOf
  <2>6. ~IsPrefix(seen', setup.texts[2])
    <3>1. PICK more \in Seq(Byte) : seen' = seen \o more
      <4>1. seen \in Seq(Byte) /\ <<>> \in Seq(Byte) /\ seen \o <<>> = seen
        BY DEF RunOK
      <4>2. Dry => seen' = seen
        BY DEF Dry, history
      <4> QED
        BY <4>1, <4>2, SeenGoesOn
    <3>2. IsPrefix(seen \o more, setup.texts[2]) => IsPrefix(seen, setup.texts[2])
      BY <2>2, PrefixOf DEF RunOK
    <3> QED
      BY <2>1, <3>1, <3>2
  <2> QED
    BY <1>1, <2>1, <2>4, <2>5, <2>6 DEF Overtaken
<1>6. Newest \/ Overtaken
  BY <1>1 DEF VersionOK, Reading
<1> QED
  BY <1>4, <1>5, <1>6

LEMMA VersionReadChunk == TailInv /\ VersionOK /\ ReadChunk => VersionOK'
<1> SUFFICES ASSUME WorldOK, RunOK, TailOK, VersionOK, ReadChunk, Refilled, ~blind
             PROVE  Newest' \/ Overtaken'
  <2>1. ReadChunk => UNCHANGED <<setup, live, blind>> /\ pc \in Reading
    BY DEF ReadChunk, world, history, Reading
  <2> QED
    BY <2>1 DEF TailInv, BaseOK, VersionOK, Refilled, Sound, Plain
<1>1. UNCHANGED <<setup, live, len, seen>> /\ pc = "read" /\ pc' = "check"
  BY DEF ReadChunk, world, history
<1>2. CASE Overtaken
  BY <1>1, <1>2 DEF Overtaken
<1>3. CASE Newest
  <2> DEFINE text == Text(live)
             whole == setup.texts[live]
             chunk == Upto(From(PartText, reader.at), setup.chunk)
             old == Stream
  <2>1. reader.path = "log" /\ reader.tail # None /\ PartText = text
    BY <1>1, Refilling DEF PartText, Reading
  <2>2. /\ chunk \in Seq(Byte)
        /\ Len(chunk) <= Len(text) - reader.at \/ chunk = <<>>
        /\ \A i \in 1..Len(chunk) : chunk[i] = text[reader.at + i]
        /\ SameBut(reader', reader, {"buf", "at", "at_end"})
        /\ reader'.buf = reader.buf \o chunk /\ reader'.at = reader.at + Len(chunk)
        /\ reader'.pos = 0 /\ reader.mark = 0
    BY <2>1, ReadChunkIs
  <2>3. /\ whole \in Seq(Byte) /\ text \in Seq(Byte) /\ Len(text) = len[live]
        /\ \A i \in 1..len[live] : text[i] = whole[i]
    BY TextIs DEF WorldOK
  <2>4. len[live] <= Len(whole) /\ len[live] \in Nat
    BY <2>3 DEF WorldOK
  <2>5. Len(seen) = reader.offset
    BY <1>1, <2>1 DEF TailOK, Refilled, Reading
  <2>6. old \in Seq(Byte) /\ Len(old) = reader.at
    BY <2>5, StreamIs
  <2>7. reader.at <= len[live] /\ IsPrefix(old, whole)
    BY <1>3 DEF Newest
  <2> HIDE DEF text, whole, chunk
  <2>8. Stream' = old \o chunk
    <3>1. /\ reader'.hole = reader.hole /\ reader.pos = 0
          /\ reader.buf \in Seq(Byte)
      BY <2>2 DEF SameBut, ReaderFields, RunOK, Resting
    <3> DEFINE front == seen \o Nuls(reader.hole)
               buf == reader.buf
    <3>2. seen \in Seq(Byte) /\ Nuls(reader.hole) \in Seq(Byte)
      BY StreamIs
    <3>3. front \in Seq(Byte)
      BY <3>2
    <3>4. Stream' = front \o From(reader.buf \o chunk, 0)
      BY <1>1, <2>2, <3>1 DEF Stream
    <3>5. old = front \o From(reader.buf, 0)
      BY <3>1 DEF Stream
    <3> HIDE DEF front, old
    <3>6. \A b \in Seq(Byte) : From(b, 0) = b
      <4> TAKE b \in Seq(Byte)
      <4>1. /\ From(b, 0) \in Seq(Byte) /\ Len(From(b, 0)) = (IF 0 < Len(b) THEN Len(b) - 0 ELSE 0)
            /\ \A i \in 1..Len(From(b, 0)) : From(b, 0)[i] = b[0 + i]
        BY FromIs
      <4>2. Len(From(b, 0)) = Len(b)
        BY <4>1
      <4>3. \A i \in 1..Len(b) : From(b, 0)[i] = b[i]
        BY <4>1, <4>2
      <4> QED
        BY <4>1, <4>2, <4>3, SeqEqual
    <3>7. reader.buf \o chunk \in Seq(Byte)
      BY <2>2, <3>1
    <3>8. Stream' = front \o (reader.buf \o chunk) /\ old = front \o reader.buf
      BY <3>1, <3>4, <3>5, <3>6, <3>7
    <3>9. front \o (buf \o chunk) = front \o buf \o chunk
      <4>1. buf \in Seq(Byte) /\ chunk \in Seq(Byte)
        BY <2>2, <3>1
      <4> HIDE DEF buf
      <4> QED
        BY <3>3, <4>1, ConcatAssociative
    <3> QED
      BY <3>8, <3>9
  <2> DEFINE new == old \o chunk
             at == reader.at
  <2>9. /\ new \in Seq(Byte) /\ Len(new) = Len(old) + Len(chunk)
        /\ \A i \in 1..Len(old) + Len(chunk) :
              new[i] = IF i <= Len(old) THEN old[i] ELSE chunk[i - Len(old)]
    <3> HIDE DEF old
    <3>1. old \in Seq(Byte) /\ chunk \in Seq(Byte)
      BY <2>2, <2>6
    <3> QED
      BY <3>1
  <2>10. Len(old) = at /\ at \in Nat /\ Len(chunk) \in Nat
    <3> HIDE DEF old
    <3> QED
      BY <2>2, <2>6
  <2> HIDE DEF new, old, at
  <2>11. at + Len(chunk) <= len[live]
    <3>1. CASE chunk = <<>>
      BY <2>4, <2>7, <2>10, <3>1 DEF at
    <3>2. CASE Len(chunk) <= Len(text) - reader.at
      BY <2>3, <2>4, <2>10, <3>2 DEF at
    <3> QED
      BY <2>2, <3>1, <3>2
  <2>12. \A i \in 1..at : old[i] = whole[i]
    BY <2>3, <2>6, <2>7, <2>10, PrefixIs
  <2>13. ASSUME NEW i \in 1..at + Len(chunk) PROVE new[i] = whole[i]
    <3>1. CASE i <= at
      <4>1. i \in 1..at
        BY <2>10, <3>1
      <4> QED
        BY <2>9, <2>10, <2>12, <3>1, <4>1
    <3>2. CASE ~(i <= at)
      <4>1. i - at \in 1..Len(chunk) /\ at + (i - at) = i /\ i \in 1..len[live]
        BY <2>4, <2>10, <2>11, <3>2
      <4>2. new[i] = chunk[i - at]
        BY <2>9, <2>10, <3>2
      <4>3. chunk[i - at] = text[i]
        BY <2>2, <4>1 DEF at
      <4> QED
        BY <2>3, <4>1, <4>2, <4>3
    <3> QED
      BY <3>1, <3>2
  <2>14. IsPrefix(new, whole)
    <3>1. Len(new) = at + Len(chunk) /\ Len(new) <= Len(whole)
      BY <2>3, <2>4, <2>9, <2>10, <2>11
    <3>2. \A i \in 1..Len(new) : new[i] = whole[i]
      BY <2>13, <3>1
    <3> QED
      BY <2>3, <2>9, <3>1, <3>2, PrefixIs
  <2>15. reader'.at <= len'[live']
    BY <1>1, <2>2, <2>11 DEF at
  <2> QED
    BY <1>1, <2>8, <2>14, <2>15 DEF Newest, new, whole
<1>4. Newest \/ Overtaken
  BY <1>1 DEF VersionOK, Reading
<1> QED
  BY <1>2, <1>3, <1>4

\* The check of what was read: of a file that is another one, the bytes before the position do
\* not stand there.
LEMMA CheckTells ==
  ASSUME WorldOK, RunOK, TailOK, TellsApart, Refilled, pc = "check", Overtaken
  PROVE  ~StillTheFile
<1> SUFFICES ASSUME StillTheFile PROVE FALSE
  OBVIOUS
<1> DEFINE old == setup.texts[1]
           new == setup.texts[2]
           text == Text(2)
           p == reader.offset
           cap == ANCHOR_CAP
           tail == reader.tail
<1>1. /\ old \in Seq(Byte) /\ new \in Seq(Byte) /\ live = 2
      /\ Under(file.version) = text /\ tail # None
  BY Refilling DEF Overtaken, Reading
<1>2. /\ text \in Seq(Byte) /\ len[2] \in Nat /\ Len(text) = len[2]
      /\ \A i \in 1..len[2] : text[i] = new[i]
  BY <1>1, TextIs DEF WorldOK
<1>3. len[2] <= Len(new)
  BY <1>1 DEF WorldOK
<1>4. seen \in Seq(Byte) /\ Len(seen) = p /\ p \in Nat
  BY <1>1 DEF RunOK, TailOK, Refilled, Reading
<1>5. tail = LastOf(seen, cap)
  <2>1. PICK base : TailIs(reader, base) /\ seen = Before(reader, base)
    BY <1>1 DEF TailOK, Refilled, Reading
  <2>2. reader.mark = 0
    BY DEF RunOK
  <2> QED
    BY <2>1, <2>2 DEF TailIs, Before
<1>6. IsPrefix(seen, old) /\ ~IsPrefix(seen, new)
  BY DEF Overtaken
<1>7. p <= Len(text) /\ TailOf(text, p, Len(tail)) = tail
  BY <1>1 DEF StillTheFile
<1>8. p <= Len(old) /\ p <= Len(new) =>
        (TailOf(old, p, cap) = TailOf(new, p, cap) => Upto(old, p) = Upto(new, p))
  BY <1>1 DEF TellsApart, Refilled
<1>9. cap \in Nat
  BY Caps
<1> HIDE DEF old, new, text, p, tail, cap
<1>10. p <= Len(old) /\ Upto(old, p) = seen
  BY <1>1, <1>4, <1>6, PrefixThere
<1>11. p <= Len(new) /\ p <= len[2]
  BY <1>1, <1>2, <1>3, <1>4, <1>7
<1>12. Upto(text, p) = Upto(new, p) /\ Upto(new, p) \in Seq(Byte) /\ Len(Upto(new, p)) = p
  <2>1. /\ Upto(text, p) \in Seq(Byte) /\ Len(Upto(text, p)) = (IF p < Len(text) THEN p ELSE Len(text))
        /\ \A i \in 1..Len(Upto(text, p)) : Upto(text, p)[i] = text[i]
    BY <1>2, <1>4, UptoIs
  <2>2. /\ Upto(new, p) \in Seq(Byte) /\ Len(Upto(new, p)) = (IF p < Len(new) THEN p ELSE Len(new))
        /\ \A i \in 1..Len(Upto(new, p)) : Upto(new, p)[i] = new[i]
    BY <1>1, <1>4, UptoIs
  <2>3. Len(Upto(text, p)) = p /\ Len(Upto(new, p)) = p
    BY <1>1, <1>2, <1>4, <1>7, <1>11, <2>1, <2>2
  <2>4. \A i \in 1..p : Upto(text, p)[i] = Upto(new, p)[i]
    BY <1>2, <1>4, <1>11, <2>1, <2>2, <2>3
  <2>5. Upto(text, p) = Upto(new, p)
    BY <2>1, <2>2, <2>3, <2>4, SeqEqual
  <2> QED
    BY <2>2, <2>3, <2>5
<1>13. TailOf(old, p, cap) = tail
  <2>1. p \in 0..Len(old)
    BY <1>4, <1>10
  <2>2. TailOf(old, p, cap) = LastOf(Upto(old, p), cap)
    BY <1>1, <1>9, <2>1, TailOfIs
  <2> QED
    BY <1>5, <1>10, <2>2
<1>14. TailOf(new, p, cap) = tail
  <2> DEFINE u == Upto(new, p)
  <2>1. p \in 0..Len(new) /\ p \in 0..Len(text)
    BY <1>4, <1>7, <1>11
  <2>2. tail \in Seq(Byte) /\ Len(tail) = (IF cap < p THEN cap ELSE p)
    BY <1>4, <1>5, <1>9, LastOfIs
  <2>3. Len(tail) \in Nat
    BY <2>2
  <2>4. TailOf(new, p, cap) = LastOf(u, cap)
    BY <1>1, <1>9, <2>1, TailOfIs
  <2>5. TailOf(text, p, Len(tail)) = LastOf(u, Len(tail))
    BY <1>2, <1>12, <2>1, <2>3, TailOfIs
  <2>6. Len(u) = p
    BY <1>12
  <2> HIDE DEF u
  <2>7. LastOf(u, cap) = LastOf(u, Len(tail))
    BY <1>4, <1>9, <2>2, <2>6 DEF LastOf
  <2> QED
    BY <1>7, <2>4, <2>5, <2>7
<1>15. Upto(new, p) = seen
  BY <1>8, <1>10, <1>11, <1>13, <1>14
<1>16. IsPrefix(seen, new)
  BY <1>1, <1>4, <1>15, PrefixOfUpto
<1> QED
  BY <1>6, <1>16

LEMMA VersionCheck == TailInv /\ TellsApart /\ VersionOK /\ Check => VersionOK'
<1> SUFFICES ASSUME WorldOK, RunOK, TailOK, TellsApart, VersionOK, Check, Refilled, ~blind
             PROVE  Newest' \/ Overtaken'
  <2>1. Check => UNCHANGED <<setup, live, blind>> /\ pc \in Reading
    BY DEF Check, world, Reading
  <2> QED
    BY <2>1 DEF TailInv, BaseOK, VersionOK, Refilled, Sound, Plain
<1> DEFINE lost == Asks /\ ~StillTheFile
           ends == lost \/ reader.at_end
<1>1. /\ pc = "check"
      /\ reader' = IF lost THEN [reader EXCEPT !.truncated = TRUE, !.at_end = FALSE]
                   ELSE IF ends /\ todo # <<>> THEN todo[1] ELSE reader
      /\ seen' = IF ends /\ todo # <<>> THEN <<>> ELSE seen
      /\ pc' = IF ends /\ todo = <<>> THEN "ended" ELSE "consume"
      /\ UNCHANGED world
  BY CheckIs
<1>2. todo = <<>> /\ Asks
  BY <1>1, Refilling DEF Asks, Refilled, Plain, Reading
<1>3. lost <=> ~StillTheFile
  BY <1>2
<1> HIDE DEF lost
<1>4. seen' = seen /\ (lost => pc' = "ended") /\ UNCHANGED <<setup, live, len>>
  BY <1>1, <1>2 DEF world
<1>5. /\ reader'.hole = reader.hole /\ reader'.buf = reader.buf /\ reader'.pos = reader.pos
      /\ reader'.at = reader.at
  <2>1. DOMAIN reader = ReaderFields
    BY DEF RunOK, Resting
  <2>2. reader' = reader \/ reader' = [reader EXCEPT !.truncated = TRUE, !.at_end = FALSE]
    BY <1>1, <1>2
  <2> QED
    BY <2>1, <2>2 DEF ReaderFields
<1>6. Stream' = Stream
  BY <1>4, <1>5 DEF Stream
<1>7. CASE Newest
  BY <1>4, <1>5, <1>6, <1>7 DEF Newest
<1>8. CASE Overtaken
  <2>1. lost
    BY <1>1, <1>3, <1>8, CheckTells
  <2> QED
    BY <1>4, <1>8, <2>1 DEF Overtaken
<1> QED
  BY <1>1, <1>7, <1>8 DEF VersionOK, Reading

LEMMA VersionStep == TailInv /\ TellsApart /\ VersionOK /\ [Next]_vars => VersionOK'
<1> SUFFICES ASSUME TailInv, TellsApart, VersionOK, [Next]_vars PROVE VersionOK'
  OBVIOUS
<1>1. CASE Asking \/ UNCHANGED vars
  BY <1>1, AskingAside DEF Aside, VersionOK, Refilled, Sound, Plain, Newest, Overtaken, Stream
<1>2. CASE OpenUnchanged
  <2>1. setup' = setup /\ setup.zip
    BY <1>2 DEF OpenUnchanged, world
  <2> QED
    BY <2>1 DEF VersionOK, Refilled, Plain
<1>3. CASE OpenHead \/ Accepted \/ Refused
  <2>1. UNCHANGED <<setup, live, blind>> /\ pc' \notin Reading
    BY <1>3 DEF OpenHead, Accepted, Refused, world, history, Reading
  <2> QED
    BY <2>1 DEF VersionOK, Refilled, Sound, Plain
<1>4. CASE Append_ \/ Replace \/ OpenTail
  BY <1>4, VersionAppend, VersionReplace, VersionOpenTail
<1>5. CASE Consume \/ Dry \/ ReadChunk \/ Check
  BY <1>5, VersionBuffer, VersionReadChunk, VersionCheck
<1> QED
  BY <1>1, <1>2, <1>3, <1>4, <1>5 DEF Next, Asking

LEMMA VersionFollows == TailInv /\ VersionOK => (Sound /\ Plain => OneVersion)
<1> SUFFICES ASSUME WorldOK, RunOK, VersionOK, Refilled, pc \in Reading, ~blind
             PROVE  \E v \in DOMAIN setup.texts : IsPrefix(seen, setup.texts[v])
  BY DEF TailInv, BaseOK, OneVersion, Refilled
<1>1. DOMAIN setup.texts = {1, 2}
  BY SetupIs DEF Refilled
<1>2. CASE Overtaken
  BY <1>1, <1>2 DEF Overtaken
<1>3. CASE Newest
  <2>1. IsPrefix(seen, setup.texts[live])
    BY <1>3, Refilling, SeenIn DEF Newest
  <2> QED
    BY <1>1, <2>1, Refilling
<1> QED
  BY <1>2, <1>3 DEF VersionOK

\* A plain file truncated and refilled under the open handle, at whatever moment and however
\* often the run looked: all that the run has taken for the file up to its position is the
\* beginning of one version, never bytes of the old one followed by bytes of the new
\* (_still_the_file, asked after every read and before a byte of it is used).  The hypothesis is
\* what the code's comment says it cannot see, and no more: where a check compares, the two
\* versions are not the same in the last ANCHOR_CAP bytes and different before them.
THEOREM NeverTwoVersions == Spec /\ []TellsApart => [](Sound /\ Plain => OneVersion)
<1>1. Init => VersionOK
  BY VersionInit
<1>2. TailInv /\ TellsApart /\ VersionOK /\ [Next]_vars => VersionOK'
  BY VersionStep
<1>3. TailInv /\ VersionOK => (Sound /\ Plain => OneVersion)
  BY VersionFollows
<1> QED
  BY <1>1, <1>2, <1>3, TailAlways, PTL DEF Spec
=============================================================================
