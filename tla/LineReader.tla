----------------------------- MODULE LineReader -----------------------------
(***************************************************************************)
(* The bytes of a log file and what src/logalert/cursor.py computes from   *)
(* them: the first line that identifies a file, the tail before a          *)
(* position, where a first sight starts, the lines before a position, and  *)
(* one turn of LineReader's loop over its buffer.                          *)
(*                                                                         *)
(* A text is a sequence of bytes; "nul", "lf" and "cr" are the three the   *)
(* code treats apart.  Offsets count bytes, as in the code: the byte at    *)
(* offset p is text[p + 1].  A hash is the bytes it was taken over.        *)
(***************************************************************************)
EXTENDS Integers, Sequences, FiniteSets, SequencesExt

CONSTANTS
  LINE_CAP,         \* the longest line that is not cut, in bytes
  FINGERPRINT_CAP,  \* bytes of the first line that identify a file
  ANCHOR_CAP,       \* bytes before the position that identify what was read
  CHUNK             \* _CHUNK: what one read asks for at most

ASSUME CapsAssumption ==
  {LINE_CAP, FINGERPRINT_CAP, ANCHOR_CAP, CHUNK} \subseteq Nat \ {0}

None == <<"none">>  \* a hash, an anchor or a tail that is not there
\* The three bytes the code treats apart, and every other.
Byte == {"nul", "lf", "cr"} \union (STRING \ {"none"})

At(text, byte) == {i \in DOMAIN text : text[i] = byte}
LowOf(S, default) == IF S = {} THEN default ELSE Min(S)
HighOf(S, default) == IF S = {} THEN default ELSE Max(S)
\* A set of numbers as an increasing sequence.
InOrder(S) == [k \in 1..Cardinality(S) |->
                 CHOOSE x \in S : Cardinality({y \in S : y < x}) = k - 1]

Upto(text, n) == SubSeq(text, 1, IF n < Len(text) THEN n ELSE Len(text))
From(text, offset) == SubSeq(text, offset + 1, Len(text))
LastOf(text, n) == From(text, IF n < Len(text) THEN Len(text) - n ELSE 0)
Nuls(n) == [i \in 1..n |-> "nul"]

Hole(text) == LowOf(DOMAIN text \ At(text, "nul"), Len(text) + 1) - 1
Strip(text) == From(text, Hole(text))
Chomp(raw) == IF raw # <<>> /\ Last(raw) = "cr" THEN Front(raw) ELSE raw

(***************************************************************************)
(* Identity.                                                               *)
(***************************************************************************)
HashOf(text) ==
  IF At(text, "lf") # {} THEN Upto(text, Min(At(text, "lf")) - 1)
  ELSE IF Len(text) >= FINGERPRINT_CAP THEN text
  ELSE None

LineHash(text, begins) == HashOf(Upto(From(text, begins), FINGERPRINT_CAP))

FirstLine(text) == [hash |-> LineHash(text, Hole(text)), begins |-> Hole(text)]

TailOf(text, offset, keep) ==
  From(Upto(text, offset), IF offset > keep THEN offset - keep ELSE 0)

AnchorOf(tail) == IF tail = <<>> THEN None ELSE tail

(***************************************************************************)
(* Where a first sight starts, for a plain file and, in one forward pass   *)
(* over chunks that also counts the lines, for a compressed one.           *)
(***************************************************************************)
EndOfLastLine(text) ==
  LET size    == Len(text)
      start   == IF size > LINE_CAP + 1 THEN size - LINE_CAP - 1 ELSE 0
      newline == HighOf(At(From(text, start), "lf"), 0)
  IN IF newline > 0 THEN start + newline
     ELSE IF size > LINE_CAP THEN size ELSE 0

Chunk(text, chunk, k) == Upto(From(text, k * chunk), chunk)

CountChunk(text, chunk, pass, k) ==
  LET newlines == At(Chunk(text, chunk, k), "lf")
  IN [size     |-> pass.size + Len(Chunk(text, chunk, k)),
      newlines |-> pass.newlines + Cardinality(newlines),
      boundary |-> IF newlines = {} THEN pass.boundary ELSE pass.size + Max(newlines)]

\* What the pass has counted before its kth chunk.
Counted(text, chunk) ==
  LET before[k \in 0..Len(text) \div chunk + 1] ==
        IF k = 0 THEN [size |-> 0, newlines |-> 0, boundary |-> 0]
        ELSE CountChunk(text, chunk, before[k - 1], k - 1)
  IN before

EndOfLastLineCounting(text, chunk) ==
  LET pass == Counted(text, chunk)[Len(text) \div chunk + 1]
  IN [offset |-> IF pass.size - pass.boundary > LINE_CAP THEN pass.size
                 ELSE pass.boundary,
      lines  |-> pass.newlines]

CountNewlines(text, offset) == Cardinality(At(Upto(text, offset), "lf"))

(***************************************************************************)
(* The last n complete lines before an offset, from one window of bytes.   *)
(***************************************************************************)
ALine(text, cut, number, path) ==
  [text |-> text, cut |-> cut, number |-> number, path |-> path]

\* What is between the newlines; the bytes after the last of them left out.
Parts(buf) ==
  LET ends == InOrder(At(buf, "lf"))
  IN [k \in DOMAIN ends |->
        SubSeq(buf, IF k = 1 THEN 1 ELSE ends[k - 1] + 1, ends[k] - 1)]

WindowFor(n) == n * (LINE_CAP + 1) + CHUNK

LinesFromWindow(buf, start, n, line, path) ==
  LET complete == start = 0 \/ (buf # <<>> /\ buf[1] = "lf")
      parts    == Parts(IF start > 0 THEN From(buf, 1) ELSE buf)
      whole    == IF complete THEN parts ELSE From(parts, 1)
      kept     == LastOf(whole, n)
      HeadOf(k) == LET raw == Strip(Chomp(kept[k]))
                   IN ALine(Upto(raw, LINE_CAP), Len(raw) > LINE_CAP,
                            line - Len(kept) + k, path)
      shown    == {k \in DOMAIN kept : Strip(Chomp(kept[k])) # <<>>
                                          \/ Chomp(kept[k]) = <<>>}
      order    == InOrder(shown)
  IN [i \in DOMAIN order |-> HeadOf(order[i])]

LinesBefore(text, offset, n, line, path) ==
  LET start == IF offset > WindowFor(n) THEN offset - WindowFor(n) ELSE 0
      first == IF start > 0 THEN start - 1 ELSE 0
  IN IF n <= 0 \/ offset <= 0 THEN <<>>
     ELSE LinesFromWindow(From(Upto(text, offset), first), start, n, line, path)

(***************************************************************************)
(* One LineReader.  at is the position of its handle: everything up to it  *)
(* has been read into a buffer.                                            *)
(***************************************************************************)
NewReader(offset, line, tail, path) ==
  [offset |-> offset, line |-> line, path |-> path, at |-> offset,
   buf |-> <<>>, pos |-> 0, hole |-> 0, line_start |-> TRUE,
   mark |-> 0, carried |-> 0, tail |-> tail,
   nul_bytes |-> 0, at_end |-> FALSE, truncated |-> FALSE]

\* A run of NULs at a line start is consumed before the cap is measured.
SkipHole(r) ==
  LET run == IF r.line_start THEN Hole(From(r.buf, r.pos)) ELSE 0
  IN [r EXCEPT !.pos = @ + run, !.hole = @ + run]

\* Mutant: the CR of a CRLF pair counts against the cap.
NewlineOf_CountsCR(r) ==
  LowOf({i \in At(r.buf, "lf") : i > r.pos /\ i <= r.pos + LINE_CAP + 1}, 0)

\* The newline that ends the line at pos within the cap; one byte further
\* only if the byte at the cap is the CR of a CRLF pair.  0: none.
NewlineOf(r) ==
  LET found == LowOf({i \in At(r.buf, "lf") : i > r.pos
                                               /\ i <= r.pos + LINE_CAP + 2}, 0)
  IN IF found = r.pos + LINE_CAP + 2 /\ r.buf[found - 1] # "cr" THEN 0 ELSE found

HasLine(r) == \/ NewlineOf(r) > 0
              \/ Len(r.buf) - r.pos > LINE_CAP

\* The reader past its next line, and what it yields: one line, or nothing
\* for a line that was only a hole.
NextLine(r) ==
  LET newline == NewlineOf(r)
      cut == newline = 0
      raw == IF cut THEN SubSeq(r.buf, r.pos + 1, r.pos + LINE_CAP)
             ELSE SubSeq(r.buf, r.pos + 1, newline - 1)
      end == IF cut THEN r.pos + LINE_CAP ELSE newline
  IN [reader |-> [r EXCEPT !.pos = end, !.mark = end,
                           !.offset = @ + r.hole + (end - r.pos),
                           !.nul_bytes = @ + r.hole, !.hole = 0,
                           !.line = IF cut THEN @ ELSE @ + 1,
                           !.line_start = ~cut],
      yields |-> IF r.hole > 0 /\ Chomp(raw) = <<>> THEN <<>>
                 ELSE <<ALine(Chomp(raw), cut, r.line + 1, r.path)>>]

\* Mutant: a hole folded into the tail is forgotten.
TailNow_NoHole(r) ==
  IF r.tail = None \/ r.mark = 0 THEN r.tail
  ELSE LastOf(r.tail \o Upto(r.buf, r.mark), ANCHOR_CAP)

\* The tail as the reader saw it, completed from the buffer between folds.
TailNow(r) ==
  IF r.tail = None \/ r.mark = 0 THEN r.tail
  ELSE LastOf(r.tail \o Nuls(IF r.carried < ANCHOR_CAP THEN r.carried
                                ELSE ANCHOR_CAP)
                        \o Upto(r.buf, r.mark), ANCHOR_CAP)

\* Mutant: the buffer is cut and the position in it stays.
FoldTail_KeepsPos(r) == [r EXCEPT !.tail = TailNow(r), !.buf = From(@, r.pos), !.mark = 0]

\* The consumed bytes join the tail; a hole still open is only a length.
FoldTail(r) ==
  [r EXCEPT !.tail = TailNow(r),
            !.carried = (IF r.mark = 0 THEN @ ELSE 0) + (r.pos - r.mark),
            !.buf = From(@, r.pos), !.pos = 0, !.mark = 0]
=============================================================================
