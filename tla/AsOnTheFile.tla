----------------------------- MODULE AsOnTheFile ----------------------------
(***************************************************************************)
(* What LogFile's runs promise, said of the bytes of the file alone: which *)
(* lines there are from an offset on, which of them a report shows, and    *)
(* that nothing a chunk, a run, a hole or another file does changes that.  *)
(***************************************************************************)
EXTENDS LogFile

(***************************************************************************)
(* The lines of a text from an offset on, in closed form: no buffer, no    *)
(* loop, no chunk.                                                         *)
(***************************************************************************)
\* The bytes behind the last newline.
Rest(text) == From(text, HighOf(At(text, "lf"), 0))

\* How often a line's text is cut: the CR of a CRLF pair does not count.
Cuts(text) ==
  Min({n \in 0..Len(text) :
         LET left == Len(text) - n * LINE_CAP
         IN left <= LINE_CAP \/ (left = LINE_CAP + 1 /\ Last(text) = "cr")})

LinesOf(bytes, ended, number, path) ==
  LET text == Strip(bytes)
      n    == Cuts(text)
      rest == Chomp(From(text, n * LINE_CAP))
      hole == Hole(bytes) > 0 /\ n = 0 /\ rest = <<>>
  IN [k \in 1..n |-> ALine(Chomp(SubSeq(text, (k - 1) * LINE_CAP + 1, k * LINE_CAP)),
                           TRUE, number, path)]
       \o (IF ended /\ ~hole THEN <<ALine(rest, FALSE, number, path)>> ELSE <<>>)

FileLines(text, from, path) ==
  LET parts == Parts(From(text, from))
      base  == CountNewlines(text, from)
  IN FlattenSeq([k \in DOMAIN parts |-> LinesOf(parts[k], TRUE, base + k, path)])
       \o LinesOf(Rest(From(text, from)), FALSE, base + Len(parts) + 1, path)

\* Two corners where the code's lines depend on more than the bytes: the CR
\* of a CRLF pair at the cap, when a read ends between the two; and NULs just
\* behind a cut, text to a read that goes on and a hole to one that begins
\* there.
Awkward(text, from) ==
  LET bytes == From(text, from)
  IN \E i \in DOMAIN bytes :
       LET line == Strip(Rest(Upto(bytes, i)))  \* of the line, what is up to i
       IN /\ Len(line) > LINE_CAP /\ (Len(line) - 1) % LINE_CAP = 0
          /\ \/ bytes[i] = "cr" /\ (setup.steps \/ i % setup.chunk = 0 \/ i = Len(bytes))
             \/ bytes[i] = "nul" /\ setup.steps

Settles ==
  /\ setup.how # "refill"
  /\ ~Awkward(setup.texts[1], origin)
  /\ setup.how = "rename" => ~Awkward(setup.texts[2], 0)

Unnamed(lines) == [i \in DOMAIN lines |-> [lines[i] EXCEPT !.path = NoPath]]

Chain == IF pc = "idle" THEN told ELSE told \o got

AllLines == FileLines(Text(1), origin, NoPath)
              \o (IF live = 2 THEN FileLines(Text(2), 0, NoPath) ELSE <<>>)

(***************************************************************************)
(* Properties.                                                             *)
(***************************************************************************)
\* The types of the variables.
TypeOK ==
  /\ setup.how \in {"none", "refill", "rename"}
  /\ live \in DOMAIN setup.texts
  /\ \A v \in DOMAIN setup.texts : len[v] \in 0..Len(setup.texts[v])
  /\ pc \in PCs /\ hook.at \in Hooks
  /\ reader.pos \in 0..Len(reader.buf) /\ reader.mark \in 0..reader.pos
  /\ reader.offset + reader.hole <= reader.at + reader.carried
  /\ scan.after \in 0..setup.context /\ Len(scan.pending) <= setup.context
  /\ Len(scan.matches) <= setup.cap

\* However the file grew, wherever the chunks and the runs ended, whichever
\* mails were refused and whether it was renamed away in between: what the
\* accepted runs and this one have read is the file's lines from the first
\* position on, each once, cut where the bytes say, under the number grep -n
\* gives (LineReader.__iter__, cursor(), start_cursor()).
ReadOnce == Settles => IsPrefix(Unnamed(Chain), Unnamed(AllLines))

\* A run that met the end, or did not open an archive whose stat is the
\* recorded one, has left no line of it behind (at_end, _settled, _unchanged).
NothingLeftBehind ==
  (/\ pc = "ended" /\ Settles /\ setup.how = "none"
   /\ IF file.verdict = "unchanged" THEN file.stamp = Stamp
      ELSE reader.at_end /\ reader.at = len[1])
  => Unnamed(Chain) = Unnamed(AllLines)

\* The tail the next cursor's anchor is taken from is the bytes before the
\* offset as this run read them, at every moment: in the middle of a buffer,
\* with a hole open over several chunks, after a fold (LineReader.tail, _fold).
AnchorIsTheBytes ==
  pc \in Reading /\ reader.tail # None =>
    /\ Len(seen) = reader.offset
    /\ TailNow(reader) = LastOf(seen, ANCHOR_CAP)

\* A file truncated and refilled under the open handle: all that a run takes
\* for the file up to its position is the beginning of one and the same
\* version, never old bytes followed by new ones (_still_the_file).  Blind: a
\* refill that begins with all that was seen looks like the file, and the
\* code says so.
OneVersion ==
  setup.how = "refill" /\ pc \in Reading /\ ~blind =>
    \E v \in DOMAIN setup.texts : IsPrefix(seen, setup.texts[v])

\* A run that continues at the saved offset has before it the bytes that
\* were before it when the cursor was taken, whatever was done to the file
\* in between (identify, the probe, the anchor); "What it cannot see: a
\* refill whose last ANCHOR_CAP bytes before the position are the ones read".
SameBytesBefore ==
  setup.how = "refill" /\ file.verdict = "continue"
    /\ pc \in Reading /\ ~blind
  => \/ IsPrefix(was, seen)
     \/ LastOf(was, ANCHOR_CAP) = TailOf(seen, Len(was), ANCHOR_CAP)

(***************************************************************************)
(* The report, as grep -C would print it over the lines that were read.    *)
(***************************************************************************)
\* The physical lines of the stream; of a long one the first fragments.
Groups ==
  LET Key(i)  == <<got[i].number, got[i].path>>
      starts  == InOrder({i \in DOMAIN got : i = 1 \/ Key(i) # Key(i - 1)})
      Next_(k) == IF k = Len(starts) THEN Len(got) ELSE starts[k + 1] - 1
  IN [k \in DOMAIN starts |-> Upto(SubSeq(got, starts[k], Next_(k)), MAX_FRAGMENTS)]

IsHit(text) == Matching(text) # {} /\ ~IsExcluded(text)

\* The n lines before an offset: the head of a long one, no hole-only ones.
Earlier(text, offset, n, path) ==
  LET parts == Parts(Upto(text, offset))
      Line_(k) == LET bytes == Chomp(Strip(parts[k]))
                  IN ALine(Upto(bytes, LINE_CAP), Len(bytes) > LINE_CAP, k, path)
      Bare(k) == Hole(parts[k]) > 0 /\ Chomp(Strip(parts[k])) = <<>>
      shown == InOrder({k \in DOMAIN parts : k > Len(parts) - n /\ ~Bare(k)})
  IN [i \in DOMAIN shown |-> Line_(shown[i])]

\* What the code cannot tell: between its last comparison and its read the
\* file was refilled, and these are the new text's lines.
Slipped(n) ==
  IF ~late THEN {}
  ELSE {LinesBefore(Upto(setup.texts[2], k), file.start, n, file.line, "log") :
          k \in 0..Len(setup.texts[2])}

\* What may stand before the stream: the lines before its start, if the file
\* still was there to be asked for them.
Befores(n) ==
  IF n <= 0 THEN {<<>>}
  ELSE IF file.copied
    THEN {IF got[1].path = "copy" THEN Earlier(Text(1), cursor.offset, n, "copy") ELSE <<>>}
  ELSE LET told_(v) == Earlier(setup.texts[v], file.start, n, "log")
           versions == {v \in DOMAIN setup.texts : IsPrefix(seen, setup.texts[v])}
       IN {told_(v) : v \in versions} \union Slipped(n)
            \union (IF setup.how = "none" /\ ~setup.zip THEN {} ELSE {<<>>})

Entry(kind, line) == [kind |-> kind, number |-> line.number, text |-> line.text,
                      cut |-> line.cut, path |-> line.path]
Entries(kind, lines) == [i \in DOMAIN lines |-> Entry(kind, lines[i])]

WithGaps(entries) ==
  FoldLeft(LAMBDA sofar, e :
             IF sofar # <<>> /\ (Last(sofar).path # e.path \/ e.number > Last(sofar).number + 1)
             THEN sofar \o <<Gap, e>> ELSE Append(sofar, e), <<>>, entries)

\* The entries of the first cap matches of a stream and of their windows.
GrepC(groups, cap, before) ==
  LET hits   == {i \in DOMAIN groups : IsHit(TextOf(groups[i]))}
      order  == InOrder(hits)
      stored == Range(Upto(order, cap))
      stop   == IF Len(order) > cap THEN order[cap + 1] ELSE Len(groups) + 1
      Near(i, m) == groups[i][1].path = groups[m][1].path
                      /\ i - m \in -setup.context..setup.context
      shown  == InOrder({i \in DOMAIN groups :
                              i < stop /\ \E m \in stored : Near(i, m)})
      Kind(i) == IF i \in hits THEN "match" ELSE "context"
  IN IF stored = {} THEN <<>>
     ELSE WithGaps(Entries("context", before)
                     \o FlattenSeq([k \in DOMAIN shown |->
                                      Entries(Kind(shown[k]), groups[shown[k]])]))

FirstHit(groups) == LowOf({i \in DOMAIN groups : IsHit(TextOf(groups[i]))}, 0)

BeforesOf(groups) ==
  LET m == FirstHit(groups)
  IN IF m = 0 \/ groups[m][1].path # groups[1][1].path THEN {<<>>}
     ELSE Befores(setup.context - (m - 1))

\* The entries are the first max_lines matching lines of the stream, each
\* with the lines within its context, once, in order, a gap exactly where
\* lines are missing or the file changes, and before the first match the
\* lines that stand before the saved position in the file that was read, if
\* it is not refilled just before they are; the counts and the priority are
\* of all of them (match.scan, context_before).
ReportIsGrepC ==
  Reported =>
    LET groups == Groups
        hits   == {i \in DOMAIN groups : IsHit(TextOf(groups[i]))}
    IN /\ \E before \in BeforesOf(groups) :
            scan.entries = GrepC(groups, setup.cap, before)
       /\ scan.matched = Cardinality(hits)
       /\ scan.lines = Len(groups)
       /\ scan.priority = Max({0} \union
            UNION {{Patterns[p].priority : p \in Matching(TextOf(groups[i]))} : i \in hits})

\* The same stream as another file of the section has it.
Twin(path) == IF path = "copy" THEN "copy2" ELSE "log2"
TwinGroups ==
  [k \in DOMAIN Groups |-> [i \in DOMAIN Groups[k] |->
                              [Groups[k][i] EXCEPT !.path = Twin(@)]]]
TwinReport ==
  [scan EXCEPT !.entries = [i \in DOMAIN @ |-> IF @[i].kind = "gap" THEN @[i]
                                               ELSE [@[i] EXCEPT !.path = Twin(@)]]]

Marked(entries) ==
  LET lines == SelectSeq(PhysicalEntries(entries), LAMBDA e : e.kind # "gap")
      Mark(i) == IF i = 1 \/ lines[i].path # lines[i - 1].path THEN "header"
                 ELSE IF lines[i].number > lines[i - 1].number + 1 THEN "--" ELSE "none"
  IN [i \in DOMAIN lines |-> [mark |-> Mark(i), line |-> lines[i]]]

\* A mail of two files shows the first max_lines matching lines of both with
\* their own windows and no line that stands there for a match beyond them;
\* the remainder it names is exact; and a report past the byte cap is the
\* beginning of the one it would have been (mail.render).
RenderShowsTheFirst ==
  Reported /\ BeforesOf(Groups) = {<<>>} =>
    LET reports == <<scan, TwinReport>>
        whole   == Render(reports, setup.cap, setup.context, 1000)
        budget  == setup.cap - Len(scan.matches)
        Shown(out) == Cardinality({i \in DOMAIN out : out[i].line.kind = "match"})
    IN /\ whole.out = Marked(GrepC(Groups, setup.cap, <<>>))
                        \o Marked(GrepC(TwinGroups, budget, <<>>))
       /\ ~whole.capped
       /\ whole.more = 2 * scan.matched - Shown(whole.out)
       /\ \A byte_cap \in {3, 8} :
            LET page == Render(reports, setup.cap, setup.context, byte_cap)
            IN /\ IsPrefix(page.out, whole.out)
               /\ page.capped = (page.out # whole.out)
               /\ page.more = 2 * scan.matched - Shown(page.out)

\* A complete line that the accepted runs have read and that holds a word of
\* a pattern, and none of an exclude, was in a mail as a match: "A physical
\* line is matched WHOLE (its fragments joined ...), so an anchored regex and
\* a word the cap split behave as on the file" (match.py).
HitsAreAlerted ==
  pc = "idle" /\ setup.how # "refill" /\ setup.cap > 3 =>
    \A i \in DOMAIN told :
      ~told[i].cut =>
        LET v     == IF \E j \in i + 1..Len(told) : told[j].number <= told[i].number
                     THEN 1 ELSE cursor.ino
            from  == IF v = 1 THEN origin ELSE 0
            parts == Parts(From(setup.texts[v], from))
            text  == Strip(parts[told[i].number - CountNewlines(setup.texts[v], from)])
        IN IsHit(Chomp(Upto(text, MAX_FRAGMENTS * LINE_CAP)))
             => <<v, told[i].number>> \in alerted
=============================================================================
