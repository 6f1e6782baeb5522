------------------------------- MODULE Report -------------------------------
(***************************************************************************)
(* From lines to a report: the scan of src/logalert/match.py, one physical *)
(* line at a time, and the text src/logalert/mail.py renders from what it  *)
(* kept.  What a pattern's word is found in is the physical line, its      *)
(* fragments joined.                                                       *)
(***************************************************************************)
EXTENDS LineReader

CONSTANTS
  MAX_FRAGMENTS,  \* of a physical line that are kept
  Patterns,       \* <<[word |-> a sequence of bytes, priority |-> 0..], ...>>
  Excludes        \* the words of the exclude shapes

NoPath == "none"

NewScan ==
  [group |-> <<>>, pending |-> <<>>, after |-> 0, last |-> 0,
   last_path |-> NoPath, emitted |-> FALSE, first_path |-> NoPath,
   current_path |-> NoPath, capped |-> FALSE, entries |-> <<>>,
   matches |-> <<>>, matched |-> 0, excluded |-> 0, lines |-> 0, priority |-> 0]

\* Mutant: a line is matched by its first fragment.
TextOf_First(group) == group[1].text

TextOf(group) == FlattenSeq([i \in DOMAIN group |-> group[i].text])
Found(word, text) == \E i \in 0..Len(text) : IsPrefix(word, From(text, i))
Matching(text) == {i \in DOMAIN Patterns : Found(Patterns[i].word, text)}
IsExcluded(text) == \E word \in Excludes : Found(word, text)
Highest(priorities) == Max(priorities \union {0})  \* 0: no priority

(***************************************************************************)
(* emit: an entry, with a gap before it when lines were left out or the    *)
(* physical file changed.  Nothing is stored once capped.                  *)
(***************************************************************************)
Gap == [kind |-> "gap", number |-> 0, text |-> <<>>, cut |-> FALSE, path |-> NoPath]

Emit(s, line, kind) ==
  LET gap   == s.emitted /\ (line.number > s.last + 1 \/ line.path # s.last_path)
      entry == [kind |-> kind, number |-> line.number, text |-> line.text,
                cut |-> line.cut, path |-> line.path]
  IN [s EXCEPT !.last = line.number, !.last_path = line.path, !.emitted = TRUE,
               !.entries = IF s.capped THEN @
                           ELSE @ \o (IF gap THEN <<Gap>> ELSE <<>>) \o <<entry>>]

Emitted(s, lines, kind) ==
  FoldLeft(LAMBDA sofar, line : Emit(sofar, line, kind), s, lines)

\* What emit leaves alone stands as it was.
EmitAll(s, lines, kind) ==
  LET emitted == Emitted(s, lines, kind)
  IN [s EXCEPT !.last = emitted.last, !.last_path = emitted.last_path,
               !.emitted = emitted.emitted, !.entries = emitted.entries]

\* Another physical file: context never crosses files.
EnterFile(s, path) ==
  IF path = s.current_path THEN s
  ELSE [s EXCEPT !.pending = <<>>, !.after = 0, !.current_path = path,
                 !.first_path = IF @ = NoPath THEN path ELSE @]

\* Before the first line emitted of a stream's first file, so many lines more
\* than those that wait are asked for from before the stream.
Wanted(s, context) ==
  IF context > 0 /\ ~s.emitted /\ Len(s.pending) < context /\ s.current_path = s.first_path
  THEN context - Len(s.pending) ELSE 0

\* A matching line: counted, stored unless the cap is passed, with the lines
\* that waited before it and, for the first, those from before the stream.
TakeHit(s, group, hits, context, cap, before) ==
  LET priority == Highest({Patterns[i].priority : i \in hits})
      counted  == [s EXCEPT !.matched = @ + 1, !.priority = Highest({@, priority})]
      stored   == IF counted.matched > cap THEN [counted EXCEPT !.capped = TRUE]
                  ELSE [counted EXCEPT !.matches = Append(@, [number |-> group[1].number,
                                                         path |-> group[1].path])]
      earlier  == IF Wanted(s, context) > 0 THEN before[Wanted(s, context)] ELSE <<>>
      window   == EmitAll(stored, earlier \o FlattenSeq(s.pending), "context")
  IN [EmitAll(window, group, "match") EXCEPT !.pending = <<>>, !.after = context]

\* The body of scan's loop: one physical line.
TakeGroup(s0, group, context, cap, before) ==
  LET s    == [EnterFile(s0, group[1].path) EXCEPT !.lines = @ + 1]
      text == TextOf(group)
      hits == Matching(text)
      drop == hits # {} /\ IsExcluded(text)
      kept == IF drop THEN [s EXCEPT !.excluded = @ + 1] ELSE s
  IN IF hits # {} /\ ~drop THEN TakeHit(s, group, hits, context, cap, before)
     ELSE IF s.after > 0
       THEN [EmitAll(kept, group, "context") EXCEPT !.after = @ - 1]
     ELSE [kept EXCEPT !.pending = LastOf(Append(@, group), context)]

(***************************************************************************)
(* physical: the fragments of a cut line travel together.  A line of       *)
(* another number or file hands over the group before it.                  *)
(***************************************************************************)
EndGroup(s, context, cap, before) ==
  IF s.group = <<>> THEN s
  ELSE [TakeGroup(s, s.group, context, cap, before) EXCEPT !.group = <<>>]

\* A line that is not of the group that waits.
Another(s, line) ==
  s.group # <<>> /\ <<line.number, line.path>> # <<s.group[1].number, s.group[1].path>>

\* What the group that waits asks for when it is handed over.
GroupWants(s, context) ==
  IF s.group # <<>> /\ Matching(TextOf(s.group)) # {} /\ ~IsExcluded(TextOf(s.group))
  THEN Wanted(EnterFile(s, s.group[1].path), context) ELSE 0

Feed(s0, line, context, cap, before) ==
  LET s == IF Another(s0, line) THEN EndGroup(s0, context, cap, before) ELSE s0
  IN [s EXCEPT !.group = IF Len(@) < MAX_FRAGMENTS THEN Append(@, line) ELSE @]

(***************************************************************************)
(* The report as mail.py prints it.                                        *)
(***************************************************************************)
\* The fragments of a cut line joined; a gap is its own line.
PhysicalEntries(entries) ==
  LET Key(e) == <<e.kind, e.number, e.path>>
      Join(lines, e) ==
        IF lines = <<>> \/ e.kind = "gap" \/ Key(Last(lines)) # Key(e)
        THEN Append(lines, e)
        ELSE Append(Front(lines), [Last(lines) EXCEPT !.text = @ \o e.text,
                                                       !.cut = e.cut])
  IN FoldLeft(Join, <<>>, entries)

NotTrailing == -1

\* One line of the report: it may end the report, wait as a gap, or be put
\* out behind its file's header or the mark of a gap.
RenderLine(p, line, max_lines, context, byte_cap) ==
  LET trails == p.trailing # NotTrailing
      spent  == \/ line.kind = "gap" /\ p.trailing = 0
                \/ line.kind = "match" /\ (trails \/ p.shown >= max_lines)
                \/ line.kind = "context" /\ trails
                     /\ (p.trailing = 0 \/ line.path # p.path)
      mark   == IF line.path # p.path THEN "header" ELSE IF p.gap THEN "--" ELSE "none"
      size   == p.size + Len(line.text) + (IF mark = "none" THEN 1 ELSE 2)
      shown  == IF line.kind = "match" THEN p.shown + 1 ELSE p.shown
  IN IF p.done THEN p
     ELSE IF spent THEN [p EXCEPT !.done = TRUE]
     ELSE IF line.kind = "gap" THEN [p EXCEPT !.gap = TRUE]
     ELSE IF size > byte_cap THEN [p EXCEPT !.done = TRUE, !.capped = TRUE, !.size = size]
     ELSE [p EXCEPT !.size = size, !.shown = shown, !.path = line.path, !.gap = FALSE,
                    !.out = Append(@, [mark |-> mark, line |-> line]),
                    !.trailing = IF line.kind = "match"
                                 THEN IF shown >= max_lines THEN context ELSE @
                                 ELSE IF trails THEN @ - 1 ELSE @]

\* Mutant: the next file's report is begun with the budget spent.
RenderReport_GoesOn(p0, report, max_lines, context, byte_cap) ==
  LET p == FoldLeft(LAMBDA p, line : RenderLine(p, line, max_lines, context, byte_cap),
                    [p0 EXCEPT !.path = NoPath, !.gap = FALSE, !.trailing = NotTrailing],
                    PhysicalEntries(report.entries))
  IN IF p0.done THEN p0 ELSE p

\* One file's report after the ones before it.
RenderReport(p0, report, max_lines, context, byte_cap) ==
  LET p == FoldLeft(LAMBDA p, line : RenderLine(p, line, max_lines, context, byte_cap),
                    [p0 EXCEPT !.path = NoPath, !.gap = FALSE, !.trailing = NotTrailing],
                    PhysicalEntries(report.entries))
  IN IF p0.done THEN p0 ELSE [p EXCEPT !.done = @ \/ p.trailing # NotTrailing]

Render(reports, max_lines, context, byte_cap) ==
  LET total == FoldLeft(LAMBDA n, report : n + report.matched, 0, reports)
      page  == FoldLeft(LAMBDA p, report :
                          RenderReport(p, report, max_lines, context, byte_cap),
                        [out |-> <<>>, shown |-> 0, size |-> 0, done |-> FALSE,
                         capped |-> FALSE, path |-> NoPath, gap |-> FALSE,
                         trailing |-> NotTrailing], reports)
  IN [out |-> page.out, more |-> total - page.shown, capped |-> page.capped]
=============================================================================
