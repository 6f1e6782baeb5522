------------------------------ MODULE LogFile -------------------------------
(***************************************************************************)
(* One log file read by one run after another, byte by byte: LogFile and   *)
(* LineReader (src/logalert/cursor.py) feeding the scan of match.py line   *)
(* by line, while the file is written, truncated and refilled, or renamed. *)
(*                                                                         *)
(* The bytes a version of the file will ever have are chosen at the start; *)
(* len says how many of them have been written.  A run opens the file in   *)
(* two looks, then reads a chunk, asks whether it still is the file, and   *)
(* hands the lines over one at a time.  The world moves whenever the next  *)
(* thing the run does is a look at the disk.                               *)
(***************************************************************************)
EXTENDS Report

CONSTANTS
  Setups,   \* the instances explored: see SetupType
  MaxRuns   \* bound: runs of logalert

VARIABLES
  setup,   \* the instance of this behaviour
  live,    \* the version the log's name leads to
  len,     \* bytes written of each version
  pc,      \* where the run is
  file,    \* the LogFile of this run
  todo,    \* the rest of the run's stream: the parts behind the one being read
  reader,  \* the LineReader of the part being read
  scan,    \* the scan's locals and its report
  hook,    \* context_before, while a match asks it for lines, and its answer
  cursor,  \* the saved cursor
  got,     \* history: the lines this run has yielded
  told,    \* history: the lines of the runs whose mail was accepted
  alerted, \* history: the matching lines of accepted mails: <<version, number>>
  seen,    \* history: the bytes before the reader's position, as they were read
  origin,  \* history: where the first read began
  was,     \* history: seen, when the saved cursor was taken
  blind,   \* history: replaced by a file that begins with all the run has seen
  late,    \* history: refilled between the hook's last comparison and its read
  runs     \* runs begun

vars == <<setup, live, len, pc, file, todo, reader, scan, hook, cursor, got, told,
          alerted, seen, origin, was, blind, late, runs>>
world == <<setup, live, len>>
asked == <<hook, late>>
history == <<told, alerted, seen, origin, was, blind>>

SetupType ==
  [texts   : Seq(Seq(Byte)),  \* the versions of the file
   how     : {"none", "refill", "rename"},  \* how the second replaces the first
   first   : Nat,        \* bytes written when the first run comes
   steps   : BOOLEAN,    \* written byte by byte, or all at once
   chunk   : Nat \ {0},  \* what one read returns at most
   zip     : BOOLEAN,    \* a compressed file
   torn    : BOOLEAN,    \* may be found empty by the second look of an open
   beginning : BOOLEAN,  \* start = beginning
   context : Nat,        \* the section's context
   cap     : Nat]        \* its max_lines

ASSUME SetupsAssumption ==
  /\ Setups \subseteq SetupType
  /\ \A s \in Setups : Len(s.texts) = IF s.how = "none" THEN 1 ELSE 2
  /\ MaxRuns \in Nat

Reading == {"consume", "read", "check", "ended"}
PCs == {"idle", "opened"} \union Reading

Text(v) == Upto(setup.texts[v], len[v])
Inode(v) == IF setup.how = "refill" THEN 1 ELSE v
\* What a handle opened on a version reads now.
Under(v) == IF Inode(v) = Inode(live) THEN Text(live) ELSE Text(v)
Stamp == <<live, len[live]>>  \* st_size and st_mtime: they move with every write
\* st_size itself: of a compressed file not the length of its stream.
Size(v) == IF setup.zip THEN len[v] \div 2 ELSE len[v]

NoCursor == [offset |-> 0, ino |-> 0, hash |-> None, line |-> 0,
             stamp |-> None, anchor |-> None]
NoFile == [version |-> 1, hash |-> None, begins |-> 0, size |-> 0, verdict |-> "none",
           start |-> 0, line |-> 0, seed |-> <<>>, stamp |-> None, copied |-> FALSE]
\* Where the hook is, and once it is done the lines it returns.
NoHook == [at |-> "none", lines |-> <<>>]
Hooks == {"none", "head", "tail", "lines", "done"}
Answer(lines) == [at |-> "done", lines |-> lines]

Init ==
  /\ setup \in Setups
  /\ live = 1
  /\ len = [v \in DOMAIN setup.texts |-> IF v # 1 THEN 0
                                      ELSE Len(Upto(setup.texts[1], setup.first))]
  /\ pc = "idle" /\ file = NoFile /\ todo = <<>>
  /\ reader = NewReader(0, 0, <<>>, NoPath)
  /\ scan = NewScan /\ hook = NoHook
  /\ cursor = NoCursor
  /\ got = <<>> /\ told = <<>> /\ alerted = {} /\ seen = <<>> /\ origin = 0 /\ was = <<>>
  /\ blind = FALSE /\ late = FALSE
  /\ runs = 0

(***************************************************************************)
(* The world.                                                              *)
(***************************************************************************)
\* The scan is about to take a group that asks for lines from before the
\* stream, of a live file that was not read from its top.
HandsOver ==
  \/ pc = "ended"
  \/ /\ pc = "consume" /\ HasLine(SkipHole(reader))
     /\ \E i \in DOMAIN NextLine(SkipHole(reader)).yields :
          i = 1 /\ Another(scan, NextLine(SkipHole(reader)).yields[i])

Hooking ==
  /\ setup.context > 0 /\ file.start > 0 /\ ~file.copied
  /\ GroupWants(scan, setup.context) > 0
  /\ HandsOver

\* The hook looks at the disk while lines are consumed.
Looks == pc # "consume" \/ (Hooking /\ hook.at # "done")

Written(v, from) == IF setup.steps THEN from..Len(setup.texts[v]) ELSE {Len(setup.texts[v])}

Append_ ==
  /\ Looks
  /\ \E n \in Written(live, len[live] + 1) \ 0..len[live] : len' = [len EXCEPT ![live] = n]
  /\ UNCHANGED <<setup, live, pc, file, todo, reader, scan, cursor, got, history, asked, runs>>

\* Truncated in place, or renamed away and created again: what the new
\* writer has written by the next look is any part of its text.  Unless the
\* instance is torn, a file truncated between the two looks of an open has
\* been refilled past the position by the second.
Replace ==
  /\ Looks /\ runs > 0
  /\ setup.how # "none" /\ live = 1
  /\ live' = 2
  /\ \E n \in Written(2, 0) :
       /\ pc = "opened" /\ setup.how = "refill" => setup.torn \/ n >= cursor.offset
       /\ len' = [len EXCEPT ![2] = n]
  /\ blind' = (pc \in Reading /\ IsPrefix(seen, setup.texts[2]))
  /\ late' = (late \/ (hook.at = "lines" /\ setup.how = "refill"))
  /\ UNCHANGED <<setup, pc, file, todo, reader, scan, hook, cursor, got, told, alerted,
                 seen, origin, was, runs>>

(***************************************************************************)
(* The open.  identify takes what the first look found and the bytes       *)
(* before the saved position as the second look finds them.                *)
(***************************************************************************)
Saved == cursor # NoCursor

\* A compressed file whose stat is what the cursor recorded is not opened.
OpenUnchanged ==
  /\ pc = "idle" /\ runs < MaxRuns
  /\ setup.zip /\ Saved /\ cursor.stamp = Stamp
  /\ runs' = runs + 1
  /\ pc' = "ended"
  /\ file' = [NoFile EXCEPT !.version = live, !.hash = cursor.hash, !.start = cursor.offset,
                            !.line = cursor.line, !.stamp = cursor.stamp,
                            !.verdict = "unchanged"]
  /\ reader' = [NewReader(cursor.offset, cursor.line, None, "log") EXCEPT !.at_end = TRUE]
  /\ scan' = NewScan /\ got' = <<>> /\ todo' = <<>> /\ late' = FALSE
  /\ UNCHANGED <<world, hook, cursor, history>>

\* fstat and the first line.
OpenHead ==
  /\ pc = "idle" /\ runs < MaxRuns
  /\ ~(setup.zip /\ Saved /\ cursor.stamp = Stamp)
  /\ runs' = runs + 1
  /\ pc' = "opened"
  /\ LET first == FirstLine(Text(live))
     IN file' = [NoFile EXCEPT !.version = live, !.hash = first.hash,
                               !.begins = first.begins, !.size = Size(live),
                               !.stamp = Stamp]
  /\ got' = <<>> /\ late' = FALSE
  /\ UNCHANGED <<world, todo, reader, scan, hook, cursor, history>>

\* Mutant: the anchor is not compared (before issue #34).
Identify_NoAnchor(probe) ==
  IF ~Saved THEN "first-sight"
  ELSE IF Inode(file.version) # cursor.ino THEN "rotated"
  ELSE IF cursor.hash # None /\ file.hash # None /\ cursor.hash # file.hash THEN "rotated"
  ELSE IF cursor.hash # None /\ file.hash = None THEN "truncated"
  ELSE IF ~setup.zip /\ file.size < cursor.offset THEN "truncated"
  ELSE "continue"

Identify(probe) ==
  IF ~Saved THEN "first-sight"
  ELSE IF Inode(file.version) # cursor.ino THEN "rotated"
  ELSE IF cursor.hash # None /\ file.hash # None /\ cursor.hash # file.hash THEN "rotated"
  ELSE IF cursor.hash # None /\ file.hash = None THEN "truncated"
  ELSE IF ~setup.zip /\ file.size < cursor.offset THEN "truncated"
  ELSE IF cursor.anchor # None /\ probe # None /\ probe # cursor.anchor THEN "truncated"
  ELSE "continue"

StartOf(verdict, text) ==
  CASE verdict = "first-sight" ->
         IF setup.beginning THEN 0
         ELSE IF setup.zip THEN EndOfLastLineCounting(text, setup.chunk).offset
         ELSE EndOfLastLine(text)
    [] verdict = "continue" -> cursor.offset
    [] OTHER -> 0

StartLine(verdict, start, text) ==
  IF start = 0 THEN 0
  ELSE IF verdict = "continue" THEN cursor.line
  ELSE IF setup.zip THEN EndOfLastLineCounting(text, setup.chunk).lines
  ELSE CountNewlines(text, start)

\* The position taken, the reader built.  A copy that holds the saved
\* position is read before the live file: the plan of rotation.py, for the
\* one copy there can be here.
OpenTail ==
  /\ pc = "opened"
  /\ LET text    == Under(file.version)
         probe   == IF setup.zip THEN <<>> ELSE TailOf(text, cursor.offset, ANCHOR_CAP)
         judged  == Identify(AnchorOf(probe))
         verdict == IF judged = "continue" /\ setup.zip /\ Len(text) < cursor.offset
                    THEN "truncated" ELSE judged
         start   == StartOf(verdict, text)
         line    == StartLine(verdict, start, text)
         seed    == IF setup.zip THEN None
                    ELSE IF start = 0 THEN <<>>
                    ELSE IF verdict = "continue" THEN probe
                    ELSE TailOf(text, start, ANCHOR_CAP)
         copied  == setup.how = "rename" /\ verdict = "rotated"
         own     == NewReader(start, line, seed, "log")
         copy    == NewReader(cursor.offset, cursor.line,
                              TailOf(Text(1), cursor.offset, ANCHOR_CAP), "copy")
     IN /\ file' = [file EXCEPT !.verdict = verdict, !.start = start, !.line = line,
                                !.seed = seed, !.copied = copied]
        /\ reader' = IF copied THEN copy ELSE own
        /\ todo' = IF copied THEN <<own>> ELSE <<>>
        /\ origin' = IF Saved THEN origin ELSE start
        /\ seen' = IF copied THEN Upto(Text(1), cursor.offset) ELSE Upto(text, start)
  /\ scan' = NewScan
  /\ pc' = "consume"
  /\ UNCHANGED <<world, cursor, got, told, alerted, was, blind, asked, runs>>

(***************************************************************************)
(* The context before the stream, asked for at the first match: a second   *)
(* open, whose file must be the one this run opened.  Each of its looks    *)
(* finds the file as it is by then.                                        *)
(***************************************************************************)
HookSteps(from, to) ==
  /\ Hooking /\ hook.at = from
  /\ hook' = to
  /\ UNCHANGED <<world, pc, file, todo, reader, scan, cursor, got, history, late, runs>>

\* fstat: the same file, and not shorter than the position.
HookOpen ==
  HookSteps("none", IF Inode(live) = Inode(file.version) /\ Size(live) >= file.start
                    THEN [NoHook EXCEPT !.at = "head"] ELSE Answer(<<>>))

HookHead ==
  HookSteps("head", IF file.hash = None
                         \/ LineHash(Under(file.version), file.begins) = file.hash
                    THEN [NoHook EXCEPT !.at = "tail"] ELSE Answer(<<>>))

\* Mutant: a first line that is the same is enough (before issue #34).
HookTail_Trusts == HookSteps("tail", [NoHook EXCEPT !.at = "lines"])

\* The bytes before the position, as the open of this run found them.
HookTail ==
  HookSteps("tail", IF file.seed \in {None, <<>>}
                         \/ TailOf(Under(file.version), file.start, Len(file.seed)) = file.seed
                    THEN [NoHook EXCEPT !.at = "lines"] ELSE Answer(<<>>))

HookReads ==
  HookSteps("lines", Answer(LinesBefore(Under(file.version), file.start,
                                        GroupWants(scan, setup.context), file.line, "log")))

\* Of the copy, if it had a line to give.
CopyContext(n) ==
  IF got[1].path = "copy"
  THEN LinesBefore(Text(1), cursor.offset, n, cursor.line, "copy")
  ELSE <<>>

ContextBefore ==
  [n \in 1..setup.context |-> IF file.copied THEN CopyContext(n) ELSE hook.lines]

\* The scan has its answer, if it asks.
Answered == (Hooking => hook.at = "done") /\ hook' = NoHook

(***************************************************************************)
(* The read.                                                               *)
(***************************************************************************)
\* One line from the buffer, taken by the scan before the next is looked for.
Consume ==
  /\ pc = "consume"
  /\ HasLine(SkipHole(reader))
  /\ Answered
  /\ LET r    == SkipHole(reader)
         next == NextLine(r)
     IN /\ reader' = next.reader
        /\ seen' = seen \o Nuls(r.hole) \o SubSeq(r.buf, r.pos + 1, next.reader.pos)
        /\ got' = got \o next.yields
        /\ scan' = IF next.yields = <<>> THEN scan
                   ELSE Feed(scan, next.yields[1], setup.context, setup.cap, ContextBefore)
  /\ UNCHANGED <<world, pc, file, todo, cursor, told, alerted, origin, was, blind, late, runs>>

\* No line left in it: the consumed bytes join the tail.
Dry ==
  /\ pc = "consume"
  /\ ~HasLine(SkipHole(reader))
  /\ reader' = FoldTail(SkipHole(reader))
  /\ pc' = "read"
  /\ UNCHANGED <<world, file, todo, scan, cursor, got, history, asked, runs>>

PartText == IF reader.path = "copy" THEN Text(1) ELSE Under(file.version)

ReadChunk ==
  /\ pc = "read"
  /\ LET chunk == Upto(From(PartText, reader.at), setup.chunk)
     IN reader' = [reader EXCEPT !.buf = @ \o chunk, !.at = @ + Len(chunk),
                                 !.at_end = chunk = <<>>]
  /\ pc' = "check"
  /\ UNCHANGED <<world, file, todo, scan, cursor, got, history, asked, runs>>

\* Mutant: the bytes before the position are not compared (before issue #34).
StillTheFile_NoTail ==
  LET text == Under(file.version)
  IN /\ Len(text) >= reader.offset
     /\ file.hash = None \/ LineHash(text, file.begins) = file.hash

\* _still_the_file: asked of a plain live file after every read.
StillTheFile ==
  LET text == Under(file.version)
  IN /\ Len(text) >= reader.offset
     /\ file.hash = None \/ LineHash(text, file.begins) = file.hash
     /\ TailOf(text, reader.offset, Len(reader.tail)) = reader.tail

Asks == ~setup.zip /\ reader.path = "log"

\* The chunk is kept, or the part ends: at its end, or because the file is
\* another one, and then what was read is dropped.
Check ==
  /\ pc = "check"
  /\ LET lost == Asks /\ ~StillTheFile
         ends == lost \/ reader.at_end
     IN /\ reader' = IF lost THEN [reader EXCEPT !.truncated = TRUE, !.at_end = FALSE]
                     ELSE IF ends /\ todo # <<>> THEN todo[1]
                     ELSE reader
        /\ todo' = IF ends THEN <<>> ELSE todo
        /\ seen' = IF ends /\ todo # <<>> THEN <<>> ELSE seen
        /\ pc' = IF ends /\ todo = <<>> THEN "ended" ELSE "consume"
  /\ UNCHANGED <<world, file, scan, cursor, got, told, alerted, origin, was, blind, asked, runs>>

\* No line comes any more: the group that waits is taken.
LastGroup ==
  /\ pc = "ended" /\ scan.group # <<>>
  /\ Answered
  /\ scan' = EndGroup(scan, setup.context, setup.cap, ContextBefore)
  /\ UNCHANGED <<world, pc, file, todo, reader, cursor, got, history, late, runs>>

(***************************************************************************)
(* The end of the run: its mail accepted, the cursor is where the read     *)
(* ended; refused, a file with an entry keeps it and one without gets the  *)
(* place where the read began.                                             *)
(***************************************************************************)
Settled == setup.zip /\ reader.at_end

\* A catch-up whose live file was truncated before a line came out of it
\* keeps its place.
Stopped == file.verdict \in {"rotated", "truncated"} /\ reader.truncated /\ got = <<>>

EndCursor ==
  [offset |-> reader.offset, ino |-> Inode(file.version), hash |-> file.hash,
   line |-> reader.line, stamp |-> IF Settled THEN file.stamp ELSE None,
   anchor |-> IF setup.zip THEN None ELSE AnchorOf(TailNow(reader))]

\* Mutant: the cursor before an unread stream says the stream is read.
StartCursor_Settled ==
  [offset |-> file.start, ino |-> Inode(file.version), hash |-> file.hash,
   line |-> file.line, stamp |-> IF setup.zip THEN file.stamp ELSE None,
   anchor |-> IF setup.zip THEN None ELSE AnchorOf(file.seed)]

StartCursor ==
  [offset |-> file.start, ino |-> Inode(file.version), hash |-> file.hash,
   line |-> file.line, stamp |-> None,
   anchor |-> IF setup.zip THEN None ELSE AnchorOf(file.seed)]

Reported == pc = "ended" /\ scan.group = <<>>

Accepted ==
  /\ Reported
  /\ pc' = "idle"
  /\ cursor' = IF Stopped THEN cursor ELSE EndCursor
  /\ told' = told \o got
  /\ alerted' = alerted \union
                  {<<IF m.path = "copy" THEN 1 ELSE file.version, m.number>> : m \in Range(scan.matches)}
  /\ was' = IF Stopped THEN was ELSE seen
  /\ UNCHANGED <<world, file, todo, reader, scan, got, seen, origin, blind, asked, runs>>

Refused ==
  /\ Reported
  /\ pc' = "idle"
  /\ cursor' = IF Saved THEN cursor ELSE StartCursor
  /\ was' = IF Saved THEN was ELSE Upto(seen, file.start)
  /\ UNCHANGED <<world, file, todo, reader, scan, got, told, alerted, seen, origin, blind, asked,
                 runs>>

Next ==
  \/ Append_ \/ Replace
  \/ OpenUnchanged \/ OpenHead \/ OpenTail
  \/ HookOpen \/ HookHead \/ HookTail \/ HookReads
  \/ Consume \/ Dry \/ ReadChunk \/ Check \/ LastGroup
  \/ Accepted \/ Refused

Spec == Init /\ [][Next]_vars
=============================================================================
