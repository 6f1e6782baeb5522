------------------------------ MODULE CatchUp ------------------------------
(***************************************************************************)
(* One section's read of one log that may rotate at any moment: the        *)
(* verdict on the live file (cursor.identify), the search for the copy     *)
(* that holds the saved position (rotation.plan_catch_up), the read of     *)
(* that copy's tail, of every newer copy and of the live file              *)
(* (CatchUpSource), and the position saved when the mail was accepted.     *)
(*                                                                         *)
(* logrotate and the program that logs (RotatingLog) move between any two  *)
(* steps.  Runs of logalert do not overlap: they hold the run lock         *)
(* (RunCycle).  Offsets count lines; a first line stands for its hash, the *)
(* line before a position for the hash of the 4 KiB before it.             *)
(***************************************************************************)
EXTENDS RotatingLog, SequencesExt

CONSTANTS
  Slack,      \* _SLACK, in seconds
  FromStart,  \* start = beginning
  Still,      \* steps of a run beside which the world stands still: none in the code
  MaxFailures \* bound: runs that die or whose mail is refused

Steps == {"list", "stat", "try", "chain", "live"}

ASSUME SearchAssumption ==
  /\ Slack \in Nat /\ MaxFailures \in Nat
  /\ FromStart \in BOOLEAN /\ Still \subseteq Steps

\* None is no cursor, no open file and no copy that was read.
ASSUME NoneAssumption ==
  LET Mark == Nat \cup {None}
      Verdicts == {"first-sight", "continue", "rotated", "truncated"}
  IN  /\ None \notin [off : Nat, ino : Inodes, fp : Mark, anchor : Mark, seen : Nat, mtime : Mark]
      /\ None \notin [ino : Inodes, verdict : Verdicts, fp : Mark, start : Nat, seed : Mark,
                      off : Nat, anchor : Mark]
      /\ None \notin [ino : Inodes, fp : Nat, start : Nat, off : Nat, anchor : Mark, mtime : Nat]

VARIABLES
  saved,    \* the cursor in the state file, or None
  pc,       \* where the run is
  live,     \* LogFile: the live file as opened, or None when it is absent
  names,    \* the names os.scandir gave
  listing,  \* what the names were found to be
  again,    \* whether this is the second listing
  queue,    \* the candidates still to be tried, in the order of the stages
  moved,    \* a candidate was not the file the listing saw
  unreadable, \* the copies that could not be read, by name and identity
  chain,    \* the copies still to be read
  last,     \* the last copy read that has a first line, or None
  got,      \* the lines read, in order
  mailed,   \* history: line -> accepted mails that carried it, up to 2
  origin,   \* history: the first line that is logalert's to mail
  failures, \* history
  lost,     \* history: the lines of copies of which a run said that it could not read them
  warned,   \* history: a run has said that no copy holds the position (_nothing_matched)
  calm      \* whether a rotation or a compression may begin before this run ends

search == <<names, listing, again, queue, moved, unreadable>>
run == <<pc, live, search, chain, last, got>>
history == <<mailed, origin, failures, lost, warned>>
vars == <<setup, world, saved, run, history, calm>>

FirstLine(t) == IF t = <<>> THEN None ELSE t[1]
Anchor(t, off) == IF off = 0 \/ off > Len(t) THEN None ELSE t[off]

\* The lines behind a position; a banner, line 0, is its file's first line and no one's to report.
Rest(t, off) == SubSeq(t, IF off = 0 /\ FirstLine(t) = 0 THEN 2 ELSE off + 1, Len(t))

Idle ==
  /\ pc = "idle" /\ live = None /\ names = {} /\ listing = {} /\ again = FALSE
  /\ queue = <<>> /\ moved = FALSE /\ unreadable = {}
  /\ chain = <<>> /\ last = None /\ got = <<>>

Init ==
  /\ WorldInit /\ Idle
  /\ saved = None
  /\ mailed = [l \in Lines |-> 0] /\ origin = 1 /\ failures = 0 /\ lost = {}
  /\ warned = FALSE /\ calm = TRUE

-----------------------------------------------------------------------------
(* The live file: cursor.LogFile and cursor.identify *)

Verdict(i) ==
  LET t == Text(i)
      differs == saved.fp # None /\ t # <<>> /\ FirstLine(t) # saved.fp
      cut == \/ saved.fp # None /\ t = <<>>
             \/ Len(t) < saved.off
             \/ Anchor(t, saved.off) # saved.anchor
  IN  IF saved = None THEN "first-sight"
      ELSE IF i # saved.ino \/ differs THEN "rotated"
      ELSE IF cut THEN "truncated" ELSE "continue"

StartOffset(v, t) ==
  CASE v = "first-sight" -> IF FromStart THEN 0 ELSE Len(t)
    [] v = "continue" -> saved.off
    [] OTHER -> 0

Opened(i) ==
  LET t == Text(i)
      off == StartOffset(Verdict(i), t)
  IN  [ino |-> i, verdict |-> Verdict(i), fp |-> FirstLine(t),
       start |-> off, seed |-> Anchor(t, off), off |-> off, anchor |-> Anchor(t, off)]

\* Only a live file that is read on from the cursor, or for the first time, needs no search.
Open ==
  /\ pc = "idle" /\ dir[Live] # None
  /\ live' = Opened(dir[Live]) /\ held' = {dir[Live]}
  /\ pc' = IF Verdict(dir[Live]) \in {"continue", "first-sight"} THEN "live" ELSE "list"
  /\ origin' = IF saved # None THEN origin
               ELSE IF FromStart /\ Rest(Text(dir[Live]), 0) # <<>> THEN Rest(Text(dir[Live]), 0)[1]
               ELSE written + 1
  /\ calm' = (setup.spaced => rot = AtRest)
  /\ UNCHANGED <<file, dir, writer, rot, written, rotations, now, saved, search, chain, last,
                 got, mailed, failures, lost, warned>>

Absent ==
  /\ pc = "idle" /\ dir[Live] = None /\ saved # None
  /\ pc' = "list" /\ calm' = (setup.spaced => rot = AtRest)
  /\ UNCHANGED <<world, saved, live, search, chain, last, got, history>>

\* No live file and no cursor: nothing to do this run.
NothingYet == pc = "idle" /\ dir[Live] = None /\ saved = None /\ UNCHANGED vars

-----------------------------------------------------------------------------
(* The search: rotation.scan_directories and rotation.plan_catch_up *)

List ==
  /\ pc = "list"
  /\ names' = {n \in Names : dir[n] # None}
  /\ pc' = "stat"
  /\ calm' = (calm /\ (setup.spaced => rot = AtRest /\ \A k \in 1..Kept : ~Both(k)))
  /\ UNCHANGED <<world, saved, live, listing, again, queue, moved, unreadable, chain, last, got,
                 history>>

IsLive(a) == live # None /\ a.ino = live.ino

\* Every file listed but the live one.
Everything(L) == {a \in L : ~IsLive(a)}

\* The archives of this log among them; while .N is being compressed it stands for .N.gz.
Archives(L) ==
  {a \in Everything(L) : a.k > 0 /\ ~(a.gz /\ \E b \in L : b.k = a.k /\ ~b.gz)}

\* newer: by number among archives of the log, by time if the match is not one.
Newer(a, b) == IF b.k > 0 THEN a.k < b.k ELSE a.mtime > b.mtime

\* Mutant: the newest copy is read first.
OldestFirst_Reversed(S) ==
  [i \in 1..Cardinality(S) |-> CHOOSE a \in S : Cardinality({b \in S : b.k < a.k}) = i - 1]

\* _oldest_first: archives have one number each.
OldestFirst(S) ==
  [i \in 1..Cardinality(S) |-> CHOOSE a \in S : Cardinality({b \in S : b.k > a.k}) = i - 1]

NewestFirst(S) == LET s == OldestFirst(S) IN [i \in DOMAIN s |-> s[Len(s) + 1 - i]]

Recent(a) == a.mtime >= saved.seen - Slack

\* The candidates in the order of the stages: the copy the cursor is parked on by its time
\* (its own inode first, and it alone when there is no first line to go by), the copies
\* written since the last run, the inode, the older copies.
Candidates(L) ==
  LET arch == Archives(L)
      own(a) == a.ino = saved.ino
      parked == IF saved.mtime = None THEN {} ELSE {a \in arch : a.mtime = saved.mtime}
      byTime == OldestFirst({a \in parked : own(a)})
                  \o (IF saved.fp = None THEN <<>> ELSE OldestFirst({a \in parked : ~own(a)}))
      byInode == IF live # None /\ live.verdict = "truncated" THEN {}
                 ELSE {a \in Everything(L) : own(a) /\ (saved.fp # None \/ a.k > 0)}
      inode == IF byInode = {} THEN <<>> ELSE <<CHOOSE a \in byInode : TRUE>>
      stage(s, of) == [i \in DOMAIN s |-> [copy |-> s[i], stage |-> of]]
  IN  stage(byTime, "mtime")
        \o (IF saved.fp = None THEN <<>>
            ELSE stage(OldestFirst({a \in arch : Recent(a)}), "recent"))
        \o stage(inode, "inode")
        \o (IF saved.fp = None THEN <<>>
            ELSE stage(NewestFirst({a \in arch : ~Recent(a)}), "older"))

Identities(L) == {<<a.k, a.gz, a.ino>> : a \in Everything(L)}

\* What could not be read is warned about once and not tried again under its name.
Identity(a) == <<a.k, a.gz, a.ino>>
Readable(L) == {a \in Archives(L) : Identity(a) \notin unreadable}

\* _written_since: with no match, the copies written since the last run.
WrittenSince(L) ==
  OldestFirst({a \in Readable(L) : IF saved.mtime # None THEN a.mtime >= saved.mtime
                                   ELSE Recent(a)})

Found == {[k |-> n[1], gz |-> n[2], ino |-> dir[n], size |-> Len(Text(dir[n])),
           mtime |-> file[dir[n]].mtime] : n \in {m \in names : dir[m] # None}}

\* A second listing that shows what the first did is not searched again.
Stat ==
  /\ pc = "stat"
  /\ listing' = Found
  /\ queue' = IF again /\ ~moved /\ Identities(Found) = Identities(listing) THEN <<>>
              ELSE Candidates(Found)
  /\ moved' = FALSE
  /\ names' = {}
  /\ pc' = "try"
  /\ UNCHANGED <<world, saved, live, again, unreadable, chain, last, got, history, calm>>

\* _content_matches, of a file still under the name it was listed by.
Fits(a) ==
  LET t == Text(a.ino) IN
  /\ saved.fp # None => FirstLine(t) = saved.fp
  /\ saved.off <= IF a.gz THEN Len(t) ELSE a.size
  /\ Anchor(t, saved.off) = saved.anchor

Copy(a, from, to) ==
  LET t == Text(a.ino) IN
  [ino |-> a.ino, fp |-> FirstLine(t), start |-> from, off |-> to, anchor |-> Anchor(t, to),
   mtime |-> file[a.ino].mtime]

\* What is read of a copy between two of its lines.
ReadCopy(a, from, to) ==
  /\ got' = got \o Rest(SubSeq(Text(a.ino), 1, to), from)
  /\ last' = IF FirstLine(Text(a.ino)) = None THEN last ELSE Copy(a, from, to)

\* A permission, or a corrupt stream.
Flawed(a, from) ==
  /\ failures < setup.flaws /\ failures' = failures + 1
  /\ lost' = lost \cup ToSet(Rest(Text(a.ino), from))

\* A copy that is open is read to its end, or as far as it goes; then the next file is read.
ReadOn(a, from) ==
  \/ ReadCopy(a, from, Len(Text(a.ino))) /\ UNCHANGED <<failures, lost>>
  \/ \E to \in from..Len(Text(a.ino)) : ReadCopy(a, from, to) /\ Flawed(a, to)

At(a) == dir[<<a.k, a.gz>>]

\* A candidate under the name it was listed by, not known to be unreadable; or not.
Listed(a) == At(a) = a.ino /\ Identity(a) \notin unreadable

\* The candidates behind one that is not the match.  When the parked copy's name moved on,
\* the other stages over this listing would guess.
Onward(m) ==
  IF m /\ Head(queue).stage = "mtime" /\ ~\E i \in 2..Len(queue) : queue[i].stage = "mtime"
  THEN <<>> ELSE Tail(queue)

TryRenamed ==
  /\ pc = "try" /\ queue # <<>>
  /\ At(Head(queue).copy) # Head(queue).copy.ino /\ Identity(Head(queue).copy) \notin unreadable
  /\ moved' = TRUE
  /\ queue' = Onward(TRUE)
  /\ UNCHANGED <<world, saved, pc, live, names, listing, again, unreadable, chain, last, got,
                 history, calm>>

TryMisfit ==
  /\ pc = "try" /\ queue # <<>>
  /\ LET a == Head(queue).copy IN Identity(a) \in unreadable \/ (Listed(a) /\ ~Fits(a))
  /\ queue' = Onward(moved)
  /\ UNCHANGED <<world, saved, pc, live, names, listing, again, moved, unreadable, chain, last,
                 got, history, calm>>

TryUnreadable ==
  /\ pc = "try" /\ queue # <<>>
  /\ LET a == Head(queue).copy IN
     /\ Listed(a) /\ Flawed(a, 0)
     /\ unreadable' = unreadable \cup {Identity(a)}
  /\ queue' = Onward(moved)
  /\ UNCHANGED <<world, saved, pc, live, names, listing, again, moved, chain, last, got,
                 mailed, origin, warned, calm>>

\* The match is read on the spot: its handle is the one that confirmed it.
TryFits ==
  /\ pc = "try" /\ queue # <<>>
  /\ LET a == Head(queue).copy IN
     /\ Listed(a) /\ Fits(a)
     /\ ReadOn(a, saved.off)
     /\ chain' = OldestFirst({b \in Readable(listing) : b # a /\ Newer(b, a)})
  /\ queue' = <<>>
  /\ pc' = "chain"
  /\ UNCHANGED <<world, saved, live, names, listing, again, moved, unreadable, mailed, origin,
                 warned, calm>>

\* Lines of copies last written before the last run ended.
Before == {l \in Lines : \E a \in Archives(listing) :
                            ~Recent(a) /\ \E i \in DOMAIN Text(a.ino) : Text(a.ino)[i] = l}

\* Nothing fits: list once more; still nothing: read what was written since the last run.
Unmatched ==
  /\ pc = "try" /\ queue = <<>>
  /\ IF again
     THEN /\ chain' = WrittenSince(listing) /\ pc' = "chain" /\ again' = again /\ warned' = TRUE
          /\ lost' = IF unreadable = {} THEN lost ELSE lost \cup Before
     ELSE chain' = chain /\ pc' = "list" /\ again' = TRUE /\ UNCHANGED <<lost, warned>>
  /\ UNCHANGED <<world, saved, live, names, listing, queue, moved, unreadable, last, got, mailed,
                 origin, failures, calm>>

-----------------------------------------------------------------------------
(* The read: rotation.Segment and rotation.CatchUpSource *)

\* Mutant: a run that ends on a copy leaves the cursor as it was.
Parked_Stays == saved

\* The cursor of a run that ended on a copy, or had none to end on.
Parked ==
  IF last = None THEN saved
  ELSE [off |-> last.off, ino |-> last.ino, fp |-> last.fp, anchor |-> last.anchor,
        seen |-> now, mtime |-> last.mtime]

LiveCursor ==
  [off |-> live.off, ino |-> live.ino, fp |-> live.fp, anchor |-> live.anchor,
   seen |-> now, mtime |-> None]

StartCursor ==
  [off |-> live.start, ino |-> live.ino, fp |-> live.fp, anchor |-> live.seed,
   seen |-> now, mtime |-> None]

\* Mutant: the run ends and keeps the live file open.
Ended_LeavesOpen ==
  /\ pc' = "idle" /\ live' = None /\ names' = {} /\ listing' = {} /\ again' = FALSE
  /\ queue' = <<>> /\ moved' = FALSE /\ unreadable' = {}
  /\ chain' = <<>> /\ last' = None /\ got' = <<>>
  /\ calm' = TRUE
  /\ UNCHANGED <<file, dir, writer, held, rot, written, rotations, now, origin, lost, warned>>

Ended ==
  /\ pc' = "idle" /\ live' = None /\ names' = {} /\ listing' = {} /\ again' = FALSE
  /\ queue' = <<>> /\ moved' = FALSE /\ unreadable' = {}
  /\ chain' = <<>> /\ last' = None /\ got' = <<>>
  /\ held' = {} /\ file' = Referred(dir, {})
  /\ calm' = TRUE
  /\ UNCHANGED <<dir, writer, rot, written, rotations, now, origin, lost, warned>>

\* The mail is accepted, or there is none to send; or it is refused, and the cursor stays,
\* at the start of the read for a file that had none.
Finish(cursor) ==
  /\ Ended
  /\ \/ /\ saved' = cursor
        /\ mailed' = [l \in Lines |-> LET n == mailed[l] + Cardinality({i \in DOMAIN got : got[i] = l})
                                      IN  IF n > 2 THEN 2 ELSE n]
        /\ UNCHANGED failures
     \/ /\ got # <<>> /\ failures < MaxFailures /\ failures' = failures + 1
        /\ saved' = IF saved = None THEN StartCursor ELSE saved
        /\ UNCHANGED mailed

Dies ==
  /\ pc # "idle" /\ failures < MaxFailures /\ failures' = failures + 1
  /\ Ended
  /\ UNCHANGED <<saved, mailed>>

\* Mutant: the run goes on past a member that is not the file listed (before issue #32).
Stopped_GoesOn ==
  /\ pc = "chain" /\ chain # <<>> /\ At(Head(chain)) # Head(chain).ino
  /\ chain' = Tail(chain)
  /\ UNCHANGED <<world, saved, pc, live, search, last, got, history, calm>>

\* A member that is not the file listed stops the stream.
Stopped ==
  /\ pc = "chain" /\ chain # <<>> /\ At(Head(chain)) # Head(chain).ino
  /\ Finish(Parked)

\* A member is opened and read; or it cannot be opened, and the next one is.
ReadNext ==
  /\ pc = "chain" /\ chain # <<>> /\ At(Head(chain)) = Head(chain).ino
  /\ \/ ReadOn(Head(chain), 0)
     \/ Flawed(Head(chain), 0) /\ UNCHANGED <<got, last>>
  /\ chain' = Tail(chain)
  /\ UNCHANGED <<world, saved, pc, live, search, mailed, origin, warned, calm>>

\* _compressed_under_us: the last copy is the live handle's own file.
Absorbed ==
  /\ live # None /\ live.verdict = "rotated"
  /\ ~\E a \in listing : a.ino = live.ino
  /\ last # None
  /\ last.start = 0 /\ live.fp # None /\ last.fp = live.fp
  /\ last.mtime = file[live.ino].mtime /\ last.off >= Len(Text(live.ino))

NoLiveRead ==
  /\ pc = "chain" /\ chain = <<>> /\ (live = None \/ Absorbed)
  /\ Finish(Parked)

ToLive ==
  /\ pc = "chain" /\ chain = <<>> /\ live # None /\ ~Absorbed
  /\ pc' = "live"
  /\ UNCHANGED <<world, saved, live, search, chain, last, got, history, calm>>

\* Mutant: only the size is asked for.
StillTheFile_BySize == Len(Text(live.ino)) >= live.off

\* _still_the_file, asked after every chunk.
StillTheFile ==
  LET t == Text(live.ino) IN
  /\ Len(t) >= live.off
  /\ live.fp # None => FirstLine(t) = live.fp
  /\ Anchor(t, live.off) = live.anchor

ReadLive ==
  /\ pc = "live" /\ StillTheFile /\ Len(Text(live.ino)) > live.off
  /\ LET t == Text(live.ino) IN
     /\ got' = got \o Rest(t, live.off)
     /\ live' = [live EXCEPT !.off = Len(t), !.anchor = Anchor(t, Len(t))]
  /\ UNCHANGED <<world, saved, pc, search, chain, last, history, calm>>

LiveEnds ==
  /\ pc = "live" /\ StillTheFile /\ Len(Text(live.ino)) = live.off
  /\ Finish(LiveCursor)

\* A catch-up that had nothing of the live file yet parks as if it had stopped.
LiveTruncated ==
  /\ pc = "live" /\ ~StillTheFile
  /\ Finish(IF live.verdict \in {"rotated", "truncated"} /\ live.off = live.start
            THEN Parked ELSE LiveCursor)

RunNext ==
  \/ Open \/ Absent \/ NothingYet
  \/ List \/ Stat \/ TryRenamed \/ TryMisfit \/ TryUnreadable \/ TryFits \/ Unmatched
  \/ Stopped \/ ReadNext \/ NoLiveRead \/ ToLive \/ ReadLive \/ LiveEnds \/ LiveTruncated

\* A rotation begins, or after the first listing a compression.
Begins ==
  \/ rotations' # rotations
  \/ /\ again \/ pc \in {"stat", "try", "chain"}
     /\ \E k \in 1..Kept : ~Both(k) /\ Both(k)'

\* What goes on beside a run.  From the last read of the live file to the end that is found
\* after it less passes than _SLACK allows for.
Beside ==
  /\ WorldNext
  /\ pc \notin Still
  /\ pc = "live" => now' = now
  /\ IF pc # "idle" /\ Begins THEN calm /\ calm' = ~setup.spaced ELSE UNCHANGED calm
  /\ UNCHANGED <<saved, run, history>>

Next == UNCHANGED setup /\ (RunNext \/ Dies \/ Beside)

Spec == Init /\ [][Next]_vars

-----------------------------------------------------------------------------
(* Properties *)

Marks == Tokens \cup {None}
Positions == 0..setup.lines + 1
Seconds == 0..MaxSeconds
Cursors == [off : Positions, ino : Inodes, fp : Marks, anchor : Marks, seen : Seconds,
            mtime : Seconds \cup {None}]
Copies == [k : 0..Kept + 1, gz : BOOLEAN, ino : Inodes, size : Positions, mtime : Seconds]
LogFiles == [ino : Inodes, verdict : {"first-sight", "continue", "rotated", "truncated"},
             fp : Marks, start : Positions, seed : Marks, off : Positions, anchor : Marks]
Segments == [ino : Inodes, fp : Tokens, start : Positions, off : Positions, anchor : Marks,
             mtime : Seconds]

\* A run has one live handle at most, from its open to its end, and everything it keeps has
\* its type.
TypeOK ==
  /\ WorldTypeOK
  /\ saved \in Cursors \cup {None}
  /\ pc \in Steps \cup {"idle"}
  /\ live \in LogFiles \cup {None}
  /\ held = IF live = None THEN {} ELSE {live.ino}
  /\ pc = "live" => live # None
  /\ names \subseteq Names /\ listing \subseteq Copies
  /\ again \in BOOLEAN /\ moved \in BOOLEAN /\ calm \in BOOLEAN
  /\ queue \in Seq([copy : Copies, stage : {"mtime", "recent", "inode", "older"}])
  /\ chain \in Seq(Copies)
  /\ last \in Segments \cup {None}
  /\ got \in Seq(Lines)
  /\ mailed \in [Lines -> 0..2]
  /\ origin \in 1..setup.lines + 1 /\ failures \in 0..MaxFailures + setup.flaws
  /\ unreadable \subseteq (0..Kept + 1) \X BOOLEAN \X Inodes /\ lost \subseteq Lines
  /\ warned \in BOOLEAN

\* The promise of the catch-up (docs/USAGE.md, "Rotation"): however the log is rotated,
\* copied, truncated or packed before and during the runs, whichever inode is used again and
\* wherever a run stops, dies or parks, a line older than one that was mailed has been
\* mailed, or no file that has a name holds it any more, or it was in a copy of which a run
\* has said that it could not read it -- and what is in the other copies goes out.
NoLineSkipped ==
  \A b \in Lines : mailed[b] > 0 =>
    \A a \in origin..b : mailed[a] > 0 \/ a \in Gone \/ a \in lost

\* The matched copy, the newer ones and the live file come in the order they were written,
\* though their names move while they are read (_oldest_first, CatchUpSource).
InOrder == \A i, j \in DOMAIN got : i < j => got[i] < got[j]

\* While rotation renames, no line is in two accepted mails -- not from a copy that was
\* chained and is the live handle's own file, and not again by the run after one that
\* stopped or parked on a copy (issues #32, #65) -- unless a run has said that no copy holds
\* the saved position and read what was written since.
MailedOnce == warned \/ \A l \in Lines : mailed[l] < 2
=============================================================================
