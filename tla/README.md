# A verification project for logalert

logalert is run by cron.  A run reads what programs appended to a list of log
files since the last run, mails the lines that match a section's patterns (one
mail per section), and saves where it stopped.  Its promise is *at least once*:
a line that matches is mailed, whatever is refused, killed, full, rotated or
run twice at the same time; and a run that has nothing to say says nothing.

The modules here model the parts of the program that keep that promise, the
configurations check them with TLC on small instances, and the proof modules
prove the most important properties for every instance with TLAPS.

## Inventory

| part | source | state it keeps | operations |
|---|---|---|---|
| run cycle | `run.py` | nothing of its own; the `State`, the `Outcome`, per section `cursors` and `starts` | preflight, lock, load, expire, opening save, per section read / mail / move / save, release |
| state file | `state.py` | one JSON file: an entry (cursor) per (section, path), a moment per (section, glob) | load, `get`/`set`/`touch`/`forget`, `expire`, `record_run`, atomic save, the proof of room (`reach`) |
| run lock | `lock.py` | the kernel's flock; the lock file's first line: holder, moment, the unsaved markers | acquire, `mark_unsaved`, `clear_unsaved`, release, the stale verdict of a run turned away |
| reset | `__main__.py` | -- | `--reset-state`, all files or one, under the lock |
| transport | `transport.py` | per delivery the child and its process group, or the SMTP session and its answers | `deliver` by sendmail (a child bounded by `mail_timeout`) or SMTP, with or without STARTTLS |
| live file | `cursor.py` | the open handle, the reader's position, tail and line number | identity verdict, line reader, the check after every chunk, cursor |
| rotation | `rotation.py` | the plan: match, chain, verified handle; what of it was read | list the directories, four search stages, chain, stop, park, absorb |
| scan | `match.py` | the report: matches, context, gaps, counts; the window's lines that wait | one pass over the lines |
| globs | `globs.py` | -- | expansion, rotated copies left out |
| mail | `mail.py` | the page being rendered: budget, window, size | one section's reports into one text |
| activity log | `activity.py` | the logger's handlers; the destination, whether it has failed | attach (find a socket, open the file), each record, the fallback to stderr, the teardown |
| configuration | `config.py` | -- | parsing and validation, once, before anything runs |
| tools, sandbox | `tools/`, `sandbox/` | -- | release and test tooling |

How they interact: `run` holds the lock from before the state is loaded until
after the last save; everything else happens inside.  Processes share the lock
file, the state file, the disk both are on, and the logs.  Within a run the live
file (or the copies and then the live file) is a stream of lines; the scan pulls them
one at a time and, at its first match, calls back into the file for the lines before
the position; the reports of a section's files are rendered into one mail; what the
transport answers decides which places are saved; and everything that is worth saying
goes through the activity log, whose destination may fail at any record.  Logs,
rotations, the disk, the mail system and the log daemon belong to others and move at
any time.

What is hard here, and what a component must get right:

* **Two processes** (cron does not wait, an operator resets): one at a time past
  the lock, and whoever is turned away touches nothing and says the right thing.
* **A crash or a kill between any two steps**: what is on disk is always a state
  from which nothing is lost; a half-written line or file is never believed.
* **Order**: cursor after read, save after mail, mark after a failed save, proof
  before the next mail.
* **Partial failure**: one file unreadable, some recipients refused, one save of
  many failing -- the rest goes on and the exit code says so.
* **A full disk after the mail went out**: bounded to one duplicate.
* **Rotation and truncation while reading**: the position belongs to a file that
  has moved, or to one that was refilled under the open handle.
* **Boundaries**: where a chunk, a buffer, a run or a line cap ends must not show in
  the lines, in what identifies the position, or in the report.
* **A mail system that half works**: some recipients refused, a session lost after the
  message, a child that forks, hangs or outlives its parent.
* **A log destination that fails**: nothing that was worth saying is lost, and the
  failure is said once.
* **Ageing**: an entry must not expire while it is still needed.

PROJECT.json lists every hazard at its line with the properties that guard it.

## Modules

| module | what it is |
|---|---|
| `AtLeastOnce` | the abstract promise: a log has lines, some are hits; its saved place may pass a hit only when a mail that carried it has been accepted |
| `RunCycle` | the run as several processes live it: lock, state file, sections, mail, saves, markers, resets, kills, a disk that fills |
| `LockLine` | the lock file's line: in-place writes, the markers of several configurations, the cap, the stale verdict |
| `RotatingLog` | the log the program reads: a writer, logrotate by rename or copytruncate, a compressor, an inode table that uses numbers again |
| `CatchUp` | one log read by run after run while `RotatingLog` moves: verdict, search, chain, live file, saved position |
| `NewFiles` | the globs of one section: expansion, moments, the new-file rule, files that come, grow and go out of reach |
| `LineReader` | bytes: the first line, the anchor, where a first sight starts, and one turn of the line reader's loop over its buffer |
| `Report` | lines: the scan of one physical line, the report it builds, the text rendered of several reports |
| `LogFile` | one file read by run after run, chunk by chunk and line by line, while it grows, is refilled or renamed |
| `AsOnTheFile` | what `LogFile` promises, said of the bytes of the file alone |
| `ActivityLog` | attach, a record's way, the destination's failure, the teardown |
| `Delivery` | one mail by a sendmail child or an SMTP session |
| `Sending` | a call of `main()` composed of the two: deliveries, what is logged of them, interrupts |
| `MCRunCycle`, `MCLockLine`, `MCCatchUp`, `MCNewFiles`, `MCLogFile`, `MCSending` | small instances of them |
| `RunCycleSafety` | types, mutual exclusion and the inductive invariant of `RunCycle`; nothing lost, opened files tracked, places only advance; `RunCycle` implements `AtLeastOnce` |
| `RunCycleBounds` | a clean run is saved, only an unreached log's place expires, a hit goes out twice at most |
| `SendingProofs` | the invariant of a delivery; outcomes are true, failures untaken, nothing that may be signalled outlives a killed child |
| `ActivityProofs` | the invariant of the activity log; each record is in one place, a failure said once, handlers and files are the right ones |
| `LockLineProofs` | the invariant of the lock's line; markers are kept, a stale verdict is true, a stuck holder is noticed |
| `NewFilesProofs` | the invariants of a run's globs; a new file stays new, the past stays unsent |
| `LogFileProofs` | the invariants of one file and its readers; the tail is the bytes before the offset, a continued read has the old bytes before it, a refilled file is read as one version |
| `CatchUpProofs` | the types of a catch-up under every kind of rotation; under rename the order of what is read, that it is mailed once, and that nothing is skipped |

The modules meet where the code's parts do.  `RunCycle` has a read, a delivery and a
first sight as single steps with the outcomes they can have; `LogFile` and `CatchUp` are
what a read is, `Delivery` what a delivery is, `NewFiles` what decides about a first
sight, `LockLine` what its marker is on disk.  `LogFile` has one copy of a log at most
and all of its bytes, `CatchUp` any number of copies and lines for bytes.

### RunCycle

*State.*  `disk` is the state file (item -> entry or `None`; an item is one
(section, path) pair, an entry an offset in lines and the day of `last_seen`),
`marker` the unsaved marker of this state file on the lock line, `holder` the
flock.  `mem`, `known`, `sec`, `todo`, `cur`, `start`, `end`, `failed` are a
process's own memory: its `State`, `RunLock.unsaved`, the section it is in, the
files it has still to open, the file it has open, `starts`, `cursors`, whether
its `Outcome` has a failed item.  `len`, `hits`, `room`, `day` are the world:
lines per log, which of them match, how large a state file the disk would take
now, the date.  `copies`, `since`, `reached`, `mishaps` are history.

*Actions.*  One per step after which another process, the disk or a signal can
come in: `Acquire`/`TurnedAway`, `Load`/`LoadFails`, `OpeningSave`/`-Fails`,
`ClearMarker`, `BeginSection`, `OpenFile`/`SkipFile`, `ReadFile`/`ReadFails`, the
section's four endings `Quiet`, `Accepted`, `Refused`, `AnswerLost`,
`SectionSave`/`-Fails`, `MarkUnsaved`/`MarkFails`, `Release`, and for
`--reset-state` `ResetLoad`, `ResetSave`/`-Fails`.  `Kill` ends a process between
any two of them.  The world appends, fills and frees the disk, and turns the day.

*What is abstracted.*  A log is its lines' number; a pattern is whether a line
is a hit; a file's read ends at the log's length at that moment.  `write_atomically`
is one step that either replaces the file or leaves it (the temporary file is
never read by anyone).  A write fails exactly when `Size` of what is written
exceeds `room`.  The date changes only while nobody holds the lock: a run is
short beside a day.  A refusal before the lock (`choose`, `check_state_dir`, an
unreadable lock file) changes no state and is the process staying idle.

### LockLine

*State.*  `file` is the lock file as a sequence of cells (holder cells as wide as
the PID, one per marker, a newline), `known`, `info`, `to` a holder's `markers`,
`_info` and the line it is writing, `marked` (history) the marker each
configuration's runs recorded last.  A write is two steps, `WriteLine` over the
front of the file and `CutLine`; a `Kill` may come between.  A run turned away
reads the line without the lock, `FirstRead` and, when that says stale,
`Confirm` after `_RECHECK_AFTER`.

One tick of the clock is longer than a holder takes from the flock to its line
and no longer than `_RECHECK_AFTER`: that is lock.py's own assumption about the
window it confirms over.  `lock_stale` is a tick at least: it is a whole number of seconds,
1 or more (config.py:249), and the wait is 0.2.  (With none, a holder that took the lock
in the tick of the first read is past `lock_stale` at the second, and `StaleIsStale` is
false.)

*Limit.*  `acquire` writes the markers it carries without asking the cap.  A
holder whose PID is a digit longer can push the last marker of a full line past
`_INFO_CAP`; that marker is then read by no one.  `MarkersKept` says that it is
lost whole and never misread (`overlong`).

### RotatingLog and CatchUp

*State of the world.*  `file` is the inode table (text, mtime), `dir` the names,
`writer` the inode the program has open, `held` the one the run has, `rot` where
logrotate is.  An inode without name or handle is blank and may be given out
again.  Lines are numbered in the order of writing; with `Banner` every file
begins with the same line 0.

*State of the run.*  `saved` is the cursor in the state file; `live` the
`LogFile`; `names`, `listing`, `again`, `queue`, `moved`, `unreadable` the search
(`plan_catch_up`'s `listing`, the candidates of its four stages in order, its
`renamed` and its `unreadable`); `chain`, `last`, `got` the `CatchUpSource`.  `mailed`,
`origin`, `failures`, `lost`, `warned` are history.  `setup`, chosen once from `Setups`,
says how the log of this behaviour rotates, so that one run covers several instances.

*Actions.*  `Open`, `Absent`, `NothingYet` are `open_source`.  `List` is
`os.scandir`, `Stat` the stat of what it named and the stages' candidates over
it.  `TryRenamed`, `TryMisfit`, `TryUnreadable`, `TryFits` are one candidate's open
in `_content_matches`; `Unmatched` lists once more and then takes `_written_since`.
`Stopped`, `ReadNext`, `NoLiveRead` and `ToLive` are `CatchUpSource.lines`;
`ReadLive`, `LiveEnds`, `LiveTruncated` the live file's chunks, each behind
`_still_the_file`.  `Finish` is the mail's ending with what it saves: the cursor,
nothing, or the start of a first sight (the whole of that is `RunCycle`'s).
`Dies` ends a run anywhere.  `Beside` is any step of the world between two of
these.

*Copies that cannot be read.*  A permission or a corrupt stream may refuse a copy as a
candidate (`TryUnreadable`: noted by name and identity, not tried again, not in the
chain), as a member that does not open (`ReadNext`) or in the middle of its read
(`ReadOn`, the match's included).  Its unread lines go to `lost`, which `NoLineSkipped`
excuses: what is in every other copy must still go out, once and in order.
`setup.flaws` bounds how often it happens.

*What is abstracted.*  Offsets count lines; a first line stands for its hash and
the line before a position for the hash of the 4 KiB before it.  A copy is read
in one step (it is immutable but for a writer that has not reopened its log).
Names are a number, with or without `.gz`; `gzip` keeps the time of its input.
The clock's unit is longer than `_SLACK`, so `Slack` is 0 and the clock stands
while the live file's end is confirmed.

*What is assumed, where a run's configuration says so.*
`Spaced`: one rotation at most goes on during a run, and no copy moves twice
after its listing -- docs/USAGE.md says that a second one reaches the warning.
`Filled`: a new or truncated live file has its first line before anything else
happens; without it, see `emptied`.  `Still`: steps of a run beside which the
world does not move; `{"stat"}` makes a listing one step; without it, see `torn`.

### NewFiles

*State.*  `disk` is the saved state of one section: `entry`, a place per path,
and `moment`, per glob the start of the last saved run that listed its
directories, in whole seconds.  The world: `born`, `mtime` and `length` of each
file, `barred` the files a permission closes, `dir` each directory (there,
barred, away), `files` the section's list.  The run: `began`, `state`,
`unlisted` (entries of `files` still to expand), `globsOf` (which globs matched
a path), `todo`, `seen` (globs whose moment is to move), `whole` (the verdict of
the rule for the next file), `starts`, `cursors`.  `mailed`, `past`, `missed`
are history.

*Actions.*  `StartRun` takes its moment before the lock, so another run may have
come and gone since.  `Expand` is one turn of `_files`' loop: a path, or a glob
over what its directories hold now.  For each path then `Judge` (`_new_file` and its
stat), and `OpenFails`, `Absent`, `Read` or `ReadFails`.  `Accepted`, `Refused`,
`SaveFails` and `Kill` end the run, `ResetOne` and `ResetAll` are
`--reset-state`, `Edit` a change of `files` beside no run.  `Appear`, `Write`,
`Bar`/`Unbar`, `Leave`/`Return` and `Tick` come between any two of these.

*What is abstracted.*  Every line is a hit.  `Matches` is the set of regular files a glob's
pattern names, rotated copies already left out.  Open and read are one step
(what may happen between them is `CatchUp`'s).  One section; no ageing, no
`--from-start`.

*What is assumed.*  `Still`: no directory comes or goes between a run's first
listing and its last open, and no file appears between two of its listings.

### LineReader, Report, LogFile and AsOnTheFile

*State.*  `setup` is the instance: the versions of the file's bytes, how the second
replaces the first, chunk size, compressed or not, context and cap.  The world: `live`,
which version the name leads to, and `len`, how much of each is written.  The run:
`file` (what the open found), `reader` (the `LineReader`: offset, line, buffer, position,
hole, mark, carried, tail), `todo` (the live file behind a copy), `scan` (the locals of
`match.scan` and its report), `hook` (`context_before`, while a match asks it for lines,
and its answer).  `cursor` is the saved entry.  `got`, `told`, `alerted`, `seen`, `origin`,
`was`, `blind`, `late` are history.

*Actions.*  `OpenHead` and `OpenTail` are the two looks of `LogFile.__init__` (fstat and
first line; then the bytes before the position), `OpenUnchanged` the compressed file
whose stat is the recorded one.  `Consume` is one line from the buffer to the scan,
`Dry` the fold of what was consumed into the tail, `ReadChunk` one `read1`, `Check` the
question `_still_the_file` and what follows from it.  The first match of a run that
continues asks `context_before` for the lines before the position, and the scan waits for
its four looks: `HookOpen` (fstat), `HookHead` (the first line), `HookTail` (the bytes
before the position), `HookReads` (the lines).  `LastGroup` is the scan's last physical
line, taken when the stream has ended; it may ask as well.  `Accepted` and `Refused` end
the run.  `Append_` and `Replace` move the file between any two looks at the disk; while
lines come from the buffer and no hook asks, the run looks at nothing, so what moves then
has moved just the same by its next look.  `lines_before` and `tail_of` are one look each:
one pass over the bytes before the position, within which nothing moves.  What a handle has
buffered from one look may serve the next, which is the same as no move between them.

*What is abstracted.*  A byte is `nul`, `lf`, `cr` or text; a hash is the bytes it was
taken over; a pattern is a word and an exclude another; priorities are numbers.  The
copy of a renamed file is read from the saved position to its end (the search for it is
`CatchUp`'s).  Rendering counts a header and a `--` as a byte each.

*Why the second module.*  `LineReader` is a loop over a buffer, with a hole that may be
open, a tail completed between folds and a newline looked for one byte past the cap.
`AsOnTheFile` says what should come out of it without any of that: `FileLines` cuts a
text at its newlines and its cap in closed form, `GrepC` chooses matches and windows
from a whole sequence.  The properties compare the two after every step.

*What is assumed.*  In the instances checked a file truncated between the two looks of
an open has been refilled past the position by the second (`torn` is false); see the
limits.  A line of `Awkward` bytes is excused from `ReadOnce`, and context taken of a file
refilled between the hook's last two looks from `ReportIsGrepC`: see the limits.  An error
of the hook's own open or reads is left out (it gives no lines, and a warning).

### ActivityLog, Delivery and Sending

*State of the log.*  `place` is what the command line and the configuration ask for;
`socks`, `node`, `room` the world: what is at each candidate socket path and at the
file's path, whether a write succeeds.  `phase` is where `attach` is, `rejected` the
probe's misses, `handlers` the logger's, `dest` the destination's handler (connected or
not, dead, forwarding, what a failed flush left in its buffer).  `said`, `due`, `kept`,
`printed`, `noticed` are history: the records of the call, those of them at INFO and
above, the ones at the destination, the ones on stderr, and how many were there before
each notice of a failure.

*State of a delivery.*  `at` is where it is, `mail` its recipients, `answers` the
server's at RCPT, `child` and `kin` the sendmail process and one that it started,
`outcome` what was returned or raised, `to_log` what is still to be said of it; `fed` that a
part of the server's reply has come since the last wait for it began; `taken` is history:
for whom the mail system has taken the mail.  Child and kin each have an owner: a wrapper
of ours may have started an MTA that is another user's (sudo, setuid), or the other way
round, and `os.killpg` reaches those of a group it may signal and passes over the others.
It is an error, which the code ignores too, only where it may signal none.

*Actions.*  `Begin`, then one action per candidate and per look of `attach` (`Probe`,
`Construct`, `Lstat`, `OpenFile`, `OpenUdp`, `Wire`, `Fallback`).  `Send` starts a
delivery: `Popen`, `Finished`, `TimesOut`, `Reaped`, `Interrupted`, `Waited` for a
child; `Connect`, `StartTls`, `MailFrom`, `Rcpt`, `Data`, `Quit`, `Broken` for a
session, whose server may send any reply in parts, `Trickles` and `ReadsPart`.  After an
interrupt `Popen`'s `__exit__` waits for the child (`wait`), on Ctrl-C for a quarter of a
second only (`resume`).  `Says` logs one record, `Said` returns, `End` is the teardown, after which the
process may call `main()` again.  `System` is the mail system's side of a child: it
queues the message, forks, exits, or its fork leaves the group or closes its pipes.
`LogWorld` moves what is under the log while the log is what is used next.

*What is external.*  smtplib, subprocess and the logging handlers are modelled from how
the code uses them: a lost connection may come before or after the server took the
message; exit 0 is given for a queued message only; a Unix socket's handler reconnects
once; a flush that failed leaves its record in the stream, and the close tries again.  A
sendmail child is killed by nobody but the run.

### Limits TLC showed

Where an assumption of a configuration is dropped, or a property is stated without its
excuse, TLC finds these.  None is a step the modules leave out.

Catch-up:

* With a line that begins every file *and* a position at offset 0 (a first sight whose
  mail was refused, a truncation at the very start) there is nothing to tell two copies
  by, and the newer one may be taken.  A banner-only position in a copy that is
  compressed is the same.
* Under copytruncate a listing between the copy and the truncation reads the lines from
  both: `InOrder` and `MailedOnce` are stated for rename.
* A rotation so slow that both listings and the reads fall into it ends in the warning
  and mails copies again that are as old as the parked one.
* The copy that holds the position cannot be read, and the file after it was written for
  the last time before the last run ended (it became the live file during that run,
  which read the old handle; then it stayed quiet and was rotated).  Its time is before
  `last_seen` - `_SLACK`, so it is not "written since the last run" (rotation.py:767-768)
  and its lines are passed over, though it is readable and docs/USAGE.md:913 says "the
  copies rotated since the last run are read".  `Before` is exactly what the model
  excuses here; it takes three rotations.
* With fewer copies kept than there are rotations, and even where every file has its first
  line: a run's live handle is rotated away while it reads, so the `last_seen` it saves is
  the end of that read (rotation.py:767); a newer file is written for the last time more
  than `_SLACK` before that, and is rotated; the copy the run was in is then deleted.  The
  next run says that no rotated copy holds the position, and leaves the newer copy out,
  though docs/USAGE.md:501-502 says that what is lost is what the copy with the position
  held after it.  Hence `warned` in `NoneSkipped`.  The run `renamed` keeps as many copies as
  there are rotations; its configuration with `Kept` = 1, three inodes, five lines and
  `filled` logs has this.
* The same without `filled` (`Kept` = 1, three inodes): a position in an empty file has no
  first line; that file's inode, freed, becomes a later live file's, the verdict is a
  "continue", and the copies between are not looked for.  It is the finding of `emptied`
  under rename, and why `NoneSkipped` is of `filled` logs.

One file:

* A copytruncate that empties the file between the two looks of an open: the probe is
  empty, an empty probe is never compared, and the verdict is a "continue" at an offset
  of the old content.  `TornSetups` of MCLogFile have it; with them `SameBytesBefore`
  fails within seconds.
* A refill that begins with all the bytes this run has seen looks like the file
  (`blind`).  cursor.py says so of the bytes it compares.
* A line longer than the cap that arrives in two writes, the first of which two runs
  see: its pieces are consumed by two runs, and a pattern across the border is not
  found (`HitsAreAlerted` excuses cut lines).
* The CR of a CRLF pair exactly at the cap, when a read ends between the two bytes, is
  cut as a byte of the line; NULs just behind a cut are text to the read that goes on and
  a hole to one that begins there (`Awkward`).  So the boundaries are not quite "a function
  of the bytes alone", as cursor.py:94-96 has it: where a read ends is one as well.
* A refill between the context hook's comparison of the bytes before the position
  (cursor.py:709) and its read of the lines before it (:711) puts the new content's lines
  before an old match (`late`, `Slipped`).  Without the excuse `ReportIsGrepC` fails.
* The context before a compressed file's stream is left out when the file's size on disk
  is smaller than the offset in its stream: `context_before` compares the two.  The
  report is still right, with less context (`Befores`).
* The docstring of `scan` has a physical line match "when any of its fragments does"
  (match.py:167-168).  The code joins the fragments first, as the module's own
  introduction says, and so does the model.

New files:

* Without the assumption on listings: a section lists a wide
  glob, which has a moment, and a narrow one, just added.  A file that appears
  after the first has been expanded and before the second is matched by the narrow
  one alone, is first-sighted at its end, and what it held is never mailed, although
  docs/USAGE.md:609-613 has every matching glob asked.
* Without the assumption on
  directories: a directory that goes away between the listing and the open makes
  the file absent (run.py:399-400), the glob stays in `seen`, and its moment moves
  past a file it never opened; docs/USAGE.md:623-629 keeps the moment of a glob
  whose directory was away.  A directory that comes back between the two listings of
  one run does the same, and so does a glob over several directories one of which is
  away.

State file:

* state.py:31-32 says that a file that is present never expires.  A file that is there
  in every run, and whose read fails every time (a scan timeout, a corrupt stream:
  run.py:415-422), is never touched; after `state_ttl` days its entry is dropped and the
  next run sights it at its end.  run.py's own text claims less (a *contributing* file
  is touched), and `OnlyUnreachedExpire` is the statement that does hold.

Transport and log:

* transport.py:21-24 has a forking wrapper "(`sudo`, `runuser`, ...)" die "with its
  children when the time is up".  What is another user's in the group lives on, without a
  word: `killpg` fails only where no member may be signalled.  `NoneOutlives` is stated of
  the others, and where one that lives on holds a pipe, `DeliveryEnds` waits for it
  (`HeldUp`).  A child that is itself another user's may start a process of the run's user
  after the kill; that one lives on, too (`late`).
* transport.py:49-51 bounds a session by "about eight" socket operations.  That counts
  whole replies: a server that sends a byte, or a `250-` line, within each `mail_timeout`
  and never ends its reply holds the run for as long as it goes on.  Without its last
  disjunct, `[]<>fed`, `DeliveryEnds` fails.
* When a session ends with a 421 before every recipient was asked, the record names the
  recipients that were not tried and those already answered 250 alike.
* The record on which a file's destination fails is on stderr and, if the disk has room
  again at the teardown, in the file as well: `EveryRecordOnce` allows for that one.

## Runs

| run | configuration | states | what it shows |
|---|---|---|---|
| apart | two processes, two sections of one log each, two mishaps | 1.3 million | types, mutual exclusion, opened files tracked, duplicates bounded, exit 0 means saved, places only advance, and the refinement of `AtLeastOnce` |
| aging | one process, one section of two logs, days 0 to 5, a time to live of two | 4.8 million | no hit lost, only what no run reached to its end expires |
| live | two processes, one log of two lines, two mishaps, fairness | 112 thousand | every tracked hit is delivered in the end, past a standing marker too |
| lock | three processes of two configurations, a cap of four cells, three ticks, two mishaps | 1.7 million | markers survive kills, refusals and each other; stale verdicts are right, stuck holders are noticed |
| renamed | three rotations by rename with one death or refusal; two rotations with two unreadable copies and one death or refusal | 1.1 million | no line skipped, in order, mailed once |
| kinds | three rotations by rename or copytruncate, copies compressed at any time; two rotations of a log whose files begin alike | 2.1 million | no line skipped |
| emptied | two rotations by copytruncate, none during a run | | *violated*: see Findings |
| torn | one rotation beside a listing | | *violated*: see Findings |
| newfiles | two files, a glob for both and one for the second, one trouble, one edit or reset | 1.7 million | a new file stays new until it is read from its beginning; the past is not mailed |
| reading | two runs over one file: every text of four bytes in chunks of every size, every such text growing at any moment, compressed files, refills and renames at any step, logs of three lines with context and cap | 906 thousand | each line read once as the bytes say, nothing left behind, never two versions mixed, the report is `grep -C`'s, a hit is in a mail |
| sending | two calls of two mails each: every log destination beside SMTP, every transport beside stderr | 963 thousand | every record in one place, a failure said once, outcomes are the mail system's word, nothing that may be signalled outlives a kill, deliveries end but where a reply or a pipe is held open |
| held | one sendmail child | | *violated*: see Findings |

*Why the bounds are enough.*  Every mechanism of the run cycle is about one saved state,
one marker and one mail at a time; two processes show every race for the lock, two
sections every later save after a failed one, and one section of two logs (aging) every
mix of quiet, contributing, failed and skipped files under one mail.  `CopiesBounded`
and `CleanRunIsSaved` are about saves and are checked over the two sections only; the
theorems hold for any `FilesOf`.  A log that expired is new again, so that
`start = beginning` mails it again: `CopiesBounded` is stated of days that stand still.
`NoHitLost` is an invariant of aging alone, since `KeepsPromise` in apart says more.
`Size` counts entries, so a disk of `MaxRoom`
entries can be too small, just right, or too small for growth and a headroom of
one.  A log has one line, which may come before, during or after any step of a read; two
lines (one log, two processes, six days, a kill) were tried once and held, and the
theorems are about any number.  In live it has two: a marker is set when a mail went out
and its save was refused, so with one line nothing would be left to deliver under it.
The two mishaps may be any two of a kill, a lost answer, a refused marker, a disk that
fills and a reset; the refused clearing of a marker is not bounded.
`MaxMishaps` bounds kills, lost answers, refused marker writes, lost room and
resets; refused mails, failed reads and skipped files are not bounded.
Six days and a time to live of two are an entry that ages, is touched, ages and expires.

For the catch-up three rotations are one before a run, one that the run meets and
one before the next; with three copies the matched one has two newer ones to
order, one of which moves while the other is read.  Three or four lines put one into
each of those files; `MaxSeconds` of 1 makes two copies of the same time and one
of another; five inodes are one more than there are files, so that a freed one
comes back.  Unreadable copies are given two flaws (a holder refused at its confirmation
and a member refused or cut short, or one copy in two runs) beside one death or refusal;
with three rotations and one flaw, and with compression and copytruncate, it was tried
once and held (3.2 million states).

For one file, `LINE_CAP`, `FINGERPRINT_CAP` and `ANCHOR_CAP` of 2 and `_CHUNK` of 3 put
lines, first line, anchor and chunk on all sides of each other within four bytes: a text
of four is two cuts, or a hole that spans chunks, or a CRLF at the cap.  Files that are
replaced and logs with matches are longer.  `MAX_FRAGMENTS` of 2 is exceeded by a line
of five bytes.  `MaxRuns` of 2 is one cursor taken and used.

For a delivery, two recipients are the least with a mixed answer and an end between
two; two mails show that nothing of one is left in the next, two calls the same of the
log.  `MaxMoves` of 1 is one change of the world under the log at any moment of it.

For the lock line, two configurations put two markers on it and the third process is of
one of them; a cap of four cells holds both markers behind a short PID and not behind the
longer one.  For the globs, two ticks make a second, so that a file and a moment can
share one or lie on the two sides of a boundary: the rule compares no more than two
times.  Two globs that overlap
are the least with which one knows a file and the other does not.  One trouble
between two runs is enough to move, keep or lose a moment; two were tried once and held
(6.9 million states).

*Fairness* (`RunCycle!Fairness`).  Cron starts runs for ever (weak fairness of some
process's `StartRun`); no step hangs, since `scan_timeout` and `mail_timeout` end what
could (weak fairness of `Step`); an operator frees a full disk (`RoomFreed`); and
what may fail does not fail in every run (strong fairness, over the processes together, of
taking the lock, of loading, of opening and of reading each file, and of an accepted mail:
not every run is turned away or fails at it, but one process may be for ever).  Nothing is
assumed of resets, of a marker being cleared, or of a kill not happening.  The read has to
be fair to each file: with two files in a section, one whose reads all fail while the
other's succeed is never delivered.  Two files under one process were tried once, with one
line each, and held (179 thousand states, five minutes), with a disk that can be freed to
the size of both entries and the headroom -- short of that a standing marker is never
cleared, and rightly nothing is sent.

`Sending!FairSpec` has weak fairness of a delivery's own steps and of saying what came of
it.  A step waits for `mail_timeout` at most, or for a process.  A child need not exit and a
server need not answer; but `mail_timeout` is that of one socket operation, and a reply
that comes in parts has a wait for each of them.  So `DeliveryEnds` exempts a server that
sends parts for ever (`[]<>fed`), and `HeldUp`, a wait for a process the run may not signal
or that it never signalled: that is what `held` is about.

## Proofs

`ConstantsAssumption` and `SizeAssumption` are all that is assumed of `RunCycle`'s
constants; its theorems hold for any number of processes, logs and sections
and for any bound.

* `RunCycleSafety!TypeCorrect`: `TypeOK` is inductive by itself.
* `RunCycleSafety!OneRunAtATime`: `MutualExclusion` is not; it follows from
  `HolderHolds`, which says that exactly the kernel's holder is past the lock.
* `RunCycleSafety`: `NoHitLost` speaks of the file on disk, but what gets there
  is a process's memory, so the invariant must follow that memory through the
  run.  `Inv` is `TypeOK` and `Safe`: `LogsOK` (hits and places lie within the
  log), `NoHitLost`, and for each process past the lock `MemoryOK`: what it would
  save has delivered everything up to its places (`MemDelivered`), is no further
  back than what is saved (`MemAhead`), its reads lie within the logs and a file
  still to come has not been read (`ReadsOK`), and in the section being read
  every read began at the file's place (`SectionOK`) -- which is what makes moving to
  the read's end after an accepted mail safe.  Since only one process is past the lock,
  what one step does to `disk` cannot spoil another's memory.  `NothingLost`,
  `OpenedAreTracked` and `PlacesAdvance` follow.
* `RunCycleSafety!RunKeepsPromise`: with `Inv`, the initial states map to
  `AbsInit` and every step to a `Write`, a `Mail`, a `Record` or a stutter.
* `RunCycleBounds!CleanIsSaved`: until something fails, each read that ended before the
  section in hand is in memory *and* on disk, and what a section is about to save has the
  section's own (`CleanSoFar`).
* `RunCycleBounds!ExpiryIsUnreached`: an entry's `last_seen` is halfway to expiry at most
  when its file was reached (`Touched`).  What one section does to a section beside it is
  nothing, so the entry of a file outside the section is the one of the disk.
* `RunCycleBounds!CopiesAreBounded`: the doubled mails of one line are paid for.  A
  mishap pays for one (`Spent`; a reset's is used when the reset is over, so the pending
  ones are subtracted by `Cardinality`); a disk that is too small pays for one more, once
  (`Spare`); and the one copy every line may have is owed only while the line is behind
  the saved place or about to get there (`Behind`, `InHand`): in memory on the way to the
  save, or under a marker.  That a marker stops the next section takes a hypothesis,
  `GrowsWithin(low)`: the states saved after a refused save are no larger than the refused
  one and one headroom.  The code assumes the same of itself (state.py:80-84,
  run.py:335-337: what a section adds fits STATE_HEADROOM); without it a save could fail,
  the next run's proof of room succeed, and its larger state fail again.  The other,
  `NothingExpires`, is that no entry is past `state_ttl`: a log that expired is sighted
  anew.  Both are assumed of the behaviour, []-wise, and both are true of every state of
  run `apart` with `low` = 1; `CopiesAreBoundedShort` replaces the second by a stretch of
  days no longer than the time to live.

* `SendingProofs!OutcomeIsTrue`, `FailuresAreUntaken`, `NothingOutlives`: a delivery's
  outcome is decided exchanges before it is reported, so the invariant `DeliveryInv`
  says at each step what is decided so far: nothing before the farewell (`Undecided`); at
  most one answer for each recipient in their order, and all of them and one yes before
  the message goes out (`AnswersOK`); the message taken for nobody before that, by a
  child for all or none, and by an exit code that says which (`TakenOK`); whom a kill of
  the group spares, the child and its kin each by its owner, and that what is started after
  it is by a child it spared (`KilledOK`); and nothing of it left between two deliveries
  (`AtRest`).  They are over `FairSpec`, for any mails, sockets and transports, and use
  `MailsAssumption`: a mail has recipients and lists none twice, which the loader sees
  to (config.py:357-359) *because* two answers for one address would break the first of
  them.  `ForeignAssumption` only gives a constant its type.
* `ActivityProofs`: one invariant, `LogInv`, for `attach`, a record's way and the teardown.
  `RecordsAreOnce` is about the end of a call, but what it says is decided when the
  destination fails, so `LogInv` has it at each step: without `--debug`, all that was due
  is at a destination that works, and split at the record that failed otherwise, which the
  stream's buffer may still hold (`SplitOK`); with it, stderr has all and the destination
  the first ones, its buffer the next (`BothOK`).  `NoticeOK` is where the notice stands,
  `DestOK` what `attach` knows at each of its steps, `CallOK` that nothing of an earlier
  call is left.  `HandlersAreTheCalls` and `AppendsToAFile` are inductive beside them.
  They use `LogSetupsAssumption`, what the command line and the loader can ask for.
  `SendingTyped` needs the delivery's invariant as well: an outcome's recipients are
  answers to the mail's own.
* `LockLineProofs`: one invariant, `LineInv`, for the line and the runs it turns away.
  First what the operators do: `Line` has a marker of every state file that is to have one,
  in its place (`Ranks`, `InNameOrder`, by the pigeonhole), and its only newline at its end
  (`LineIs`); so a file that *begins* with a line reads as the line alone does, whatever is
  left behind it (`FirstLineIs`, `HolderRead`, `MarkersRead`) -- a kill between the write
  and the cut changes nothing.
  `MarkersAreKept` then follows what a holder knows: it is what is recorded but for its own
  marker, which it may have changed and not written (`Knowing`), and the line it writes fits
  the cap unless one was carried past it (`Room`).
  `StaleIsNeverFresh` and `StuckIsAlwaysNoticed`: the moment on the line is the holder's
  own once it has written it, and stays that of the last one (`Dated`); an old line met by a
  run that a fresh holder turned away is therefore that of a holder before, and the lock has
  been taken in this very tick (`Confirming`), so that at the second read the line is a tick
  old at most; and a stuck holder wrote its line long ago, so both reads find it old (`Busy`).
  `LineAssumption` is all they use.
* `NewFilesProofs!PastIsUnsent`: for a file that is not in `missed`, all that a place or a
  read's beginning can become is behind its past (`PastOf`), and a file is read from 0
  only on a promise, with which it has no past (`PromisedHasNoPast`).  It needs nothing of
  the world beside a run.
* `NewFilesProofs!NewIsKeptNew`: a moment moves when the section is saved, for what was
  listed and opened long before, so the invariant `NewOK` follows both.  While the globs
  are expanded, all of those that match a file find it or none does (`AllOrNone`); a glob
  that is listed and did not find a file is one the file came after (`SeenOrLater`); what
  was found stays in reach until it is opened, and then it has been read, has a place, or
  holds its globs' moments back (`OpenedOrWaiting`); and a new file is read from 0
  (`FromItsBeginning`).  The hypothesis `StillWorld` is both members of `Still` -- without
  them it is false, see Limits -- and that each glob looks into one directory: over two, of
  which one is away, the code notes the glob as listed (see Limits as well).  The run
  `newfiles` has all of it, with two overlapping globs of one directory.

* `LogFileProofs`: one file, byte by byte, for every text, chunk, cap, context and number of
  runs (`SetupsAssumption`, `CapsAssumption`).  The invariant has layers, each used by the
  next: `WorldOK` and `RunOK` are the types and what a reader between two turns of its loop
  is (`Resting`: behind the position there is only a hole, and all up to `at` was read into
  the buffer once); `PlacesOK` keeps the saved position, the opened file and the reader
  within the file they are of, across growth, a rename and a refill; `TailOK` says that
  there is one text, `Before`, of which the reader's tail is the last `ANCHOR_CAP` bytes and
  which is what the run has seen; `WasOK` carries that to the cursor and to the next open;
  `VersionOK` says of which version the reader's whole stream is.  Under them are lemmas on
  the operators: pieces of texts, a hole (`HoleIs`), the newline and the cut (`NextLineIs`),
  the fold (`FoldTailIs`, `TailGoesOn`: of a tail that goes on the last bytes are enough,
  and of a hole longer than the cap its first `ANCHOR_CAP` NULs), the counting pass
  (`CountedIs`, `CountingIs`).  The recursive function of that pass is shown to be what its
  equation says by a first chunk for which it is not: the induction theorems of the library
  cannot be instantiated, the well-foundedness of the numbers can.
  - `Types`, `TheAnchorIsTheBytes`; the second for `Sound` setups, those where a refilled
    file is not found empty by the second look of an open: all of the run's.  For a `torn` one
    it is false, see Limits.
  - `TheSameBytesBefore` and `NeverTwoVersions` are for plain files (`Plain`), as the code's
    checks are: a compressed file has no anchor.
  - `NeverTwoVersions` has the hypothesis `TellsApart`, []-wise: when a check compares, the
    two versions do not agree in the last `ANCHOR_CAP` bytes before the position while they
    differ before those.  It is what cursor.py names as what it cannot see, and holds in all
    of the run's setups.  Without it a refill can agree in just these bytes, and the run
    reads on over it.

* `CatchUpProofs!TypesHold`: for any inodes, logs, rotations and slack
  (`RotationAssumption`, `SearchAssumption`, `NoneAssumption`), everything a catch-up keeps
  has its type.  `TypeOK` is not inductive: that a text and a position lie within the bound
  on lines needs that line numbers rise along a file (`Numbered`); that a run of `Open` and
  `Stat` finds an inode under a name needs that the live name is empty only between a
  rename and the new file (`WorldTypes`); that the candidates are one sequence of copies
  needs a listing with each name once (`OnePerName`); and the stages use `saved`, which a
  search has (`TypeInv`).  Under it are lemmas on sequences, on `OldestFirst` (all of a
  set, by number) and on `Candidates`.

* `CatchUpProofs!ReadInOrder` and `NeverMailedTwice`: for every log of `Renaming`, one
  that is rotated by renaming, whose copies are not compressed and whose files have no
  first line in common, and whose rotations are apart by more than a run (`spaced`); any
  number of copies, lines, rotations, failures and unreadable copies, any clock, and
  nothing held still beside a run.  The hypotheses are what the two properties need:
  under copytruncate a listing has lines twice (see Limits), a common first line tells
  nothing, and a packed copy is another inode.  Neither is inductive; `OrderInv` is:
  - `Renamed`, of the log alone: a file has one name, its lines rise, the higher its
    number the older all its lines are, and the number a copy is moved to is free;
  - of the run: its handle is of the live file or of the copy that it became (`LiveIs`); a
    copy listed is at its number, or one up and at rest, or gone (`ListingIs`), so one that
    is found under its listed name has all of the chain below it (`CopyFound`);
    candidates and chain are of the listing, and a live file that came after the open is
    newer than the saved first line (`QueueIs`, `ChainIs`, `Unseen`), so the file that is
    live is never taken for the match;
  - `Placed`, of a cursor: whatever file that has a name holds one of its marks is its own
    file, at its own position, and the file that is written to holds it or is newer.  It is
    why a verdict other than "continue" is right, and why only the right copy fits;
  - `TellsOn`: all that was read or mailed (`Told`) lies behind the saved position, behind
    the last copy, and before all that the chain and the live file still hold.
  `Moved` is what a step of the world keeps of names and texts, and one lemma for it serves
  all of them (`PlacedGoesOn`, `BehindGoesOn`); `CopyRead` is the read of one copy, and
  `EndOrder` what the end of a run has to leave.  `MailedOnce` follows where it is hard, at
  an accepted mail: the lines read rise, so each is in the mail once, and none is `Carried`.

* `CatchUpProofs!NoneSkipped`: for every log of `Traceable` -- `Renaming` again, its files
  with a first line from the start (`filled`) and a listing that is one step -- `NoLineSkipped`
  holds until a run warns that no copy holds the position.  Each hypothesis is needed: see
  `torn` and `emptied` under Findings, and Limits for the warning.  `OrderInv` says that what
  is read lies before what is still to be read; here it must be shown that *all* of it is
  still to be read, so `OweInv`, beside `OrderInv`, follows what is owed: `Unmailed`, the
  lines of since the first sight that neither were mailed nor were in a copy that could not
  be read, and of them those this run has not read, `Owed`.
  - `Owes`: no unmailed line that a file has is behind the saved position; none that is owed
    is behind the last copy read or the live handle.
  - `Complete`: an owed line that is older than something listed (then: than something
    in the chain), or than the live file's first, is in a copy listed (in the chain).  What makes
    it true is that a listing has every name, that a copy moves up at most one number after
    it, and that a candidate that fits has everything older behind the position.
  - `Spoiled`: a copy given up as unreadable owes nothing any more, unless it is the newest,
    to which its writer may still add -- that is then the next run's.
  - `Filled`, `Known`: every file and every position has a first line to be told by.
  What `NoLineSkipped` says follows at an accepted mail (`NothingBetween`): a line older than
  a mailed one and in a file would be owed, and lie behind the position.

Model-checked only: of `CatchUp` `NoLineSkipped` outside `NoneSkipped`: after a warning, for
logs whose files may be empty, copied, packed or with a line in common (runs `renamed` and
`kinds`); of one file the properties that compare what was
read with a closed form over the whole file (`ReadOnce`, `NothingLeftBehind`,
`ReportIsGrepC`, `RenderShowsTheFirst`, `HitsAreAlerted`), whose sequences are built by folds
and choices over data, which would need an induction over each of them; and `HitsDelivered`
and `DeliveryEnds` (liveness is out of the prover's reach).

## Findings

* `NoLineSkipped` (run emptied): a cursor taken on an empty file has nothing that a
  later state of the file could contradict (cursor.py:413-442).  Written, copied
  to .1 and truncated by the next run, the file is a "continue", the copy is not
  looked for, and its lines are never mailed.  docs/USAGE.md:416-422 promises them.
* `NoLineSkipped` (run torn): a listing is not one step.  A copy that moves between
  `os.scandir` and the stat of its names is in it under neither name
  (rotation.py:394), and the plan lists again only when nothing matched: when an
  older copy matches, the one that moved is left out of the chain for good.
* `MailTimeoutBounds` (run held): after `mail_timeout` the child's group is killed and
  its pipes are read to their end without a timeout (transport.py:219).  A process that
  has left the group and holds stderr keeps the run, and its lock, for as long as it
  lives; docs/USAGE.md:151 has the whole child bounded.  With a timeout of one second and
  a child that had started such a process for eight, `_run` took eight.

## Not modelled, and why

* Dated and hand-made names of copies, the extension form, several directories, and the
  failed item that a copy out of a permission's reach becomes: the search is modelled
  for numbered names, and what differs is how a name is parsed.
* `open_log`'s rules on symbolic links and owners, a changed device number, a live file
  whose stream is corrupt, the limit on the NUL bytes skipped (`HOLE_CAP`).
* A timeout's signal between two bytecodes: a read that fails is one step.
* Which names a glob leaves out: rotated copies by their kin, symbolic and hard links;
  the ageing of a section's record.
* `--dry-run`: takes no lock and writes nothing.
* Wording, headers, encodings, the attachment, regular expressions, `describe`, Windows:
  no state of the program depends on them.
* Configuration parsing: read once, before anything runs; what the rest relies on of it
  is an assumption of a module (`MailsAssumption`).
* `--from-start` and `--test-mail`, which keep no state of their own.
* Tools and sandbox: they are not the program.
* Durability of a directory entry across a power loss (`os.replace` without an
  fsync of the directory).
* A first sight whose mail is refused *and* whose save fails leaves neither an
  entry nor a marker: the next run sights the log at its end again.  `NoHitLost`
  begins with the first save and says nothing of it.

## Plan

What is left, in this order:

1. `CatchUp`: the dated style, whose order is by name *and* time, and what must eventually
   be mailed under the fairness of cron and an end of rotations.
2. `Globs` -- which files of a directory are rotated copies of which, against the rule
   the documentation states; then `NewFiles` over it.
3. Proofs: `ReadOnce`, that `FileLines` is what the line reader yields; `NoLineSkipped` under
   copytruncate, whose copies have a line under two names.
