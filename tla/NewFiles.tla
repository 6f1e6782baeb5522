------------------------------ MODULE NewFiles ------------------------------
(***************************************************************************)
(* The globs of a section and the new-file rule (globs.py; run.py _files,  *)
(* _new_file and _section; state.py record_run, last_run, forget; issues   *)
(* #18, #31, #69).                                                         *)
(*                                                                         *)
(* The state holds a place for each file that has been read (its entry)    *)
(* and a moment for each glob: the start of the last saved run that listed *)
(* the glob's directories.  A file without an entry is read from 0 if some *)
(* glob that matched it has a moment the file is not older than, and from  *)
(* its end otherwise.  Files appear, grow and go out of reach beside a run *)
(* that lists its globs and opens their files one at a time.               *)
(*                                                                         *)
(* One section; every line is a hit.  A file keeps its name: rotation is   *)
(* CatchUp's, the lock and the saves around a section RunCycle's.          *)
(***************************************************************************)
EXTENDS Integers, Sequences, SequencesExt

CONSTANTS
  Globs,      \* patterns
  Sorted,     \* the paths that may appear, in the order of their names
  Dirs,       \* directories
  Matches,    \* the regular files whose names a glob matches, rotated copies left out
  LooksIn,    \* the directories a glob lists
  DirOf,      \* the directory of a path
  Configs,    \* what `files` may be: sequences of globs and paths
  Second,     \* ticks of the clock in a second
  Still,      \* assumed of the world: "directories", none of which comes or goes between a run's
              \* first listing and its last open; "listings", between which no file appears
  MaxTicks,   \* bound: ticks
  MaxLines,   \* bound: the lines of each file
  MaxTroubles,\* bound: things out of reach, and reads, mails, saves and runs that fail
  MaxEdits,   \* bound: edits of `files` and resets
  None        \* no entry, no moment, no file

Paths == ToSet(Sorted)

ASSUME FilesAssumption ==
  /\ Sorted \in Seq(Paths) /\ Globs \cap Paths = {}
  /\ Matches \in [Globs -> SUBSET Paths] /\ LooksIn \in [Globs -> SUBSET Dirs]
  /\ DirOf \in [Paths -> Dirs]
  /\ \A g \in Globs : \A p \in Matches[g] : DirOf[p] \in LooksIn[g]
  /\ Configs \subseteq Seq(Globs \cup Paths)
  /\ Second \in Nat \ {0} /\ Still \subseteq {"directories", "listings"}
  /\ MaxTicks \in Nat /\ MaxLines \in [Paths -> Nat \ {0}] /\ MaxTroubles \in Nat /\ MaxEdits \in Nat
  /\ None \notin Nat \cup Paths \cup BOOLEAN

VARIABLES
  now,      \* the clock, in ticks
  length,   \* length[p]: the lines of a file
  born,     \* born[p]: when it appeared, or None
  mtime,    \* mtime[p]: when it was last written
  barred,   \* the files a permission keeps out of reach
  dir,      \* dir[d]: there, barred or away
  troubles, \* how many things have gone wrong
  files,    \* the section's `files`
  since,    \* when they were last edited
  edits,    \* how often they were edited, and positions reset
  disk,     \* the saved state
  began,    \* when the run under way started, or None
  state,    \* its state
  unlisted, \* the entries of `files` it has still to expand
  globsOf,  \* globsOf[p]: the globs that matched a path, none for a listed one
  todo,     \* the paths it has still to read, in their order
  seen,     \* the globs whose moment is to move
  whole,    \* whether the next of these is to be read from 0 (from_start), None before it is known
  starts,   \* starts[p]: where the read of a file began, or None
  cursors,  \* cursors[p]: where it ended, or None
  mailed,   \* history: mailed[p]: the lines of a file in the mail last accepted
  past,     \* history: past[p]: the lines a file had before anything was promised of it
  missed    \* history: the files with a past that the first run to look for them did not open

around == <<born, mtime, length, files, since, edits>>
reach == <<barred, dir>>
inRun == <<began, state, unlisted, globsOf, todo, seen, whole, starts, cursors>>
history == <<mailed, past, missed>>
vars == <<now, around, reach, troubles, disk, inRun, history>>

Seconds == 0..MaxTicks \div Second
Lines == UNION {0..MaxLines[p] : p \in Paths}
States == [entry : [Paths -> Lines \cup {None}], moment : [Globs -> Seconds \cup {None}]]

NoPlace == [p \in Paths |-> None]
NoMoment == [g \in Globs |-> None]
NoGlobs == [p \in Paths |-> {}]
Nothing == [entry |-> NoPlace, moment |-> NoMoment]

-----------------------------------------------------------------------------
Init ==
  /\ now = 0
  /\ born = NoPlace
  /\ mtime = [p \in Paths |-> 0] /\ length = [p \in Paths |-> 0]
  /\ barred = {} /\ dir = [d \in Dirs |-> "there"]
  /\ files \in Configs
  /\ troubles = 0 /\ since = 0 /\ edits = 0
  /\ disk = Nothing
  /\ began = None
  /\ state = Nothing
  /\ unlisted = <<>> /\ globsOf = NoGlobs /\ todo = <<>> /\ seen = {} /\ whole = None
  /\ starts = NoPlace /\ cursors = NoPlace
  /\ mailed = NoGlobs /\ past = [p \in Paths |-> 0] /\ missed = {}

Running == began # None

\* Mutant: the moment keeps its fraction.
Moment_WithFraction(t) == t

\* timestamp: a moment is written in whole seconds.
Moment(t) == t \div Second

\* Between a run's first listing and its last open; and between its listings.
Looking == Running /\ unlisted # files /\ (unlisted # <<>> \/ todo # <<>>)
Listing == Running /\ unlisted \notin {files, <<>>}

-----------------------------------------------------------------------------
(* Beside the runs *)

Tick ==
  /\ now < MaxTicks
  /\ now' = now + 1
  /\ UNCHANGED <<around, reach, troubles, disk, inRun, history>>

\* A file appears with its first line; others write to a directory that is out of reach here.
Appear(p) ==
  /\ born[p] = None
  /\ "listings" \in Still => ~Listing
  /\ born' = [born EXCEPT ![p] = now]
  /\ mtime' = [mtime EXCEPT ![p] = now]
  /\ length' = [length EXCEPT ![p] = 1]
  /\ UNCHANGED <<now, files, since, edits, reach, troubles, disk, inRun, history>>

Write(p) ==
  /\ born[p] # None
  /\ length[p] < MaxLines[p]
  /\ length' = [length EXCEPT ![p] = @ + 1]
  /\ mtime' = [mtime EXCEPT ![p] = now]
  /\ UNCHANGED <<now, born, files, since, edits, reach, troubles, disk, inRun, history>>

Trouble ==
  /\ troubles < MaxTroubles
  /\ troubles' = troubles + 1

\* A directory is unmounted or closed to the run; and is there again.
Leave(d, how) ==
  /\ Trouble
  /\ dir[d] = "there"
  /\ "directories" \in Still => ~Looking
  /\ dir' = [dir EXCEPT ![d] = how]
  /\ UNCHANGED <<now, around, barred, disk, inRun, history>>

Return(d) ==
  /\ dir[d] # "there"
  /\ "directories" \in Still => ~Looking
  /\ dir' = [dir EXCEPT ![d] = "there"]
  /\ UNCHANGED <<now, around, barred, troubles, disk, inRun, history>>

\* A file is closed to the run; and opened to it.
Bar(p) ==
  /\ Trouble
  /\ p \notin barred
  /\ barred' = barred \cup {p}
  /\ UNCHANGED <<now, around, dir, disk, inRun, history>>

Unbar(p) ==
  /\ p \in barred
  /\ barred' = barred \ {p}
  /\ UNCHANGED <<now, around, dir, troubles, disk, inRun, history>>

\* The configuration is edited, beside no run; what it promises of a file without an entry
\* is another matter then.
Edit ==
  /\ ~Running
  /\ edits < MaxEdits
  /\ edits' = edits + 1
  /\ files' \in Configs \ {files}
  /\ since' = now
  /\ past' = [p \in Paths |-> IF disk.entry[p] = None THEN 0 ELSE past[p]]
  /\ UNCHANGED <<now, born, mtime, length, reach, troubles, disk, inRun, mailed, missed>>

-----------------------------------------------------------------------------
(* The start of a run, and the expansion of its globs *)

\* The globs that match a path, none if the list names it as well: a listed path is never new.
GlobsFor(p) == {g \in ToSet(files) \cap Globs : p \in Matches[g] /\ p \notin ToSet(files)}

\* A file without an entry of which nothing is promised: no glob that matches it has a moment.
Unpromised(p, s) == s.entry[p] = None /\ \A g \in GlobsFor(p) : s.moment[g] = None

\* run(): the moment, then the lock and the saved state -- another run may come in between.
StartRun(at) ==
  /\ ~Running
  /\ began' = at
  /\ state' = disk
  /\ unlisted' = files
  /\ mailed' = NoGlobs
  /\ past' = [p \in Paths |-> IF Unpromised(p, disk) THEN length[p] ELSE past[p]]
  /\ missed' = {p \in missed : ~Unpromised(p, disk)}
  /\ UNCHANGED <<now, around, reach, troubles, disk, globsOf, todo, seen, whole, starts, cursors>>

There(p) == born[p] # None /\ dir[DirOf[p]] # "away"
Refuses(p) == There(p) /\ (p \in barred \/ dir[DirOf[p]] = "barred")

IsGlob(entry) == entry \in Globs

\* expand: the files a glob finds in the directories that can be listed.
Found(g) == {p \in Matches[g] : There(p) /\ dir[DirOf[p]] = "there"}

\* Paths in the order of their names.
Before(p, q) == \E i, j \in DOMAIN Sorted : i < j /\ Sorted[i] = p /\ Sorted[j] = q
ByName(paths) ==
  {s \in SeqOf(paths, Len(Sorted)) :
     ToSet(s) = paths /\ \A i, j \in DOMAIN s : i < j => Before(s[i], s[j])}

\* Expansion.listed, and no errors: a directory that is away matches nothing, one that
\* refuses is an error.
Listed(g) ==
  /\ \E d \in LooksIn[g] : dir[d] # "away"
  /\ \A d \in LooksIn[g] : dir[d] # "barred"

\* _files, the next entry: a path as it is, a glob expanded in its place, each path once.
Expand ==
  LET entry == Head(unlisted)
      found == IF IsGlob(entry) THEN Found(entry) ELSE {entry}
  IN  /\ Running /\ unlisted # <<>>
      /\ unlisted' = Tail(unlisted)
      /\ \E next \in ByName(found \ ToSet(todo)) : todo' = todo \o next
      /\ globsOf' = [p \in Paths |-> IF IsGlob(entry) /\ p \in found \ ToSet(files)
                                     THEN globsOf[p] \cup {entry} ELSE globsOf[p]]
      /\ seen' = IF IsGlob(entry) /\ Listed(entry) THEN seen \cup {entry} ELSE seen
      /\ UNCHANGED <<now, around, reach, troubles, disk, began, state, whole, starts, cursors, history>>

-----------------------------------------------------------------------------
(* One file *)

\* _new_file: some glob that matched has a moment the file is not older than.
NewFile(p) ==
  \E g \in globsOf[p] : state.moment[g] # None /\ mtime[p] >= state.moment[g] * Second

\* The rule is asked with a stat, before the open; a directory that cannot be searched has no
\* answer.
Judge ==
  /\ Running /\ unlisted = <<>> /\ todo # <<>> /\ whole = None
  /\ LET p == Head(todo)
     IN  whole' = (/\ There(p) /\ dir[DirOf[p]] = "there"
                   /\ state.entry[p] = None
                   /\ NewFile(p))
  /\ UNCHANGED <<now, around, reach, troubles, disk, began, state, unlisted, globsOf, todo, seen,
                 starts, cursors, history>>

Judged == whole # None
File == Head(todo)

NextFile ==
  /\ todo' = Tail(todo)
  /\ whole' = None

\* Mutant: the moment moves past a new file that could not be opened (before issue #69).
OpenFails_MomentMoves ==
  /\ Judged /\ Refuses(File)
  /\ NextFile
  /\ UNCHANGED <<now, around, reach, troubles, disk, began, state, unlisted, globsOf, seen, starts,
                 cursors, history>>

\* A failed item: without an entry, the moments its globs have wait for it.
OpenFails ==
  /\ Judged /\ Refuses(File)
  /\ NextFile
  /\ seen' = IF state.entry[File] = None
             THEN {g \in seen : g \notin globsOf[File] \/ state.moment[g] = None} ELSE seen
  /\ UNCHANGED <<now, around, reach, troubles, disk, began, state, unlisted, globsOf, starts,
                 cursors, history>>

\* open_source returned None: absent, nothing to do.
Absent ==
  /\ Judged /\ ~There(File)
  /\ NextFile
  /\ UNCHANGED <<now, around, reach, troubles, disk, began, state, unlisted, globsOf, seen, starts,
                 cursors, history>>

Opens == Judged /\ There(File) /\ ~Refuses(File)

\* Where the read of the opened file begins: its place, 0, or its end.
StartOf(p) == IF state.entry[p] # None THEN state.entry[p] ELSE IF whole THEN 0 ELSE length[p]

Read ==
  /\ Opens
  /\ NextFile
  /\ starts' = [starts EXCEPT ![File] = StartOf(File)]
  /\ cursors' = [cursors EXCEPT ![File] = length[File]]
  /\ UNCHANGED <<now, around, reach, troubles, disk, began, state, unlisted, globsOf, seen, history>>

\* The read fails: a first sight gets an entry where it began (_pin_first_sight).
ReadFails ==
  /\ Opens /\ Trouble
  /\ NextFile
  /\ state' = IF state.entry[File] = None
              THEN [state EXCEPT !.entry[File] = StartOf(File)] ELSE state
  /\ UNCHANGED <<now, around, reach, disk, began, unlisted, globsOf, seen, starts, cursors, history>>

-----------------------------------------------------------------------------
(* The end of the section *)

AllRead == Running /\ unlisted = <<>> /\ todo = <<>>

WereRead == {p \in Paths : cursors[p] # None}
Contributing == {p \in WereRead : starts[p] < cursors[p]}

\* record_run: the moment is the run's start; a glob that is no longer in
\* the list is dropped.
Recorded(s) ==
  [s EXCEPT !.moment = [g \in Globs |-> IF g \notin ToSet(files) THEN None
                                        ELSE IF g \in seen THEN Moment(began) ELSE @[g]]]

\* _advance: every place, and the moments.
Advanced ==
  Recorded([state EXCEPT !.entry = [p \in Paths |-> IF p \in WereRead THEN cursors[p] ELSE @[p]]])

\* The mail refused: no moment moves, and a first sight that contributed stays where it began.
Kept ==
  [state EXCEPT !.entry = [p \in Paths |->
     IF p \in WereRead \ Contributing THEN cursors[p]
     ELSE IF p \in Contributing /\ @[p] = None THEN starts[p] ELSE @[p]]]

\* The run is over, or dies: its memory is gone.
Ends ==
  /\ began' = None
  /\ state' = Nothing
  /\ unlisted' = <<>> /\ globsOf' = NoGlobs /\ todo' = <<>> /\ seen' = {} /\ whole' = None
  /\ starts' = NoPlace /\ cursors' = NoPlace

\* The section's state is saved.
Saved(s) ==
  /\ disk' = s
  /\ missed' = missed \cup {p \in Paths : s.entry[p] = None /\ past[p] > 0}

Mails == mailed' = [p \in Paths |-> IF p \in Contributing THEN (starts[p] + 1)..cursors[p] ELSE {}]

\* Nothing matched, or the mail accepted; the state saved.
Accepted ==
  /\ AllRead
  /\ Mails
  /\ Saved(Advanced)
  /\ Ends
  /\ UNCHANGED <<now, around, reach, troubles, past>>

Refused ==
  /\ AllRead /\ Contributing # {} /\ Trouble
  /\ Saved(Kept)
  /\ Ends
  /\ UNCHANGED <<now, around, reach, mailed, past>>

\* The mail accepted; the save fails, or the run dies before it.
SaveFails ==
  /\ AllRead /\ Trouble
  /\ Mails
  /\ Ends
  /\ UNCHANGED <<now, around, reach, disk, past, missed>>

Kill ==
  /\ Running /\ Trouble
  /\ Ends
  /\ UNCHANGED <<now, around, reach, disk, history>>

-----------------------------------------------------------------------------
(* --reset-state *)

\* Mutant: the entries go, the section's record stays.
Forgotten_KeepsMoments(those) ==
  [disk EXCEPT !.entry = [p \in Paths |-> IF p \in those THEN None ELSE @[p]]]

\* State.forget: the entries, and the record of the section that lost them.
Forgotten(those) ==
  [entry |-> [p \in Paths |-> IF p \in those THEN None ELSE disk.entry[p]], moment |-> NoMoment]

Reset(those) ==
  /\ ~Running
  /\ edits < MaxEdits
  /\ edits' = edits + 1
  /\ disk' = Forgotten(those)
  /\ past' = [p \in Paths |-> IF disk'.entry[p] = None THEN length[p] ELSE past[p]]
  /\ missed' = {p \in missed : disk'.entry[p] # None}
  /\ mailed' = NoGlobs
  /\ UNCHANGED <<now, born, mtime, length, files, since, reach, troubles, inRun>>

\* Of one file that has an entry, or of them all.
ResetOne == \E p \in Paths : disk.entry[p] # None /\ Reset({p})
ResetAll == Reset(Paths)

-----------------------------------------------------------------------------
Next ==
  \/ Tick \/ Edit \/ ResetOne \/ ResetAll
  \/ \E p \in Paths : Appear(p) \/ Write(p) \/ Bar(p) \/ Unbar(p)
  \/ \E d \in Dirs : Leave(d, "away") \/ Leave(d, "barred") \/ Return(d)
  \/ \E at \in since..now : StartRun(at)
  \/ Expand \/ Judge \/ OpenFails \/ Absent \/ Read \/ ReadFails
  \/ Accepted \/ Refused \/ SaveFails \/ Kill

Spec == Init /\ [][Next]_vars

-----------------------------------------------------------------------------
(* Properties *)

\* Every variable stays in its type.
TypeOK ==
  /\ now \in 0..MaxTicks /\ since \in 0..MaxTicks
  /\ born \in [Paths -> 0..MaxTicks \cup {None}] /\ mtime \in [Paths -> 0..MaxTicks]
  /\ length \in [Paths -> Lines]
  /\ barred \subseteq Paths /\ dir \in [Dirs -> {"there", "barred", "away"}]
  /\ files \in Configs
  /\ troubles \in 0..MaxTroubles /\ edits \in 0..MaxEdits
  /\ disk \in States /\ state \in States
  /\ began \in 0..MaxTicks \cup {None}
  /\ unlisted \in Seq(Globs \cup Paths) /\ todo \in Seq(Paths)
  /\ globsOf \in [Paths -> SUBSET Globs] /\ seen \subseteq Globs
  /\ whole \in BOOLEAN \cup {None}
  /\ starts \in [Paths -> Lines \cup {None}] /\ cursors \in [Paths -> Lines \cup {None}]
  /\ mailed \in [Paths -> SUBSET Lines]
  /\ past \in [Paths -> Lines] /\ missed \subseteq Paths

\* A file that appeared no earlier than the saved moment of a glob that matches it.
New(p) ==
  /\ born[p] # None /\ disk.entry[p] = None
  /\ \E g \in GlobsFor(p) : disk.moment[g] # None /\ born[p] >= disk.moment[g] * Second

\* Its first place: every line before it went out in the mail of the run that saved it.
Whole(p) == disk.entry[p] # None /\ \A i \in 1..disk.entry[p] : i \in mailed[p]

\* A new file is new until it is read from its beginning: whatever could not be listed,
\* opened, read, sent or saved, and however a run and its writer interleave while no
\* directory comes or goes and no file appears between its listings (Still), no saved state
\* moves the moments past it or first-sights it at its end -- but by an edit or a reset
\* (issues #18, #31, #69).
NewStaysNew ==
  [][\A p \in Paths : New(p) /\ edits' = edits => New(p)' \/ Whole(p)']_vars

\* What a file held before its glob was first looked into, or before it was reset, is not
\* mailed -- unless the run that gave the glob its moment could not open it (issue #18; the
\* promise of --reset-state).
PastStaysUnsent ==
  \A p \in Paths : p \notin missed => mailed[p] \cap 1..past[p] = {}
=============================================================================
