------------------------------ MODULE LockLine ------------------------------
(***************************************************************************)
(* The lock file of a state directory (lock.py).  The flock itself is the  *)
(* kernel's; the file's first line says who took it and when, for the run  *)
(* it turns away, and carries the unsaved markers of the configurations    *)
(* that share the directory, one per state file (issues #70, #73).         *)
(*                                                                         *)
(* A line is written in place and the file cut to it afterwards, so a kill *)
(* between the two leaves the tail of the old line behind the new one; it  *)
(* is read to a cap.  A turned-away run reads it without the lock, while   *)
(* its holder may not have written it yet.                                 *)
(*                                                                         *)
(* The file is a sequence of cells: the holder's (as many as its PID is    *)
(* wide), one for each marker, a newline.  One tick of the clock is longer *)
(* than a holder takes from the lock to its line, and no longer than the   *)
(* wait before a stale verdict is confirmed.                               *)
(***************************************************************************)
EXTENDS Integers, Sequences, FiniteSets

CONSTANTS
  Procs,    \* processes
  Names,    \* state files: natural numbers, in the order of their names
  KeyOf,    \* the state file a process's configuration names
  WidthOf,  \* how many cells its `<pid> <moment>` takes
  Sizes,    \* the sizes a state may fail to be saved at
  Cap,      \* _INFO_CAP: the cells a reader reads
  Stale,    \* lock_stale, in ticks: a second at least, and so a tick
  MaxNow,   \* bound: ticks
  MaxMishaps, \* bound: kills and refused writes
  None      \* no holder, no marker, no word to read

ASSUME LineAssumption ==
  /\ Names \subseteq Nat /\ IsFiniteSet(Names) /\ Sizes \subseteq Nat
  /\ KeyOf \in [Procs -> Names] /\ WidthOf \in [Procs -> Nat \ {0}]
  /\ Cap \in Nat \ {0} /\ Stale \in Nat \ {0} /\ MaxNow \in Nat /\ MaxMishaps \in Nat
  /\ None \notin Procs /\ None \notin Nat

VARIABLES
  now,     \* the clock
  file,    \* the lock file's cells
  holder,  \* who has the flock, or None
  pc,      \* where each process is
  known,   \* known[p]: RunLock.markers
  info,    \* info[p]: the moment in its `<pid> <moment>`
  to,      \* to[p]: the line it is writing
  seenAt,  \* seenAt[p]: when a turned-away run first read the line
  marked,  \* history: the marker each state file's runs have recorded last, or None
  overlong,\* history: whether a holder has carried markers past the cap
  taken,   \* history: when the flock was last taken
  by,      \* by[p]: history: who turned p away
  stuck,   \* stuck[p]: history: whether that holder was past lock_stale then
  excused, \* excused[p]: history: whether a holder has left no line since
  mishaps  \* history: processes killed and writes refused past the lock

own == <<known, info, to>>
turned == <<seenAt, by, stuck, excused>>
vars == <<now, file, holder, pc, own, turned, marked, overlong, taken, mishaps>>

Markers == [Names -> Sizes \cup {None}]
Clear == [n \in Names |-> None]
NL == [is |-> "newline"]

-----------------------------------------------------------------------------
(* The line *)

\* The state files a marker is carried for.
Named(marks) == {n \in Names : marks[n] # None}

\* The markers of some state files, in the order of their names.
ByName(named, marks) ==
  LET nth(i) == CHOOSE n \in named : Cardinality({m \in named : m <= n}) = i
  IN  [i \in 1..Cardinality(named) |-> [is |-> "marker", name |-> nth(i), size |-> marks[nth(i)]]]

\* Mutant: a cleared marker stays on the line, as one of no size.
Line_WithCleared(p, at, marks) ==
  [i \in 1..WidthOf[p] |-> [is |-> "holder", at |-> at]] \o ByName(Names, marks) \o <<NL>>

\* RunLock._line: the holder's words, then the markers in the order of their names.
Line(p, at, marks) ==
  [i \in 1..WidthOf[p] |-> [is |-> "holder", at |-> at]] \o ByName(Named(marks), marks) \o <<NL>>

\* _first_line: the cells before the first newline within the cap, and whether the cap cut it.
FirstLine(cells) ==
  LET read == SubSeq(cells, 1, IF Len(cells) < Cap THEN Len(cells) ELSE Cap)
      ends == {i \in DOMAIN read : read[i] = NL}
  IN  IF ends = {} THEN [line |-> read, cut |-> Len(read) >= Cap]
      ELSE [line |-> SubSeq(read, 1, (CHOOSE i \in ends : \A j \in ends : i <= j) - 1), cut |-> FALSE]

\* _read_markers: every triplet of the line, but the last of a line the cap cut.
ReadMarkers(cells) ==
  LET first == FirstLine(cells)
      triplets == {i \in DOMAIN first.line : first.line[i].is = "marker"}
      whole == {i \in triplets : first.cut => \E j \in triplets : i < j}
      of(n) == {i \in whole : first.line[i].name = n}
  IN  [n \in Names |-> IF of(n) = {} THEN None ELSE first.line[CHOOSE i \in of(n) : TRUE].size]

\* _read_holder: when the holder the line names took the lock, or None.
ReadHolder(cells) ==
  LET line == FirstLine(cells).line
  IN  IF line # <<>> /\ line[1].is = "holder" THEN line[1].at ELSE None

\* In place: the line over the front of the file; and the file cut to it.
Over(line, cells) == line \o SubSeq(cells, Len(line) + 1, Len(cells))

-----------------------------------------------------------------------------
PCs == {"idle", "busy", "confirming", "stale", "quiet",
        "locked", "carrying", "writing", "cutting", "held"}
Owning == {"locked", "carrying", "writing", "cutting", "held"}

\* The holder that has the lock and has not written its line.
Lineless == {"locked", "carrying"}

Init ==
  /\ now = 0
  /\ file = <<>>
  /\ holder = None
  /\ pc = [p \in Procs |-> "idle"]
  /\ known = [p \in Procs |-> Clear]
  /\ info = [p \in Procs |-> 0]
  /\ to = [p \in Procs |-> <<>>]
  /\ seenAt = [p \in Procs |-> 0]
  /\ marked = Clear
  /\ overlong = FALSE
  /\ taken = 0
  /\ by = [p \in Procs |-> None]
  /\ stuck = [p \in Procs |-> FALSE]
  /\ excused = [p \in Procs |-> FALSE]
  /\ mishaps = 0

\* A tick is long beside every step but holding the lock and waiting to confirm.
Tick ==
  /\ now < MaxNow
  /\ \A p \in Procs : \/ pc[p] \in {"idle", "held", "stale", "quiet"}
                      \/ pc[p] = "confirming" /\ seenAt[p] = now
  /\ now' = now + 1
  /\ UNCHANGED <<file, holder, pc, own, turned, marked, overlong, taken, mishaps>>

-----------------------------------------------------------------------------
(* acquire(), the lock free *)

Take(p) ==
  /\ pc[p] = "idle"
  /\ holder = None
  /\ holder' = p
  /\ taken' = now
  /\ info' = [info EXCEPT ![p] = now]
  /\ pc' = [pc EXCEPT ![p] = "locked"]
  /\ UNCHANGED <<now, file, known, to, turned, marked, overlong, mishaps>>

\* Every marker of the line is read, and carried onto the holder's own -- of any length.
Carry(p) ==
  /\ pc[p] = "locked"
  /\ known' = [known EXCEPT ![p] = ReadMarkers(file)]
  /\ to' = [to EXCEPT ![p] = Line(p, info[p], ReadMarkers(file))]
  /\ pc' = [pc EXCEPT ![p] = "carrying"]
  /\ UNCHANGED <<now, file, holder, info, turned, marked, overlong, taken, mishaps>>

\* Mutant: the file is truncated first, the line written into it then.
WriteLine_CutFirst(p) ==
  /\ pc[p] \in {"carrying", "writing"}
  /\ file' = <<>>
  /\ marked' = IF pc[p] = "writing"
               THEN [marked EXCEPT ![KeyOf[p]] = known[p][KeyOf[p]]] ELSE marked
  /\ overlong' = (overlong \/ (pc[p] = "carrying" /\ Len(to[p]) > Cap))
  /\ pc' = [pc EXCEPT ![p] = "cutting"]
  /\ UNCHANGED <<now, holder, own, turned, taken, mishaps>>

\* _write_holder: the line over the front of the file, then the file cut to it.
WriteLine(p) ==
  /\ pc[p] \in {"carrying", "writing"}
  /\ file' = Over(to[p], file)
  /\ marked' = IF pc[p] = "writing"
               THEN [marked EXCEPT ![KeyOf[p]] = known[p][KeyOf[p]]] ELSE marked
  /\ overlong' = (overlong \/ (pc[p] = "carrying" /\ Len(to[p]) > Cap))
  /\ pc' = [pc EXCEPT ![p] = "cutting"]
  /\ UNCHANGED <<now, holder, own, turned, taken, mishaps>>

CutLine(p) ==
  /\ pc[p] = "cutting"
  /\ file' = to[p]
  /\ pc' = [pc EXCEPT ![p] = "held"]
  /\ UNCHANGED <<now, holder, own, turned, marked, overlong, taken, mishaps>>

-----------------------------------------------------------------------------
(* Past the lock *)

\* Mutant: the line is written again with the moment of the mark.
Mark_Restamped(p, size) ==
  /\ pc[p] = "held"
  /\ known' = [known EXCEPT ![p][KeyOf[p]] = size]
  /\ to' = [to EXCEPT ![p] = Line(p, now, known'[p])]
  /\ Len(to'[p]) <= Cap
  /\ pc' = [pc EXCEPT ![p] = "writing"]
  /\ UNCHANGED <<now, file, holder, info, turned, marked, overlong, taken, mishaps>>

\* mark_unsaved: a line the readers would cut is not written, and nothing changes.
Mark(p, size) ==
  /\ pc[p] = "held"
  /\ known' = [known EXCEPT ![p][KeyOf[p]] = size]
  /\ to' = [to EXCEPT ![p] = Line(p, info[p], known'[p])]
  /\ Len(to'[p]) <= Cap
  /\ pc' = [pc EXCEPT ![p] = "writing"]
  /\ UNCHANGED <<now, file, holder, info, turned, marked, overlong, taken, mishaps>>

\* clear_unsaved: this state file's marker gone, the others' kept.
Unmark(p) ==
  /\ pc[p] = "held"
  /\ known[p][KeyOf[p]] # None
  /\ known' = [known EXCEPT ![p][KeyOf[p]] = None]
  /\ to' = [to EXCEPT ![p] = Line(p, info[p], known'[p])]
  /\ pc' = [pc EXCEPT ![p] = "writing"]
  /\ UNCHANGED <<now, file, holder, info, turned, marked, overlong, taken, mishaps>>

\* The lock let go: the line stays, a process's memory does not.
LetGo(p) ==
  /\ holder' = None
  /\ pc' = [pc EXCEPT ![p] = "idle"]
  /\ known' = [known EXCEPT ![p] = Clear]
  /\ to' = [to EXCEPT ![p] = <<>>]
  /\ info' = [info EXCEPT ![p] = 0]

Release(p) ==
  /\ pc[p] = "held"
  /\ LetGo(p)
  /\ UNCHANGED <<now, file, turned, marked, overlong, taken, mishaps>>

\* A process dies between two steps; the runs it turned away may then read an older line.
Kill(p) ==
  /\ pc[p] \in Owning
  /\ mishaps < MaxMishaps
  /\ mishaps' = mishaps + 1
  /\ LetGo(p)
  /\ excused' = [q \in Procs |-> excused[q] \/ pc[p] \in Lineless]
  /\ UNCHANGED <<now, file, seenAt, by, stuck, marked, overlong, taken>>

\* The write refused: an acquire gives the lock back, a run past it goes on.
RefuseLine(p) ==
  /\ pc[p] \in {"carrying", "writing"}
  /\ mishaps < MaxMishaps
  /\ mishaps' = mishaps + 1
  /\ \/ /\ pc[p] = "carrying"
        /\ LetGo(p)
        /\ excused' = [q \in Procs |-> TRUE]
     \/ /\ pc[p] = "writing"
        /\ pc' = [pc EXCEPT ![p] = "held"]
        /\ UNCHANGED <<holder, own, excused>>
  /\ UNCHANGED <<now, file, seenAt, by, stuck, marked, overlong, taken>>

-----------------------------------------------------------------------------
(* acquire(), the lock held: LockBusy *)

TurnAway(p) ==
  /\ pc[p] = "idle"
  /\ holder # None
  /\ by' = [by EXCEPT ![p] = holder]
  /\ stuck' = [stuck EXCEPT ![p] = now - taken > Stale]
  /\ excused' = [excused EXCEPT ![p] = FALSE]
  /\ pc' = [pc EXCEPT ![p] = "busy"]
  /\ UNCHANGED <<now, file, holder, own, seenAt, marked, overlong, taken, mishaps>>

\* What the line says now: a holder older than lock_stale (an unreadable one is not).
SaysStale == ReadHolder(file) # None /\ now - ReadHolder(file) > Stale

\* Mutant: the first read decides.
FirstRead_Decides(p) ==
  /\ pc[p] = "busy"
  /\ pc' = [pc EXCEPT ![p] = IF SaysStale THEN "stale" ELSE "quiet"]
  /\ seenAt' = [seenAt EXCEPT ![p] = now]
  /\ UNCHANGED <<now, file, holder, own, by, stuck, excused, marked, overlong, taken, mishaps>>

FirstRead(p) ==
  /\ pc[p] = "busy"
  /\ pc' = [pc EXCEPT ![p] = IF SaysStale THEN "confirming" ELSE "quiet"]
  /\ seenAt' = [seenAt EXCEPT ![p] = now]
  /\ UNCHANGED <<now, file, holder, own, by, stuck, excused, marked, overlong, taken, mishaps>>

\* The second read, after _RECHECK_AFTER.
Confirm(p) ==
  /\ pc[p] = "confirming"
  /\ now > seenAt[p]
  /\ pc' = [pc EXCEPT ![p] = IF SaysStale THEN "stale" ELSE "quiet"]
  /\ UNCHANGED <<now, file, holder, own, turned, marked, overlong, taken, mishaps>>

\* The run turned away ends: exit 0, or exit 1 with the stale line.
Leave(p) ==
  /\ pc[p] \in {"stale", "quiet"}
  /\ pc' = [pc EXCEPT ![p] = "idle"]
  /\ seenAt' = [seenAt EXCEPT ![p] = 0]
  /\ by' = [by EXCEPT ![p] = None]
  /\ stuck' = [stuck EXCEPT ![p] = FALSE]
  /\ excused' = [excused EXCEPT ![p] = FALSE]
  /\ UNCHANGED <<now, file, holder, own, marked, overlong, taken, mishaps>>

-----------------------------------------------------------------------------
Next ==
  \/ Tick
  \/ \E p \in Procs :
       \/ Take(p) \/ Carry(p) \/ WriteLine(p) \/ CutLine(p)
       \/ \E size \in Sizes : Mark(p, size)
       \/ Unmark(p) \/ Release(p) \/ Kill(p) \/ RefuseLine(p)
       \/ TurnAway(p) \/ FirstRead(p) \/ Confirm(p) \/ Leave(p)

Spec == Init /\ [][Next]_vars

-----------------------------------------------------------------------------
(* Properties *)

\* Every variable stays in its type.
Cell == [is : {"holder"}, at : 0..MaxNow] \cup [is : {"marker"}, name : Names, size : Sizes] \cup {NL}

TypeOK ==
  /\ now \in 0..MaxNow /\ taken \in 0..MaxNow
  /\ file \in Seq(Cell)
  /\ holder \in Procs \cup {None}
  /\ pc \in [Procs -> PCs]
  /\ known \in [Procs -> Markers]
  /\ info \in [Procs -> 0..MaxNow]
  /\ to \in [Procs -> Seq(Cell)]
  /\ seenAt \in [Procs -> 0..MaxNow]
  /\ by \in [Procs -> Procs \cup {None}]
  /\ stuck \in [Procs -> BOOLEAN] /\ excused \in [Procs -> BOOLEAN]
  /\ marked \in Markers
  /\ overlong \in BOOLEAN
  /\ mishaps \in 0..MaxMishaps

\* Whatever is written, killed or cut short on the line, what the next holder reads there
\* is what each configuration's own runs recorded last -- no other's writes touch it, no
\* half-written line shows -- and past the cap a marker is lost whole, never misread
\* (issues #70, #73).
MarkersKept ==
  /\ \A n \in Names : ReadMarkers(file)[n] \in {None, marked[n]}
  /\ ~overlong => ReadMarkers(file) = marked

\* A run that reports a stale lock was turned away by a holder that is stuck, whosever line
\* it read first -- unless a holder died or was refused before it had written its own.
StaleIsStale ==
  \A p \in Procs : pc[p] = "stale" => stuck[p] \/ excused[p]

\* A stuck run does not silence the watcher: no run it turns away ends quietly while it
\* goes on holding the lock.
StuckIsNoticed ==
  \A p \in Procs : pc[p] = "quiet" /\ stuck[p] => holder # by[p] \/ taken >= seenAt[p]
=============================================================================
