------------------------------ MODULE RunCycle ------------------------------
(***************************************************************************)
(* The run of logalert (run.py), as several processes live it: cron starts *)
(* a run whether or not the previous one has ended, an operator starts a   *)
(* --reset-state, programs append to the logs, the disk fills and empties, *)
(* and any process may die between two steps.                              *)
(*                                                                         *)
(* Durable: the state file (disk), the marker on the lock's holder line    *)
(* (marker).  The lock itself is the kernel's and dies with its holder.    *)
(* All else a process knows is its own memory.                             *)
(*                                                                         *)
(* A watched item is a (section, path) pair; a log is its number of lines  *)
(* and the set of those that match; a saved cursor is an offset in lines   *)
(* and the day it was taken.  Rotation, globs and the message itself are   *)
(* not here.                                                               *)
(***************************************************************************)
EXTENDS Integers, FiniteSets

CONSTANTS
  Procs,      \* processes that can exist at a time
  Files,      \* watched items
  Sections,   \* how many sections the configuration has
  FilesOf,    \* section number -> its items
  FromStart,  \* items whose section says start = beginning
  TTL,        \* state_ttl, in days
  Headroom,   \* STATE_HEADROOM
  Size(_),    \* the bytes a state renders to
  MaxLines,   \* bound: lines per log
  MaxDay,     \* bound: days that pass
  MaxRoom,    \* bound: the largest room the disk can have
  MaxCopies,  \* bound: deliveries of a line are counted up to this
  MaxMishaps, \* bound: kills, lost answers, refused markers, lost room, resets
  None        \* no entry, no marker, no file, no holder

Offsets == 0..MaxLines
Lines == 1..MaxLines
Days == 0..MaxDay
Entry == [off : Offsets, day : Days]
States == [Files -> Entry \cup {None}]

ASSUME ConstantsAssumption ==
  /\ Sections \in Nat
  /\ FilesOf \in [1..Sections -> SUBSET Files]
  /\ \A s, t \in 1..Sections : s # t => FilesOf[s] \cap FilesOf[t] = {}
  /\ FromStart \subseteq Files
  /\ TTL \in Nat /\ Headroom \in Nat
  /\ MaxLines \in Nat /\ MaxDay \in Nat /\ MaxRoom \in Nat
  /\ MaxCopies \in Nat \ {0} /\ MaxMishaps \in Nat
  /\ None \notin Nat /\ None \notin Procs /\ None \notin Files /\ None \notin Entry

ASSUME SizeAssumption == \A st \in States : Size(st) \in Nat

VARIABLES
  len,     \* len[f]: lines in the log
  hits,    \* hits[f]: those a pattern matches
  room,    \* the largest state file the disk would take now
  day,     \* the date
  disk,    \* the state file: item -> entry or None
  marker,  \* the unsaved marker on the holder line, or None
  holder,  \* who holds the flock, or None
  pc,      \* where each process is
  mem,     \* mem[p]: its State, in memory
  known,   \* known[p]: RunLock.unsaved, the marker as it knows it
  sec,     \* sec[p]: the section it is in
  todo,    \* todo[p]: the section's files it has not come to
  cur,     \* cur[p]: the file it has open
  start,   \* start[p][f]: where its read of f began (starts)
  end,     \* end[p][f]: where its read of f ended (cursors)
  failed,  \* failed[p]: whether it has a failed item, hence exits 1
  copies,  \* history: accepted mails that carried the line
  since,   \* history: the offset tracking of f began at, or None
  reached, \* history: the last day a saved section had f open and read to its end
  mishaps  \* history: what went wrong from outside

env == <<len, hits, room, day>>
locals == <<mem, known, sec, todo, cur, start, end, failed>>
ghosts == <<copies, since, reached>>
vars == <<env, disk, marker, holder, pc, locals, ghosts, mishaps>>

Nothing == [f \in Files |-> None]
Bigger(a, b) == IF a > b THEN a ELSE b

\* The program counters of a process that has the lock.
Holding == {"load", "opening", "clear", "section", "files", "read",
            "saveSent", "saveKept", "mark", "release", "resetAll", "resetOne"}
Resetting == {"resetAll", "resetOne"}
PCs == {"idle", "locking", "resetting"} \cup Holding

Init ==
  /\ len = [f \in Files |-> 0]
  /\ hits = [f \in Files |-> {}]
  /\ room \in 0..MaxRoom
  /\ day = 0
  /\ disk = Nothing
  /\ marker = None
  /\ holder = None
  /\ pc = [p \in Procs |-> "idle"]
  /\ mem = [p \in Procs |-> Nothing]
  /\ known = [p \in Procs |-> None]
  /\ sec = [p \in Procs |-> 0]
  /\ todo = [p \in Procs |-> {}]
  /\ cur = [p \in Procs |-> None]
  /\ start = [p \in Procs |-> Nothing]
  /\ end = [p \in Procs |-> Nothing]
  /\ failed = [p \in Procs |-> FALSE]
  /\ copies = [f \in Files |-> [i \in Lines |-> 0]]
  /\ since = Nothing
  /\ reached = [f \in Files |-> 0]
  /\ mishaps = 0

Mishap == mishaps < MaxMishaps /\ mishaps' = mishaps + 1

-----------------------------------------------------------------------------
(* The world outside *)

Append(f) ==
  /\ len[f] < MaxLines
  /\ len' = [len EXCEPT ![f] = @ + 1]
  /\ \/ hits' = hits
     \/ hits' = [hits EXCEPT ![f] = @ \cup {len[f] + 1}]
  /\ UNCHANGED <<room, day, disk, marker, holder, pc, locals, ghosts, mishaps>>

RoomFreed ==
  /\ room' \in room + 1 .. MaxRoom
  /\ UNCHANGED <<len, hits, day, disk, marker, holder, pc, locals, ghosts, mishaps>>

RoomLost ==
  /\ Mishap
  /\ room' \in 0 .. room - 1
  /\ UNCHANGED <<len, hits, day, disk, marker, holder, pc, locals, ghosts>>

\* A run is short beside a day: the date changes between runs.
NextDay ==
  /\ day < MaxDay
  /\ holder = None
  /\ day' = day + 1
  /\ UNCHANGED <<len, hits, room, disk, marker, holder, pc, locals, ghosts, mishaps>>

-----------------------------------------------------------------------------
(* Taking the lock *)

\* Cron starts a run; an operator starts a --reset-state.
StartRun(p) ==
  /\ pc[p] = "idle"
  /\ pc' = [pc EXCEPT ![p] = "locking"]
  /\ UNCHANGED <<env, disk, marker, holder, locals, ghosts, mishaps>>

StartReset(p) ==
  /\ pc[p] = "idle"
  /\ Mishap
  /\ pc' = [pc EXCEPT ![p] = "resetting"]
  /\ UNCHANGED <<env, disk, marker, holder, locals, ghosts>>

\* Mutant: the run that is turned away releases the lock on its way out.
TurnedAway_Releases(p) ==
  /\ pc[p] \in {"locking", "resetting"}
  /\ holder # None
  /\ holder' = None
  /\ pc' = [pc EXCEPT ![p] = "idle"]
  /\ UNCHANGED <<env, disk, marker, locals, ghosts, mishaps>>

\* LockBusy: a fresh holder is exit 0, a stale one exit 1; neither touches anything.
TurnedAway(p) ==
  /\ pc[p] \in {"locking", "resetting"}
  /\ holder # None
  /\ pc' = [pc EXCEPT ![p] = "idle"]
  /\ UNCHANGED <<env, disk, marker, holder, locals, ghosts, mishaps>>

\* Mutant: a check that another run is there, and no lock.
Acquire_Unlocked(p) ==
  /\ pc[p] = "locking"
  /\ holder' = p
  /\ known' = [known EXCEPT ![p] = marker]
  /\ pc' = [pc EXCEPT ![p] = "load"]
  /\ UNCHANGED <<env, disk, marker, mem, sec, todo, cur, start, end, failed, ghosts, mishaps>>

\* flock, then the previous holder's marker read and carried onto the new line.
Acquire(p) ==
  /\ pc[p] = "locking"
  /\ holder = None
  /\ holder' = p
  /\ known' = [known EXCEPT ![p] = marker]
  /\ pc' = [pc EXCEPT ![p] = "load"]
  /\ UNCHANGED <<env, disk, marker, mem, sec, todo, cur, start, end, failed, ghosts, mishaps>>

\* A process ends: the kernel drops its lock, its memory is gone.
Gone(p) ==
  /\ holder' = IF holder = p THEN None ELSE holder
  /\ pc' = [pc EXCEPT ![p] = "idle"]
  /\ mem' = [mem EXCEPT ![p] = Nothing]
  /\ known' = [known EXCEPT ![p] = None]
  /\ sec' = [sec EXCEPT ![p] = 0]
  /\ todo' = [todo EXCEPT ![p] = {}]
  /\ cur' = [cur EXCEPT ![p] = None]
  /\ start' = [start EXCEPT ![p] = Nothing]
  /\ end' = [end EXCEPT ![p] = Nothing]
  /\ failed' = [failed EXCEPT ![p] = FALSE]

Release(p) ==
  /\ pc[p] = "release"
  /\ Gone(p)
  /\ UNCHANGED <<env, disk, marker, ghosts, mishaps>>

\* SIGKILL, SIGTERM, Ctrl-C, a power loss: between any two steps.
Kill(p) ==
  /\ pc[p] \in Holding
  /\ Mishap
  /\ Gone(p)
  /\ UNCHANGED <<env, disk, marker, ghosts>>

-----------------------------------------------------------------------------
(* The state: loaded, expired, saved *)

Age(e) == day - e.day

\* State.expire: an entry older than the time to live is dropped.
Expired(st) ==
  [f \in Files |-> IF st[f] # None /\ Age(st[f]) > TTL THEN None ELSE st[f]]

Load(p) ==
  /\ pc[p] = "load"
  /\ mem' = [mem EXCEPT ![p] = Expired(disk)]
  /\ pc' = [pc EXCEPT ![p] = "opening"]
  /\ UNCHANGED <<env, disk, marker, holder, known, sec, todo, cur, start, end, failed, ghosts, mishaps>>

\* StateError out of load_state: the file cannot be read.
LoadFails(p) ==
  /\ pc[p] = "load"
  /\ failed' = [failed EXCEPT ![p] = TRUE]
  /\ pc' = [pc EXCEPT ![p] = "release"]
  /\ UNCHANGED <<env, disk, marker, holder, mem, known, sec, todo, cur, start, end, ghosts, mishaps>>

\* write_atomically: the state in memory becomes the file, whole, if the disk
\* has room for `need` bytes; else nothing of it lands.
Write(p) ==
  /\ disk' = mem[p]
  /\ since' = [f \in Files |-> CASE mem[p][f] = None -> None
                                 [] mem[p][f] # None /\ since[f] = None -> start[p][f]
                                 [] OTHER -> since[f]]

\* Mutant: the opening save of a marked run is the plain one.
Proof_Plain(p) == Size(mem[p])

\* What the opening save must fit: the state as loaded, or after an unrecorded
\* mail the size that did not fit and a block (State.save(reach=...)).
Proof(p) ==
  IF known[p] = None THEN Size(mem[p]) ELSE Bigger(Size(mem[p]), known[p] + Headroom)

OpeningSave(p) ==
  /\ pc[p] = "opening"
  /\ Proof(p) <= room
  /\ Write(p)
  /\ pc' = [pc EXCEPT ![p] = IF known[p] = None THEN "section" ELSE "clear"]
  /\ UNCHANGED <<env, marker, holder, locals, copies, reached, mishaps>>

OpeningSaveFails(p) ==
  /\ pc[p] = "opening"
  /\ Proof(p) > room
  /\ failed' = [failed EXCEPT ![p] = TRUE]
  /\ pc' = [pc EXCEPT ![p] = "release"]
  /\ UNCHANGED <<env, disk, marker, holder, mem, known, sec, todo, cur, start, end, ghosts, mishaps>>

\* Mutant: a marker the line does not let go of ends the run.
ClearMarker_MustWrite(p) ==
  /\ pc[p] = "clear"
  /\ \/ /\ marker' = None
        /\ known' = [known EXCEPT ![p] = None]
        /\ pc' = [pc EXCEPT ![p] = "section"]
        /\ UNCHANGED failed
     \/ /\ failed' = [failed EXCEPT ![p] = TRUE]
        /\ pc' = [pc EXCEPT ![p] = "release"]
        /\ UNCHANGED <<known, marker>>
  /\ UNCHANGED <<env, disk, holder, mem, sec, todo, cur, start, end, ghosts, mishaps>>

\* _clear_marker: forgotten in memory first; the line may refuse the write.
ClearMarker(p) ==
  /\ pc[p] = "clear"
  /\ known' = [known EXCEPT ![p] = None]
  /\ marker' \in {None, marker}
  /\ pc' = [pc EXCEPT ![p] = "section"]
  /\ UNCHANGED <<env, disk, holder, mem, sec, todo, cur, start, end, failed, ghosts, mishaps>>

-----------------------------------------------------------------------------
(* One section: its files read, one mail, its places moved, the state saved *)

BeginSection(p) ==
  /\ pc[p] = "section"
  /\ sec[p] < Sections
  /\ sec' = [sec EXCEPT ![p] = @ + 1]
  /\ todo' = [todo EXCEPT ![p] = FilesOf[sec[p] + 1]]
  /\ pc' = [pc EXCEPT ![p] = "files"]
  /\ UNCHANGED <<env, disk, marker, holder, mem, known, cur, start, end, failed, ghosts, mishaps>>

AllSectionsDone(p) ==
  /\ pc[p] = "section"
  /\ sec[p] = Sections
  /\ pc' = [pc EXCEPT ![p] = "release"]
  /\ UNCHANGED <<env, disk, marker, holder, locals, ghosts, mishaps>>

\* A saved place is read on from; a first sight from the end, or the beginning if told.
StartOf(p, f) ==
  CASE mem[p][f] # None -> mem[p][f].off
    [] mem[p][f] = None /\ f \in FromStart -> 0
    [] OTHER -> len[f]

OpenFile(p, f) ==
  /\ pc[p] = "files"
  /\ f \in todo[p]
  /\ cur' = [cur EXCEPT ![p] = f]
  /\ todo' = [todo EXCEPT ![p] = @ \ {f}]
  /\ start' = [start EXCEPT ![p][f] = StartOf(p, f)]
  /\ pc' = [pc EXCEPT ![p] = "read"]
  /\ UNCHANGED <<env, disk, marker, holder, mem, known, sec, end, failed, ghosts, mishaps>>

\* Absent this run (nothing to say), or it cannot be opened (a failed item).
SkipFile(p, f) ==
  /\ pc[p] = "files"
  /\ f \in todo[p]
  /\ todo' = [todo EXCEPT ![p] = @ \ {f}]
  /\ \/ failed' = failed
     \/ failed' = [failed EXCEPT ![p] = TRUE]
  /\ UNCHANGED <<env, disk, marker, holder, pc, mem, known, sec, cur, start, end, ghosts, mishaps>>

\* Read to the end there is now: lines written since the open are read too.
ReadFile(p) ==
  /\ pc[p] = "read"
  /\ end' = [end EXCEPT ![p][cur[p]] = len[cur[p]]]
  /\ cur' = [cur EXCEPT ![p] = None]
  /\ pc' = [pc EXCEPT ![p] = "files"]
  /\ UNCHANGED <<env, disk, marker, holder, mem, known, sec, todo, start, failed, ghosts, mishaps>>

\* Mutant: the cursor is taken when it is saved, not when the read ended.
AtEnd_Now(p, f) == [off |-> len[f], day |-> day]

\* An entry taken now: where the read of f began, where it ended.
AtStart(p, f) == [off |-> start[p][f], day |-> day]
AtEnd(p, f) == [off |-> end[p][f], day |-> day]

\* A scan timeout or a read error: no cursor, and a first sight is pinned to its start.
ReadFails(p) ==
  /\ pc[p] = "read"
  /\ failed' = [failed EXCEPT ![p] = TRUE]
  /\ mem' = IF mem[p][cur[p]] = None
            THEN [mem EXCEPT ![p][cur[p]] = AtStart(p, cur[p])]
            ELSE mem
  /\ cur' = [cur EXCEPT ![p] = None]
  /\ pc' = [pc EXCEPT ![p] = "files"]
  /\ UNCHANGED <<env, disk, marker, holder, known, sec, todo, start, end, ghosts, mishaps>>

\* The section's files whose read completed, the hits each brought, those with any.
WereRead(p) == {f \in FilesOf[sec[p]] : end[p][f] # None}
Brought(p, f) == {i \in hits[f] : start[p][f] < i /\ i <= end[p][f]}
Contributing(p) == {f \in WereRead(p) : Brought(p, f) # {}}

ReadAll(p) == pc[p] = "files" /\ todo[p] = {}

\* Mutant: every file of the section moves, whether its read completed or not.
Advanced_Unread(p) == [f \in Files |-> IF f \in FilesOf[sec[p]] THEN AtEnd(p, f) ELSE mem[p][f]]

\* _advance: every file that was read moves to its end.
Advanced(p) == [f \in Files |-> IF f \in WereRead(p) THEN AtEnd(p, f) ELSE mem[p][f]]

\* Mutants: a refused mail moves its places; leaves a first sight without an entry;
\* leaves the sighting of its files alone.
Kept_Moves(p) == Advanced(p)

Kept_NoPin(p) ==
  [f \in Files |->
     CASE f \in WereRead(p) \ Contributing(p) -> AtEnd(p, f)
       [] f \in Contributing(p) /\ mem[p][f] # None /\ 2 * Age(mem[p][f]) > TTL ->
            [mem[p][f] EXCEPT !.day = day]
       [] OTHER -> mem[p][f]]

Kept_NoTouch(p) ==
  [f \in Files |->
     CASE f \in WereRead(p) \ Contributing(p) -> AtEnd(p, f)
       [] f \in Contributing(p) /\ mem[p][f] = None -> AtStart(p, f)
       [] OTHER -> mem[p][f]]

\* The other ending: quiet files move, the rest keep their place -- an entry at the
\* start of the read if they had none, a new sighting only halfway to expiry.
Kept(p) ==
  [f \in Files |->
     CASE f \in WereRead(p) \ Contributing(p) -> AtEnd(p, f)
       [] f \in Contributing(p) /\ mem[p][f] = None -> AtStart(p, f)
       [] f \in Contributing(p) /\ mem[p][f] # None /\ 2 * Age(mem[p][f]) > TTL ->
            [mem[p][f] EXCEPT !.day = day]
       [] OTHER -> mem[p][f]]

\* A mail goes out with every hit of the section.
MailOut(p) ==
  copies' = [f \in Files |-> [i \in Lines |->
               IF f \in Contributing(p) /\ i \in Brought(p, f) /\ copies[f][i] < MaxCopies
               THEN copies[f][i] + 1 ELSE copies[f][i]]]

Quiet(p) ==
  /\ ReadAll(p)
  /\ Contributing(p) = {}
  /\ mem' = [mem EXCEPT ![p] = Advanced(p)]
  /\ pc' = [pc EXCEPT ![p] = "saveKept"]
  /\ UNCHANGED <<env, disk, marker, holder, known, sec, todo, cur, start, end, failed, ghosts, mishaps>>

\* Accepted, by all recipients or (a failed item each) not by all.
Accepted(p) ==
  /\ ReadAll(p)
  /\ Contributing(p) # {}
  /\ MailOut(p)
  /\ mem' = [mem EXCEPT ![p] = Advanced(p)]
  /\ \/ failed' = failed
     \/ failed' = [failed EXCEPT ![p] = TRUE]
  /\ pc' = [pc EXCEPT ![p] = "saveSent"]
  /\ UNCHANGED <<env, disk, marker, holder, known, sec, todo, cur, start, end, since, reached, mishaps>>

NotDelivered(p) ==
  /\ ReadAll(p)
  /\ Contributing(p) # {}
  /\ mem' = [mem EXCEPT ![p] = Kept(p)]
  /\ failed' = [failed EXCEPT ![p] = TRUE]
  /\ pc' = [pc EXCEPT ![p] = "saveKept"]
  /\ UNCHANGED <<env, disk, marker, holder, known, sec, todo, cur, start, end, since, reached>>

Refused(p) == NotDelivered(p) /\ UNCHANGED <<copies, mishaps>>

\* A transport that took the mail and could not say so in time.
AnswerLost(p) == NotDelivered(p) /\ MailOut(p) /\ Mishap

Saving == {"saveSent", "saveKept"}

SectionSave(p) ==
  /\ pc[p] \in Saving
  /\ Size(mem[p]) <= room
  /\ Write(p)
  /\ reached' = [f \in Files |-> IF f \in WereRead(p) THEN day ELSE reached[f]]
  /\ pc' = [pc EXCEPT ![p] = IF known[p] = None THEN "section" ELSE "clear"]
  /\ UNCHANGED <<env, marker, holder, locals, copies, mishaps>>

\* Mutant: the error is logged and is no failed item.
SectionSaveFails_Quiet(p) ==
  /\ pc[p] \in Saving
  /\ Size(mem[p]) > room
  /\ pc' = [pc EXCEPT ![p] = IF pc[p] = "saveSent" \/ known[p] # None THEN "mark" ELSE "section"]
  /\ UNCHANGED <<env, disk, marker, holder, locals, ghosts, mishaps>>

SectionSaveFails(p) ==
  /\ pc[p] \in Saving
  /\ Size(mem[p]) > room
  /\ failed' = [failed EXCEPT ![p] = TRUE]
  /\ pc' = [pc EXCEPT ![p] = IF pc[p] = "saveSent" \/ known[p] # None THEN "mark" ELSE "section"]
  /\ UNCHANGED <<env, disk, marker, holder, mem, known, sec, todo, cur, start, end, ghosts, mishaps>>

\* The size that did not fit, the larger of this one and the one already known.
Unsaved(p) == IF known[p] = None THEN Size(mem[p]) ELSE Bigger(Size(mem[p]), known[p])

MarkUnsaved(p) ==
  /\ pc[p] = "mark"
  /\ known' = [known EXCEPT ![p] = Unsaved(p)]
  /\ marker' = Unsaved(p)
  /\ pc' = [pc EXCEPT ![p] = "section"]
  /\ UNCHANGED <<env, disk, holder, mem, sec, todo, cur, start, end, failed, ghosts, mishaps>>

\* The line refuses the write (set in memory already), or is full (restored).
MarkFails(p) ==
  /\ pc[p] = "mark"
  /\ Mishap
  /\ \/ known' = [known EXCEPT ![p] = Unsaved(p)]
     \/ known' = known
  /\ pc' = [pc EXCEPT ![p] = "section"]
  /\ UNCHANGED <<env, disk, marker, holder, mem, sec, todo, cur, start, end, failed, ghosts>>

-----------------------------------------------------------------------------
(* --reset-state: the positions of every file, or of one, forgotten under the lock *)

\* The items of one path: one section has at most one of them.
OnePath(F) == \A s \in 1..Sections : \A f, g \in F \cap FilesOf[s] : f = g

\* Every position, or one path's in all its sections; with none to forget it ends there.
ResetLoad(p) ==
  /\ pc[p] = "resetting"
  /\ holder = None
  /\ holder' = p
  /\ known' = [known EXCEPT ![p] = marker]
  /\ sec' = [sec EXCEPT ![p] = Sections]
  /\ \/ /\ mem' = [mem EXCEPT ![p] = Nothing]
        /\ pc' = [pc EXCEPT ![p] = "resetAll"]
     \/ \E F \in SUBSET Files :
          /\ OnePath(F)
          /\ mem' = [mem EXCEPT ![p] = [f \in Files |-> IF f \in F THEN None ELSE disk[f]]]
          /\ pc' = [pc EXCEPT ![p] = IF \A f \in F : disk[f] = None THEN "release" ELSE "resetOne"]
  /\ UNCHANGED <<env, disk, marker, todo, cur, start, end, failed, ghosts, mishaps>>

\* Forgetting every file clears the marker; forgetting one leaves it.
ResetSave(p) ==
  /\ pc[p] \in Resetting
  /\ Size(mem[p]) <= room
  /\ Write(p)
  /\ pc' = [pc EXCEPT ![p] = IF pc[p] = "resetAll" /\ known[p] # None THEN "clear" ELSE "release"]
  /\ UNCHANGED <<env, marker, holder, locals, copies, reached, mishaps>>

ResetSaveFails(p) ==
  /\ pc[p] \in Resetting
  /\ Size(mem[p]) > room
  /\ pc' = [pc EXCEPT ![p] = "release"]
  /\ UNCHANGED <<env, disk, marker, holder, locals, ghosts, mishaps>>

-----------------------------------------------------------------------------
\* What a process does next, once it exists and unless it is killed.
Step(p) ==
  \/ TurnedAway(p) \/ Acquire(p) \/ Load(p) \/ LoadFails(p)
  \/ OpeningSave(p) \/ OpeningSaveFails(p) \/ ClearMarker(p)
  \/ BeginSection(p) \/ AllSectionsDone(p)
  \/ \E f \in Files : OpenFile(p, f) \/ SkipFile(p, f)
  \/ ReadFile(p) \/ ReadFails(p)
  \/ Quiet(p) \/ Accepted(p) \/ Refused(p) \/ AnswerLost(p)
  \/ SectionSave(p) \/ SectionSaveFails(p) \/ MarkUnsaved(p) \/ MarkFails(p)
  \/ ResetLoad(p) \/ ResetSave(p) \/ ResetSaveFails(p)
  \/ Release(p)

World == (\E f \in Files : Append(f)) \/ RoomFreed \/ RoomLost \/ NextDay

Next == World \/ \E p \in Procs : StartRun(p) \/ StartReset(p) \/ Step(p) \/ Kill(p)

Spec == Init /\ [][Next]_vars

\* Cron starts runs for ever and no run hangs (scan_timeout and mail_timeout end what
\* could); an operator frees a full disk.  What may fail does not fail in every run, neither
\* one file's open or read nor a mail; nor is every run turned away by one that ends.
Fairness ==
  /\ WF_vars(RoomFreed)
  /\ WF_vars(\E p \in Procs : StartRun(p))
  /\ \A p \in Procs : WF_vars(Step(p))
  /\ SF_vars(\E p \in Procs : Acquire(p))
  /\ SF_vars(\E p \in Procs : Load(p))
  /\ \A f \in Files :
       /\ SF_vars(\E p \in Procs : OpenFile(p, f))
       /\ SF_vars(\E p \in Procs : ReadFile(p) /\ cur[p] = f)
  /\ SF_vars(\E p \in Procs : Accepted(p))

FairSpec == Spec /\ Fairness

-----------------------------------------------------------------------------
(* Properties *)

\* Every variable stays in its type.
TypeOK ==
  /\ len \in [Files -> Offsets]
  /\ hits \in [Files -> SUBSET Lines]
  /\ room \in 0..MaxRoom
  /\ day \in Days
  /\ disk \in States
  /\ marker \in Nat \cup {None}
  /\ holder \in Procs \cup {None}
  /\ pc \in [Procs -> PCs]
  /\ mem \in [Procs -> States]
  /\ known \in [Procs -> Nat \cup {None}]
  /\ sec \in [Procs -> 0..Sections]
  /\ todo \in [Procs -> SUBSET Files]
  /\ cur \in [Procs -> Files \cup {None}]
  /\ start \in [Procs -> [Files -> Offsets \cup {None}]]
  /\ end \in [Procs -> [Files -> Offsets \cup {None}]]
  /\ failed \in [Procs -> BOOLEAN]
  /\ copies \in [Files -> [Lines -> 0..MaxCopies]]
  /\ since \in [Files -> Offsets \cup {None}]
  /\ reached \in [Files -> Days]
  /\ mishaps \in 0..MaxMishaps

\* A file is open while it is read, and every end of a read has its start.
ReadsStarted ==
  \A p \in Procs :
    /\ pc[p] = "read" => cur[p] \in Files /\ start[p][cur[p]] # None
    /\ \A f \in Files : end[p][f] # None => start[p][f] # None

\* One process at a time is past the lock (lock.py: one run per state directory).
MutualExclusion ==
  \A p, q \in Procs : pc[p] \in Holding /\ pc[q] \in Holding => p = q

\* What makes it inductive: whoever is past the lock is the one the kernel says has it.
HolderHolds == \A p \in Procs : pc[p] \in Holding <=> holder = p

\* Every hit of f in (from, to] has been in an accepted mail.
Delivered(f, from, to) == \A i \in hits[f] : from < i /\ i <= to => copies[f][i] > 0

\* No hit is lost: a line between where tracking began and the saved place -- one no
\* later run will read -- has been in an accepted mail, whatever was refused, killed or
\* left unsaved on the way.
NoHitLost ==
  \A f \in Files :
    disk[f] # None => /\ since[f] # None
                      /\ since[f] <= disk[f].off
                      /\ Delivered(f, since[f], disk[f].off)

\* What a section is about to save has an entry for every file the run opened, so that
\* no later run sights the file afresh at its end (issue #31: the entry a refused mail or
\* a failed read leaves for a file that had none).
OpenedFilesTracked ==
  \A p \in Procs : pc[p] \in Saving =>
    \A f \in FilesOf[sec[p]] : start[p][f] # None => mem[p][f] # None

\* A run that ends with nothing failed has put every place it read to on disk.
CleanRunIsSaved ==
  \A p \in Procs : pc[p] = "release" /\ ~failed[p] =>
    \A f \in Files : end[p][f] # None => disk[f] # None /\ disk[f].off = end[p][f]

\* A hit is delivered once; once more when the disk was full after the mail; and more
\* often only by a mishap each (issue #70: the residual window is bounded to one run).
CopiesBounded ==
  \A f \in Files, i \in Lines : copies[f][i] <= 2 + mishaps

\* The saved place of a log never goes back, and is dropped only by a reset or for age.
PlacesOnlyAdvance ==
  [][\A f \in Files : disk[f] # None =>
       \/ disk'[f] # None /\ disk'[f].off >= disk[f].off
       \/ disk'[f] = None /\ \/ Age(disk[f]) > TTL
                             \/ \E p \in Procs : pc[p] \in Resetting]_disk

\* The strengthening NoHitLost, OpenedFilesTracked and PlacesOnlyAdvance need: what the
\* state in a process's memory promises, at each point of its run.
Working == Holding \ {"load", "release"}
\* Where tracking of f began, or will have once p's state is saved.
Base(p, f) == IF since[f] # None THEN since[f] ELSE start[p][f]

LogsOK ==
  \A f \in Files :
    /\ \A i \in hits[f] : i <= len[f]
    /\ (disk[f] # None => disk[f].off <= len[f])
    /\ (disk[f] = None => since[f] = None)

\* What p would save is as good as what is saved ...
MemDelivered(p) ==
  pc[p] \in Working => \A f \in Files :
    mem[p][f] # None => /\ Base(p, f) # None
                        /\ Base(p, f) <= mem[p][f].off
                        /\ mem[p][f].off <= len[f]
                        /\ Delivered(f, Base(p, f), mem[p][f].off)

\* ... and no further back.
MemAhead(p) ==
  pc[p] \in Working => \A f \in Files :
    disk[f] # None =>
      \/ mem[p][f] # None /\ disk[f].off <= mem[p][f].off
      \/ mem[p][f] = None /\ pc[p] = "opening" /\ Age(disk[f]) > TTL
      \/ mem[p][f] = None /\ pc[p] \in Resetting

\* Reads lie within the log; a file still to come has not been read in this run.
ReadsOK(p) ==
  /\ \A f \in Files :
       /\ (start[p][f] # None => start[p][f] <= len[f])
       /\ (end[p][f] # None => start[p][f] <= end[p][f] /\ end[p][f] <= len[f])
  /\ \A s \in 1..Sections : \A f \in FilesOf[s] :
       (s > sec[p] \/ (s = sec[p] /\ f \in todo[p])) => (start[p][f] = None /\ end[p][f] = None)

\* While a section is read, a file's read began at its place, and one that failed has one.
SectionOK(p) ==
  pc[p] \in {"files", "read"} =>
    /\ sec[p] \in 1..Sections
    /\ todo[p] \subseteq FilesOf[sec[p]]
    /\ (pc[p] = "read" => cur[p] \in FilesOf[sec[p]])
    /\ \A f \in FilesOf[sec[p]] : start[p][f] # None =>
         /\ (mem[p][f] # None => mem[p][f].off = start[p][f])
         /\ (mem[p][f] # None \/ end[p][f] # None \/ (pc[p] = "read" /\ cur[p] = f))

MemoryOK(p) == MemDelivered(p) /\ MemAhead(p) /\ ReadsOK(p) /\ SectionOK(p)

Safe ==
  /\ ReadsStarted /\ HolderHolds
  /\ LogsOK /\ NoHitLost
  /\ \A p \in Procs : MemoryOK(p)

\* What a step drops from the state file for age.
ExpiredNow(f) ==
  /\ disk[f] # None /\ disk'[f] = None
  /\ ~\E p \in Procs : pc[p] \in Resetting

\* An entry dropped for age belongs to a file no saved section has read to its end for
\* more than half the time to live, however often its mail was refused in between
\* (issues #12, #64: the touch halfway to expiry).
OnlyUnreachedExpire ==
  [][\A f \in Files : ExpiredNow(f) => 2 * (day - reached[f]) > TTL]_disk

\* Every hit a log is tracked for is delivered in the end -- past refusals, failed reads,
\* kills, a full disk and a standing mark -- unless an operator's reset or the log's age
\* takes its place away.
HitsDelivered ==
  \A f \in Files, i \in Lines :
    (i \in hits[f] /\ since[f] # None /\ since[f] < i)
      ~> (copies[f][i] > 0 \/ since[f] = None)

-----------------------------------------------------------------------------
(* The promise this module keeps: AtLeastOnce, its place the saved offset, its *)
(* mailed lines those an accepted mail has carried.                           *)
Promise == INSTANCE AtLeastOnce WITH
  place <- [f \in Files |-> IF disk[f] = None THEN None ELSE disk[f].off],
  mailed <- [f \in Files |-> {i \in Lines : copies[f][i] > 0}]

KeepsPromise == Promise!AbsSpec
=============================================================================
