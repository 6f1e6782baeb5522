---------------------------- MODULE RotatingLog ----------------------------
(***************************************************************************)
(* A log under rotation, as rotation.py expects to find it: a program      *)
(* appends to the live file, and logrotate shifts the numbered copies,     *)
(* moves the live file to .1 and makes a new one (or copies it to .1 and   *)
(* truncates it), compresses copies one by one and removes the oldest.     *)
(* None of it is logalert's: it is the file system logalert reads.         *)
(*                                                                         *)
(* A file is an inode: its text, a sequence of lines, and its mtime.  The  *)
(* lines are numbered as they are written; with a banner every file begins *)
(* with the same line 0, which no one reports.  A name is a pair of a      *)
(* rotation number (0 for the live file) and whether it ends in .gz; a     *)
(* compressed copy has an inode of its own, the text and the mtime of the  *)
(* plain one.                                                              *)
(***************************************************************************)
EXTENDS Integers, Sequences, FiniteSets

CONSTANTS
  Inodes,       \* inode numbers; a freed one may be handed out again
  Kept,         \* logrotate's rotate: how many copies it keeps
  Setups,       \* the logs that are looked at, one of them at a time
  MaxSeconds,   \* bound: the clock
  None

\* How a log is written and rotated, and how far it is followed.
AllSetups ==
  [banner : BOOLEAN,                               \* every file begins with the same line
   methods : SUBSET {"rename", "copytruncate"},    \* how the live file is rotated
   packing : BOOLEAN,                              \* copies may be compressed
   filled : BOOLEAN,                               \* a new or truncated file has its first line at once
   spaced : BOOLEAN,                               \* one rotation a run at most, and no copy moves
                                                   \* twice after its listing
   flaws : Nat,                                    \* bound: copies that cannot be read
   lines : Nat \ {0}, rotations : Nat]             \* bounds: lines written, rotations

ASSUME RotationAssumption ==
  /\ IsFiniteSet(Inodes) /\ Kept \in Nat \ {0}
  /\ Setups \subseteq AllSetups /\ MaxSeconds \in Nat
  /\ None \notin Inodes /\ None \notin Nat

Live == <<0, FALSE>>
Names == {Live} \cup ((1..Kept + 1) \X BOOLEAN)
Blank == [text |-> <<>>, mtime |-> 0]

\* Where logrotate is: it rests, has copies down to this number still to move, has the
\* live file to make anew, has the copy beyond Kept to remove.
AtRest == Kept + 1
Remaking == Kept + 2
Pruning == Kept + 3

VARIABLES
  setup,     \* which log this is
  file,      \* inode -> its text and mtime
  dir,       \* name -> inode, or None
  writer,    \* the inode the program appends to
  held,      \* inodes a reader has open
  rot,       \* where logrotate is
  written,   \* lines written
  rotations, \* rotations begun
  now        \* the clock, in seconds

Lines == 1..setup.lines
Tokens == 0..setup.lines

world == <<file, dir, writer, held, rot, written, rotations, now>>

Linked == {dir[n] : n \in {m \in Names : dir[m] # None}}
Free == Inodes \ (Linked \cup held \cup {writer})
Text(i) == file[i].text
Holds(l) == {i \in Linked : \E j \in DOMAIN Text(i) : Text(i)[j] = l}

\* Lines that are in no file that has a name.
Gone == {l \in 1..written : Holds(l) = {}}

\* The files when names d and readers h are left: an inode no one refers to is free.
Referred(d, h) ==
  [i \in Inodes |-> IF i = writer \/ i \in h \/ \E n \in Names : d[n] = i THEN file[i] ELSE Blank]

\* The text of a new file, and the lines written when it is there.
Fresh(n) == IF ~setup.filled THEN <<>> ELSE IF setup.banner THEN <<0>> ELSE <<n + 1>>
After(n) == IF setup.filled /\ ~setup.banner THEN n + 1 ELSE n

WorldInit ==
  /\ setup \in Setups
  /\ \E i \in Inodes : /\ writer = i /\ dir = [n \in Names |-> IF n = Live THEN i ELSE None]
                       /\ file = [j \in Inodes |-> IF j = i THEN [Blank EXCEPT !.text = Fresh(0)]
                                                   ELSE Blank]
  /\ held = {} /\ rot = AtRest
  /\ written = After(0) /\ rotations = 0 /\ now = 0

-----------------------------------------------------------------------------
(* The program *)

Append1(i, l) == [file EXCEPT ![i] = [text |-> Append(@.text, l), mtime |-> now]]

WriteLine ==
  /\ written < setup.lines /\ (setup.banner => Text(writer) # <<>>)
  /\ file' = Append1(writer, written + 1)
  /\ written' = written + 1
  /\ UNCHANGED <<dir, writer, held, rot, rotations, now>>

WriteBanner ==
  /\ setup.banner /\ Text(writer) = <<>>
  /\ file' = Append1(writer, 0)
  /\ UNCHANGED <<dir, writer, held, rot, written, rotations, now>>

Tick == now < MaxSeconds /\ now' = now + 1 /\ UNCHANGED <<file, dir, writer, held, rot, written, rotations>>

-----------------------------------------------------------------------------
(* logrotate *)

Occupied(k) == dir[<<k, FALSE>>] # None \/ dir[<<k, TRUE>>] # None
Both(k) == dir[<<k, FALSE>>] # None /\ dir[<<k, TRUE>>] # None

Rotate ==
  /\ rot = AtRest /\ rotations < setup.rotations
  /\ \A k \in 1..Kept : ~Both(k)
  /\ rotations' = rotations + 1
  /\ \E k \in 0..Kept : /\ k > 0 => Occupied(k)
                        /\ \A j \in k + 1..Kept : ~Occupied(j)
                        /\ rot' = k
  /\ UNCHANGED <<file, dir, writer, held, written, now>>

\* A copy and all its forms move up by one number, the oldest copy first.
Shift ==
  /\ rot \in 1..Kept
  /\ dir' = [n \in Names |-> IF n[1] = rot + 1 THEN dir[<<rot, n[2]>>]
                             ELSE IF n[1] = rot THEN None ELSE dir[n]]
  /\ rot' = rot - 1
  /\ UNCHANGED <<file, writer, held, written, rotations, now>>

Settled == IF Occupied(Kept + 1) THEN Pruning ELSE AtRest

MoveLive ==
  /\ "rename" \in setup.methods /\ rot = 0
  /\ dir' = [dir EXCEPT ![Live] = None, ![<<1, FALSE>>] = dir[Live]]
  /\ rot' = Remaking
  /\ UNCHANGED <<file, writer, held, written, rotations, now>>

\* The new live file; the program reopens its log before it writes again.
MakeLive ==
  /\ rot = Remaking /\ dir[Live] = None
  /\ After(written) <= setup.lines
  /\ \E i \in Free : /\ file' = [file EXCEPT ![i] = [text |-> Fresh(written), mtime |-> now]]
                     /\ dir' = [dir EXCEPT ![Live] = i]
                     /\ writer' = i
  /\ written' = After(written)
  /\ rot' = Settled
  /\ UNCHANGED <<held, rotations, now>>

CopyLive ==
  /\ "copytruncate" \in setup.methods /\ rot = 0
  /\ \E i \in Free : /\ file' = [file EXCEPT ![i] = [text |-> Text(dir[Live]), mtime |-> now]]
                     /\ dir' = [dir EXCEPT ![<<1, FALSE>>] = i]
  /\ rot' = Remaking
  /\ UNCHANGED <<writer, held, written, rotations, now>>

\* What was written since the copy goes with it.
TruncateLive ==
  /\ rot = Remaking /\ dir[Live] # None
  /\ After(written) <= setup.lines
  /\ file' = [file EXCEPT ![dir[Live]] = [text |-> Fresh(written), mtime |-> now]]
  /\ written' = After(written)
  /\ rot' = Settled
  /\ UNCHANGED <<dir, writer, held, rotations, now>>

Prune ==
  /\ rot = Pruning
  /\ dir' = [n \in Names |-> IF n[1] = Kept + 1 THEN None ELSE dir[n]]
  /\ file' = Referred(dir', held)
  /\ rot' = AtRest
  /\ UNCHANGED <<writer, held, written, rotations, now>>

\* Compression makes a new file with the time of the old one, then removes the old one.
Pack(k) ==
  /\ setup.packing /\ rot = AtRest
  /\ dir[<<k, FALSE>>] # None /\ dir[<<k, TRUE>>] = None
  /\ \E i \in Free : /\ file' = [file EXCEPT ![i] = file[dir[<<k, FALSE>>]]]
                     /\ dir' = [dir EXCEPT ![<<k, TRUE>>] = i]
  /\ UNCHANGED <<writer, held, rot, written, rotations, now>>

DropPlain(k) ==
  /\ Both(k)
  /\ dir' = [dir EXCEPT ![<<k, FALSE>>] = None]
  /\ file' = Referred(dir', held)
  /\ UNCHANGED <<writer, held, rot, written, rotations, now>>

WorldNext ==
  \/ WriteLine \/ WriteBanner \/ Tick
  \/ Rotate \/ Shift \/ MoveLive \/ MakeLive \/ CopyLive \/ TruncateLive \/ Prune
  \/ \E k \in 1..Kept : Pack(k) \/ DropPlain(k)

WorldTypeOK ==
  /\ setup \in Setups
  /\ file \in [Inodes -> [text : Seq(Tokens), mtime : 0..MaxSeconds]]
  /\ dir \in [Names -> Inodes \cup {None}]
  /\ writer \in Inodes /\ held \subseteq Inodes
  /\ rot \in 0..Pruning
  /\ written \in 0..setup.lines /\ rotations \in 0..setup.rotations /\ now \in 0..MaxSeconds
=============================================================================
