----------------------------- MODULE MCCatchUp -----------------------------
(* CatchUp on small instances. *)
EXTENDS CatchUp, TLC

Renamed ==
  [banner |-> FALSE, methods |-> {"rename"}, packing |-> FALSE, filled |-> FALSE,
   spaced |-> TRUE, flaws |-> 0, lines |-> 3, rotations |-> 3]

\* Two rotations, and copies that cannot be read, or not to their end.
Unread == [Renamed EXCEPT !.flaws = 2, !.filled = TRUE, !.rotations = 2]

\* Three rotations of either kind, copies packed; and two of a log whose files begin alike.
Mixed == [Renamed EXCEPT !.methods = {"rename", "copytruncate"}, !.packing = TRUE,
                         !.filled = TRUE, !.lines = 4]
Alike == [Renamed EXCEPT !.banner = TRUE, !.filled = TRUE, !.spaced = FALSE, !.rotations = 2]

\* A truncated file may stay empty; a file that may be listed while it moves.
Emptied == [Renamed EXCEPT !.methods = {"copytruncate"}, !.rotations = 2]
Torn == [Renamed EXCEPT !.filled = TRUE, !.lines = 4]

OnlyRenamed == {Renamed}
RenamedOrUnread == {Renamed, Unread}
MixedOrAlike == {Mixed, Alike}
OnlyEmptied == {Emptied}
OnlyTorn == {Torn}

InodeSymmetry == Permutations(Inodes)
=============================================================================
