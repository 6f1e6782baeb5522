----------------------------- MODULE MCLockLine -----------------------------
(* LockLine on small instances. *)
EXTENDS LockLine, TLC

CONSTANTS p1, p2, p3

\* Two of three processes share a state file; the third has a longer PID, and the line holds two
\* markers beside a short one.
TwoKeys == p1 :> 1 @@ p2 :> 1 @@ p3 :> 2
OneLonger == p1 :> 1 @@ p2 :> 1 @@ p3 :> 2

SameConfig == Permutations({p1, p2})
=============================================================================
