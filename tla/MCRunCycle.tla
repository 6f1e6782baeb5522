----------------------------- MODULE MCRunCycle -----------------------------
(* RunCycle on small instances: two processes, two logs. *)
EXTENDS RunCycle, TLC

CONSTANTS p1, p2, f1, f2

\* Two sections with one log each; one section with both; one log alone.
ApartFilesOf == <<{f1}, {f2}>>
TogetherFilesOf == <<{f1, f2}>>
AloneFilesOf == <<{f2}>>

\* A state's rendered size: one unit for each entry.
MCSize(st) == Cardinality({f \in Files : st[f] # None})

ProcSymmetry == Permutations({p1, p2})
=============================================================================
