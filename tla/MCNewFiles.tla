----------------------------- MODULE MCNewFiles -----------------------------
(* NewFiles on small instances. *)
EXTENDS NewFiles, TLC

CONSTANTS a, b, wide, narrow, d

\* Two files of one directory, a glob for both and one for the second; the list holds both
\* globs, or names the second file instead of its glob.
Names == <<a, b>>
WideAndNarrow == wide :> {a, b} @@ narrow :> {b}
OneDirectory == wide :> {d} @@ narrow :> {d}
AllInOne == a :> d @@ b :> d
Lists == {<<wide, narrow>>, <<wide, b>>}
OneAndTwo == a :> 1 @@ b :> 2
=============================================================================
