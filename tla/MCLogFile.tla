------------------------------ MODULE MCLogFile -----------------------------
(* LogFile on small instances. *)
EXTENDS AsOnTheFile

MCPatterns == <<[word |-> <<"h", "h">>, priority |-> 1], [word |-> <<"t">>, priority |-> 2]>>
MCExcludes == {<<"e">>}

Still ==
  [texts |-> <<<<>>>>, how |-> "none", first |-> 0, steps |-> FALSE, chunk |-> 100,
   zip |-> FALSE, torn |-> FALSE, beginning |-> TRUE, context |-> 0, cap |-> 1]

Of(texts, base) == {[base EXCEPT !.texts = <<text>>] : text \in texts}
Texts(bytes, n) == UNION {[1..k -> bytes] : k \in 0..n}

Bytes == {"nul", "lf", "cr", "x"}

\* Every text of n bytes, there as a whole, in chunks of any size.
Chunked(n) ==
  {[s EXCEPT !.chunk = chunk, !.first = n] :
     s \in Of([1..n -> Bytes], Still), chunk \in {1, 2, 3}}

\* Every text of n bytes that grows under the reader, from its beginning or
\* from its end as it was at some length.
Growing(n) ==
  {[s EXCEPT !.steps = TRUE, !.first = first, !.beginning = first = 0] :
     s \in Of([1..n -> Bytes], Still), first \in {0, n - 1}}

\* The same for a compressed file.
Zipped(n) ==
  {[s EXCEPT !.steps = TRUE, !.first = first, !.zip = TRUE, !.beginning = first = 0, !.chunk = 2] :
     s \in Of([1..n -> {"lf", "x"}], Still), first \in {0, n - 1}}

\* Truncated and refilled, or renamed, at any moment: by a file with the same
\* first line and other bytes behind it, a hole, nothing in common, or nothing.
Olds == {<<"x", "lf", "y", "lf">>, <<"x", "lf", "y", "y", "y", "lf">>}
News == {<<"x", "lf", "z", "lf", "w", "lf">>, <<"nul", "nul", "z", "lf">>,
         <<"z", "z", "z", "lf", "z">>, <<>>}
Replaced(how, olds, news) ==
  {[Still EXCEPT !.texts = <<old, new>>, !.how = how, !.steps = TRUE, !.first = first,
                 !.beginning = first = 0] :
     first \in {0, 4}, old \in olds, new \in news}

\* The same with matches behind the first sight, and context to ask for.
Hooked(how) ==
  {[s EXCEPT !.context = 1, !.cap = 2, !.steps = FALSE] :
     s \in {r \in Replaced(how,
                    {<<"x", "lf", "y", "lf", "h", "h", "lf">>},
                    {<<"x", "lf", "z", "lf", "h", "h", "z", "lf">>, <<"h", "h", "lf", "x", "lf">>}) :
              r.first = 4}}

\* Lines for the scan: plain, matching, matching across a cut, of another
\* priority, excluded, a hole; and one line longer than what is kept of it.
Kinds == {<<"x">>, <<"h", "h">>, <<"x", "h", "h">>, <<"t">>, <<"t", "e">>, <<"nul">>}
Ended(line) == line \o <<"lf">>
Logs(n) == {FlattenSeq([i \in 1..n |-> Ended(lines[i])]) : lines \in [1..n -> Kinds]}
             \union {<<"x", "x", "x", "x", "t", "lf", "h", "h", "lf">>}

Scanned(n) ==
  {[s EXCEPT !.first = 100, !.context = context, !.cap = cap] :
     s \in Of(Logs(n), Still), context \in {0, 1}, cap \in {1, 2}}
  \union
  {[s EXCEPT !.first = 4, !.context = context, !.cap = 4, !.beginning = FALSE] :
     s \in Of(Logs(n), Still), context \in {1, 2}}

MCSetups ==
  Chunked(4) \union Growing(4) \union Zipped(4) \union Scanned(3)
    \union Replaced("refill", Olds, News) \union Hooked("refill")
    \union Replaced("rename", Olds, {<<"z", "lf">>}) \union Hooked("rename")

\* A file that may be found empty by the second look of an open.
TornSetups ==
  {[s EXCEPT !.torn = TRUE] : s \in Replaced("refill", Olds, News)}
=============================================================================
