---------------------------- MODULE AtLeastOnce ----------------------------
(***************************************************************************)
(* What logalert promises of every log it watches, with no process, lock,  *)
(* disk or transport in sight.  A log is a growing list of lines, some of  *)
(* them hits (lines a pattern matches).  The saved state gives each log a  *)
(* place; the lines up to it will never be read again, so the place may    *)
(* pass a hit only when a mail carrying it has been accepted.              *)
(*                                                                         *)
(* RunCycle implements this module (see RunCycle!Promise).                 *)
(***************************************************************************)
EXTENDS Integers

CONSTANTS
  Files,     \* the watched logs: one (section, path) pair each
  FromStart, \* those whose first sight is read from the beginning
  MaxLines,  \* bound: lines a log may grow to
  None       \* no entry in the state

VARIABLES
  len,    \* lines in each log
  hits,   \* which of them a pattern matches
  place,  \* the saved offset of each log, or None
  since,  \* the offset tracking began at (what a first sight passed over), or None
  mailed  \* the lines some accepted mail has carried

absVars == <<len, hits, place, since, mailed>>

AbsTypeOK ==
  /\ len \in [Files -> 0..MaxLines]
  /\ hits \in [Files -> SUBSET (1..MaxLines)]
  /\ place \in [Files -> 0..MaxLines \cup {None}]
  /\ since \in [Files -> 0..MaxLines \cup {None}]
  /\ mailed \in [Files -> SUBSET (1..MaxLines)]

AbsInit ==
  /\ len = [f \in Files |-> 0]
  /\ hits = [f \in Files |-> {}]
  /\ place = [f \in Files |-> None]
  /\ since = [f \in Files |-> None]
  /\ mailed = [f \in Files |-> {}]

\* A program appends one line to its log.
Write(f) ==
  /\ len[f] < MaxLines
  /\ len' = [len EXCEPT ![f] = @ + 1]
  /\ \/ hits' = hits
     \/ hits' = [hits EXCEPT ![f] = @ \cup {len[f] + 1}]
  /\ UNCHANGED <<place, since, mailed>>

\* A mail is accepted: it carries hits that are in the logs.
Mail ==
  /\ mailed' \in [Files -> SUBSET (1..MaxLines)]
  /\ \A f \in Files : mailed[f] \subseteq mailed'[f] /\ mailed'[f] \subseteq mailed[f] \cup hits[f]
  /\ UNCHANGED <<len, hits, place, since>>

\* The hits of f in (from, to] have all been mailed.
AllMailed(f, from, to) == \A i \in hits[f] : from < i /\ i <= to => i \in mailed[f]

\* The saved place of f stays, moves on past mailed hits only, begins, or is forgotten.
Stays(f) == place'[f] = place[f] /\ since'[f] = since[f]

MovesOn(f) ==
  /\ place[f] # None
  /\ place'[f] \in place[f]..len[f]
  /\ since'[f] = since[f]
  /\ AllMailed(f, place[f], place'[f])

Begins(f) ==
  /\ place[f] = None
  /\ place'[f] \in 0..len[f]
  /\ since'[f] \in 0..place'[f]
  /\ f \in FromStart => since'[f] = 0
  /\ AllMailed(f, since'[f], place'[f])

Forgotten(f) == place'[f] = None /\ since'[f] = None

\* One save of the state: every log's place at once.
Record ==
  /\ place' \in [Files -> 0..MaxLines \cup {None}]
  /\ since' \in [Files -> 0..MaxLines \cup {None}]
  /\ \A f \in Files : Stays(f) \/ MovesOn(f) \/ Begins(f) \/ Forgotten(f)
  /\ UNCHANGED <<len, hits, mailed>>

AbsNext == (\E f \in Files : Write(f)) \/ Mail \/ Record

AbsSpec == AbsInit /\ [][AbsNext]_absVars

\* Nothing between where tracking began and the saved place was passed over unmailed.
AbsKept ==
  \A f \in Files :
    place[f] # None => /\ since[f] # None
                       /\ since[f] <= place[f]
                       /\ AllMailed(f, since[f], place[f])
=============================================================================
