----------------------------- MODULE ActivityLog ----------------------------
(***************************************************************************)
(* The activity log of one process (src/logalert/activity.py): attach      *)
(* finds or opens the destination, the records of a call go to it until it *)
(* fails, then to stderr behind one notice, and the call's end unwires it. *)
(*                                                                         *)
(* A record is <<number, level>>.  The sockets, the node at the log's path *)
(* and the destination's room change at any moment; what the stdlib's      *)
(* handlers do with a record is modelled from how activity.py uses them.   *)
(***************************************************************************)
EXTENDS Integers, Sequences, FiniteSets, SequencesExt

CONSTANTS
  SYSLOG_SOCKETS,  \* the candidate paths, in order
  LogSetups,       \* the calls explored: see LogSetupType
  MaxMoves,        \* bound: changes of the world under the log
  MaxCalls         \* bound: calls of main() in one process

VARIABLES
  place,     \* the log's part of the command line and the configuration
  socks,     \* what there is at each candidate path
  node,      \* what there is at the file's path
  room,      \* the disk has room, the network is there
  moves,     \* changes of the world so far
  calls,     \* calls of main() begun
  phase,     \* where attach is
  rejected,  \* candidates the probe has rejected
  handlers,  \* the logger's handlers, in the order they were added
  dest,      \* the destination's handler
  said,      \* history: the records of this call
  due,       \* history: those a destination takes
  kept,      \* history: those at the destination
  printed,   \* history: those on stderr
  noticed    \* history: how many of those stood before each notice there

log_world == <<place, socks, node, room, moves>>
lines == <<said, due, kept, printed, noticed>>
log_vars == <<place, socks, node, room, moves, calls, phase, rejected, handlers,
              dest, said, due, kept, printed, noticed>>

\* A path in use is a socket of one of the two types, with a listener that
\* answers; "stuck": a datagram socket nobody drains; "full": a stream
\* socket nobody accepts on; "refused": a socket without a listener.
Sockets == {"dgram", "stream", "stuck", "full", "refused"}
SocketKinds == Sockets \union {"missing", "dir"}
Nodes == {"none", "file", "link", "dir", "fifo", "read_fifo"}

LogSetupType ==
  [spec : {"syslog", "file", "udp", "stderr"}, debug : BOOLEAN, to_stderr : BOOLEAN,
   socks : [Range(SYSLOG_SOCKETS) -> SocketKinds], node : Nodes, room : BOOLEAN]

ASSUME LogSetupsAssumption == LogSetups \subseteq LogSetupType

DEBUG == 10
INFO == 20
WARNING == 30

\* typ: the socket type the probe found; live: its connection leads to the
\* listener that is there; buffer: what a failed flush has left in the stream;
\* via: the node the file was opened through.
NoDest == [kind |-> "none", path |-> "none", typ |-> "none", live |-> FALSE,
           dead |-> FALSE, forward |-> FALSE, debug_on_stderr |-> FALSE,
           buffer |-> <<>>, via |-> "none"]

LogInit ==
  /\ place \in LogSetups
  /\ socks = place.socks /\ node = place.node /\ room = place.room
  /\ moves = 0 /\ calls = 0
  /\ phase = "out" /\ rejected = {} /\ handlers = <<>> /\ dest = NoDest
  /\ said = <<>> /\ due = <<>> /\ kept = <<>> /\ printed = <<>> /\ noticed = <<>>

(***************************************************************************)
(* The world.                                                              *)
(***************************************************************************)
\* A daemon stops, starts, starts again, hangs; a new listener is not the one
\* a handler is connected to.
SocketChanges ==
  /\ \E p \in Range(SYSLOG_SOCKETS), kind \in {"refused", "dgram", "stuck"} :
       /\ socks[p] # "dir" /\ (kind # socks[p] \/ kind = "dgram")
       /\ socks' = [socks EXCEPT ![p] = kind]
       /\ dest' = [dest EXCEPT !.live = @ /\ ~(dest.path = p /\ kind # "stuck")]
  /\ UNCHANGED <<node, room>>

NodeChanges ==
  /\ phase \in {"lstat", "open"}
  /\ \E kind \in {"link", "fifo", "read_fifo", "file"} : node' = kind /\ kind # node
  /\ UNCHANGED <<socks, room, dest>>

RoomChanges ==
  /\ dest.kind \in {"file", "udp"}
  /\ room' = ~room
  /\ UNCHANGED <<socks, node, dest>>

LogWorld ==
  /\ moves < MaxMoves /\ moves' = moves + 1
  /\ SocketChanges \/ NodeChanges \/ RoomChanges
  /\ UNCHANGED <<place, calls, phase, rejected, handlers, lines>>

(***************************************************************************)
(* attach: the destination.                                                *)
(***************************************************************************)
AttachBegins ==
  /\ phase = "out" /\ calls < MaxCalls
  /\ calls' = calls + 1
  /\ phase' = IF place.to_stderr \/ place.spec = "stderr" THEN "wire"
              ELSE IF place.spec = "syslog" THEN "probe"
              ELSE IF place.spec = "file" THEN "lstat" ELSE "udp"
  /\ rejected' = {} /\ dest' = NoDest
  /\ said' = <<>> /\ due' = <<>> /\ kept' = <<>> /\ printed' = <<>> /\ noticed' = <<>>
  /\ UNCHANGED <<log_world, handlers>>

\* The first candidate not yet rejected.
Candidate(p) ==
  \E i \in DOMAIN SYSLOG_SOCKETS :
    /\ p = SYSLOG_SOCKETS[i] /\ p \notin rejected
    /\ \A j \in 1..(i - 1) : SYSLOG_SOCKETS[j] \in rejected

\* What connects to a path now: a datagram first, a stream else.  A stream
\* connect to a listener that never accepts ends by its timeout.
TypesThat(kind) ==
  CASE kind \in {"dgram", "stuck"} -> "dgram"
    [] kind = "stream" -> "stream"
    [] OTHER -> "none"

NewDest(kind) == [NoDest EXCEPT !.kind = kind, !.debug_on_stderr = place.debug]

\* One candidate: found, or rejected with its reason.
Probe ==
  /\ phase = "probe"
  /\ \E p \in Range(SYSLOG_SOCKETS) :
       /\ Candidate(p)
       /\ LET typ == TypesThat(socks[p])
          IN IF typ = "none"
             THEN /\ rejected' = rejected \union {p}
                  /\ UNCHANGED <<phase, dest>>
             ELSE /\ phase' = "construct"
                  /\ dest' = [NewDest("syslog") EXCEPT !.path = p, !.typ = typ]
                  /\ UNCHANGED rejected
  /\ UNCHANGED <<log_world, calls, handlers, lines>>

ProbedAll ==
  /\ phase = "probe" /\ Range(SYSLOG_SOCKETS) \subseteq rejected
  /\ phase' = "fallback"
  /\ UNCHANGED <<log_world, calls, rejected, handlers, dest, lines>>

Connects == dest.typ = TypesThat(socks[dest.path])

\* The handler connects a socket of its own; a failure there is not said.
Construct ==
  /\ phase = "construct"
  /\ dest' = [dest EXCEPT !.live = Connects]
  /\ phase' = "wire"
  /\ UNCHANGED <<log_world, calls, rejected, handlers, lines>>

\* _File._open: the node at the path is looked at,
Lstat ==
  /\ phase = "lstat"
  /\ phase' = IF node \in {"none", "file"} THEN "open" ELSE "fallback"
  /\ UNCHANGED <<log_world, calls, rejected, handlers, dest, lines>>

\* opened without following a link or waiting for a FIFO's reader,
OpensTo(kind) ==
  CASE kind \in {"none", "file"} -> "file"
    [] kind = "read_fifo" -> "fifo"
    [] OTHER -> "nothing"

\* Mutant: what was opened is not looked at again.
OpenFile_NoFstat ==
  /\ phase = "open"
  /\ IF OpensTo(node) # "nothing"
     THEN /\ phase' = "wire"
          /\ dest' = [NewDest("file") EXCEPT !.via = node]
          /\ node' = IF node = "none" THEN "file" ELSE node
     ELSE /\ phase' = "fallback"
          /\ UNCHANGED <<node, dest>>
  /\ UNCHANGED <<place, socks, room, moves, calls, rejected, handlers, lines>>

\* and what was opened is looked at again.
OpenFile ==
  /\ phase = "open"
  /\ IF OpensTo(node) = "file"
     THEN /\ phase' = "wire"
          /\ dest' = [NewDest("file") EXCEPT !.via = node]
          /\ node' = IF node = "none" THEN "file" ELSE node
     ELSE /\ phase' = "fallback"
          /\ UNCHANGED <<node, dest>>
  /\ UNCHANGED <<place, socks, room, moves, calls, rejected, handlers, lines>>

\* udp:host:port: the host resolves, or not.
OpenUdp ==
  /\ phase = "udp"
  /\ \/ phase' = "wire" /\ dest' = NewDest("udp")
     \/ phase' = "fallback" /\ UNCHANGED dest
  /\ UNCHANGED <<log_world, calls, rejected, handlers, lines>>

(***************************************************************************)
(* A record.  A handler takes those of its level and above.                *)
(***************************************************************************)
StderrLevel == IF place.debug THEN DEBUG ELSE INFO

\* One send of the destination, with the stdlib's one reconnect for a Unix
\* socket: whether it arrives.  A stuck socket times out both times.
Arrives ==
  IF dest.kind = "syslog"
  THEN socks[dest.path] # "stuck" /\ (dest.live \/ Connects)
  ELSE room

\* Mutant: the record that failed is not forwarded.
Forwarded_LosesOne(record) == <<>>

\* _Loud.handleError, behind its notice: the record, unless --debug prints it.
Forwarded(record) == IF dest.debug_on_stderr THEN <<>> ELSE <<record>>

Untaken == [dest |-> dest, kept |-> <<>>, notice |-> FALSE, printed |-> <<>>]

\* Mutant: a destination that failed is tried, and reported, every time.
Emitted_Again(record) ==
  IF record[2] < INFO THEN Untaken
  ELSE IF Arrives
    THEN [Untaken EXCEPT !.dest.live = TRUE, !.kept = <<record>>]
  ELSE [Untaken EXCEPT !.notice = TRUE, !.printed = Forwarded(record)]

\* _Loud.emit: what becomes of the handler, and what it puts out.
Emitted(record) ==
  IF record[2] < INFO THEN Untaken
  ELSE IF dest.dead
    THEN [Untaken EXCEPT !.printed = IF dest.forward THEN <<record>> ELSE <<>>]
  ELSE IF Arrives
    THEN [Untaken EXCEPT !.dest.live = TRUE, !.kept = <<record>>]
  ELSE [dest |-> [dest EXCEPT !.dead = TRUE, !.forward = ~dest.debug_on_stderr,
                              !.buffer = IF dest.kind = "file" THEN <<record>> ELSE <<>>],
        kept |-> <<>>, notice |-> TRUE, printed |-> Forwarded(record)]

Counted(kind) == Cardinality({i \in DOMAIN handlers : handlers[i] = kind})

\* The logger hands it to each of its handlers, in their order: the
\* destination's first.
Log(record) ==
  LET out    == IF Contains(handlers, "destination") THEN Emitted(record) ELSE Untaken
      direct == IF record[2] < StderrLevel THEN <<>> ELSE [i \in 1..Counted("stderr") |-> record]
  IN /\ said' = Append(said, record)
     /\ due' = IF record[2] < INFO THEN due ELSE Append(due, record)
     /\ dest' = out.dest
     /\ kept' = kept \o out.kept
     /\ printed' = printed \o out.printed \o direct
     /\ noticed' = IF out.notice THEN Append(noticed, Len(printed)) ELSE noticed

(***************************************************************************)
(* attach: the handlers, and the call's end.                               *)
(***************************************************************************)
Wire ==
  /\ phase = "wire"
  /\ LET found  == dest.kind # "none"
         stderr == ~found \/ place.debug
     IN handlers' = handlers \o (IF found THEN <<"destination">> ELSE <<>>)
                             \o (IF stderr THEN <<"stderr">> ELSE <<>>)
  /\ phase' = "attached"
  /\ UNCHANGED <<log_world, calls, rejected, dest, lines>>

\* No destination: stderr, and a notice there says why.
Fallback ==
  /\ phase = "fallback"
  /\ handlers' = Append(handlers, "stderr")
  /\ phase' = "attached"
  /\ noticed' = <<0>>
  /\ UNCHANGED <<log_world, calls, rejected, dest, said, due, kept, printed>>

\* Mutant: a close that fails ends the teardown.
ClosedAll_StopsAtFailure ==
  /\ phase' = "out"
  /\ kept' = IF room THEN kept \o dest.buffer ELSE kept
  /\ handlers' = IF dest.buffer # <<>> /\ ~room THEN Tail(handlers) ELSE <<>>
  /\ dest' = NoDest

\* Every handler is removed and closed.  A close flushes what a failed flush
\* has left; if that fails again it is not said.
ClosedAll ==
  /\ phase' = "out"
  /\ kept' = IF room THEN kept \o dest.buffer ELSE kept
  /\ handlers' = <<>>
  /\ dest' = NoDest

Detach ==
  /\ phase = "attached"
  /\ ClosedAll
  /\ UNCHANGED <<log_world, calls, rejected, said, due, printed, noticed>>

Attached ==
  \/ Probe \/ ProbedAll \/ Construct \/ Lstat \/ OpenFile \/ OpenUdp
  \/ Wire \/ Fallback
=============================================================================
