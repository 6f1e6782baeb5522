--------------------------- MODULE ActivityProofs ---------------------------
(***************************************************************************)
(* What holds of the activity log of Sending for every list of sockets,    *)
(* every set of command lines and every number of calls, mails and changes *)
(* of the world, checked by TLAPS.                                         *)
(***************************************************************************)
EXTENDS SendingProofs, FiniteSetTheorems, SequenceTheorems

Records == Nat \X {DEBUG, INFO, WARNING}
Asked == place.spec # "stderr" /\ ~place.to_stderr
Fresh == {"out", "probe", "lstat", "open", "udp", "fallback"}
Opening == {"probe", "construct", "lstat", "open", "udp", "fallback"}

Dests ==
  [kind : {"none", "syslog", "file", "udp"}, path : Range(SYSLOG_SOCKETS) \union {"none"},
   typ : {"none", "dgram", "stream"}, live : BOOLEAN, dead : BOOLEAN, forward : BOOLEAN,
   debug_on_stderr : BOOLEAN, buffer : Seq(Records), via : Nodes]

\* The variables of the log, in their sets.
LogTypes ==
  /\ place \in LogSetups
  /\ socks \in [Range(SYSLOG_SOCKETS) -> SocketKinds] /\ node \in Nodes /\ room \in BOOLEAN
  /\ phase \in Opening \union {"out", "wire", "attached"}
  /\ dest \in Dests
  /\ said \in Seq(Records) /\ due \in Seq(Records) /\ kept \in Seq(Records)
  /\ printed \in Seq(Records) /\ noticed \in Seq(Nat)

\* What attach knows of the destination at each of its steps, and what a
\* destination that works, failed or was never asked for carries.
DestOK ==
  /\ phase \in Fresh => dest.kind = "none"
  /\ phase = "construct" => dest.kind = "syslog"
  /\ phase \in Opening \/ dest.kind # "none" => Asked
  /\ phase = "wire" /\ dest.kind = "none" => ~Asked
  /\ phase # "attached" \/ dest.kind = "none" => ~dest.dead
  /\ dest.kind # "none" => dest.debug_on_stderr = place.debug
  /\ dest.forward = (dest.dead /\ ~place.debug)
  /\ ~dest.dead => dest.buffer = <<>>

\* A delivery is under way in an attached call only, and attach begins with
\* nothing of the last call's.
CallOK ==
  /\ at # "idle" => phase = "attached"
  /\ phase \notin {"out", "attached"} =>
       said = <<>> /\ due = <<>> /\ kept = <<>> /\ printed = <<>> /\ noticed = <<>>

\* The notice: before any record on stderr, but for --debug's own.
NoticeOK ==
  phase = "attached" =>
    /\ ~Asked \/ (dest.kind # "none" /\ ~dest.dead) => noticed = <<>>
    /\ Asked /\ dest.kind = "none" => noticed = <<0>>
    /\ dest.dead => Len(noticed) = 1 /\ (~place.debug => noticed = <<0>>)

Leads(s, t) == Len(s) <= Len(t) /\ \A i \in 1..Len(s) : s[i] = t[i]

\* Without --debug a record is at the destination while it works and on
\* stderr from the one on that failed.
SplitOK ==
  phase = "attached" /\ ~place.debug =>
    /\ dest.kind = "none" => kept = <<>> /\ printed = due
    /\ dest.kind # "none" /\ ~dest.dead => kept = due /\ printed = <<>>
    /\ dest.dead => /\ kept \o printed = due /\ printed # <<>>
                    /\ dest.buffer \in {<<>>, <<printed[1]>>}

\* With it every record is on stderr, and the destination has the first ones;
\* what its buffer holds is the next.
BothOK ==
  phase = "attached" /\ place.debug =>
    /\ printed = said
    /\ dest.kind = "none" => kept = <<>>
    /\ dest.kind # "none" /\ ~dest.dead => kept = due
    /\ Leads(kept \o dest.buffer, due)

LogInv ==
  /\ LogTypes /\ DestOK /\ CallOK /\ HandlersAreTheCalls /\ AppendsToAFile
  /\ NoticeOK /\ SplitOK /\ BothOK
  /\ phase = "out" => EveryRecordOnce

(***************************************************************************)
(* Sequences.                                                              *)
(***************************************************************************)
\* A record at the end of the second part is at the end of the whole.
LEMMA EndOfWhole ==
  ASSUME NEW s \in Seq(Records), NEW t \in Seq(Records), NEW r \in Records
  PROVE  s \o Append(t, r) = Append(s \o t, r)
<1>1. Append(t, r) = t \o <<r>> /\ <<r>> \in Seq(Records)
  BY AppendIsConcat
<1>2. s \o t \in Seq(Records)
  BY ConcatProperties
<1>3. Append(s \o t, r) = (s \o t) \o <<r>>
  BY <1>2, AppendIsConcat
<1> QED
  BY <1>1, <1>3, ConcatAssociative

\* What leads a sequence leads it with a record more.
LEMMA LeadsOn ==
  ASSUME NEW s \in Seq(Records), NEW t \in Seq(Records), NEW r \in Records, Leads(s, t)
  PROVE  Leads(s, Append(t, r))
<1>1. /\ Len(Append(t, r)) = Len(t) + 1 /\ Len(s) \in Nat /\ Len(t) \in Nat
      /\ \A i \in 1..Len(t) : Append(t, r)[i] = t[i]
  BY AppendProperties
<1> QED
  BY <1>1 DEF Leads

LEMMA LeadsItself == ASSUME NEW s \in Seq(Records) PROVE Leads(s, s)
  BY DEF Leads

\* The first part of what leads a sequence leads it.
LEMMA LeadsLess ==
  ASSUME NEW s \in Seq(Records), NEW u \in Seq(Records), NEW t \in Seq(Records), Leads(s \o u, t)
  PROVE  Leads(s, t)
<1>1. /\ Len(s \o u) = Len(s) + Len(u) /\ Len(s) \in Nat /\ Len(u) \in Nat /\ Len(t) \in Nat
      /\ \A i \in 1..Len(s) : (s \o u)[i] = s[i]
  BY ConcatProperties
<1> QED
  BY <1>1 DEF Leads

LEMMA LeadsIsPrefix ==
  ASSUME NEW s \in Seq(Records), NEW t \in Seq(Records), Leads(s, t)
  PROVE  IsPrefix(s, t)
<1>1. Len(s) \in Nat /\ Len(t) \in Nat /\ Len(s) <= Len(t)
  BY DEF Leads
<1>2. SubSeq(s, 1, Len(s)) = s
  BY SubSeqFull
<1>3. /\ SubSeq(t, 1, Len(s)) \in Seq(Records) /\ Len(SubSeq(t, 1, Len(s))) = Len(s)
      /\ \A i \in 1..Len(s) : SubSeq(t, 1, Len(s))[i] = t[i]
  <2>1. \A i \in 1..Len(s) : t[i] \in Records
    BY <1>1
  <2>2. /\ SubSeq(t, 1, Len(s)) \in Seq(Records)
        /\ Len(SubSeq(t, 1, Len(s))) = IF 1 <= Len(s) THEN Len(s) - 1 + 1 ELSE 0
        /\ \A i \in 1..(Len(s) - 1 + 1) : SubSeq(t, 1, Len(s))[i] = t[1 + i - 1]
    BY <1>1, <2>1, SubSeqProperties
  <2> QED
    BY <1>1, <2>2
<1>4. s = SubSeq(t, 1, Len(s))
  <2>1. \A i \in 1..Len(s) : s[i] = SubSeq(t, 1, Len(s))[i]
    BY <1>3 DEF Leads
  <2> QED
    BY <1>3, <2>1, SeqEqual
<1> QED
  BY <1>1, <1>2, <1>4 DEF IsPrefix

\* A sequence without its last member.
LEMMA FrontOfAppend ==
  ASSUME NEW s \in Seq(Records), NEW r \in Records
  PROVE  /\ Front(Append(s, r)) = s /\ Last(Append(s, r)) = r
         /\ Append(s, r) # <<>> /\ Append(s, r) # s
<1>1. /\ Append(s, r) \in Seq(Records) /\ Len(Append(s, r)) = Len(s) + 1 /\ Len(s) \in Nat
      /\ \A i \in 1..Len(s) : Append(s, r)[i] = s[i]
      /\ Append(s, r)[Len(s) + 1] = r
  BY AppendProperties
<1>2. /\ SubSeq(Append(s, r), 1, Len(s)) \in Seq(Records)
      /\ Len(SubSeq(Append(s, r), 1, Len(s))) = Len(s)
      /\ \A i \in 1..Len(s) : SubSeq(Append(s, r), 1, Len(s))[i] = Append(s, r)[i]
  <2>1. \A i \in 1..Len(s) : Append(s, r)[i] \in Records
    BY <1>1
  <2>2. /\ SubSeq(Append(s, r), 1, Len(s)) \in Seq(Records)
        /\ Len(SubSeq(Append(s, r), 1, Len(s))) = IF 1 <= Len(s) THEN Len(s) - 1 + 1 ELSE 0
        /\ \A i \in 1..(Len(s) - 1 + 1) :
              SubSeq(Append(s, r), 1, Len(s))[i] = Append(s, r)[1 + i - 1]
    BY <1>1, <2>1, SubSeqProperties
  <2> QED
    BY <1>1, <2>2
<1>3. SubSeq(Append(s, r), 1, Len(s)) = s
  <2>1. \A i \in 1..Len(s) : SubSeq(Append(s, r), 1, Len(s))[i] = s[i]
    BY <1>1, <1>2
  <2> QED
    BY <1>2, <2>1, SeqEqual
<1>4. Len(Append(s, r)) - 1 = Len(s)
  BY <1>1
<1>5. Append(s, r) # <<>> /\ Append(s, r) # s
  BY <1>1
<1>6. Front(Append(s, r)) = s
  BY <1>3, <1>4 DEF Front
<1>7. Last(Append(s, r)) = r
  BY <1>1 DEF Last
<1> QED
  BY <1>5, <1>6, <1>7

(***************************************************************************)
(* A record, as the handlers of an attached call take it.                  *)
(***************************************************************************)
\* The destination is one handler, stderr at most one.
LEMMA HandlersCount ==
  ASSUME phase = "attached", HandlersAreTheCalls
  PROVE  /\ Contains(handlers, "destination") <=> dest.kind # "none"
         /\ Counted("stderr") = IF dest.kind = "none" \/ place.debug THEN 1 ELSE 0
<1>1. handlers = (IF dest.kind # "none" THEN <<"destination">> ELSE <<>>)
                   \o (IF dest.kind = "none" \/ place.debug THEN <<"stderr">> ELSE <<>>)
  BY DEF HandlersAreTheCalls
<1>2. \/ dest.kind = "none" /\ handlers = <<"stderr">>
      \/ dest.kind # "none" /\ place.debug /\ handlers = <<"destination", "stderr">>
      \/ dest.kind # "none" /\ ~place.debug /\ handlers = <<"destination">>
  <2> DEFINE Kinds == {"destination", "stderr"}
  <2>1. <<"stderr">> \in Seq(Kinds) /\ <<"destination">> \in Seq(Kinds)
    OBVIOUS
  <2>2. <<>> \o <<"stderr">> = <<"stderr">> /\ <<"destination">> \o <<>> = <<"destination">>
    BY <2>1, ConcatEmptySeq
  <2>3. <<"destination">> \o <<"stderr">> = <<"destination", "stderr">>
    <3>1. /\ <<"destination">> \o <<"stderr">> \in Seq(Kinds)
          /\ Len(<<"destination">> \o <<"stderr">>) = 2
          /\ (<<"destination">> \o <<"stderr">>)[1] = "destination"
          /\ (<<"destination">> \o <<"stderr">>)[2] = "stderr"
      BY <2>1, ConcatProperties
    <3>2. <<"destination", "stderr">> \in Seq(Kinds)
      OBVIOUS
    <3>3. \A i \in 1..2 : (<<"destination">> \o <<"stderr">>)[i] = <<"destination", "stderr">>[i]
      BY <3>1
    <3> HIDE DEF Kinds
    <3>4. \A s, t \in Seq(Kinds) : Len(s) = Len(t) /\ (\A i \in 1..Len(s) : s[i] = t[i]) => s = t
      BY SeqEqual
    <3> QED
      BY <3>1, <3>2, <3>3, <3>4
  <2> QED
    BY <1>1, <2>2, <2>3
<1> DEFINE onStderr == {i \in DOMAIN handlers : handlers[i] = "stderr"}
<1>3. Cardinality({}) = 0 /\ Cardinality({1}) = 1 /\ Cardinality({2}) = 1
  BY FS_EmptySet, FS_Singleton
<1>4. CASE dest.kind = "none" /\ handlers = <<"stderr">>
  <2>1. onStderr = {1} /\ ~Contains(handlers, "destination")
    BY <1>4 DEF Contains
  <2> QED
    BY <1>3, <1>4, <2>1 DEF Counted
<1>5. CASE dest.kind # "none" /\ place.debug /\ handlers = <<"destination", "stderr">>
  <2>1. onStderr = {2} /\ Contains(handlers, "destination")
    BY <1>5 DEF Contains
  <2> QED
    BY <1>3, <1>5, <2>1 DEF Counted
<1>6. CASE dest.kind # "none" /\ ~place.debug /\ handlers = <<"destination">>
  <2>1. onStderr = {} /\ Contains(handlers, "destination")
    BY <1>6 DEF Contains
  <2> QED
    BY <1>3, <1>6, <2>1 DEF Counted
<1> QED
  BY <1>2, <1>4, <1>5, <1>6

\* One record on stderr, or none.
LEMMA OneOrNone ==
  ASSUME NEW r \in Records
  PROVE  [i \in 1..1 |-> r] = <<r>> /\ [i \in 1..0 |-> r] = <<>>
  OBVIOUS

\* What a call of the logger's does, case by case.
Taken(r) ==
  /\ said' = Append(said, r)
  /\ due' = IF r[2] < INFO THEN due ELSE Append(due, r)
Passed(r) ==  \* below the destination's level
  /\ r[2] < INFO /\ UNCHANGED <<dest, kept, noticed>>
  /\ printed' = IF place.debug THEN Append(printed, r) ELSE printed
Arrived(r) ==
  /\ r[2] >= INFO /\ dest.kind # "none" /\ ~dest.dead
  /\ dest' = [dest EXCEPT !.live = TRUE] /\ kept' = Append(kept, r) /\ UNCHANGED noticed
  /\ printed' = IF place.debug THEN Append(printed, r) ELSE printed
FailedNow(r) ==
  /\ r[2] >= INFO /\ dest.kind # "none" /\ ~dest.dead
  /\ dest' = [dest EXCEPT !.dead = TRUE, !.forward = ~place.debug,
                          !.buffer = IF dest.kind = "file" THEN <<r>> ELSE <<>>]
  /\ noticed' = Append(noticed, Len(printed)) /\ printed' = Append(printed, r) /\ UNCHANGED kept
OnStderr(r) ==
  /\ r[2] >= INFO /\ (dest.kind = "none" \/ dest.dead)
  /\ printed' = Append(printed, r) /\ UNCHANGED <<dest, kept, noticed>>

LEMMA WhatLogDoes ==
  ASSUME LogInv, phase = "attached", NEW r \in Records, Log(r)
  PROVE  Taken(r) /\ (Passed(r) \/ Arrived(r) \/ FailedNow(r) \/ OnStderr(r))
<1> DEFINE there == Contains(handlers, "destination")
           out == IF there THEN Emitted(r) ELSE Untaken
           direct == IF r[2] < StderrLevel THEN <<>> ELSE [i \in 1..Counted("stderr") |-> r]
<1>1. /\ there <=> dest.kind # "none"
      /\ Counted("stderr") = IF dest.kind = "none" \/ place.debug THEN 1 ELSE 0
  BY HandlersCount DEF LogInv
<1>2. /\ dest \in Dests /\ place.debug \in BOOLEAN
      /\ kept \in Seq(Records) /\ printed \in Seq(Records)
  BY LogSetupsAssumption DEF LogInv, LogTypes, LogSetupType
<1>3. r[2] \in {10, 20, 30}
  BY DEF Records, DEBUG, INFO, WARNING
<1>4. direct = IF place.debug \/ (dest.kind = "none" /\ r[2] >= INFO) THEN <<r>> ELSE <<>>
  <2>1. r[2] < StderrLevel <=> ~place.debug /\ r[2] < INFO
    BY <1>2, <1>3 DEF StderrLevel, DEBUG, INFO
  <2>2. r[2] >= INFO <=> ~(r[2] < INFO)
    BY <1>3 DEF INFO
  <2>3. [i \in 1..1 |-> r] = <<r>> /\ [i \in 1..0 |-> r] = <<>>
    BY OneOrNone
  <2> QED
    BY <1>1, <2>1, <2>2, <2>3
<1>5. /\ said' = Append(said, r) /\ due' = IF r[2] < INFO THEN due ELSE Append(due, r)
      /\ dest' = out.dest /\ kept' = kept \o out.kept
      /\ printed' = printed \o out.printed \o direct
      /\ noticed' = IF out.notice THEN Append(noticed, Len(printed)) ELSE noticed
  BY DEF Log
<1>6. \A s \in Seq(Records) : /\ s \o <<>> = s /\ s \o <<r>> = Append(s, r)
                              /\ Append(s, r) \in Seq(Records)
  BY ConcatEmptySeq, AppendIsConcat, AppendProperties
<1>7. Taken(r)
  BY <1>5 DEF Taken
<1> HIDE DEF there, direct
<1>8. CASE r[2] < INFO \/ dest.kind = "none"
  <2>1. out = Untaken
    BY <1>1, <1>8 DEF Emitted
  <2>2. /\ UNCHANGED <<dest, noticed>> /\ kept' = kept \o <<>>
        /\ printed' = printed \o <<>> \o direct
    <3>1. /\ out.dest = dest /\ out.kept = <<>> /\ out.printed = <<>> /\ out.notice = FALSE
      BY <2>1 DEF Untaken
    <3> HIDE DEF out
    <3> QED
      BY <1>5, <3>1
  <2>3. UNCHANGED <<dest, kept, noticed>> /\ printed' = printed \o direct
    BY <1>2, <1>6, <2>2
  <2>4. CASE r[2] < INFO
    <3>1. direct = IF place.debug THEN <<r>> ELSE <<>>
      BY <1>3, <1>4, <2>4 DEF INFO
    <3>2. printed' = IF place.debug THEN Append(printed, r) ELSE printed
      BY <1>2, <1>6, <2>3, <3>1
    <3> QED
      BY <1>7, <2>3, <2>4, <3>2 DEF Passed
  <2>5. CASE ~(r[2] < INFO)
    <3>1. dest.kind = "none" /\ r[2] >= INFO /\ direct = <<r>>
      BY <1>3, <1>4, <1>8, <2>5 DEF INFO
    <3>2. printed' = Append(printed, r)
      BY <1>2, <1>6, <2>3, <3>1
    <3> QED
      BY <1>7, <2>3, <3>1, <3>2 DEF OnStderr
  <2> QED
    BY <1>7, <2>4, <2>5
<1>9. CASE r[2] >= INFO /\ dest.kind # "none"
  <2>0. out = Emitted(r) /\ ~(r[2] < INFO)
    BY <1>1, <1>3, <1>9 DEF INFO
  <2>1. direct = IF place.debug THEN <<r>> ELSE <<>>
    BY <1>4, <1>9
  <2>2. dest.debug_on_stderr = place.debug /\ dest.forward = (dest.dead /\ ~place.debug)
    BY <1>9 DEF LogInv, DestOK
  <2>3. CASE dest.dead
    <3>1. out = [Untaken EXCEPT !.printed = IF dest.forward THEN <<r>> ELSE <<>>]
      BY <2>0, <2>3 DEF Emitted
    <3>2. /\ out.dest = dest /\ out.kept = <<>> /\ out.notice = FALSE
          /\ out.printed = IF dest.forward THEN <<r>> ELSE <<>>
      BY <3>1 DEF Untaken
    <3>3. UNCHANGED <<dest, kept, noticed>> /\ printed' = printed \o out.printed \o direct
      BY <1>2, <1>5, <1>6, <3>2
    <3>4. printed' = Append(printed, r)
      <4>1. CASE place.debug
        <5>1. out.printed = <<>> /\ direct = <<r>>
          BY <2>1, <2>2, <3>2, <4>1
        <5> QED
          BY <1>2, <1>6, <3>3, <5>1
      <4>2. CASE ~place.debug
        <5>1. out.printed = <<r>> /\ direct = <<>>
          BY <2>1, <2>2, <2>3, <3>2, <4>2
        <5> QED
          BY <1>2, <1>6, <3>3, <5>1
      <4> QED
        BY <4>1, <4>2
    <3> QED
      BY <1>7, <1>9, <2>3, <3>3, <3>4 DEF OnStderr
  <2>4. CASE ~dest.dead /\ Arrives
    <3>1. out = [Untaken EXCEPT !.dest.live = TRUE, !.kept = <<r>>]
      BY <2>0, <2>4 DEF Emitted
    <3>2. /\ out.dest = [dest EXCEPT !.live = TRUE] /\ out.kept = <<r>>
          /\ out.notice = FALSE /\ out.printed = <<>>
      BY <3>1 DEF Untaken
    <3>3. /\ kept' = Append(kept, r) /\ UNCHANGED noticed
          /\ printed' = printed \o direct
      BY <1>2, <1>5, <1>6, <3>2
    <3> QED
      BY <1>2, <1>5, <1>6, <1>7, <1>9, <2>1, <2>4, <3>2, <3>3 DEF Arrived
  <2>5. CASE ~dest.dead /\ ~Arrives
    <3>1. /\ out.dest = [dest EXCEPT !.dead = TRUE, !.forward = ~place.debug,
                                     !.buffer = IF dest.kind = "file" THEN <<r>> ELSE <<>>]
          /\ out.kept = <<>> /\ out.notice = TRUE
          /\ out.printed = IF place.debug THEN <<>> ELSE <<r>>
      BY <2>0, <2>2, <2>5 DEF Emitted, Forwarded
    <3>2. /\ kept' = kept /\ noticed' = Append(noticed, Len(printed))
          /\ printed' = Append(printed, r)
      BY <1>2, <1>5, <1>6, <2>1, <3>1
    <3> QED
      BY <1>5, <1>7, <1>9, <2>5, <3>1, <3>2 DEF FailedNow
  <2> QED
    BY <2>3, <2>4, <2>5
<1> QED
  BY <1>3, <1>8, <1>9 DEF INFO

(***************************************************************************)
(* The invariant.                                                          *)
(***************************************************************************)
LEMMA NoDestTyped == NoDest \in Dests
<1>1. <<>> \in Seq(Records)
  OBVIOUS
<1> QED
  BY <1>1 DEF NoDest, Dests, Nodes

LEMMA InitLog == Init => LogInv
<1> SUFFICES ASSUME Init PROVE LogInv
  OBVIOUS
<1> USE DEF Init, LogInit, MailInit
<1>1. LogTypes
  <2>1. /\ place.socks \in [Range(SYSLOG_SOCKETS) -> SocketKinds] /\ place.node \in Nodes
        /\ place.room \in BOOLEAN
    BY LogSetupsAssumption DEF LogSetupType
  <2>2. <<>> \in Seq(Records) /\ <<>> \in Seq(Nat)
    OBVIOUS
  <2> QED
    BY <2>1, <2>2, NoDestTyped DEF LogTypes, Opening
<1>2. DestOK /\ CallOK /\ HandlersAreTheCalls /\ AppendsToAFile
  BY DEF DestOK, CallOK, HandlersAreTheCalls, AppendsToAFile, Fresh, Opening, NoDest
<1>3. NoticeOK /\ SplitOK /\ BothOK
  BY DEF NoticeOK, SplitOK, BothOK
<1>4. EveryRecordOnce
  <2>1. <<>> \in Seq(Records) /\ Leads(<<>>, <<>>) /\ <<>> \o <<>> = <<>>
    BY ConcatEmptySeq DEF Leads
  <2>2. IsPrefix(<<>>, <<>>)
    BY <2>1, LeadsIsPrefix
  <2> QED
    BY <2>1, <2>2 DEF EveryRecordOnce
<1> QED
  BY <1>1, <1>2, <1>3, <1>4 DEF LogInv

\* The steps that leave the call's records and handlers alone, and of the
\* destination all but its connection.
SameDest ==
  /\ dest' \in Dests /\ dest'.kind = dest.kind /\ dest'.dead = dest.dead
  /\ dest'.forward = dest.forward /\ dest'.debug_on_stderr = dest.debug_on_stderr
  /\ dest'.buffer = dest.buffer /\ dest'.via = dest.via

LEMMA LogStutters ==
  ASSUME LogInv, UNCHANGED <<place, phase, handlers, lines>>, SameDest,
         socks' \in [Range(SYSLOG_SOCKETS) -> SocketKinds], node' \in Nodes, room' \in BOOLEAN,
         at' # "idle" => phase = "attached"
  PROVE  LogInv'
<1> USE DEF lines, SameDest
<1>1. LogTypes' /\ CallOK'
  BY DEF LogInv, LogTypes, CallOK
<1>2. DestOK' /\ HandlersAreTheCalls' /\ AppendsToAFile'
  BY DEF LogInv, DestOK, HandlersAreTheCalls, AppendsToAFile, Asked
<1>3. NoticeOK' /\ SplitOK' /\ BothOK'
  BY DEF LogInv, NoticeOK, SplitOK, BothOK, Asked
<1>4. phase' = "out" => EveryRecordOnce'
  BY DEF LogInv, EveryRecordOnce
<1> QED
  BY <1>1, <1>2, <1>3, <1>4 DEF LogInv

LEMMA SameDestHolds == LogInv /\ UNCHANGED dest => SameDest
  BY DEF LogInv, LogTypes, SameDest

LEMMA WorldKeeps == LogInv /\ LogWorld /\ UNCHANGED at => LogInv'
<1> SUFFICES ASSUME LogInv, LogWorld, UNCHANGED at PROVE LogInv'
  OBVIOUS
<1>1. /\ UNCHANGED <<place, phase, handlers, lines>>
      /\ at' # "idle" => phase = "attached"
  BY DEF LogWorld, LogInv, CallOK
<1>2. /\ socks \in [Range(SYSLOG_SOCKETS) -> SocketKinds] /\ node \in Nodes
      /\ room \in BOOLEAN /\ dest \in Dests
  BY DEF LogInv, LogTypes
<1>3. CASE SocketChanges
  <2>1. PICK p \in Range(SYSLOG_SOCKETS), kind \in {"refused", "dgram", "stuck"} :
          /\ socks' = [socks EXCEPT ![p] = kind]
          /\ dest' = [dest EXCEPT !.live = @ /\ ~(dest.path = p /\ kind # "stuck")]
    BY <1>3 DEF SocketChanges
  <2>2. socks' \in [Range(SYSLOG_SOCKETS) -> SocketKinds]
    BY <1>2, <2>1 DEF SocketKinds, Sockets
  <2>3. SameDest
    BY <1>2, <2>1 DEF SameDest, Dests
  <2>4. node' \in Nodes /\ room' \in BOOLEAN
    BY <1>2, <1>3 DEF SocketChanges
  <2> QED
    BY <1>1, <2>2, <2>3, <2>4, LogStutters
<1>4. CASE NodeChanges \/ RoomChanges
  <2>1. /\ socks' = socks /\ dest' = dest /\ node' \in Nodes /\ room' \in BOOLEAN
    BY <1>2, <1>4 DEF NodeChanges, RoomChanges, Nodes
  <2> QED
    BY <1>1, <1>2, <2>1, SameDestHolds, LogStutters
<1> QED
  BY <1>3, <1>4 DEF LogWorld

\* A delivery leaves the log alone, but for what it gives it to say.
LEMMA DeliveryLeavesLog ==
  LogInv /\ UNCHANGED log_vars /\ (at = "idle" => at' = "idle" \/ phase = "attached") => LogInv'
<1> SUFFICES ASSUME LogInv, UNCHANGED log_vars, at = "idle" => at' = "idle" \/ phase = "attached"
             PROVE LogInv'
  OBVIOUS
<1>1. UNCHANGED <<place, socks, node, room, phase, handlers, lines, dest>>
  BY DEF log_vars, lines
<1>2. at' # "idle" => phase = "attached"
  BY DEF LogInv, CallOK
<1>3. /\ socks \in [Range(SYSLOG_SOCKETS) -> SocketKinds] /\ node \in Nodes
      /\ room \in BOOLEAN
  BY DEF LogInv, LogTypes
<1> QED
  BY <1>1, <1>2, <1>3, SameDestHolds, LogStutters

\* While attach is looking for the destination nothing is said.
LEMMA OpeningKeeps ==
  ASSUME LogInv, phase' \in Opening \union {"wire"}, at' = "idle", UNCHANGED <<place, socks, room>>,
         node' \in Nodes, handlers' = <<>>, dest' \in Dests, DestOK', AppendsToAFile',
         said' = <<>>, due' = <<>>, kept' = <<>>, printed' = <<>>, noticed' = <<>>
  PROVE  LogInv'
<1>1. phase' \notin {"out", "attached"}
  BY DEF Opening
<1>2. <<>> \in Seq(Records) /\ <<>> \in Seq(Nat)
  OBVIOUS
<1>3. LogTypes'
  BY <1>2 DEF LogInv, LogTypes
<1>4. CallOK' /\ HandlersAreTheCalls'
  BY <1>1 DEF CallOK, HandlersAreTheCalls
<1>5. NoticeOK' /\ SplitOK' /\ BothOK'
  BY <1>1 DEF NoticeOK, SplitOK, BothOK
<1> QED
  BY <1>1, <1>3, <1>4, <1>5 DEF LogInv

LEMMA LogBegins == LogInv /\ Begin => LogInv'
<1> SUFFICES ASSUME LogInv, Begin PROVE LogInv'
  OBVIOUS
<1>1. /\ phase = "out" /\ at' = "idle" /\ dest' = NoDest
      /\ UNCHANGED <<place, socks, room, node, handlers>>
      /\ said' = <<>> /\ due' = <<>> /\ kept' = <<>> /\ printed' = <<>> /\ noticed' = <<>>
      /\ phase' = IF place.to_stderr \/ place.spec = "stderr" THEN "wire"
                  ELSE IF place.spec = "syslog" THEN "probe"
                  ELSE IF place.spec = "file" THEN "lstat" ELSE "udp"
  BY DEF Begin, AttachBegins, log_world
<1>2. phase' \in {"wire", "probe", "lstat", "udp"} /\ (phase' = "wire" <=> ~Asked)
  BY <1>1 DEF Asked
<1>3. handlers' = <<>> /\ node' \in Nodes
  BY <1>1 DEF LogInv, HandlersAreTheCalls, LogTypes
<1>4. Asked' <=> Asked
  BY <1>1 DEF Asked
<1>5. DestOK' /\ AppendsToAFile'
  BY <1>1, <1>2, <1>4 DEF DestOK, AppendsToAFile, Fresh, Opening, NoDest
<1>6. phase' \in Opening \union {"wire"}
  BY <1>2 DEF Opening
<1> QED
  BY <1>1, <1>3, <1>5, <1>6, OpeningKeeps, NoDestTyped

\* The steps of attach that look for the destination.
LEMMA LookingKeeps ==
  ASSUME LogInv, at = "idle", UNCHANGED at,
         Probe \/ ProbedAll \/ Construct \/ Lstat \/ OpenFile \/ OpenUdp
  PROVE  LogInv'
<1>1. /\ UNCHANGED <<place, socks, room, handlers, lines>> /\ phase \in Opening
      /\ at' = "idle"
  BY DEF Probe, ProbedAll, Construct, Lstat, OpenFile, OpenUdp, log_world, Opening
<1>2. /\ dest \in Dests /\ node \in Nodes /\ place.debug \in BOOLEAN /\ Asked
      /\ phase \notin {"out", "attached"}
  BY <1>1, LogSetupsAssumption DEF LogInv, LogTypes, LogSetupType, DestOK, Opening
<1>3. /\ handlers' = <<>>
      /\ said' = <<>> /\ due' = <<>> /\ kept' = <<>> /\ printed' = <<>> /\ noticed' = <<>>
  BY <1>1, <1>2 DEF LogInv, CallOK, HandlersAreTheCalls, lines
<1>4. /\ ~dest.dead /\ ~dest.forward /\ dest.buffer = <<>>
      /\ dest.kind # "none" => dest.debug_on_stderr = place.debug
  BY <1>2 DEF LogInv, DestOK
<1>5. Asked' /\ place' = place
  BY <1>1, <1>2 DEF Asked
\* It is enough that the step ends where attach goes on, with a destination
\* or without.
<1>6. ASSUME phase' \in Opening \union {"wire"}, node' \in Nodes, dest' \in Dests,
             ~dest'.dead, ~dest'.forward, dest'.buffer = <<>>,
             dest'.kind # "none" => dest'.debug_on_stderr = place.debug,
             phase' \in Fresh => dest'.kind = "none",
             phase' = "construct" => dest'.kind = "syslog",
             phase' = "wire" => dest'.kind # "none",
             dest'.kind = "file" => dest'.via \in {"none", "file"}
      PROVE  LogInv'
  <2>1. dest'.forward = (dest'.dead /\ ~place'.debug)
    BY <1>2, <1>5, <1>6 DEF Dests
  <2>2. DestOK'
    BY <1>5, <1>6, <2>1 DEF DestOK, Opening
  <2>3. AppendsToAFile'
    BY <1>6 DEF AppendsToAFile
  <2> QED
    BY <1>1, <1>3, <1>6, <2>2, <2>3, OpeningKeeps
<1>7. ASSUME NEW kind \in {"syslog", "file", "udp"}
      PROVE  /\ NewDest(kind) \in Dests /\ NewDest(kind).kind = kind
             /\ ~NewDest(kind).dead /\ ~NewDest(kind).forward /\ NewDest(kind).buffer = <<>>
             /\ NewDest(kind).debug_on_stderr = place.debug /\ NewDest(kind).via = "none"
  BY <1>2, NoDestTyped DEF NewDest, NoDest, Dests
<1>8. CASE Probe
  <2>1. node' = node /\ phase = "probe" /\ dest.kind = "none"
    BY <1>8 DEF Probe, log_world, LogInv, DestOK, Fresh
  <2>2. PICK p \in Range(SYSLOG_SOCKETS) :
          \/ UNCHANGED <<phase, dest>>
          \/ /\ phase' = "construct"
             /\ dest' = [NewDest("syslog") EXCEPT !.path = p, !.typ = TypesThat(socks[p])]
             /\ TypesThat(socks[p]) # "none"
    BY <1>8 DEF Probe
  <2>3. CASE UNCHANGED <<phase, dest>>
    BY <1>1, <1>2, <1>4, <1>6, <2>1, <2>3
  <2>4. CASE /\ phase' = "construct"
             /\ dest' = [NewDest("syslog") EXCEPT !.path = p, !.typ = TypesThat(socks[p])]
             /\ TypesThat(socks[p]) # "none"
    <3>1. TypesThat(socks[p]) \in {"none", "dgram", "stream"}
      BY DEF TypesThat
    <3>2. /\ dest' \in Dests /\ dest'.kind = "syslog" /\ ~dest'.dead /\ ~dest'.forward
          /\ dest'.buffer = <<>> /\ dest'.debug_on_stderr = place.debug
      BY <1>7, <2>4, <3>1 DEF Dests
    <3> QED
      BY <1>2, <1>6, <2>1, <2>4, <3>2 DEF Fresh, Opening
  <2> QED
    BY <2>2, <2>3, <2>4
<1>9. CASE ProbedAll \/ Lstat
  <2>1. node' = node /\ dest' = dest /\ dest.kind = "none" /\ phase' \in {"open", "fallback"}
    BY <1>9 DEF ProbedAll, Lstat, log_world, LogInv, DestOK, Fresh
  <2> QED
    BY <1>2, <1>4, <1>6, <2>1 DEF Opening
<1>10. CASE Construct
  <2>1. /\ node' = node /\ phase' = "wire" /\ dest' = [dest EXCEPT !.live = Connects]
        /\ dest.kind = "syslog"
    BY <1>10 DEF Construct, log_world, LogInv, DestOK
  <2>2. Connects \in BOOLEAN
    BY DEF Connects
  <2>3. /\ dest' \in Dests /\ dest'.kind = "syslog" /\ dest'.dead = dest.dead
        /\ dest'.forward = dest.forward /\ dest'.buffer = dest.buffer
        /\ dest'.debug_on_stderr = dest.debug_on_stderr
    BY <1>2, <2>1, <2>2 DEF Dests
  <2> QED
    BY <1>2, <1>4, <1>6, <2>1, <2>3 DEF Fresh, Opening
<1>11. CASE OpenFile
  <2>1. dest.kind = "none"
    BY <1>11 DEF OpenFile, LogInv, DestOK, Fresh
  <2>2. CASE OpensTo(node) = "file"
    <3>1. /\ phase' = "wire" /\ dest' = [NewDest("file") EXCEPT !.via = node]
          /\ node' = IF node = "none" THEN "file" ELSE node
      BY <1>11, <2>2 DEF OpenFile
    <3>2. node \in {"none", "file"}
      BY <1>2, <2>2 DEF OpensTo, Nodes
    <3>3. /\ dest' \in Dests /\ dest'.kind = "file" /\ ~dest'.dead /\ ~dest'.forward
          /\ dest'.buffer = <<>> /\ dest'.debug_on_stderr = place.debug /\ dest'.via = node
      BY <1>2, <1>7, <3>1 DEF Dests
    <3>4. node' \in Nodes
      BY <1>2, <3>1 DEF Nodes
    <3> QED
      BY <1>6, <3>1, <3>2, <3>3, <3>4 DEF Fresh, Opening
  <2>3. CASE OpensTo(node) # "file"
    <3>1. phase' = "fallback" /\ node' = node /\ dest' = dest
      BY <1>11, <2>3 DEF OpenFile
    <3> QED
      BY <1>2, <1>4, <1>6, <2>1, <3>1 DEF Opening
  <2> QED
    BY <2>2, <2>3
<1>12. CASE OpenUdp
  <2>1. node' = node /\ dest.kind = "none"
    BY <1>12 DEF OpenUdp, log_world, LogInv, DestOK, Fresh
  <2>2. \/ phase' = "wire" /\ dest' = NewDest("udp")
        \/ phase' = "fallback" /\ dest' = dest
    BY <1>12 DEF OpenUdp
  <2>3. CASE phase' = "wire" /\ dest' = NewDest("udp")
    BY <1>2, <1>6, <1>7, <2>1, <2>3 DEF Fresh, Opening
  <2>4. CASE phase' = "fallback" /\ dest' = dest
    BY <1>2, <1>4, <1>6, <2>1, <2>4 DEF Opening
  <2> QED
    BY <2>2, <2>3, <2>4
<1> QED
  BY <1>8, <1>9, <1>10, <1>11, <1>12

\* The handlers are wired, with the destination or with stderr in its place.
LEMMA WiringKeeps ==
  ASSUME LogInv, at = "idle", UNCHANGED at, Wire \/ Fallback
  PROVE  LogInv'
<1>1. /\ UNCHANGED <<place, socks, node, room, dest, said, due, kept, printed>>
      /\ phase \in {"wire", "fallback"} /\ phase' = "attached" /\ at' = "idle"
  BY DEF Wire, Fallback, log_world, lines
<1>2. /\ handlers = <<>> /\ said = <<>> /\ due = <<>> /\ kept = <<>> /\ printed = <<>>
      /\ noticed = <<>>
  BY <1>1 DEF LogInv, CallOK, HandlersAreTheCalls
<1>3. /\ dest \in Dests /\ ~dest.dead /\ dest.buffer = <<>> /\ place.debug \in BOOLEAN
  BY <1>1, LogSetupsAssumption DEF LogInv, LogTypes, LogSetupType, DestOK
<1>4. ASSUME Wire PROVE HandlersAreTheCalls' /\ NoticeOK'
  <2>1. /\ noticed' = noticed /\ (dest.kind = "none" => ~Asked)
        /\ handlers' = handlers \o (IF dest.kind # "none" THEN <<"destination">> ELSE <<>>)
                               \o (IF ~(dest.kind # "none") \/ place.debug THEN <<"stderr">> ELSE <<>>)
    BY <1>4 DEF Wire, lines, LogInv, DestOK
  <2>2. <<>> \o (IF dest.kind # "none" THEN <<"destination">> ELSE <<>>)
          = IF dest.kind # "none" THEN <<"destination">> ELSE <<>>
    BY ConcatEmptySeq
  <2>3. HandlersAreTheCalls'
    BY <1>1, <1>2, <2>1, <2>2 DEF HandlersAreTheCalls
  <2>4. NoticeOK'
    BY <1>1, <1>2, <1>3, <2>1 DEF NoticeOK, Asked
  <2> QED
    BY <2>3, <2>4
<1>5. ASSUME Fallback PROVE HandlersAreTheCalls' /\ NoticeOK'
  <2>1. noticed' = <<0>> /\ handlers' = Append(handlers, "stderr")
    BY <1>5 DEF Fallback
  <2>2. dest.kind = "none" /\ Asked
    BY <1>5 DEF Fallback, LogInv, DestOK, Fresh, Opening
  <2>3. handlers' = <<"stderr">> /\ <<>> \o <<"stderr">> = <<"stderr">>
    <3>1. <<>> \in Seq({"stderr"}) /\ <<"stderr">> \in Seq({"stderr"})
      OBVIOUS
    <3> QED
      BY <1>2, <2>1, <3>1, AppendIsConcat, ConcatEmptySeq
  <2>4. HandlersAreTheCalls'
    BY <1>1, <2>2, <2>3 DEF HandlersAreTheCalls
  <2>5. NoticeOK'
    BY <1>1, <1>3, <2>1, <2>2 DEF NoticeOK, Asked
  <2> QED
    BY <2>4, <2>5
<1>6. HandlersAreTheCalls' /\ NoticeOK'
  BY <1>4, <1>5
<1>7. noticed' \in Seq(Nat)
  <2>1. noticed' = <<>> \/ noticed' = <<0>>
    BY <1>2 DEF Wire, Fallback, lines
  <2>2. <<>> \in Seq(Nat) /\ <<0>> \in Seq(Nat)
    OBVIOUS
  <2> QED
    BY <2>1, <2>2, Zenon
<1>8. LogTypes' /\ CallOK' /\ AppendsToAFile'
  BY <1>1, <1>7 DEF LogInv, LogTypes, CallOK, AppendsToAFile
<1>9. DestOK'
  BY <1>1, <1>3 DEF LogInv, DestOK, Asked, Fresh, Opening
<1>10. SplitOK' /\ BothOK'
  <2>1. <<>> \in Seq(Records) /\ <<>> \o <<>> = <<>> /\ Leads(<<>>, <<>>)
    BY ConcatEmptySeq DEF Leads
  <2> QED
    BY <1>1, <1>2, <1>3, <2>1 DEF SplitOK, BothOK
<1> QED
  BY <1>1, <1>6, <1>8, <1>9, <1>10 DEF LogInv

(***************************************************************************)
(* A record keeps the invariant, case by case.                             *)
(***************************************************************************)
LEMMA RecordKeeps ==
  ASSUME LogInv, phase = "attached", NEW r \in Records, Log(r),
         UNCHANGED <<place, socks, node, room, phase, handlers>>
  PROVE  LogInv'
<1>1. Taken(r) /\ (Passed(r) \/ Arrived(r) \/ FailedNow(r) \/ OnStderr(r))
  BY WhatLogDoes
<1>2. /\ said \in Seq(Records) /\ due \in Seq(Records) /\ kept \in Seq(Records)
      /\ printed \in Seq(Records) /\ noticed \in Seq(Nat) /\ dest \in Dests
      /\ dest.buffer \in Seq(Records) /\ kept \o dest.buffer \in Seq(Records)
      /\ place.debug \in BOOLEAN /\ r[2] \in Int
  <2>1. /\ said \in Seq(Records) /\ due \in Seq(Records) /\ kept \in Seq(Records)
        /\ printed \in Seq(Records) /\ noticed \in Seq(Nat) /\ dest \in Dests
        /\ place \in LogSetups
    BY DEF LogInv, LogTypes
  <2>2. dest.buffer \in Seq(Records)
    BY <2>1 DEF Dests
  <2>3. kept \o dest.buffer \in Seq(Records)
    BY <2>1, <2>2, ConcatProperties
  <2>4. r[2] \in Int
    BY DEF Records, DEBUG, INFO, WARNING
  <2>5. place.debug \in BOOLEAN
    BY <2>1, LogSetupsAssumption DEF LogSetupType
  <2> QED
    BY <2>1, <2>2, <2>3, <2>4, <2>5
<1>3. \A s \in Seq(Records) : Append(s, r) \in Seq(Records) /\ Append(s, r) # <<>>
  BY AppendProperties
<1>4. /\ said' = Append(said, r) /\ said' \in Seq(Records)
      /\ due' = (IF r[2] < INFO THEN due ELSE Append(due, r)) /\ due' \in Seq(Records)
  BY <1>1, <1>2, <1>3 DEF Taken
<1>5. kept' \in Seq(Records) /\ printed' \in Seq(Records)
  BY <1>1, <1>2, <1>3 DEF Passed, Arrived, FailedNow, OnStderr
<1>6. noticed' \in Seq(Nat)
  <2>1. noticed' = noticed \/ noticed' = Append(noticed, Len(printed))
    BY <1>1 DEF Passed, Arrived, FailedNow, OnStderr
  <2>2. Len(printed) \in Nat
    BY <1>2
  <2> QED
    <3>1. \A s \in Seq(Nat), n \in Nat : Append(s, n) \in Seq(Nat)
      BY AppendProperties
    <3> QED
      BY <1>2, <2>1, <2>2, <3>1, Zenon
<1>7. <<r>> \in Seq(Records) /\ <<>> \in Seq(Records)
  OBVIOUS
<1>8. dest' \in Dests
  BY <1>1, <1>2, <1>7 DEF Passed, Arrived, FailedNow, OnStderr, Dests
<1>9. /\ dest'.kind = dest.kind /\ dest'.via = dest.via
      /\ dest'.debug_on_stderr = dest.debug_on_stderr
      /\ dest.dead => dest' = dest
  BY <1>1, <1>2 DEF Passed, Arrived, FailedNow, OnStderr, Dests
<1>10. LogTypes' /\ CallOK' /\ HandlersAreTheCalls' /\ AppendsToAFile'
  BY <1>4, <1>5, <1>6, <1>8, <1>9 DEF LogInv, LogTypes, CallOK, HandlersAreTheCalls, AppendsToAFile
<1>11. /\ dest.kind = "none" => ~dest.dead
       /\ dest.forward = (dest.dead /\ ~place.debug)
       /\ ~dest.dead => dest.buffer = <<>>
       /\ dest.kind # "none" => dest.debug_on_stderr = place.debug /\ Asked
  BY DEF LogInv, DestOK
\* Passed by: the destination and what it holds are as they were.
<1>12. CASE Passed(r)
  <2>1. dest' = dest /\ kept' = kept /\ noticed' = noticed /\ due' = due
    BY <1>4, <1>12 DEF Passed
  <2>2. printed' = IF place.debug THEN said' ELSE printed
    BY <1>4, <1>12 DEF Passed, LogInv, BothOK
  <2> QED
    BY <1>10, <2>1, <2>2 DEF LogInv, DestOK, NoticeOK, SplitOK, BothOK, Asked
\* It has arrived: the destination has every record that is due.
<1>13. CASE Arrived(r)
  <2>1. /\ dest.kind # "none" /\ ~dest.dead /\ noticed' = noticed
        /\ ~dest'.dead /\ dest'.forward = dest.forward /\ dest'.buffer = <<>>
    BY <1>2, <1>11, <1>13 DEF Arrived, Dests
  <2>2. due' = Append(due, r) /\ kept = due /\ kept' = due'
    <3>1. kept = due
      BY <1>2, <2>1 DEF LogInv, SplitOK, BothOK
    <3>2. r[2] \in Nat /\ r[2] >= INFO /\ kept' = Append(kept, r)
      BY <1>13 DEF Arrived, Records, DEBUG, INFO, WARNING
    <3>3. due' = Append(due, r)
      BY <1>4, <3>2 DEF INFO
    <3> QED
      BY <3>1, <3>2, <3>3
  <2>3. DestOK' /\ NoticeOK'
    BY <1>9, <2>1 DEF LogInv, DestOK, NoticeOK, Asked
  <2>4. SplitOK'
    BY <1>9, <1>13, <2>1, <2>2 DEF LogInv, SplitOK, Arrived
  <2>5. BothOK'
    <3>1. kept' \o dest'.buffer = due' /\ Leads(due', due')
      BY <1>4, <2>1, <2>2, ConcatEmptySeq, LeadsItself
    <3>2. place.debug => printed' = said'
      BY <1>4, <1>13 DEF Arrived, LogInv, BothOK
    <3> QED
      BY <1>9, <2>1, <2>2, <3>1, <3>2 DEF BothOK
  <2> QED
    BY <1>10, <2>3, <2>4, <2>5 DEF LogInv
\* It is the one that failed: the first on stderr, behind the notice.
<1>14. CASE FailedNow(r)
  <2>1. /\ dest.kind # "none" /\ ~dest.dead /\ dest'.dead
        /\ dest'.forward = ~place.debug /\ dest'.buffer \in {<<>>, <<r>>}
        /\ kept' = kept /\ printed' = Append(printed, r) /\ noticed' = Append(noticed, Len(printed))
    BY <1>2, <1>14 DEF FailedNow, Dests
  <2>2. due' = Append(due, r) /\ kept = due
    BY <1>2, <1>4, <1>14, <2>1 DEF FailedNow, LogInv, SplitOK, BothOK, INFO
  <2>3. DestOK'
    BY <1>2, <1>9, <1>11, <2>1 DEF LogInv, DestOK, Asked
  <2>4. ~place.debug => printed = <<>>
    BY <2>1 DEF LogInv, SplitOK
  <2>5. NoticeOK'
    <3>1. noticed = <<>> /\ Asked
      BY <1>11, <2>1 DEF LogInv, NoticeOK
    <3>2. /\ Append(<<>>, 0) = <<0>> /\ Len(<<>>) = 0
          /\ \A n \in Nat : Len(Append(<<>>, n)) = 1
      OBVIOUS
    <3>3. Len(printed) \in Nat
      BY <1>2
    <3>4. Len(noticed') = 1 /\ (~place.debug => noticed' = <<0>>)
      BY <2>1, <2>4, <3>1, <3>2, <3>3
    <3> QED
      BY <1>9, <2>1, <3>1, <3>4 DEF NoticeOK, Asked
  <2>6. SplitOK'
    <3>1. ASSUME ~place.debug
          PROVE  /\ kept' \o printed' = due' /\ printed' # <<>>
                 /\ dest'.buffer \in {<<>>, <<printed'[1]>>}
      <4>1. printed' = <<r>>
        <5>1. Append(<<>>, r) = <<r>>
          OBVIOUS
        <5> QED
          BY <2>1, <2>4, <3>1, <5>1
      <4>2. kept \o <<r>> = Append(kept, r)
        BY <1>2, AppendIsConcat
      <4>3. printed'[1] = r /\ printed' # <<>>
        BY <4>1
      <4> QED
        BY <2>1, <2>2, <4>1, <4>2, <4>3
    <3> QED
      BY <1>9, <2>1, <3>1 DEF SplitOK
  <2>7. BothOK'
    <3>1. kept' \o dest'.buffer = due \/ kept' \o dest'.buffer = due'
      <4>1. kept \o <<>> = kept /\ kept \o <<r>> = Append(kept, r)
        BY <1>2, ConcatEmptySeq, AppendIsConcat
      <4> QED
        BY <2>1, <2>2, <4>1
    <3>2. Leads(due, due') /\ Leads(due', due')
      BY <1>2, <1>4, <2>2, LeadsItself, LeadsOn
    <3>3. place.debug => printed' = said'
      BY <1>4, <2>1 DEF LogInv, BothOK
    <3> QED
      BY <1>9, <2>1, <3>1, <3>2, <3>3 DEF BothOK
  <2> QED
    BY <1>10, <2>3, <2>5, <2>6, <2>7 DEF LogInv
\* There is none, or it has failed before.
<1>15. CASE OnStderr(r)
  <2>1. /\ (dest.kind = "none" \/ dest.dead) /\ UNCHANGED <<dest, kept, noticed>>
        /\ printed' = Append(printed, r) /\ due' = Append(due, r)
    BY <1>2, <1>4, <1>15 DEF OnStderr, INFO
  <2>2. DestOK' /\ NoticeOK'
    BY <2>1 DEF LogInv, DestOK, NoticeOK, Asked
  <2>3. SplitOK'
    <3>1. ASSUME ~place.debug, dest.dead
          PROVE  /\ kept' \o printed' = due' /\ printed' # <<>>
                 /\ dest'.buffer \in {<<>>, <<printed'[1]>>}
      <4>1. /\ kept \o printed = due /\ printed # <<>> /\ dest.buffer \in {<<>>, <<printed[1]>>}
        BY <3>1 DEF LogInv, SplitOK
      <4>2. kept \o Append(printed, r) = Append(kept \o printed, r)
        BY <1>2, EndOfWhole
      <4>3. printed'[1] = printed[1] /\ printed' # <<>>
        BY <1>2, <2>1, <4>1
      <4> QED
        BY <2>1, <4>1, <4>2, <4>3
    <3>2. dest.kind = "none" => ~dest.dead
      BY <1>11
    <3> QED
      BY <2>1, <3>1, <3>2 DEF LogInv, SplitOK
  <2>4. BothOK'
    <3>1. Leads(kept \o dest.buffer, due) => Leads(kept \o dest.buffer, due')
      BY <1>2, <2>1, LeadsOn
    <3>2. place.debug => printed' = said'
      BY <1>4, <2>1 DEF LogInv, BothOK
    <3> QED
      BY <1>11, <2>1, <3>1, <3>2 DEF LogInv, BothOK
  <2> QED
    BY <1>10, <2>2, <2>3, <2>4 DEF LogInv
<1> QED
  BY <1>1, <1>12, <1>13, <1>14, <1>15

LEMMA SaysKeeps == LogInv /\ Says => LogInv'
<1> SUFFICES ASSUME LogInv, Says PROVE LogInv'
  OBVIOUS
<1>1. /\ phase = "attached" /\ UNCHANGED <<place, socks, node, room, phase, handlers, at>>
  BY DEF Says, LogInv, CallOK, log_world
<1>2. CASE Log(<<Len(said) + 1, LevelOf(to_log[1])>>)
  <2>1. <<Len(said) + 1, LevelOf(to_log[1])>> \in Records
    BY DEF LogInv, LogTypes, Records, LevelOf
  <2> QED
    BY <1>1, <1>2, <2>1, RecordKeeps
<1>3. CASE UNCHANGED <<dest, lines>>
  <2>1. /\ socks \in [Range(SYSLOG_SOCKETS) -> SocketKinds] /\ node \in Nodes
        /\ room \in BOOLEAN
    BY DEF LogInv, LogTypes
  <2> QED
    BY <1>1, <1>3, <2>1, SameDestHolds, LogStutters
<1> QED
  BY <1>2, <1>3 DEF Says

\* The call's end: what a failed flush has left reaches the file, or not.
LEMMA EndKeeps == LogInv /\ End => LogInv'
<1> SUFFICES ASSUME LogInv, End PROVE LogInv'
  OBVIOUS
<1>1. /\ phase = "attached" /\ phase' = "out" /\ at' = "idle" /\ dest' = NoDest
      /\ UNCHANGED <<place, socks, node, room, said, due, printed, noticed>>
      /\ handlers' = <<>> /\ kept' = IF room THEN kept \o dest.buffer ELSE kept
  BY DEF End, Detach, ClosedAll, log_world, mail_vars
<1>2. /\ due \in Seq(Records) /\ kept \in Seq(Records) /\ printed \in Seq(Records)
      /\ dest.buffer \in Seq(Records) /\ kept \o dest.buffer \in Seq(Records)
  <2>1. /\ due \in Seq(Records) /\ kept \in Seq(Records) /\ printed \in Seq(Records)
        /\ dest \in Dests
    BY DEF LogInv, LogTypes
  <2>2. dest.buffer \in Seq(Records)
    BY <2>1 DEF Dests
  <2> QED
    BY <2>1, <2>2, ConcatProperties
<1>3. LogTypes'
  BY <1>1, <1>2, NoDestTyped DEF LogInv, LogTypes
<1>4. DestOK' /\ CallOK' /\ HandlersAreTheCalls' /\ AppendsToAFile'
  BY <1>1 DEF DestOK, CallOK, HandlersAreTheCalls, AppendsToAFile, Fresh, Opening, NoDest
<1>5. NoticeOK' /\ SplitOK' /\ BothOK'
  BY <1>1 DEF NoticeOK, SplitOK, BothOK
<1>6. kept \o <<>> = kept /\ <<>> \o printed = printed
  BY <1>2, ConcatEmptySeq
<1>7. /\ dest.kind = "none" => ~dest.dead
      /\ ~dest.dead => dest.buffer = <<>>
  BY DEF LogInv, DestOK
<1>8. CASE place.debug
  <2>1. printed = said /\ Leads(kept \o dest.buffer, due)
    BY <1>1, <1>8 DEF LogInv, BothOK
  <2>2. Leads(kept, due)
    BY <1>2, <2>1, LeadsLess
  <2>3. IsPrefix(kept, due) /\ IsPrefix(kept \o dest.buffer, due)
    BY <1>2, <2>1, <2>2, LeadsIsPrefix
  <2>4. EveryRecordOnce'
    BY <1>1, <1>8, <2>1, <2>3 DEF EveryRecordOnce
  <2> QED
    BY <1>3, <1>4, <1>5, <2>4 DEF LogInv
<1>9. CASE ~place.debug /\ kept' = kept
  <2>1. kept \o printed = due
    BY <1>1, <1>2, <1>6, <1>9, ConcatEmptySeq DEF LogInv, SplitOK
  <2>2. EveryRecordOnce'
    BY <1>1, <1>9, <2>1 DEF EveryRecordOnce
  <2> QED
    BY <1>3, <1>4, <1>5, <2>2 DEF LogInv
<1>10. CASE ~place.debug /\ kept' # kept
  <2>1. dest.dead /\ dest.buffer # <<>> /\ kept' = kept \o dest.buffer
    BY <1>1, <1>6, <1>7, <1>10
  <2>2. kept \o printed = due /\ printed # <<>> /\ dest.buffer = <<printed[1]>>
    BY <1>1, <1>10, <2>1 DEF LogInv, SplitOK
  <2>3. printed[1] \in Records
    BY <1>2, <2>2
  <2>4. kept' = Append(kept, printed[1])
    BY <1>2, <2>1, <2>2, <2>3, AppendIsConcat
  <2>5. Front(kept') = kept /\ Last(kept') = printed[1] /\ kept' # <<>>
    BY <1>2, <2>3, <2>4, FrontOfAppend
  <2>6. EveryRecordOnce'
    BY <1>1, <1>10, <2>2, <2>5 DEF EveryRecordOnce
  <2> QED
    BY <1>3, <1>4, <1>5, <2>6 DEF LogInv
<1> QED
  BY <1>8, <1>9, <1>10

LEMMA LogNextKeeps == LogInv /\ [Next]_vars => LogInv'
<1> SUFFICES ASSUME LogInv, [Next]_vars PROVE LogInv'
  OBVIOUS
<1>1. CASE LogLooks /\ LogWorld /\ UNCHANGED mail_vars
  BY <1>1, WorldKeeps DEF mail_vars
<1>2. CASE Begin \/ Says \/ End
  BY <1>2, LogBegins, SaysKeeps, EndKeeps
<1>3. CASE at = "idle" /\ Attached /\ UNCHANGED mail_vars
  BY <1>3, LookingKeeps, WiringKeeps DEF Attached, mail_vars
<1>4. CASE \/ Send \/ Said
           \/ (System \/ Trickles \/ Proceeds \/ Interrupted \/ Broken) /\ UNCHANGED log_vars
  <2>1. UNCHANGED log_vars
    BY <1>4 DEF Send, Said
  <2>2. at = "idle" => phase = "attached"
    BY <1>4 DEF Send, Said, Returns, System, Proceeds, Interrupted, Broken, Popen, Finished, TimesOut,
       Reaped, Waited, Connect, StartTls, MailFrom, Rcpt, Data, Quit, Session,
       Trickles, ReadsPart, Hears
  <2> QED
    BY <2>1, <2>2, DeliveryLeavesLog
<1>5. CASE UNCHANGED vars
  BY <1>5, DeliveryLeavesLog DEF vars, mail_vars
<1> QED
  BY <1>1, <1>2, <1>3, <1>4, <1>5 DEF Next

(***************************************************************************)
(* The theorems.                                                           *)
(***************************************************************************)
\* The log's invariant holds in every state of every call of the process.
THEOREM LogInvariant == FairSpec => []LogInv
  BY InitLog, LogNextKeeps, PTL DEF FairSpec

\* Every record of a call is in one place and in its order: at the destination
\* up to where it failed and on stderr from there on, and under --debug on
\* stderr as well (_Loud.emit, handleError, attach's cleanup).
THEOREM RecordsAreOnce == FairSpec => []EveryRecordOnce
<1>1. LogInv => EveryRecordOnce
  <2> SUFFICES ASSUME LogInv, phase # "out" PROVE EveryRecordOnce
    BY DEF LogInv
  <2>1. /\ due \in Seq(Records) /\ kept \in Seq(Records) /\ printed \in Seq(Records)
        /\ said \in Seq(Records) /\ dest \in Dests
    BY DEF LogInv, LogTypes
  <2>2. dest.buffer \in Seq(Records)
    BY <2>1 DEF Dests
  <2>3. CASE place.debug
    <3>1. printed = said /\ Leads(kept, due)
      <4>1. CASE phase = "attached"
        BY <2>1, <2>2, <2>3, <4>1, LeadsLess DEF LogInv, BothOK
      <4>2. CASE phase # "attached"
        BY <2>1, <4>2, LeadsItself DEF LogInv, CallOK
      <4> QED
        BY <4>1, <4>2
    <3> QED
      BY <2>1, <2>3, <3>1, LeadsIsPrefix DEF EveryRecordOnce
  <2>4. CASE ~place.debug
    <3>1. kept \o printed = due
      <4>1. <<>> \o printed = printed /\ kept \o <<>> = kept
        BY <2>1, ConcatEmptySeq
      <4>2. dest.kind = "none" => ~dest.dead
        BY DEF LogInv, DestOK
      <4> QED
        BY <2>4, <4>1, <4>2 DEF LogInv, SplitOK, CallOK
    <3> QED
      BY <2>4, <3>1 DEF EveryRecordOnce
  <2> QED
    BY <2>3, <2>4
<1> QED
  BY <1>1, LogInvariant, PTL

\* A destination that cannot be used is named once on stderr, before any
\* record is there; one that works, and stderr itself, never
\* (_Loud.handleError, attach).
THEOREM NamedOnce == FairSpec => []LoudOnce
<1>1. LogInv => LoudOnce
  <2> SUFFICES ASSUME LogInv, phase = "attached" PROVE LoudOnce
    BY DEF LoudOnce
  <2>1. /\ ~Asked \/ (dest.kind # "none" /\ ~dest.dead) => noticed = <<>>
        /\ Asked /\ dest.kind = "none" => noticed = <<0>>
        /\ dest.dead => Len(noticed) = 1 /\ (~place.debug => noticed = <<0>>)
    BY DEF LogInv, NoticeOK
  <2>2. /\ dest.kind # "none" => Asked
        /\ dest.kind = "none" => ~dest.dead
    BY DEF LogInv, DestOK
  <2>3. Len(noticed) = IF Asked /\ ~(dest.kind # "none" /\ ~dest.dead) THEN 1 ELSE 0
    BY <2>1, <2>2
  <2>4. ASSUME Asked, ~place.debug, printed # <<>> PROVE noticed = <<0>>
    BY <2>1, <2>4 DEF LogInv, SplitOK
  <2> QED
    BY <2>3, <2>4 DEF LoudOnce, Asked
<1> QED
  BY <1>1, LogInvariant, PTL

\* The logger has this call's handlers while it is attached, and none between
\* the calls: no call leaves one behind (attach's cleanup).
THEOREM HandlersAreExact == FairSpec => []HandlersAreTheCalls
<1>1. LogInv => HandlersAreTheCalls
  BY DEF LogInv
<1> QED
  BY <1>1, LogInvariant, PTL

\* What is appended to is a regular file under its own name, whatever is put
\* at the path between the look and the open (_File._open).
THEOREM OnlyAFileIsAppendedTo == FairSpec => []AppendsToAFile
<1>1. LogInv => AppendsToAFile
  BY DEF LogInv
<1> QED
  BY <1>1, LogInvariant, PTL

(***************************************************************************)
(* The types of the variables.                                             *)
(***************************************************************************)
\* What TypeOK says of a delivery beyond its invariant.
DeliveryTypes ==
  /\ fed => at \in Session
  /\ Len(answers) <= Len(mail) /\ taken \subseteq To
  /\ outcome.kind # "sent" => outcome.accepted = {}

\* A recipient with an answer is one of the mail's.
LEMMA AnsweredIsTo ==
  ASSUME DeliveryInv, at # "idle", Len(answers) <= Len(mail), NEW answer
  PROVE  Answered(answer) \subseteq To
<1>1. mail \in Mails /\ answers \in Seq({"yes", "no", "bye"})
  BY DEF DeliveryInv, MailKnown, AnswersOK
<1>2. To = {mail[i] : i \in 1..Len(mail)} /\ Len(mail) \in Nat
  BY <1>1, MailHasRecipients
<1>3. DOMAIN answers = 1..Len(answers) /\ Len(answers) \in Nat
  BY <1>1
<1>4. DOMAIN answers \subseteq 1..Len(mail)
  BY <1>2, <1>3
<1> QED
  BY <1>2, <1>4 DEF Answered

LEMMA DeliveryTypesKept ==
  ASSUME DeliveryInv, DeliveryTypes, [Next]_vars
  PROVE  DeliveryTypes'
<1> DEFINE Rest == /\ Len(answers) <= Len(mail) /\ taken \subseteq To
                   /\ outcome.kind # "sent" => outcome.accepted = {}
<1>0. Rest /\ (fed => at \in Session)
  BY DEF DeliveryTypes
\* What has come of a reply is forgotten with the session.
<1>a. fed' => at' \in Session
  <2>1. CASE /\ UNCHANGED <<at, fed>>
    BY <1>0, <2>1
  <2>2. CASE ~fed' \/ at' \in Session
    BY <2>2
  <2>3. CASE at \notin Session /\ fed' = fed
    BY <1>0, <2>3
  <2>4. CASE Send \/ Said \/ System \/ Popen \/ Finished \/ TimesOut \/ Reaped \/ Waited \/ Interrupted
    BY <2>3, <2>4 DEF Send, Deliver, Said, Returns, System, Popen, Finished, TimesOut, Reaped, Waited,
         Interrupted, Session
  <2>5. CASE Trickles \/ ReadsPart \/ Broken
    BY <2>2, <2>5 DEF Trickles, ReadsPart, Broken
  <2>6. CASE Connect \/ StartTls \/ MailFrom \/ Rcpt \/ Data \/ Quit
    BY <2>2, <2>6 DEF Connect, StartTls, MailFrom, Rcpt, Data, Quit, Hears
  <2>7. CASE \/ UNCHANGED vars \/ Says \/ End \/ Begin
             \/ LogLooks /\ LogWorld /\ UNCHANGED mail_vars
             \/ at = "idle" /\ Attached /\ UNCHANGED mail_vars
    BY <2>1, <2>7 DEF vars, mail_vars, Says, End, Begin
  <2> QED
    BY <2>4, <2>5, <2>6, <2>7 DEF Next, Proceeds
<1> SUFFICES Rest'
  BY <1>a DEF DeliveryTypes
<1>1. CASE UNCHANGED <<mail, answers, taken>> /\ (outcome' = outcome \/ outcome' \in {Pending, Raised})
  BY <1>0, <1>1 DEF To, Pending, Raised
<1>2. CASE UNCHANGED <<mail, answers, taken>> /\ \E why : outcome' = Failed(why)
  BY <1>0, <1>2 DEF To, Failed
\* The log's steps, and those of a delivery that only go on or give up.
<1>3. CASE \/ UNCHANGED vars \/ Says \/ End \/ Begin \/ Popen \/ Reaped \/ Waited
           \/ Trickles \/ ReadsPart
           \/ LogLooks /\ LogWorld /\ UNCHANGED mail_vars
           \/ at = "idle" /\ Attached /\ UNCHANGED mail_vars
  BY <1>1, <1>2, <1>3 DEF vars, mail_vars, Says, End, Begin, Popen, Reaped, Waited, Ends, Trickles,
       ReadsPart
<1>4. CASE Connect \/ StartTls \/ MailFrom \/ Quit
  BY <1>1, <1>2, <1>4 DEF Connect, StartTls, MailFrom, Quit, Ends, Breaks
<1>5. CASE Send
  <2>1. /\ answers' = <<>> /\ taken' = {} /\ mail' \in Mails /\ outcome' = outcome
    BY <1>5 DEF Send, Deliver, DeliveryInv, AtRest
  <2>2. Len(mail') \in Nat
    BY <2>1, MailsAssumption
  <2> QED
    BY <2>1, <2>2, <1>0
<1>6. CASE Said
  BY <1>0, <1>6 DEF Said, Returns, Pending
<1>7. CASE System
  <2>1. /\ UNCHANGED <<mail, answers, outcome>> /\ taken' \in {taken, To}
    BY <1>7 DEF System, Queues, Forks, KinMoves, Exits, KinEnds
  <2> QED
    BY <1>0, <2>1 DEF To
<1>8. CASE TimesOut \/ Interrupted
  BY <1>1, <1>8 DEF TimesOut, Interrupted
<1>9. CASE Finished
  <2>1. /\ UNCHANGED <<mail, answers, taken>>
        /\ outcome' = Sent(To, {}) \/ outcome' = Failed("exit")
    BY <1>9 DEF Finished, Ends
  <2> QED
    BY <1>0, <2>1 DEF To, Sent, Failed
<1>10. CASE Rcpt
  <2>1. /\ UNCHANGED <<mail, taken>>
        /\ outcome' = outcome \/ \E why : outcome' = Failed(why)
    BY <1>10 DEF Rcpt, Breaks
  <2>2. Len(answers') <= Len(mail)
    <3>1. /\ answers \in Seq({"yes", "no", "bye"}) /\ Len(answers) < Len(mail) /\ mail \in Mails
      BY <1>10 DEF Rcpt, Hears, DeliveryInv, AnswersOK, MailKnown
    <3>2. Len(mail) \in Nat /\ Len(answers) \in Nat
      BY <3>1, MailHasRecipients
    <3>3. answers' = answers \/ \E answer : answers' = Append(answers, answer)
      BY <1>10 DEF Rcpt
    <3>4. Len(answers') = Len(answers) \/ Len(answers') = Len(answers) + 1
      BY <3>1, <3>3
    <3> QED
      BY <3>1, <3>2, <3>4
  <2> QED
    BY <1>0, <2>1, <2>2 DEF To, Failed
<1>11. CASE Data
  <2>1. Answered("yes") \subseteq To
    BY <1>0, <1>11, AnsweredIsTo DEF Data, Hears
  <2>2. /\ UNCHANGED <<mail, answers>> /\ taken' \in {taken, Answered("yes")}
        /\ outcome' = Accepted \/ \E why : outcome' = Failed(why)
    BY <1>11 DEF Data, Breaks
  <2>3. outcome'.kind # "sent" => outcome'.accepted = {}
    <3>1. Accepted = Sent(Answered("yes"), Answered("no")) \/ Accepted = Failed("all refused")
      BY DEF Accepted
    <3>2. Sent(Answered("yes"), Answered("no")).kind = "sent"
      BY DEF Sent
    <3>3. \A why : Failed(why).accepted = {}
      BY DEF Failed
    <3> QED
      BY <2>2, <3>1, <3>2, <3>3
  <2> QED
    BY <1>0, <2>1, <2>2, <2>3 DEF To
<1>12. CASE Broken
  <2>1. at \in Session => Answered("yes") \subseteq To
    BY <1>0, AnsweredIsTo DEF Session
  <2>2. /\ UNCHANGED <<mail, answers>> /\ taken' \in {taken, Answered("yes")}
        /\ outcome' = Raised /\ at \in Session
    BY <1>12 DEF Broken, Ends
  <2> QED
    BY <1>0, <2>1, <2>2 DEF To, Raised
<1> QED
  BY <1>3, <1>4, <1>5, <1>6, <1>7, <1>8, <1>9, <1>10, <1>11, <1>12 DEF Next, Proceeds

\* Every variable of the log and of the delivery stays in its set, and no
\* recipient is in an outcome or has the mail who is not the mail's.
THEOREM SendingTyped == FairSpec => []TypeOK
<1>1. Init => DeliveryTypes
  BY DEF Init, MailInit, DeliveryTypes, Pending, To
<1>2. FairSpec => []DeliveryTypes
  BY <1>1, DeliveryTypesKept, DeliveryInvariant, PTL DEF FairSpec
<1>3. LogInv /\ DeliveryInv /\ DeliveryTypes => TypeOK
  <2> SUFFICES ASSUME LogInv, DeliveryInv, DeliveryTypes PROVE TypeOK
    OBVIOUS
  <2>1. /\ phase \in Opening \union {"out", "wire", "attached"}
        /\ socks \in [Range(SYSLOG_SOCKETS) -> SocketKinds] /\ node \in Nodes /\ dest \in Dests
    BY DEF LogInv, LogTypes
  <2>2. dest.kind \in {"none", "syslog", "file", "udp"} /\ (dest.forward => dest.dead)
    BY <2>1 DEF Dests, LogInv, DestOK
  <2>3. outcome.accepted \subseteq To
    <3>1. outcome.kind = "sent" => outcome.accepted \union outcome.refused = To
      BY DEF DeliveryInv, OutcomeIsTheServers
    <3> QED
      BY <3>1 DEF DeliveryTypes
  <2>4. at \in Session \union {"idle", "popen", "communicate", "reap", "wait", "resume", "log"}
    BY DEF DeliveryInv, Ats, Before, Child, Session
  <2>5. kin.where \in {"none", "in", "quiet", "left", "gone"}
    BY DEF DeliveryInv, KilledOK, Kins
  <2> QED
    BY <2>1, <2>2, <2>3, <2>4, <2>5 DEF TypeOK, DeliveryTypes, Opening
<1> QED
  BY <1>2, <1>3, LogInvariant, DeliveryInvariant, PTL
=============================================================================
