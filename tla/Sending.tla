------------------------------ MODULE Sending -------------------------------
(***************************************************************************)
(* A call of main(): the activity log is attached, mails are delivered,    *)
(* what is said of them is logged, and an interrupt ends the call through  *)
(* the same teardown.  ActivityLog and Delivery, composed.                 *)
(***************************************************************************)
EXTENDS ActivityLog, Delivery

CONSTANT Instances  \* the logs and the transports that go together

vars == <<log_vars, mail_vars>>

Init == LogInit /\ MailInit /\ <<place, via>> \in Instances

LevelOf(what) ==
  CASE what = "quit" -> DEBUG
    [] what = "sent" -> INFO
    [] OTHER -> WARNING

Begin == at = "idle" /\ AttachBegins /\ outcome' = Pending
           /\ UNCHANGED <<via, mails, mail, at, answers, taken, child, kin, fed, to_log>>

\* A mail while no interrupt is on its way up.
Send == phase = "attached" /\ outcome.kind # "raised" /\ Deliver /\ UNCHANGED log_vars

Says ==
  /\ at = "log" /\ to_log # <<>>
  /\ \/ /\ LevelOf(to_log[1]) >= StderrLevel  \* the logger's own level
        /\ Log(<<Len(said) + 1, LevelOf(to_log[1])>>)
     \/ /\ LevelOf(to_log[1]) < StderrLevel
        /\ UNCHANGED <<dest, lines>>
  /\ to_log' = Tail(to_log)
  /\ UNCHANGED <<log_world, calls, phase, rejected, handlers, via, mails, mail, at,
                 answers, taken, child, kin, fed, outcome>>

Said == Returns /\ UNCHANGED log_vars

End == at = "idle" /\ Detach /\ UNCHANGED mail_vars

\* The world under the log moves when the log is what is used next.
LogLooks == phase \notin {"out", "attached"} \/ to_log # <<>> \/ (at = "idle" /\ mails = MaxMails)

Next ==
  \/ LogLooks /\ LogWorld /\ UNCHANGED mail_vars
  \/ Begin
  \/ at = "idle" /\ Attached /\ UNCHANGED mail_vars
  \/ Send \/ Says \/ Said \/ End
  \/ (System \/ Trickles \/ Proceeds \/ Interrupted \/ Broken) /\ UNCHANGED log_vars

\* Each wait of the program's is bounded by mail_timeout or by the
\* process it waits for; of the mail system nothing is assumed.
FairSpec == Init /\ [][Next]_vars /\ WF_vars(Proceeds /\ UNCHANGED log_vars)
              /\ WF_vars(Says \/ Said)

(***************************************************************************)
(* Properties.                                                             *)
(***************************************************************************)
\* The types of the variables.
TypeOK ==
  /\ phase \in {"out", "probe", "construct", "lstat", "open", "udp", "wire", "fallback",
                "attached"}
  /\ socks \in [Range(SYSLOG_SOCKETS) -> SocketKinds] /\ node \in Nodes
  /\ dest.kind \in {"none", "syslog", "file", "udp"}
  /\ dest.forward => dest.dead
  /\ at \in Session \union {"idle", "popen", "communicate", "reap", "wait", "resume", "log"}
  /\ at \in Session => Len(answers) <= Len(mail)
  /\ taken \subseteq To /\ outcome.accepted \subseteq To
  /\ kin.where \in {"none", "in", "quiet", "left", "gone"}
  /\ fed => at \in Session

\* Wherever the destination fails, every record of the call is in one place,
\* in the order it was logged: the first ones at the destination, the rest
\* on stderr, and under --debug all of them on stderr as well.  The record
\* that failed may reach a file a second time, when it is closed (_Loud.emit,
\* handleError, attach).
EveryRecordOnce ==
  LET late   == phase = "out" /\ kept # <<>>
      firsts == {kept} \union (IF late THEN {Front(kept)} ELSE {})
  IN IF place.debug
     THEN printed = said /\ IsPrefix(kept, due)
     ELSE \E first \in firsts :
            /\ first \o printed = due
            /\ first # kept => printed # <<>> /\ Last(kept) = printed[1]

\* A destination that cannot be used is named once, before anything else is
\* on stderr; one that works, and stderr itself, never ("ALWAYS loud").
LoudOnce ==
  phase = "attached" =>
    LET asked == place.spec # "stderr" /\ ~place.to_stderr
        works == dest.kind # "none" /\ ~dest.dead
    IN /\ Len(noticed) = IF asked /\ ~works THEN 1 ELSE 0
       /\ asked /\ ~place.debug /\ printed # <<>> => noticed # <<>> /\ noticed[1] = 0

\* A call has the handlers its command line asks for and no other call's:
\* "a process that calls main() twice accumulates nothing".
HandlersAreTheCalls ==
  handlers = IF phase # "attached" THEN <<>>
             ELSE (IF dest.kind # "none" THEN <<"destination">> ELSE <<>>)
                    \o (IF dest.kind = "none" \/ place.debug THEN <<"stderr">> ELSE <<>>)

\* Whatever is put at the path between the look and the open: records are
\* appended to a regular file under its own name, or not at all.
AppendsToAFile == dest.kind = "file" => dest.via \in {"none", "file"}

\* A delivery that returns is the mail system's own word: it has taken the
\* mail for exactly the recipients named as accepted, at least one, and the
\* others are named as refused (via_sendmail, via_smtp).
OutcomeIsTheServers ==
  outcome.kind = "sent" =>
    /\ taken = outcome.accepted /\ taken # {}
    /\ outcome.accepted \union outcome.refused = To
    /\ outcome.accepted \intersect outcome.refused = {}

\* A mail reported as not accepted has been taken only where the answer
\* could not be had: the session lost or silent, the child not finished.
\* "a QUIT answered with anything but 221 ... can never un-accept".
FailedIsUntaken ==
  outcome.kind = "failed" /\ taken # {} => outcome.why \in {"lost", "timeout", "not finished"}

\* After a timeout or an interrupt no process of the child's group lives on
\* that is ours to signal, whoever else's the others are (_kill, issue #33):
\* neither the child nor what it had started.
NoneOutlives ==
  (via = "sendmail" /\ at = "log" /\ (outcome.kind = "raised" \/ outcome.why = "not finished"))
  => /\ child.runs => child.foreign
     /\ InGroup => kin.foreign \/ (kin.late /\ child.foreign)

\* Someone the run may not kill keeps it waiting: the child, or a process
\* that has left its group, is another user's or was started since the kill.
HeldUp == \/ at = "reap" /\ child.runs /\ child.foreign
          \/ at = "reap" /\ Holds /\ (kin.where = "left" \/ kin.foreign \/ kin.late)
          \/ at = "wait" /\ child.runs /\ child.foreign

\* A delivery ends, whatever the mail system does or does not do, but where
\* someone the run may not kill has one of its pipes or is its child, and
\* where a server goes on for ever with a reply that it does not end: the
\* timeout is that of one socket operation.
DeliveryEnds == (at # "idle" ~> (at = "idle" \/ HeldUp)) \/ []<>fed

\* "mail_timeout: Seconds to wait for the mail system. For sendmail the whole
\* child" (docs/USAGE.md): a child past its time does not keep the run.
MailTimeoutBounds == at \in {"communicate", "reap"} ~> at \notin {"communicate", "reap"}
=============================================================================
