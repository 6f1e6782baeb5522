------------------------------ MODULE Delivery ------------------------------
(***************************************************************************)
(* One mail handed to the configured transport (src/logalert/transport.py, *)
(* deliver): a sendmail child in its own process group, or one SMTP        *)
(* session, reply by reply.  The mail server, smtplib's session and the    *)
(* child are modelled from how transport.py uses them.                     *)
(***************************************************************************)
EXTENDS Integers, Sequences, FiniteSets, SequencesExt

CONSTANTS
  Mails,       \* the mails: their recipients, in order, each once
  Transports,  \* of "sendmail", "smtp", "starttls"
  Foreign,     \* whether a process may be another user's: not ours to signal
  MaxMails     \* bound: mails of one call

\* What the loader makes of "to": there is one, and none is listed twice.
ASSUME MailsAssumption ==
  \A m \in Mails : /\ m \in Seq(Range(m)) /\ m # <<>>
                   /\ \A i, j \in DOMAIN m : m[i] = m[j] => i = j

ASSUME ForeignAssumption == Foreign \subseteq BOOLEAN

VARIABLES
  via,      \* the transport configured
  mails,    \* mails handed to deliver in this call
  mail,     \* the recipients of the mail being sent
  at,       \* where the delivery is
  answers,  \* the server's answers at RCPT, in the order of the recipients
  taken,    \* history: the recipients the mail system has taken the mail for
  child,    \* the sendmail process
  kin,      \* a process it started
  fed,      \* a part of the server's reply has come since the last wait for it began
  outcome,  \* what via_sendmail or via_smtp returned or raised
  to_log    \* the records deliver and the run loop still have to log

mail_vars == <<via, mails, mail, at, answers, taken, child, kin, fed, outcome, to_log>>

\* child: its exit code once it has ended; foreign: it changed its uids.
\* kin: "in" the child's process group with the pipes open, "quiet" in it
\* with the pipes closed, or "left" with the pipes open; late: started after
\* the kill.
NoChild == [runs |-> FALSE, code |-> 0, foreign |-> FALSE]
NoKin == [where |-> "none", foreign |-> FALSE, late |-> FALSE]
Pending == [kind |-> "none", why |-> "none", accepted |-> {}, refused |-> {}]
Sent(accepted, refused) ==
  [kind |-> "sent", why |-> "none", accepted |-> accepted, refused |-> refused]
Failed(why) == [kind |-> "failed", why |-> why, accepted |-> {}, refused |-> {}]
Raised == [kind |-> "raised", why |-> "none", accepted |-> {}, refused |-> {}]

To == Range(mail)
Answered(answer) == {mail[i] : i \in {j \in DOMAIN answers : answers[j] = answer}}

MailInit ==
  /\ via \in Transports
  /\ mails = 0 /\ mail = <<>> /\ at = "idle"
  /\ answers = <<>> /\ taken = {} /\ child = NoChild /\ kin = NoKin /\ fed = FALSE
  /\ outcome = Pending /\ to_log = <<>>

\* deliver begins.
Deliver ==
  /\ at = "idle" /\ mails < MaxMails
  /\ \E m \in Mails : mail' = m
  /\ mails' = mails + 1
  /\ at' = IF via = "sendmail" THEN "popen" ELSE "connect"
  /\ UNCHANGED <<via, answers, taken, child, kin, outcome, to_log, fed>>

\* What is logged of an outcome: the delivery and its refused recipients; by
\* the run loop, the failure and the failed item; by main, an interrupt.
RecordsOf(o) ==
  CASE o.kind = "sent" -> <<"sent">> \o [i \in 1..Cardinality(o.refused) |-> "refused"]
    [] o.kind = "failed" -> <<"not delivered", "failed item">>
    [] OTHER -> <<"terminated">>

Ends(o) ==
  /\ outcome' = o
  /\ to_log' = RecordsOf(o)
  /\ at' = "log"

(***************************************************************************)
(* The sendmail child.                                                     *)
(***************************************************************************)
Popen ==
  /\ at = "popen"
  /\ \/ /\ \E foreign \in Foreign : child' = [runs |-> TRUE, code |-> 0, foreign |-> foreign]
        /\ at' = "communicate"
        /\ UNCHANGED <<outcome, to_log>>
     \/ Ends(Failed("exec")) /\ UNCHANGED child
  /\ UNCHANGED <<via, mails, mail, answers, taken, kin, fed>>

Holds == kin.where \in {"in", "left"}  \* a pipe of the child's, which is read to its end
InGroup == kin.where \in {"in", "quiet"}

\* The mail system's side: the message is queued once it is read whole, by
\* the child or by what it started; exit 0 is given for a queued message
\* only, another code for none (nobody but this run kills the child).
Queues ==
  /\ child.runs /\ taken = {}
  /\ taken' = To
  /\ UNCHANGED <<child, kin>>
Forks ==
  /\ child.runs /\ kin.where = "none"
  /\ \E foreign \in Foreign :
       kin' = [where |-> "in", foreign |-> foreign, late |-> at # "communicate"]
  /\ UNCHANGED <<child, taken>>
KinMoves ==
  /\ \E where \in {"quiet", "left", "gone"} :
       /\ kin.where = "in" \/ (kin.where = "quiet" /\ where = "gone")
       /\ kin' = [kin EXCEPT !.where = where]
  /\ UNCHANGED <<child, taken>>
Exits ==
  /\ child.runs
  /\ \E code \in (IF taken = {} THEN {1} ELSE {0}) :
       child' = [child EXCEPT !.runs = FALSE, !.code = code]
  /\ UNCHANGED <<kin, taken>>
\* What escaped, or is another user's, ends when it likes.
KinEnds ==
  /\ kin.where = "left" /\ kin' = [kin EXCEPT !.where = "gone"]
  /\ UNCHANGED <<child, taken>>

System ==
  /\ at \in {"communicate", "reap", "wait", "resume"}
  /\ Queues \/ Forks \/ KinMoves \/ Exits \/ KinEnds
  /\ UNCHANGED <<via, mails, mail, at, answers, outcome, to_log, fed>>

\* communicate returns: the pipes are at their end and the child is reaped.
\* Exit 0 is accepted for queueing; its stderr, if any, is logged as well.
Finished ==
  /\ at = "communicate" /\ ~child.runs /\ ~Holds
  /\ IF child.code = 0
     THEN \E warned \in BOOLEAN :
            /\ outcome' = Sent(To, {})
            /\ to_log' = (IF warned THEN <<"warned">> ELSE <<>>) \o <<"sent">>
            /\ at' = "log"
     ELSE Ends(Failed("exit"))
  /\ UNCHANGED <<via, mails, mail, answers, taken, child, kin, fed>>

\* Mutant: the child alone is killed (before issue #33).
Killed_Alone ==
  /\ child' = IF child.runs /\ ~child.foreign
              THEN [child EXCEPT !.runs = FALSE, !.code = 9] ELSE child
  /\ UNCHANGED kin

\* _kill: whoever of the child's process group is ours to signal.  That some
\* of it is not is an error of killpg only where none of it is, and passed
\* over.
Killed ==
  /\ child' = IF child.runs /\ ~child.foreign
              THEN [child EXCEPT !.runs = FALSE, !.code = 9] ELSE child
  /\ kin' = IF InGroup /\ ~kin.foreign THEN [kin EXCEPT !.where = "gone"] ELSE kin

TimesOut ==
  /\ at = "communicate"
  /\ Killed
  /\ at' = "reap"
  /\ UNCHANGED <<via, mails, mail, answers, taken, outcome, to_log, fed>>

\* The second communicate has no timeout: to the end of the pipes.
Reaped ==
  /\ at = "reap" /\ ~child.runs /\ ~Holds
  /\ Ends(Failed("not finished"))
  /\ UNCHANGED <<via, mails, mail, answers, taken, child, kin, fed>>

\* Ctrl-C, SIGTERM: the group is killed and Popen's __exit__ waits for the
\* child, on Ctrl-C (KeyboardInterrupt) for a moment only.
Interrupted ==
  /\ at = "communicate"
  /\ Killed
  /\ at' \in {"wait", "resume"}
  /\ UNCHANGED <<via, mails, mail, answers, taken, outcome, to_log, fed>>

Waited ==
  /\ at = "resume" \/ (at = "wait" /\ ~child.runs)
  /\ Ends(Raised)
  /\ UNCHANGED <<via, mails, mail, answers, taken, child, kin, fed>>

(***************************************************************************)
(* The SMTP session.  Each exchange brings a reply, or the connection is   *)
(* lost, or nothing comes within the timeout, which is one wait's: a reply *)
(* that comes in parts (a byte, a line that says that another follows) has *)
(* as many waits, and smtplib's getreply reads on for as long as they come.*)
(***************************************************************************)
\* via_smtp's except clauses: whatever it was, a farewell first.
Breaks(why) ==
  /\ outcome' = Failed(why)
  /\ at' = "quit"

Silences == {"lost", "timeout"}
Session == {"connect", "starttls", "mail", "rcpt", "data", "quit"}

\* The server's side: a part of a reply.
Trickles ==
  /\ at \in Session /\ ~fed
  /\ fed' = TRUE
  /\ UNCHANGED <<via, mails, mail, at, answers, taken, child, kin, outcome, to_log>>

\* It is read, and the next wait begins.
ReadsPart ==
  /\ at \in Session /\ fed
  /\ fed' = FALSE
  /\ UNCHANGED <<via, mails, mail, at, answers, taken, child, kin, outcome, to_log>>

\* What has come is read: the reply ends, or fails to.
Hears(step) == at = step /\ ~fed /\ UNCHANGED fed

Connect ==
  /\ Hears("connect")
  /\ \/ at' = (IF via = "starttls" THEN "starttls" ELSE "mail") /\ UNCHANGED <<outcome, to_log>>
     \* no session to say farewell to
     \/ \E why \in Silences \union {"response"} : Ends(Failed(why))
  /\ UNCHANGED <<via, mails, mail, answers, taken, child, kin>>

StartTls ==
  /\ Hears("starttls")
  /\ \/ at' = "mail" /\ UNCHANGED outcome
     \/ \E why \in Silences \union {"response"} : Breaks(why)
  /\ UNCHANGED <<via, mails, mail, answers, taken, child, kin, to_log>>

MailFrom ==
  /\ Hears("mail")
  /\ \/ at' = "rcpt" /\ UNCHANGED outcome
     \/ \E why \in Silences \union {"response"} : Breaks(why)
  /\ UNCHANGED <<via, mails, mail, answers, taken, child, kin, to_log>>

\* A 421 ends the session there; all refused is no mail.
Rcpt ==
  /\ Hears("rcpt")
  /\ \/ /\ \E answer \in {"yes", "no", "bye"} :
             /\ answers' = Append(answers, answer)
             /\ IF answer = "bye"
                THEN Breaks(IF Answered("no") \union {mail[Len(answers) + 1]} # To
                            THEN "ended" ELSE "all refused")
                ELSE IF Len(answers') < Len(mail) THEN UNCHANGED <<at, outcome>>
                ELSE IF \A i \in DOMAIN answers' : answers'[i] = "no" THEN Breaks("all refused")
                ELSE at' = "data" /\ UNCHANGED outcome
     \/ \E why \in Silences : Breaks(why) /\ UNCHANGED answers
  /\ UNCHANGED <<via, mails, mail, taken, child, kin, to_log>>

\* Mutant: the recipients the server refused are not left out.
Accepted_All == Sent(To, {})

\* One accepted recipient is an accepted mail.
Accepted ==
  IF Answered("yes") = {} THEN Failed("all refused")
  ELSE Sent(Answered("yes"), Answered("no"))

\* DATA, the message and the reply to it: the server may have taken it
\* though no reply arrives.
Data ==
  /\ Hears("data")
  /\ \/ taken' = Answered("yes") /\ at' = "quit" /\ outcome' = Accepted
     \/ taken' = taken /\ Breaks("response")
     \/ \E why \in Silences : taken' \in {taken, Answered("yes")} /\ Breaks(why)
  /\ UNCHANGED <<via, mails, mail, answers, child, kin, to_log>>

\* Mutant: a QUIT that is not answered with 221 is a failure.
Quit_Counts ==
  /\ Hears("quit")
  /\ \/ Ends(outcome)
     \/ Ends(Failed("quit"))
  /\ UNCHANGED <<via, mails, mail, answers, taken, child, kin>>

\* _farewell: whatever QUIT brings, the outcome stands.
Quit ==
  /\ Hears("quit")
  /\ \E odd \in BOOLEAN : to_log' = (IF odd THEN <<"quit">> ELSE <<>>) \o RecordsOf(outcome)
  /\ at' = "log"
  /\ UNCHANGED <<via, mails, mail, answers, taken, child, kin, outcome>>

\* Mutant: the answers of one session are still there in the next.
Returns_KeepsAnswers ==
  /\ at = "log" /\ to_log = <<>>
  /\ at' = "idle"
  /\ mail' = <<>> /\ taken' = {} /\ child' = NoChild /\ kin' = NoKin
  /\ outcome' = IF outcome.kind = "raised" THEN outcome ELSE Pending
  /\ UNCHANGED <<via, mails, answers, to_log, fed>>

\* Everything is said: deliver's locals are gone, and an interrupt is left.
Returns ==
  /\ at = "log" /\ to_log = <<>>
  /\ at' = "idle"
  /\ mail' = <<>> /\ answers' = <<>> /\ taken' = {} /\ child' = NoChild /\ kin' = NoKin
  /\ outcome' = IF outcome.kind = "raised" THEN outcome ELSE Pending
  /\ UNCHANGED <<via, mails, to_log, fed>>

\* An interrupt in the session is no error of the server's: it goes on up.
Broken ==
  /\ at \in Session /\ fed' = FALSE
  /\ taken' \in (IF at = "data" THEN {taken, Answered("yes")} ELSE {taken})
  /\ Ends(Raised)
  /\ UNCHANGED <<via, mails, mail, answers, child, kin>>

\* The program's steps that no interrupt is needed for.
Proceeds ==
  \/ Popen \/ Finished \/ TimesOut \/ Reaped \/ Waited
  \/ ReadsPart \/ Connect \/ StartTls \/ MailFrom \/ Rcpt \/ Data \/ Quit
=============================================================================
