---------------------------- MODULE SendingProofs ---------------------------
(***************************************************************************)
(* What holds of Sending for every set of recipients, every list of syslog *)
(* sockets and every number of mails and calls, checked by TLAPS.          *)
(***************************************************************************)
EXTENDS Sending, TLAPS

(***************************************************************************)
(* A delivery, step by step: what the outcome may say is decided by the    *)
(* answers and by what the mail system has taken, so the invariant follows *)
(* both from the first exchange to the report.                             *)
(***************************************************************************)
Before == {"connect", "starttls", "mail"}
Child == {"communicate", "reap", "wait", "resume"}
Ats == Before \union {"rcpt", "data", "quit"} \union Child \union {"idle", "popen", "log"}

\* What a delivery that is not under way has left behind.
AtRest ==
  at = "idle" => /\ answers = <<>> /\ taken = {}
                 /\ outcome = Pending \/ outcome.kind = "raised"

MailKnown == at # "idle" => mail \in Mails

\* Nothing is decided before the farewell or the report.
Undecided == at \in Before \union {"rcpt", "data", "popen"} \union Child => outcome = Pending

\* Every recipient has at most one answer, and the message goes out once
\* each has one and one of them is a yes.
AnswersOK ==
  /\ answers \in Seq({"yes", "no", "bye"})
  /\ at \in Before \union {"popen"} \union Child => answers = <<>>
  /\ at = "rcpt" => /\ Len(answers) < Len(mail)
                    /\ \A i \in DOMAIN answers : answers[i] # "bye"
  /\ at = "data" => /\ Len(answers) = Len(mail)
                    /\ \A i \in DOMAIN answers : answers[i] # "bye"
                    /\ \E i \in DOMAIN answers : answers[i] = "yes"

\* The message is taken for nobody before it is sent, by a child for all of
\* the recipients or for none, and its exit code says which.
TakenOK ==
  /\ at \in Before \union {"rcpt", "data", "popen"} => taken = {}
  /\ at \in Child => taken \in {{}, To}
  /\ at = "communicate" /\ ~child.runs => (child.code = 0 <=> taken = To)

\* Whom a kill of the group has left: those it could not signal, and what a
\* child it could not signal has started since.
Spared ==
  /\ child.runs => child.foreign
  /\ InGroup => kin.foreign \/ (kin.late /\ child.foreign)
Children == [runs : BOOLEAN, code : Nat, foreign : BOOLEAN]
Kins == [where : {"none", "in", "quiet", "left", "gone"}, foreign : BOOLEAN, late : BOOLEAN]
KilledOK ==
  /\ at \in Session => via # "sendmail"
  /\ child \in Children /\ kin \in Kins
  /\ at \in {"reap", "wait", "resume"} => Spared

DeliveryInv ==
  /\ at \in Ats /\ AtRest /\ MailKnown /\ Undecided /\ AnswersOK /\ TakenOK /\ KilledOK
  /\ OutcomeIsTheServers /\ FailedIsUntaken /\ NoneOutlives

\* A mail has recipients, and each of them one place in it.
LEMMA MailHasRecipients ==
  ASSUME mail \in Mails
  PROVE  /\ mail \in Seq(To) /\ Len(mail) \in Nat \ {0} /\ To # {}
         /\ \A i, j \in 1..Len(mail) : mail[i] = mail[j] => i = j
         /\ To = {mail[i] : i \in 1..Len(mail)}
<1>1. /\ mail \in Seq(To) /\ mail # <<>>
      /\ \A i, j \in DOMAIN mail : mail[i] = mail[j] => i = j
  BY MailsAssumption DEF To
<1>2. Len(mail) \in Nat \ {0} /\ DOMAIN mail = 1..Len(mail)
  BY <1>1
<1>3. To = {mail[i] : i \in DOMAIN mail}
  BY DEF To, Range
<1>4. mail[1] \in To
  BY <1>2, <1>3
<1> QED
  BY <1>1, <1>2, <1>3, <1>4

\* Once every recipient has its answer, the yeses and the noes share them out.
LEMMA AnswersShareOut ==
  ASSUME mail \in Mails, answers \in Seq({"yes", "no", "bye"}), Len(answers) = Len(mail),
         \A i \in DOMAIN answers : answers[i] # "bye"
  PROVE  /\ Answered("yes") \union Answered("no") = To
         /\ Answered("yes") \intersect Answered("no") = {}
<1>1. DOMAIN answers = 1..Len(mail) /\ \A i \in 1..Len(mail) : answers[i] \in {"yes", "no"}
  OBVIOUS
<1>2. \A i, j \in 1..Len(mail) : mail[i] = mail[j] => i = j
  BY MailHasRecipients
<1>3. To = {mail[i] : i \in 1..Len(mail)}
  BY MailHasRecipients
<1>4. \A answer : Answered(answer) = {mail[i] : i \in {j \in 1..Len(mail) : answers[j] = answer}}
  BY <1>1 DEF Answered
<1>5. ASSUME NEW r \in To PROVE r \in Answered("yes") \union Answered("no")
  <2>1. PICK i \in 1..Len(mail) : r = mail[i]
    BY <1>3
  <2>2. answers[i] \in {"yes", "no"}
    BY <1>1
  <2> QED
    BY <1>4, <2>1, <2>2
<1>6. ASSUME NEW answer PROVE Answered(answer) \subseteq To
  BY <1>3, <1>4
<1>7. ASSUME NEW r \in Answered("yes"), r \in Answered("no") PROVE FALSE
  <2>1. PICK i \in 1..Len(mail) : answers[i] = "yes" /\ r = mail[i]
    BY <1>4
  <2>2. PICK j \in 1..Len(mail) : answers[j] = "no" /\ r = mail[j]
    BY <1>4, <1>7
  <2> QED
    BY <1>2, <2>1, <2>2
<1> QED
  BY <1>5, <1>6, <1>7

\* The reply to the message decides the outcome by the answers.
LEMMA AcceptedIsSent ==
  ASSUME mail \in Mails, AnswersOK, at = "data"
  PROVE  /\ Accepted = Sent(Answered("yes"), Answered("no"))
         /\ Answered("yes") # {}
<1>1. PICK i \in DOMAIN answers : answers[i] = "yes"
  BY DEF AnswersOK
<1>2. mail[i] \in Answered("yes")
  BY <1>1 DEF Answered
<1> QED
  BY <1>2 DEF Accepted

(***************************************************************************)
(* The invariant.                                                          *)
(***************************************************************************)
LEMMA InitDelivery == Init => DeliveryInv
<1> SUFFICES ASSUME Init PROVE DeliveryInv
  OBVIOUS
<1> USE DEF Init, MailInit, NoChild, NoKin, Pending
<1>1. at \in Ats /\ AtRest /\ MailKnown /\ Undecided
  BY DEF Ats, AtRest, MailKnown, Undecided, Before, Child
<1>2. AnswersOK /\ TakenOK /\ KilledOK
  BY DEF AnswersOK, TakenOK, KilledOK, Before, Child, Session, Children, Kins
<1>3. OutcomeIsTheServers /\ FailedIsUntaken /\ NoneOutlives
  BY DEF OutcomeIsTheServers, FailedIsUntaken, NoneOutlives
<1> QED
  BY <1>1, <1>2, <1>3 DEF DeliveryInv

\* What the delivery's invariant speaks of.
delivery == <<via, mail, at, answers, taken, child, kin, outcome>>

LEMMA DeliveryStutters == DeliveryInv /\ UNCHANGED delivery => DeliveryInv'
  BY ZenonT(40) DEF DeliveryInv, delivery, AtRest, MailKnown, Undecided, AnswersOK, TakenOK, KilledOK, To,
         OutcomeIsTheServers, FailedIsUntaken, NoneOutlives, Spared, InGroup

\* A step that leaves the answers, the mail and the transport alone keeps the
\* conjuncts one by one; the lemmas below say of each step what it disturbs.
LEMMA SendKeeps == DeliveryInv /\ Send => DeliveryInv'
<1> SUFFICES ASSUME DeliveryInv, Send PROVE DeliveryInv'
  OBVIOUS
<1>1. /\ at = "idle" /\ outcome = Pending /\ answers = <<>> /\ taken = {}
      /\ at' \in {"popen", "connect"} /\ (at' = "connect" => via # "sendmail")
      /\ mail' \in Mails
      /\ UNCHANGED <<via, answers, taken, child, kin, outcome>>
  BY DEF Send, Deliver, DeliveryInv, AtRest
<1>2. at' \in Ats /\ AtRest' /\ MailKnown' /\ Undecided'
  BY <1>1 DEF Ats, AtRest, MailKnown, Undecided, Before, Child
<1>3. Len(mail') \in Nat \ {0}
  BY <1>1, MailsAssumption
<1>4. AnswersOK'
  BY <1>1, <1>3 DEF AnswersOK, Before, Child
<1>5. TakenOK' /\ KilledOK'
  BY <1>1 DEF DeliveryInv, TakenOK, KilledOK, Before, Child, Session
<1>6. OutcomeIsTheServers' /\ FailedIsUntaken' /\ NoneOutlives'
  BY <1>1 DEF OutcomeIsTheServers, FailedIsUntaken, NoneOutlives, Pending
<1> QED
  BY <1>1, <1>2, <1>4, <1>5, <1>6 DEF DeliveryInv

\* A step that ends a sendmail delivery, or an SMTP session before its farewell.
LEMMA PopenKeeps == DeliveryInv /\ Popen => DeliveryInv'
<1> SUFFICES ASSUME DeliveryInv, Popen PROVE DeliveryInv'
  OBVIOUS
<1>1. /\ at = "popen" /\ mail \in Mails /\ outcome = Pending /\ answers = <<>> /\ taken = {}
      /\ UNCHANGED <<via, mail, answers, taken, kin>>
  BY DEF Popen, DeliveryInv, MailKnown, Undecided, AnswersOK, TakenOK, Before, Child
<1>2. CASE at' = "communicate" /\ outcome' = outcome /\ child'.runs /\ child' \in Children
  <2>1. at' \in Ats /\ AtRest' /\ MailKnown' /\ Undecided' /\ AnswersOK'
    BY <1>1, <1>2 DEF DeliveryInv, Ats, AtRest, MailKnown, Undecided, AnswersOK, Before, Child
  <2>2. TakenOK' /\ KilledOK'
    BY <1>1, <1>2 DEF DeliveryInv, TakenOK, KilledOK, Before, Child, Session, To
  <2>3. OutcomeIsTheServers' /\ FailedIsUntaken' /\ NoneOutlives'
    BY <1>1, <1>2 DEF OutcomeIsTheServers, FailedIsUntaken, NoneOutlives, Pending
  <2> QED
    BY <2>1, <2>2, <2>3 DEF DeliveryInv
<1>3. CASE at' = "log" /\ outcome' = Failed("exec") /\ child' = child
  <2>1. at' \in Ats /\ AtRest' /\ MailKnown' /\ Undecided' /\ AnswersOK'
    BY <1>1, <1>3 DEF DeliveryInv, Ats, AtRest, MailKnown, Undecided, AnswersOK, Before, Child
  <2>2. TakenOK' /\ KilledOK'
    BY <1>1, <1>3 DEF DeliveryInv, TakenOK, KilledOK, Before, Child, Session, To
  <2>3. OutcomeIsTheServers' /\ FailedIsUntaken' /\ NoneOutlives'
    BY <1>1, <1>3 DEF OutcomeIsTheServers, FailedIsUntaken, NoneOutlives, Failed
  <2> QED
    BY <2>1, <2>2, <2>3 DEF DeliveryInv
<1>4. CASE \E foreign \in Foreign : /\ child' = [runs |-> TRUE, code |-> 0, foreign |-> foreign]
                                   /\ at' = "communicate" /\ outcome' = outcome
  <2>1. PICK foreign \in BOOLEAN : child' = [runs |-> TRUE, code |-> 0, foreign |-> foreign]
    BY <1>4, ForeignAssumption
  <2> QED
    BY <1>2, <1>4, <2>1 DEF Children
<1> QED
  BY <1>3, <1>4 DEF Popen, Ends

\* The mail system's own steps: a message is queued once, and an exit code
\* given by whether it was.
LEMMA SystemKeeps == DeliveryInv /\ System => DeliveryInv'
<1> SUFFICES ASSUME DeliveryInv, System PROVE DeliveryInv'
  OBVIOUS
<1>1. /\ at \in Child /\ mail \in Mails
      /\ UNCHANGED <<via, mail, at, answers, outcome>>
  BY DEF System, DeliveryInv, MailKnown, Child
<1>2. To' = To /\ To # {}
  BY <1>1, MailHasRecipients DEF To
<1>3. outcome = Pending
  BY <1>1 DEF DeliveryInv, Undecided
<1>4. at' \in Ats /\ AtRest' /\ MailKnown' /\ Undecided' /\ AnswersOK'
  BY <1>1 DEF DeliveryInv, Ats, AtRest, MailKnown, Undecided, AnswersOK, Before, Child
<1>5. TakenOK'
  <2>1. taken \in {{}, To} /\ taken' \in {{}, To}
    BY <1>1, <1>2 DEF System, Queues, Forks, KinMoves, Exits, KinEnds, DeliveryInv, TakenOK
  <2>2. at = "communicate" /\ ~child.runs => (child.code = 0 <=> taken = To)
    BY DEF DeliveryInv, TakenOK
  <2>3. child.runs /\ ~child'.runs => taken' = taken /\ child'.code = (IF taken = {} THEN 1 ELSE 0)
    BY DEF System, Queues, Forks, KinMoves, Exits, KinEnds, DeliveryInv, KilledOK, Children
  <2>4. ~child.runs => taken' = taken /\ child' = child
    BY DEF System, Queues, Forks, KinMoves, Exits, KinEnds
  <2>5. at = "communicate" /\ ~child'.runs => (child'.code = 0 <=> taken' = To)
    <3>1. CASE child.runs
      BY <1>2, <2>1, <2>3, <3>1
    <3>2. CASE ~child.runs
      BY <2>2, <2>4, <3>2
    <3> QED
      BY <3>1, <3>2
  <2> QED
    BY <1>1, <1>2, <2>1, <2>5 DEF TakenOK, Before, Child
<1>6. KilledOK'
  <2>1. child' \in Children /\ child'.foreign = child.foreign
    <3>1. child \in Children
      BY DEF DeliveryInv, KilledOK
    <3>2. CASE \E code \in {0, 1} : child' = [child EXCEPT !.runs = FALSE, !.code = code]
      <4>1. PICK code \in Nat : child' = [child EXCEPT !.runs = FALSE, !.code = code]
        BY <3>2
      <4> QED
        BY <3>1, <4>1 DEF Children
    <3>3. Exits \/ child' = child
      BY DEF System, Queues, Forks, KinMoves, KinEnds
    <3> QED
      BY <3>1, <3>2, <3>3 DEF Exits
  <2>2. kin' \in Kins
    <3>1. kin \in Kins
      BY DEF DeliveryInv, KilledOK
    <3>2. CASE Forks
      BY <3>2, ForeignAssumption DEF Forks, Kins
    <3>3. CASE KinMoves \/ KinEnds
      BY <3>1, <3>3 DEF KinMoves, KinEnds, Kins
    <3> QED
      BY <3>1, <3>2, <3>3 DEF System, Queues, Exits
  \* Nobody whom the kill has spared is more than it was: it may have started
  \* another, which is later than the kill.
  <2>3. at # "communicate" /\ Spared => Spared'
    <3> SUFFICES ASSUME at # "communicate", Spared PROVE Spared'
      OBVIOUS
    <3>1. child'.runs => child.runs
      BY DEF System, Queues, Forks, KinMoves, Exits, KinEnds
    <3>2. CASE Forks
      <4>1. child.runs /\ child.foreign /\ child' = child
        BY <3>2 DEF Forks, Spared
      <4>2. PICK foreign \in Foreign :
              kin' = [where |-> "in", foreign |-> foreign, late |-> at # "communicate"]
        BY <3>2 DEF Forks
      <4>3. kin'.late
        BY <4>2
      <4> QED
        BY <4>1, <4>3 DEF Spared
    <3>3. CASE KinMoves \/ KinEnds
      <4>1. kin \in Kins /\ child' = child
        BY <3>3 DEF DeliveryInv, KilledOK, KinMoves, KinEnds
      <4>2. InGroup' => InGroup /\ kin'.foreign = kin.foreign /\ kin'.late = kin.late
        BY <3>3, <4>1 DEF KinMoves, KinEnds, Kins, InGroup
      <4> QED
        BY <4>1, <4>2 DEF Spared
    <3>4. CASE kin' = kin
      BY <2>1, <3>1, <3>4 DEF Spared, InGroup
    <3> QED
      BY <3>2, <3>3, <3>4 DEF System, Queues, Exits
  <2> QED
    BY <1>1, <2>1, <2>2, <2>3 DEF DeliveryInv, KilledOK, Session, Child
<1>7. OutcomeIsTheServers' /\ FailedIsUntaken' /\ NoneOutlives'
  BY <1>1, <1>3 DEF OutcomeIsTheServers, FailedIsUntaken, NoneOutlives, Pending, Child
<1> QED
  BY <1>4, <1>5, <1>6, <1>7 DEF DeliveryInv

\* A delivery that is reported: what is left to show is what the report says.
LEMMA ReportKeeps ==
  ASSUME DeliveryInv, at # "idle", at' = "log", UNCHANGED <<via, mail>>,
         answers' \in Seq({"yes", "no", "bye"}),
         child' \in Children, kin' \in Kins,
         OutcomeIsTheServers', FailedIsUntaken', NoneOutlives'
  PROVE  DeliveryInv'
<1>1. at' \in Ats /\ AtRest' /\ MailKnown' /\ Undecided'
  BY DEF DeliveryInv, Ats, AtRest, MailKnown, Undecided, Before, Child
<1>2. AnswersOK' /\ TakenOK' /\ KilledOK'
  BY DEF AnswersOK, TakenOK, KilledOK, Before, Child, Session
<1> QED
  BY <1>1, <1>2 DEF DeliveryInv

LEMMA FinishedKeeps == DeliveryInv /\ Finished => DeliveryInv'
<1> SUFFICES ASSUME DeliveryInv, Finished PROVE DeliveryInv'
  OBVIOUS
<1>1. /\ at = "communicate" /\ at' = "log" /\ ~child.runs /\ mail \in Mails
      /\ UNCHANGED <<via, mail, answers, taken, child, kin>>
  BY DEF Finished, Ends, DeliveryInv, MailKnown
<1>2. To' = To /\ To # {}
  BY <1>1, MailHasRecipients DEF To
<1>3. /\ answers \in Seq({"yes", "no", "bye"})
      /\ child \in Children /\ kin \in Kins
      /\ taken \in {{}, To} /\ (child.code = 0 <=> taken = To)
  BY <1>1 DEF DeliveryInv, AnswersOK, KilledOK, TakenOK, Child
<1>4. outcome' = IF child.code = 0 THEN Sent(To, {}) ELSE Failed("exit")
  BY DEF Finished, Ends
<1>5. OutcomeIsTheServers' /\ FailedIsUntaken' /\ NoneOutlives'
  BY <1>1, <1>2, <1>3, <1>4 DEF OutcomeIsTheServers, FailedIsUntaken, NoneOutlives, Sent, Failed
<1> QED
  BY <1>1, <1>3, <1>5, ReportKeeps

\* Whoever of the group may be signalled is killed, and no one else is left.
LEMMA KilledAreGone ==
  ASSUME child \in Children, kin \in Kins, Killed
  PROVE  child' \in Children /\ kin' \in Kins /\ Spared'
<1>1. child' \in Children /\ (child'.runs => child'.foreign)
  BY DEF Killed, Children
<1>2. kin' \in Kins /\ (InGroup' => kin'.foreign)
  BY DEF Killed, Kins, InGroup
<1> QED
  BY <1>1, <1>2 DEF Spared

LEMMA KillKeeps == DeliveryInv /\ (TimesOut \/ Interrupted) => DeliveryInv'
<1> SUFFICES ASSUME DeliveryInv, TimesOut \/ Interrupted PROVE DeliveryInv'
  OBVIOUS
<1>1. /\ at = "communicate" /\ at' \in {"reap", "wait", "resume"} /\ Killed
      /\ UNCHANGED <<via, mail, answers, taken, outcome>>
  BY DEF TimesOut, Interrupted
<1>2. child' \in Children /\ kin' \in Kins /\ Spared'
  BY <1>1, KilledAreGone DEF DeliveryInv, KilledOK
<1>3. at' \in Ats /\ AtRest' /\ MailKnown' /\ Undecided' /\ AnswersOK'
  BY <1>1 DEF DeliveryInv, Ats, AtRest, MailKnown, Undecided, AnswersOK, Before, Child
<1>4. TakenOK' /\ KilledOK'
  BY <1>1, <1>2 DEF DeliveryInv, TakenOK, KilledOK, Before, Child, Session, To
<1>5. OutcomeIsTheServers' /\ FailedIsUntaken' /\ NoneOutlives'
  <2>1. outcome' = Pending
    BY <1>1 DEF DeliveryInv, Undecided, Child
  <2>2. at' # "log"
    BY <1>1
  <2> QED
    BY <2>1, <2>2 DEF Pending, OutcomeIsTheServers, FailedIsUntaken, NoneOutlives
<1> QED
  BY <1>3, <1>4, <1>5 DEF DeliveryInv

LEMMA ReapedKeeps == DeliveryInv /\ (Reaped \/ Waited) => DeliveryInv'
<1> SUFFICES ASSUME DeliveryInv, Reaped \/ Waited PROVE DeliveryInv'
  OBVIOUS
<1>1. /\ at \in {"reap", "wait", "resume"} /\ at' = "log"
      /\ outcome' \in {Failed("not finished"), Raised}
      /\ UNCHANGED <<via, mail, answers, taken, child, kin>>
  BY DEF Reaped, Waited, Ends
<1>2. /\ answers \in Seq({"yes", "no", "bye"})
      /\ child \in Children /\ kin \in Kins /\ Spared
  BY <1>1 DEF DeliveryInv, AnswersOK, KilledOK
<1>3. OutcomeIsTheServers' /\ FailedIsUntaken' /\ NoneOutlives'
  <2>1. Spared'
    BY <1>1, <1>2 DEF Spared, InGroup
  <2>2. CASE outcome' = Failed("not finished")
    BY <2>1, <2>2 DEF OutcomeIsTheServers, FailedIsUntaken, NoneOutlives, Spared, Failed
  <2>3. CASE outcome' = Raised
    BY <2>1, <2>3 DEF OutcomeIsTheServers, FailedIsUntaken, NoneOutlives, Spared, Raised
  <2> QED
    BY <1>1, <2>2, <2>3
<1> QED
  BY <1>1, <1>2, <1>3, ReportKeeps

\* A session that fails goes to its farewell with the reason.
LEMMA BreaksKeeps ==
  ASSUME DeliveryInv, at \in Session, NEW why, Breaks(why), UNCHANGED <<via, mail, child, kin>>,
         answers' \in Seq({"yes", "no", "bye"}),
         taken' = {} \/ why \in Silences
  PROVE  DeliveryInv'
<1>1. at' = "quit" /\ outcome' = Failed(why)
  BY DEF Breaks
<1>2. at' \in Ats /\ AtRest' /\ MailKnown' /\ Undecided'
  BY <1>1 DEF DeliveryInv, Ats, AtRest, MailKnown, Undecided, Before, Child, Session
<1>3. AnswersOK' /\ TakenOK' /\ KilledOK'
  BY <1>1 DEF DeliveryInv, AnswersOK, TakenOK, KilledOK, Before, Child, Session
<1>4. OutcomeIsTheServers' /\ FailedIsUntaken' /\ NoneOutlives'
  BY <1>1 DEF OutcomeIsTheServers, FailedIsUntaken, NoneOutlives, Failed, Silences
<1> QED
  BY <1>2, <1>3, <1>4 DEF DeliveryInv

\* The session up to RCPT.
LEMMA GreetingKeeps == DeliveryInv /\ (Connect \/ StartTls \/ MailFrom) => DeliveryInv'
<1> SUFFICES ASSUME DeliveryInv, Connect \/ StartTls \/ MailFrom PROVE DeliveryInv'
  OBVIOUS
<1>1. /\ at \in Before /\ at \in Session /\ mail \in Mails
      /\ outcome = Pending /\ answers = <<>> /\ taken = {} /\ via # "sendmail"
      /\ UNCHANGED <<via, mail, answers, taken, child, kin>>
  BY DEF Connect, StartTls, MailFrom, Hears, DeliveryInv, MailKnown, Undecided, AnswersOK, TakenOK,
         KilledOK, Before, Session
<1>2. answers' \in Seq({"yes", "no", "bye"})
  BY <1>1
<1>3. CASE at' \in {"starttls", "mail", "rcpt"} /\ outcome' = outcome
  <2>1. Len(mail) \in Nat \ {0}
    BY <1>1, MailHasRecipients
  <2>2. at' \in Ats /\ AtRest' /\ MailKnown' /\ Undecided'
    BY <1>1, <1>3 DEF Ats, AtRest, MailKnown, Undecided, Before, Child
  <2>3. AnswersOK' /\ TakenOK' /\ KilledOK'
    BY <1>1, <1>3, <2>1 DEF DeliveryInv, AnswersOK, TakenOK, KilledOK, Before, Child, Session
  <2>4. OutcomeIsTheServers' /\ FailedIsUntaken' /\ NoneOutlives'
    BY <1>1, <1>3 DEF OutcomeIsTheServers, FailedIsUntaken, NoneOutlives, Pending
  <2> QED
    BY <2>2, <2>3, <2>4 DEF DeliveryInv
<1>4. ASSUME NEW why, Breaks(why) PROVE DeliveryInv'
  BY <1>1, <1>2, <1>4, BreaksKeeps
<1>5. ASSUME NEW why, Ends(Failed(why)) PROVE DeliveryInv'
  <2>1. at' = "log" /\ outcome' = Failed(why) /\ at # "idle"
    BY <1>1, <1>5 DEF Ends, Before
  <2>2. OutcomeIsTheServers' /\ FailedIsUntaken' /\ NoneOutlives'
    BY <1>1, <2>1 DEF OutcomeIsTheServers, FailedIsUntaken, NoneOutlives, Failed
  <2>3. child' \in Children /\ kin' \in Kins
    BY <1>1 DEF DeliveryInv, KilledOK
  <2> QED
    BY <1>1, <1>2, <2>1, <2>2, <2>3, ReportKeeps
<1> QED
  BY <1>3, <1>4, <1>5 DEF Connect, StartTls, MailFrom

LEMMA RcptKeeps == DeliveryInv /\ Rcpt => DeliveryInv'
<1> SUFFICES ASSUME DeliveryInv, Rcpt PROVE DeliveryInv'
  OBVIOUS
<1>1. /\ at = "rcpt" /\ at \in Session /\ mail \in Mails /\ outcome = Pending /\ taken = {}
      /\ answers \in Seq({"yes", "no", "bye"}) /\ Len(answers) < Len(mail)
      /\ \A i \in DOMAIN answers : answers[i] # "bye"
      /\ via # "sendmail" /\ UNCHANGED <<via, mail, taken, child, kin>>
  BY DEF Rcpt, Hears, DeliveryInv, MailKnown, Undecided, AnswersOK, TakenOK, KilledOK, Session
<1>2. ASSUME NEW why, Breaks(why), answers' \in Seq({"yes", "no", "bye"}) PROVE DeliveryInv'
  BY <1>1, <1>2, BreaksKeeps
<1>3. ASSUME \E answer \in {"yes", "no", "bye"} : answers' = Append(answers, answer) /\ answer # "bye",
             Len(answers') < Len(mail), UNCHANGED <<at, outcome>>
      PROVE  DeliveryInv'
  <2>1. PICK answer \in {"yes", "no"} : answers' = Append(answers, answer)
    BY <1>3
  <2>2. /\ answers' \in Seq({"yes", "no", "bye"})
        /\ \A i \in DOMAIN answers' : answers'[i] # "bye"
    BY <1>1, <2>1
  <2>3. at' \in Ats /\ AtRest' /\ MailKnown' /\ Undecided'
    BY <1>1, <1>3 DEF Ats, AtRest, MailKnown, Undecided, Before, Child
  <2>4. AnswersOK'
    BY <1>1, <1>3, <2>2 DEF AnswersOK, Before, Child
  <2>5. TakenOK' /\ KilledOK'
    BY <1>1, <1>3 DEF DeliveryInv, TakenOK, KilledOK, Before, Child, Session
  <2>6. OutcomeIsTheServers' /\ FailedIsUntaken' /\ NoneOutlives'
    BY <1>1, <1>3 DEF OutcomeIsTheServers, FailedIsUntaken, NoneOutlives, Pending
  <2> QED
    BY <2>3, <2>4, <2>5, <2>6 DEF DeliveryInv
<1>4. ASSUME \E answer \in {"yes", "no", "bye"} : answers' = Append(answers, answer) /\ answer # "bye",
             ~(Len(answers') < Len(mail)), \E i \in DOMAIN answers' : answers'[i] # "no",
             at' = "data", outcome' = outcome
      PROVE  DeliveryInv'
  <2>1. PICK answer \in {"yes", "no"} : answers' = Append(answers, answer)
    BY <1>4
  <2>2. /\ answers' \in Seq({"yes", "no", "bye"}) /\ Len(answers') = Len(answers) + 1
        /\ \A i \in DOMAIN answers' : answers'[i] \in {"yes", "no"}
    BY <1>1, <2>1
  <2>3. Len(answers') = Len(mail)
    BY <1>1, <1>4, <2>2, MailHasRecipients
  <2>4. at' \in Ats /\ AtRest' /\ MailKnown' /\ Undecided'
    BY <1>1, <1>4 DEF Ats, AtRest, MailKnown, Undecided, Before, Child
  <2>5. AnswersOK'
    BY <1>1, <1>4, <2>2, <2>3 DEF AnswersOK, Before, Child
  <2>6. TakenOK' /\ KilledOK'
    BY <1>1, <1>4 DEF DeliveryInv, TakenOK, KilledOK, Before, Child, Session
  <2>7. OutcomeIsTheServers' /\ FailedIsUntaken' /\ NoneOutlives'
    BY <1>1, <1>4 DEF OutcomeIsTheServers, FailedIsUntaken, NoneOutlives, Pending
  <2> QED
    BY <2>4, <2>5, <2>6, <2>7 DEF DeliveryInv
<1>5. CASE \E why \in Silences : Breaks(why) /\ UNCHANGED answers
  BY <1>1, <1>2, <1>5
<1>6. ASSUME NEW answer \in {"yes", "no", "bye"}, answers' = Append(answers, answer)
      PROVE  answers' \in Seq({"yes", "no", "bye"})
  BY <1>1, <1>6
<1>7. ASSUME NEW answer \in {"yes", "no", "bye"}, answers' = Append(answers, answer),
             IF answer = "bye"
             THEN Breaks(IF Answered("no") \union {mail[Len(answers) + 1]} # To
                         THEN "ended" ELSE "all refused")
             ELSE IF Len(answers') < Len(mail) THEN UNCHANGED <<at, outcome>>
             ELSE IF \A i \in DOMAIN answers' : answers'[i] = "no" THEN Breaks("all refused")
             ELSE at' = "data" /\ UNCHANGED outcome
      PROVE  DeliveryInv'
  <2>1. answers' \in Seq({"yes", "no", "bye"})
    BY <1>6, <1>7, Zenon
  <2>2. CASE \E why : Breaks(why)
    BY <1>2, <2>1, <2>2
  <2>3. CASE answer # "bye" /\ Len(answers') < Len(mail)
    BY <1>3, <1>7, <2>3
  <2>4. CASE /\ answer # "bye" /\ ~(Len(answers') < Len(mail))
             /\ \E i \in DOMAIN answers' : answers'[i] # "no"
    BY <1>4, <1>7, <2>4
  <2> QED
    BY <1>7, <2>2, <2>3, <2>4
<1> QED
  BY <1>5, <1>7 DEF Rcpt

\* The message is taken for those who got a yes, by a server that answers or
\* by one that does not; a refusal takes nothing.
LEMMA DataKeeps == DeliveryInv /\ Data => DeliveryInv'
<1> SUFFICES ASSUME DeliveryInv, Data PROVE DeliveryInv'
  OBVIOUS
<1>1. /\ at = "data" /\ at \in Session /\ mail \in Mails /\ outcome = Pending /\ taken = {}
      /\ answers \in Seq({"yes", "no", "bye"}) /\ AnswersOK /\ via # "sendmail"
      /\ UNCHANGED <<via, mail, answers, child, kin>>
  BY DEF Data, Hears, DeliveryInv, MailKnown, Undecided, AnswersOK, TakenOK, KilledOK, Session
<1>2. CASE taken' = taken /\ Breaks("response")
  BY <1>1, <1>2, BreaksKeeps
<1>3. CASE \E why \in Silences : Breaks(why)
  BY <1>1, <1>3, BreaksKeeps
<1>4. CASE taken' = Answered("yes") /\ at' = "quit" /\ outcome' = Accepted
  <2>1. outcome' = Sent(Answered("yes"), Answered("no")) /\ Answered("yes") # {}
    BY <1>1, <1>4, AcceptedIsSent
  <2>2. /\ Answered("yes") \union Answered("no") = To
        /\ Answered("yes") \intersect Answered("no") = {}
    BY <1>1, AnswersShareOut DEF AnswersOK
  <2>3. To' = To
    BY <1>1 DEF To
  <2>4. at' \in Ats /\ AtRest' /\ MailKnown' /\ Undecided'
    BY <1>1, <1>4 DEF Ats, AtRest, MailKnown, Undecided, Before, Child
  <2>5. AnswersOK' /\ TakenOK' /\ KilledOK'
    BY <1>1, <1>4 DEF DeliveryInv, AnswersOK, TakenOK, KilledOK, Before, Child, Session
  <2>6. OutcomeIsTheServers' /\ FailedIsUntaken' /\ NoneOutlives'
    BY <1>1, <1>4, <2>1, <2>2, <2>3 DEF OutcomeIsTheServers, FailedIsUntaken, NoneOutlives, Sent
  <2> QED
    BY <2>4, <2>5, <2>6 DEF DeliveryInv
<1> QED
  BY <1>2, <1>3, <1>4 DEF Data

\* The farewell changes neither what was answered nor what is reported.
LEMMA QuitKeeps == DeliveryInv /\ Quit => DeliveryInv'
<1> SUFFICES ASSUME DeliveryInv, Quit PROVE DeliveryInv'
  OBVIOUS
<1>1. /\ at = "quit" /\ at' = "log" /\ via # "sendmail"
      /\ UNCHANGED <<via, mail, answers, taken, child, kin, outcome>>
  BY DEF Quit, Hears, DeliveryInv, KilledOK, Session
<1>2. /\ answers' \in Seq({"yes", "no", "bye"})
      /\ child' \in Children /\ kin' \in Kins
  BY <1>1 DEF DeliveryInv, AnswersOK, KilledOK
<1>3. OutcomeIsTheServers' /\ FailedIsUntaken' /\ NoneOutlives'
  BY <1>1 DEF DeliveryInv, OutcomeIsTheServers, FailedIsUntaken, NoneOutlives, To
<1> QED
  BY <1>1, <1>2, <1>3, ReportKeeps

\* An interrupt anywhere in the session.
LEMMA BrokenKeeps == DeliveryInv /\ Broken => DeliveryInv'
<1> SUFFICES ASSUME DeliveryInv, Broken PROVE DeliveryInv'
  OBVIOUS
<1>1. /\ at \in Session /\ at' = "log" /\ at # "idle" /\ outcome' = Raised /\ via # "sendmail"
      /\ UNCHANGED <<via, mail, answers, child, kin>>
  BY DEF Broken, Ends, DeliveryInv, KilledOK, Session
<1>2. /\ answers' \in Seq({"yes", "no", "bye"})
      /\ child' \in Children /\ kin' \in Kins
  BY <1>1 DEF DeliveryInv, AnswersOK, KilledOK
<1>3. OutcomeIsTheServers' /\ FailedIsUntaken' /\ NoneOutlives'
  BY <1>1 DEF OutcomeIsTheServers, FailedIsUntaken, NoneOutlives, Raised
<1> QED
  BY <1>1, <1>2, <1>3, ReportKeeps

\* What a delivery leaves for the next one: nothing of its own.
LEMMA ReturnsKeeps == DeliveryInv /\ Returns => DeliveryInv'
<1> SUFFICES ASSUME DeliveryInv, Returns PROVE DeliveryInv'
  OBVIOUS
<1>1. /\ at' = "idle" /\ answers' = <<>> /\ taken' = {} /\ child' = NoChild /\ kin' = NoKin
      /\ outcome' = Pending \/ outcome'.kind = "raised"
  BY DEF Returns
<1>2. at' \in Ats /\ AtRest' /\ MailKnown' /\ Undecided'
  BY <1>1 DEF Ats, AtRest, MailKnown, Undecided, Before, Child
<1>3. AnswersOK' /\ TakenOK' /\ KilledOK'
  BY <1>1 DEF AnswersOK, TakenOK, KilledOK, Before, Child, Session, NoChild, NoKin,
         Children, Kins
<1>4. OutcomeIsTheServers' /\ FailedIsUntaken' /\ NoneOutlives'
  BY <1>1 DEF OutcomeIsTheServers, FailedIsUntaken, NoneOutlives, Pending
<1> QED
  BY <1>2, <1>3, <1>4 DEF DeliveryInv

LEMMA BeginKeeps == DeliveryInv /\ Begin => DeliveryInv'
<1> SUFFICES ASSUME DeliveryInv, Begin PROVE DeliveryInv'
  OBVIOUS
<1>1. /\ at = "idle" /\ outcome' = Pending
      /\ UNCHANGED <<via, mail, at, answers, taken, child, kin>>
  BY DEF Begin
<1>2. at' \in Ats /\ AtRest' /\ MailKnown' /\ Undecided'
  BY <1>1 DEF DeliveryInv, Ats, AtRest, MailKnown, Undecided, Before, Child
<1>3. AnswersOK' /\ TakenOK' /\ KilledOK'
  BY <1>1 DEF DeliveryInv, AnswersOK, TakenOK, KilledOK, Before, Child, Session
<1>4. OutcomeIsTheServers' /\ FailedIsUntaken' /\ NoneOutlives'
  BY <1>1 DEF OutcomeIsTheServers, FailedIsUntaken, NoneOutlives, Pending
<1> QED
  BY <1>2, <1>3, <1>4 DEF DeliveryInv

LEMMA NextKeeps == DeliveryInv /\ [Next]_vars => DeliveryInv'
<1> SUFFICES ASSUME DeliveryInv, [Next]_vars PROVE DeliveryInv'
  OBVIOUS
\* The activity log's own steps leave the delivery alone, and so does a part
\* of a reply.
<1>1. CASE \/ UNCHANGED vars \/ Says \/ End \/ Trickles \/ ReadsPart
           \/ LogLooks /\ LogWorld /\ UNCHANGED mail_vars
           \/ at = "idle" /\ Attached /\ UNCHANGED mail_vars
  <2>1. UNCHANGED delivery
    BY <1>1 DEF vars, mail_vars, delivery, Says, End, Trickles, ReadsPart
  <2> QED
    BY <2>1, DeliveryStutters
<1>2. CASE Begin \/ Send
  BY <1>2, BeginKeeps, SendKeeps
<1>3. CASE Said
  BY <1>3, ReturnsKeeps DEF Said
<1>4. CASE System \/ Interrupted \/ Broken
  BY <1>4, SystemKeeps, KillKeeps, BrokenKeeps
<1>5. CASE Proceeds
  BY <1>1, <1>5, PopenKeeps, FinishedKeeps, KillKeeps, ReapedKeeps, GreetingKeeps, RcptKeeps, DataKeeps,
     QuitKeeps DEF Proceeds
<1> QED
  BY <1>1, <1>2, <1>3, <1>4, <1>5 DEF Next

(***************************************************************************)
(* The theorems.                                                           *)
(***************************************************************************)
\* The invariant holds in every state of every call, mail after mail.
THEOREM DeliveryInvariant == FairSpec => []DeliveryInv
  BY InitDelivery, NextKeeps, PTL DEF FairSpec

\* A delivery that deliver reports as accepted is the mail system's own word:
\* taken for exactly the recipients named as accepted, and every other one
\* named as refused, whatever was refused, dropped or interrupted on the way.
THEOREM OutcomeIsTrue == FairSpec => []OutcomeIsTheServers
<1>1. DeliveryInv => OutcomeIsTheServers
  BY DEF DeliveryInv
<1> QED
  BY <1>1, DeliveryInvariant, PTL

\* A mail deliver reports as failed was taken for nobody, unless the answer
\* could not be had: a session lost or silent, a child not finished.
THEOREM FailuresAreUntaken == FairSpec => []FailedIsUntaken
<1>1. DeliveryInv => FailedIsUntaken
  BY DEF DeliveryInv
<1> QED
  BY <1>1, DeliveryInvariant, PTL

\* When via_sendmail gives up on its child, whoever of the child's group is
\* left is not the run's to signal, each of them by itself, or was started
\* after the kill by a child that is not.
THEOREM NothingOutlives == FairSpec => []NoneOutlives
<1>1. DeliveryInv => NoneOutlives
  BY DEF DeliveryInv
<1> QED
  BY <1>1, DeliveryInvariant, PTL
=============================================================================
