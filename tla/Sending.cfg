SPECIFICATION FairSpec
CONSTANTS
  SYSLOG_SOCKETS <- MCSockets
  LogSetups <- AllLogs
  MaxMoves = 1
  MaxCalls = 2
  Mails <- MCMails
  Transports = {"sendmail", "smtp", "starttls"}
  Foreign = {TRUE, FALSE}
  MaxMails = 2
  Instances <- MCInstances
CHECK_DEADLOCK FALSE
INVARIANTS
  TypeOK
  EveryRecordOnce
  LoudOnce
  HandlersAreTheCalls
  AppendsToAFile
  OutcomeIsTheServers
  FailedIsUntaken
  NoneOutlives
PROPERTIES
  DeliveryEnds
