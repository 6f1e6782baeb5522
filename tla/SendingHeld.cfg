SPECIFICATION FairSpec
CONSTANTS
  SYSLOG_SOCKETS <- MCSockets
  LogSetups <- OnStderr
  MaxMoves = 0
  MaxCalls = 1
  Mails <- AMail
  Transports = {"sendmail"}
  Foreign = {FALSE}
  MaxMails = 1
  Instances <- HeldInstances
CHECK_DEADLOCK FALSE
PROPERTIES
  MailTimeoutBounds
