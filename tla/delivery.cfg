SPECIFICATION Spec
CONSTANTS
  MaxEvents = 2
  MaxBackoff = 4
  Services <- AllServices
  HasClusters = TRUE
  Alerting <- SomeAlerts
  Section <- SectionOf
  Size <- SizeOf
  HeaderSize = 1
  FrameSize = 1
  MaxMessageBytes = 6
  SendTimeout = 60
  Interval = 145
  AnswerTimes = {0, 60, 109, 110}
  HangingTools = {"systemctl", "apt-get"}
  MaxAttempts = 3
  MaxSetbacks = 2
INVARIANTS TypeOK OnTimeIsFresh NoNeedlessRepeat
PROPERTIES RetriesAreSpaced NoBlameForTheDeadline OutboxSafety EveryAlertLeaves
