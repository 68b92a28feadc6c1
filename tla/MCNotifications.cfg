SPECIFICATION NotificationsSpec
CONSTANTS
  Msgs <- OneMsg
  batchSize = 1
  maxRetries = 2
  Exponential = TRUE
  MaxDelay = 1
  LinearStep = 1
  FailLimit = 2
  MaxWorkers = 2
  MaxRequeues = 1
  MaxFaults = 1
  MaxAdmin = 1
  heat = heat
  first = first
  second = second
  Alerts <- OneAlert
  Checks <- TwoChecks
  alertDedupWindow = 2
  MaxHours = 4
  a1 = a1
  a2 = a2
  None = None
  Clients <- TwoClients
  idOf <- OneUser
  Senders <- OneSender
  QueueCap = 1
  SendCap = 1
CHECK_DEADLOCK FALSE
INVARIANTS SentOnce AttemptsBounded SendingIsOwned DisabledStaysOff AlertNotRepeated
INVARIANTS PanicNeedsTwins ConnectedIsListed ListedIsAlive
PROPERTIES PumpsEnd EventuallySettled
