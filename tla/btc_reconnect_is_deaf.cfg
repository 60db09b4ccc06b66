CONSTANTS
  i1 = i1
  t1 = t1
  t2 = t2
  Invoices <- One
  Txs <- OneTx
  None = None
  PaidTo <- PaidOne
  Required <- Required1
  Handlers <- OneHandler
  BootHandler = 1
  MayExpire = {}
  MaxInbox = 2
  MaxHeight = 2
  MaxEvents = 2
  MaxCloses = 1
  MaxCrashes = 0
  MaxErrors = 0
SPECIFICATION FairSpec
PROPERTIES WatchedIsAnnounced
