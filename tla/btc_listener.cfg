CONSTANTS
  i1 = i1
  t1 = t1
  t2 = t2
  Invoices <- One
  Txs <- TwoTxs
  None = None
  PaidTo <- PaidOne
  Required <- Required2
  Handlers <- TwoHandlers
  BootHandler = 1
  MayExpire = {i1}
  MaxInbox = 2
  MaxHeight = 2
  MaxEvents = 2
  MaxCloses = 1
  MaxCrashes = 1
  MaxErrors = 1
SPECIFICATION BtcSpec
INVARIANTS AnnouncedIsDeep ConfirmedIsAnnounced
PROPERTY PaidOnceIsAnnounced
