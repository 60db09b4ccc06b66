CONSTANTS
  i1 = i1
  i2 = i2
  i3 = i3
  t1 = t1
  t2 = t2
  t3 = t3
  Invoices <- OneInvoices
  Transfers <- TwoTransfers
  None = None
  NonceMax = 1
  NRpc = 1
  Quorum = 2
  FaultyRpcs <- NoFaults
  MinConfirmations = 2
  BlockWindow = 3
  UniqueEventIds = FALSE
  MaxListed = 1
  MaxHeight = 3
  MaxCrashes = 1
  MaxErrors = 1
SPECIFICATION LiveSpec
INVARIANT OneDecisionPerTransfer
PROPERTIES
  EveryTransferReported
  ConfirmedIsAnnounced
