CONSTANTS
  i1 = i1
  i2 = i2
  i3 = i3
  t1 = t1
  t2 = t2
  t3 = t3
  Invoices <- OneInvoices
  Transfers <- OneTransfers
  None = None
  NonceMax = 1
  NRpc = 3
  Quorum = 2
  FaultyRpcs <- ThirdFaulty
  MinConfirmations = 2
  BlockWindow = 1
  UniqueEventIds = FALSE
  MaxListed = 2
  MaxHeight = 2
  MaxCrashes = 0
  MaxErrors = 0
SPECIFICATION Spec
INVARIANT ConfirmedIsPaid
