CONSTANTS
  i1 = i1
  i2 = i2
  i3 = i3
  t1 = t1
  t2 = t2
  t3 = t3
  Invoices <- ThreeInvoices
  Transfers <- ThreeTransfers
  None = None
  NonceMax = 2
  NRpc = 3
  Quorum = 3
  FaultyRpcs <- ThirdFaulty
  MinConfirmations = 2
  BlockWindow = 2
  UniqueEventIds = FALSE
  MaxListed = 2
  MaxHeight = 3
  MaxCrashes = 1
  MaxErrors = 0
SPECIFICATION QuorumSpec
SYMMETRY Symmetry
INVARIANTS
  TypeOK
  ConfirmedIsPaid
  SequentialNoncesDiffer
  OneInvoicePerTransfer
