CONSTANTS
  alice = alice
  bob = bob
  s1 = s1
  s2 = s2
  rootA = rootA
  rootB = rootB
  Masters <- MCMasters
  Signers <- MCSigners
  Lengths = {0, 2, 3}
  MaxChains = 3
  Amounts = {0, 3}
  Caps = {0, 2}
  Roots <- MCRoots
  MaxInvoices = 2
  None = None
  TimerTicks = {1, 2}
  ManualTicks = {3}
  Authority = s1
  RaisedCap = 5
  MaxFailures = 1
  MaxRestarts = 1
  Headers <- MCHeaders
  Worked <- MCWorked
  ParentOf <- MCParentOf
  Window = 3
  AnchorHeights = {0, 9}
  Zero <- MCZero
  Handles = {1, 2}
  Admins = {1}
  PaymentIds = {1}
  Paid = {0, 1, 333, 10000}
  FeeRates = {0, 1, 100, 101}
  InitFeeBps = 30
  MaxFeeBps = 100
  BpsDenom = 10000
  Nobody = 0
SPECIFICATION FairSpec
INVARIANTS
  SettledByOneRail
  ReceiptsAddUp
  AppliedOnce
PROPERTIES
  ProofStaysBound
  ImplementsWindow
  CapIsRaised
CHECK_DEADLOCK FALSE
