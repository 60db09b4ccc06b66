CONSTANTS
  CryptoSubs <- MCCryptoSubs
  CardSubs <- MCCardSubs
  Shops = {"shop"}
  ShopOf <- MCShopOf
  Plans = {"starter", "pro"}
  PlanOf <- MCPlanOf
  Free = "free"
  Period = 1
  Grace = 1
  InvoiceTtl = 0
  Delay = 1
  Handlers = {1}
  MaxNow = 2
  MaxMishaps = 1
  Posts = {1, 2}
  Caps = {1, 2}
  Unlimited = Unlimited
  Months = 2
  MaxCreated = 4
  Ips = {"a", "b"}
  PerIp = 2
  Global = 3
  WindowMs = 3
  Second = 2
  Steps = {1, 3}
  MaxClock = 5
  m1 = m1
  m2 = m2
  m3 = m3
  w1 = w1
  w2 = w2
  Signups <- MCSignups
  EmailOf <- MCEmailOf
  Wants <- MCWants
  Setters <- MCSetters
  SetterOf <- MCSetterOf
  Bills <- MCBills
  Addresses <- MCAddresses
  AddressOf <- MCAddressOf
  Price <- MCPrice
  MaxWithdrawals = 1
  MaxDeaths = 1
SPECIFICATION FairSpec
INVARIANT
  ConfirmedWasPaid
CHECK_DEADLOCK FALSE
