--------------------------- MODULE MCCloudServices ---------------------------
(* The services of the cloud: billing, the plan's monthly cap, the rate     *)
(* limiter, sign-up and the Base watcher.  They share no state but the plan *)
(* of a merchant, which PlanGate lets change at any time, and so are        *)
(* explored one part at a time: `part` tells which.                         *)
(*                                                                          *)
(* A merchant buys a plan with two invoices, of which one may lapse, or one *)
(* plan with an invoice and another by card.  Two requests meet a cap that  *)
(* changes, over the end of a month.  Two callers fill a window of three    *)
(* hits, and pause.  Two sign-ups use one email and may lose the answer of  *)
(* its lookup, a third uses another.  Two of three Base invoices share an   *)
(* address, and one of either kind may be late.                             *)
EXTENDS Billing, PlanGate, RateLimiter, SignUp, BaseWatcher, TLC

CONSTANTS m1, m2, m3, w1, w2

VARIABLE part

Parts == {"invoices", "cards", "gate", "limiter", "accounts", "base"}

MCCryptoSubs == {"c1", "c2"}
MCCardSubs == {"k1"}
MCShopOf == [s \in Subs |-> "shop"]
MCPlanOf == [s \in Subs |-> IF s = "k1" THEN "starter" ELSE "pro"]
MCSamePlanOf == [s \in Subs |-> "pro"]

MCSignups == {m1, m2, m3}
MCSetters == {w1, w2}
MCEmailOf == [r \in MCSignups |-> IF r = m3 THEN "other" ELSE "one"]
MCWants == [r \in MCSignups |-> IF r = m1 THEN {"btc", "webhook"} ELSE {}]
MCSetterOf == [w \in MCSetters |-> m2]

MCBills == {1, 2, 3}
MCAddresses == {"own", "shared"}
MCAddressOf == [i \in MCBills |-> IF i = 1 THEN "own" ELSE "shared"]
MCPrice == [i \in MCBills |-> IF i = 2 THEN 3 ELSE 2]

allVars == <<billingVars, gateVars, limiterVars, accountVars, baseVars, part>>

(* The parts that are not explored begin in one state only.                 *)
Init == /\ BillingInit /\ GateInit /\ LimiterInit /\ AccountInit /\ BaseInit
        /\ part \in Parts
        /\ part = "gate" \/ cap = Unlimited
        /\ answer.to = CHOOSE c \in Ips : TRUE
        /\ checked = 1

OnlyBilling ==
  /\ part \in {"invoices", "cards"}
  /\ UNCHANGED <<gateVars, limiterVars, accountVars, baseVars, part>>
OnlyInvoices == part = "invoices" /\ OnlyBilling
OnlyCards == part = "cards" /\ OnlyBilling
OnlyGate ==
  part = "gate" /\ UNCHANGED <<billingVars, limiterVars, accountVars, baseVars, part>>
OnlyLimiter ==
  part = "limiter" /\ UNCHANGED <<billingVars, gateVars, accountVars, baseVars, part>>
OnlyAccounts ==
  part = "accounts" /\ UNCHANGED <<billingVars, gateVars, limiterVars, baseVars, part>>
OnlyBase ==
  part = "base" /\ UNCHANGED <<billingVars, gateVars, limiterVars, accountVars, part>>

(* Two invoices meet in a round, and may lapse; or an invoice and a card.    *)
Sold(s) == part = "invoices" \/ s = "c1"

Next ==
  \/ PassTime /\ OnlyBilling
  \/ \E s \in CryptoSubs : AskCrypto(s) /\ Sold(s) /\ OnlyBilling
  \/ \E s \in CryptoSubs : InsertCryptoRow(s) /\ OnlyBilling
  \/ \E s \in CryptoSubs : InsertCryptoRowFails(s) /\ OnlyInvoices
  \/ \E s \in CryptoSubs : ConfirmBill(s) /\ OnlyBilling
  \/ \E s \in CryptoSubs : ExpireBill(s) /\ OnlyInvoices
  \/ \E s \in CryptoSubs : SkipBill(s) /\ OnlyInvoices
  \/ ListPending /\ OnlyBilling
  \/ \E s \in CryptoSubs : ReadBill(s) /\ OnlyBilling
  \/ ReadShop /\ OnlyBilling
  \/ Grant /\ OnlyBilling
  \/ SettleRow /\ OnlyBilling
  \/ CloseRow /\ OnlyBilling
  \/ EndRound /\ OnlyBilling
  \/ RoundFails /\ OnlyBilling
  \/ \E s \in CardSubs : OpenCard(s) /\ OnlyCards
  \/ \E s \in CardSubs : Subscribe(s) /\ OnlyCards
  \/ \E s \in CardSubs : RenewCard(s) /\ OnlyCards
  \/ \E s \in CardSubs : CancelCard(s) /\ OnlyCards
  \/ \E h \in Handlers : \E e \in mail : Receive(h, e) /\ OnlyCards
  \/ \E h \in Handlers : HookFind(h) /\ OnlyCards
  \/ \E h \in Handlers : HookActivate(h) /\ OnlyCards
  \/ \E h \in Handlers : HookRow(h) /\ OnlyCards
  \/ \E h \in Handlers : HookCancelRow(h) /\ OnlyCards
  \/ \E h \in Handlers : HookCheck(h) /\ OnlyCards
  \/ \E h \in Handlers : HookDowngrade(h) /\ OnlyCards
  \/ \E h \in Handlers : HookFails(h) /\ OnlyCards
  \/ NextMonth /\ OnlyGate
  \/ \E c \in Caps \cup {Unlimited} : ChangePlan(c) /\ OnlyGate
  \/ \E r \in Posts : Authenticate(r) /\ OnlyGate
  \/ \E r \in Posts : ReadPlan(r) /\ OnlyGate
  \/ \E r \in Posts : ReadUnlimitedPlan(r) /\ OnlyGate
  \/ \E r \in Posts : CountWithin(r) /\ OnlyGate
  \/ \E r \in Posts : CountRefuses(r) /\ OnlyGate
  \/ \E r \in Posts : CreateBill(r) /\ OnlyGate
  \/ \E r \in Posts : CreateFails(r) /\ OnlyGate
  \/ \E r \in Posts : GateFails(r) /\ OnlyGate
  \/ \E d \in Steps : Advance(d) /\ OnlyLimiter
  \/ \E c \in Ips : RejectGlobally(c) /\ OnlyLimiter
  \/ \E c \in Ips : RejectIp(c) /\ OnlyLimiter
  \/ \E c \in Ips : AllowHit(c) /\ OnlyLimiter
  \/ \E r \in Signups : FindEmail(r) /\ OnlyAccounts
  \/ \E r \in {m1, m2} : MisreadEmail(r) /\ OnlyAccounts
  \/ \E r \in Signups : Insert(r) /\ OnlyAccounts
  \/ \E r \in Signups : SignupFails(r) /\ OnlyAccounts
  \/ \E w \in Setters : GetWebhook(w) /\ OnlyAccounts
  \/ \E w \in Setters : PutWebhook(w) /\ OnlyAccounts
  \/ \E w \in Setters : SetWebhookFails(w) /\ OnlyAccounts
  \/ \E i \in Bills : IssueBill(i) /\ OnlyBase
  \/ \E i \in Bills : PayBill(i) /\ OnlyBase
  \/ \E a \in Addresses : Withdraw(a) /\ OnlyBase
  \/ \E i \in {1, 2} : BecomeLate(i) /\ OnlyBase
  \/ StartPoll /\ OnlyBase
  \/ \E i \in Bills : CheckFails(i) /\ OnlyBase
  \/ \E i \in Bills : FindUnpaid(i) /\ OnlyBase
  \/ \E i \in Bills : FindCovered(i) /\ OnlyBase
  \/ StoreBill /\ OnlyBase
  \/ EmitBill /\ OnlyBase
  \/ WriteFails /\ OnlyBase
  \/ EndPoll /\ OnlyBase
  \/ Die /\ OnlyBase

FairSpec == /\ Init /\ [][Next]_allVars
            /\ part \in {"invoices", "cards"} => BillingFairness
            /\ part = "base" => BaseFairness

(* One type invariant for the parts.                                        *)
TypeOK == BillingTypeOK /\ GateTypeOK /\ LimiterTypeOK /\ AccountTypeOK /\ BaseTypeOK
=============================================================================
