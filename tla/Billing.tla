------------------------------- MODULE Billing -------------------------------
(***************************************************************************)
(* Subscriptions of the cloud (cloud/src/billing.ts).  A merchant pays for *)
(* a plan with an invoice of the platform, which the reconciler finds      *)
(* confirmed, or by card, about which Stripe sends events.  Both write the *)
(* two columns plan and plan_expires_at of the merchant and then the row   *)
(* of the subscription.  Each await ends an action.                        *)
(*                                                                         *)
(* A row whose insert fails leaves an invoice no subscription is for; a    *)
(* card session whose insert fails leaves a link nobody was given.         *)
(*                                                                         *)
(* The watchers write the status of the invoice as well, one "confirmed"   *)
(* and one "expired" at most, since they list what is pending; but neither *)
(* looks at the status again, so that either may overwrite the other.      *)
(*                                                                         *)
(* An answer whose body is lost reads as no row (supabase-db.ts:90): a     *)
(* round that lists nothing is one that fails at once, and an event whose  *)
(* row or merchant is not found is one whose handler fails.                *)
(*                                                                         *)
(* External: the card holder; and Stripe, whose events arrive in any       *)
(* order, more than once, and no later than Delay.                         *)
(***************************************************************************)
EXTENDS Integers, FiniteSets

CONSTANTS CryptoSubs, CardSubs,  \* subscriptions, by method
          Shops, ShopOf,         \* ShopOf[s]: the merchant s is for
          Plans, PlanOf, Free,   \* PlanOf[s]: the plan s buys
          Period, Grace,         \* CRYPTO_PERIOD_MS, STRIPE_GRACE_MS
          InvoiceTtl,            \* how long an invoice can be paid
          Delay,                 \* how long Stripe tries to deliver an event
          Handlers,              \* webhook requests served together
          MaxNow,                \* bound: the time a behaviour lasts
          MaxMishaps             \* bound: rounds that fail, and invoices not found

Subs == CryptoSubs \cup CardSubs

ASSUME BillingAssumption ==
  /\ CryptoSubs \cap CardSubs = {}
  /\ IsFiniteSet(Subs) /\ ShopOf \in [Subs -> Shops]
  /\ PlanOf \in [Subs -> Plans] /\ Free \notin Plans
  /\ {Period, Grace, InvoiceTtl, Delay} \subseteq Nat /\ Period > 0

VARIABLES now,
          plan, planEnd,  \* of a shop; 0 is null
          row, rowEnd,    \* status of a subscription row, and its period_end
          bill, billEnd,  \* the invoice of a crypto row: status, expires_at
          written,        \* written[s]: what the watchers wrote of its status
          card,           \* the card subscription: "none", "open", "paying", "ended"
          paidTo,         \* the end of the period a card was last charged for
          linked,         \* card rows that have their stripe_subscription_id
          mail,           \* Stripe's events: [kind, sub, end, by]
          hook,           \* hook[h]: the event it handles, how far, and periodEnd
          job, todo,      \* the reconciler: how far, and pending
          mishaps

shopVars == <<plan, planEnd>>
rowVars == <<row, rowEnd, linked>>
billVars == <<bill, billEnd, written>>
stripeVars == <<card, paidTo, mail>>
jobVars == <<job, todo, mishaps>>
billingVars == <<now, shopVars, rowVars, billVars, stripeVars, hook, jobVars>>

Event(kind, s, end) == [kind |-> kind, sub |-> s, end |-> end, by |-> now + Delay]
Resting == [at |-> "idle", event |-> "none", until |-> 0]
Later(a, b) == IF a > b THEN a ELSE b

BillingInit ==
  /\ now = 1
  /\ plan = [m \in Shops |-> Free] /\ planEnd = [m \in Shops |-> 0]
  /\ row = [s \in Subs |-> "none"] /\ rowEnd = [s \in Subs |-> 0]
  /\ bill = [s \in CryptoSubs |-> "none"] /\ billEnd = [s \in CryptoSubs |-> 0]
  /\ written = [s \in CryptoSubs |-> {}]
  /\ card = [s \in CardSubs |-> "none"] /\ paidTo = [s \in CardSubs |-> 0]
  /\ linked = {} /\ mail = {}
  /\ hook = [h \in Handlers |-> Resting]
  /\ job = [at |-> "idle", sub |-> "none", until |-> 0] /\ todo = {}
  /\ mishaps = 0

PassTime ==
  /\ now < MaxNow
  /\ now' = now + 1
  /\ UNCHANGED <<shopVars, rowVars, billVars, stripeVars, hook, jobVars>>

-----------------------------------------------------------------------------
(* createCryptoCheckout: the invoice, and then the row.                    *)
AskCrypto(s) ==
  /\ bill[s] = "none"
  /\ bill' = [bill EXCEPT ![s] = "pending"]
  /\ billEnd' = [billEnd EXCEPT ![s] = now + InvoiceTtl]
  /\ UNCHANGED <<written, now, shopVars, rowVars, stripeVars, hook, jobVars>>

InsertCryptoRow(s) ==
  /\ bill[s] # "none" /\ row[s] = "none"
  /\ row' = [row EXCEPT ![s] = "pending"]
  /\ UNCHANGED <<now, shopVars, rowEnd, linked, billVars, stripeVars, hook, jobVars>>

InsertCryptoRowFails(s) ==
  /\ bill[s] # "none" /\ row[s] = "none"
  /\ row' = [row EXCEPT ![s] = "lost"]
  /\ UNCHANGED <<now, shopVars, rowEnd, linked, billVars, stripeVars, hook, jobVars>>

(* updateInvoiceStatus, by a watcher that listed the invoice while it was  *)
(* pending.                                                                *)
WriteStatus(s, status) ==
  /\ bill[s] # "none" /\ status \notin written[s]
  /\ bill' = [bill EXCEPT ![s] = status]
  /\ written' = [written EXCEPT ![s] = @ \cup {status}]
  /\ UNCHANGED <<now, shopVars, rowVars, billEnd, stripeVars, hook, jobVars>>

(* Scan and BaseWatcher's poll, paid for even after the invoice lapsed.    *)
ConfirmBill(s) == WriteStatus(s, "confirmed")

(* expireStale                                                             *)
ExpireBill(s) == billEnd[s] < now /\ WriteStatus(s, "expired")

-----------------------------------------------------------------------------
(* reconcile: rounds do not overlap.                                       *)
JobTo(pc) == job' = [job EXCEPT !.at = pc]

ListPending ==
  /\ job.at = "idle"
  /\ todo' = {s \in CryptoSubs : row[s] = "pending"}
  /\ JobTo("next")
  /\ UNCHANGED <<now, shopVars, rowVars, billVars, stripeVars, hook, mishaps>>

Lapsed(s) == bill[s] = "pending" /\ billEnd[s] < now
Over(s) == Lapsed(s) \/ bill[s] = "expired"

(* Mutant: an invoice past its time is closed whatever its status.         *)
ReadBillTimeFirst(s) ==
  /\ job.at = "next" /\ s \in todo
  /\ job' = [job EXCEPT !.sub = s,
               !.at = IF billEnd[s] < now THEN "close"
                      ELSE IF bill[s] = "confirmed" THEN "merchant" ELSE "next"]
  /\ todo' = todo \ {s}
  /\ UNCHANGED <<now, shopVars, rowVars, billVars, stripeVars, hook, mishaps>>

(* getInvoice                                                              *)
ReadBill(s) ==
  /\ job.at = "next" /\ s \in todo
  /\ job' = [job EXCEPT !.sub = s,
               !.at = IF bill[s] = "confirmed" THEN "merchant"
                      ELSE IF Over(s) THEN "close" ELSE "next"]
  /\ todo' = todo \ {s}
  /\ UNCHANGED <<now, shopVars, rowVars, billVars, stripeVars, hook, mishaps>>

(* getInvoice finds none: the round goes on with the next row.             *)
SkipBill(s) ==
  /\ job.at = "next" /\ s \in todo
  /\ mishaps < MaxMishaps /\ mishaps' = mishaps + 1
  /\ todo' = todo \ {s}
  /\ UNCHANGED <<now, shopVars, rowVars, billVars, stripeVars, hook, job>>

(* Mutant: the period is stacked on the time left of another plan, too.    *)
CurrentEndOfAnyPlan(s) == planEnd[ShopOf[s]]

CurrentEnd(s) == IF plan[ShopOf[s]] = PlanOf[s] THEN planEnd[ShopOf[s]] ELSE 0

(* getMerchant; of a merchant that is not found, no time is left.          *)
ReadShop ==
  /\ job.at = "merchant"
  /\ \E end \in {CurrentEnd(job.sub), 0} :
       job' = [job EXCEPT !.at = "grant", !.until = Later(now, end) + Period]
  /\ UNCHANGED <<now, shopVars, rowVars, billVars, stripeVars, hook, todo, mishaps>>

(* activate                                                                *)
Activate(s, until) ==
  /\ plan' = [plan EXCEPT ![ShopOf[s]] = PlanOf[s]]
  /\ planEnd' = [planEnd EXCEPT ![ShopOf[s]] = until]

Grant ==
  /\ job.at = "grant"
  /\ Activate(job.sub, job.until)
  /\ JobTo("settle")
  /\ UNCHANGED <<now, rowVars, billVars, stripeVars, hook, todo, mishaps>>

SettleRow ==
  /\ job.at = "settle"
  /\ row' = [row EXCEPT ![job.sub] = "active"]
  /\ rowEnd' = [rowEnd EXCEPT ![job.sub] = job.until]
  /\ JobTo("next")
  /\ UNCHANGED <<now, shopVars, linked, billVars, stripeVars, hook, todo, mishaps>>

CloseRow ==
  /\ job.at = "close"
  /\ row' = [row EXCEPT ![job.sub] = "expired"]
  /\ JobTo("next")
  /\ UNCHANGED <<now, shopVars, rowEnd, linked, billVars, stripeVars, hook, todo, mishaps>>

(* schedule: the next round is set up when this one is over.               *)
EndRound ==
  /\ job.at = "next" /\ todo = {}
  /\ JobTo("idle")
  /\ UNCHANGED <<now, shopVars, rowVars, billVars, stripeVars, hook, todo, mishaps>>

(* A query throws, or the process ends: the next round starts over.        *)
RoundFails ==
  /\ job.at # "idle" /\ mishaps < MaxMishaps
  /\ mishaps' = mishaps + 1
  /\ JobTo("idle") /\ todo' = {}
  /\ UNCHANGED <<now, shopVars, rowVars, billVars, stripeVars, hook>>

JobStep == \/ ListPending \/ (\E s \in CryptoSubs : ReadBill(s))
           \/ ReadShop \/ Grant \/ SettleRow \/ CloseRow \/ EndRound

-----------------------------------------------------------------------------
(* createStripeCheckout, and then the link is followed.                    *)
OpenCard(s) ==
  /\ card[s] = "none"
  /\ card' = [card EXCEPT ![s] = "open"]
  /\ row' = [row EXCEPT ![s] = "pending"]
  /\ UNCHANGED <<now, shopVars, rowEnd, linked, billVars, paidTo, mail, hook, jobVars>>

(* External: the card is charged, for the first period and the next.       *)
Charge(s, kinds) ==
  LET end == Later(now, paidTo[s]) + Period IN
    /\ paidTo' = [paidTo EXCEPT ![s] = end]
    /\ mail' = mail \cup {Event(k, s, end) : k \in kinds}

Subscribe(s) ==
  /\ card[s] = "open"
  /\ card' = [card EXCEPT ![s] = "paying"]
  /\ Charge(s, {"completed", "paid"})
  /\ UNCHANGED <<now, shopVars, rowVars, billVars, hook, jobVars>>

RenewCard(s) ==
  /\ card[s] = "paying" /\ now >= paidTo[s]
  /\ Charge(s, {"paid"})
  /\ UNCHANGED <<now, shopVars, rowVars, billVars, card, hook, jobVars>>

CancelCard(s) ==
  /\ card[s] = "paying"
  /\ card' = [card EXCEPT ![s] = "ended"]
  /\ mail' = mail \cup {Event("deleted", s, 0)}
  /\ UNCHANGED <<now, shopVars, rowVars, billVars, paidTo, hook, jobVars>>

-----------------------------------------------------------------------------
(* handleStripeEvent, of an event sent for the first or another time.      *)
HookTo(h, pc) == hook' = [hook EXCEPT ![h].at = pc]
HookDone(h) == hook' = [hook EXCEPT ![h] = Resting]
HookSub(h) == hook[h].event.sub

Receive(h, e) ==
  /\ hook[h].at = "idle"
  /\ e \in mail /\ now <= e.by
  /\ hook' = [hook EXCEPT ![h] =
       IF e.kind = "completed"
       THEN [at |-> "activate", event |-> e, until |-> now + Period + Grace]
       ELSE [at |-> "find", event |-> e, until |-> 0]]
  /\ UNCHANGED <<now, shopVars, rowVars, billVars, stripeVars, jobVars>>

(* findSubscriptionByStripeId: what is not linked is acknowledged.         *)
HookFind(h) ==
  /\ hook[h].at = "find"
  /\ IF HookSub(h) \notin linked THEN HookDone(h)
     ELSE IF hook[h].event.kind = "deleted" THEN HookTo(h, "cancel")
     ELSE hook' = [hook EXCEPT ![h].at = "activate",
                               ![h].until = hook[h].event.end + Grace]
  /\ UNCHANGED <<now, shopVars, rowVars, billVars, stripeVars, jobVars>>

HookActivate(h) ==
  /\ hook[h].at = "activate"
  /\ Activate(HookSub(h), hook[h].until)
  /\ HookTo(h, "row")
  /\ UNCHANGED <<now, rowVars, billVars, stripeVars, jobVars>>

HookRow(h) ==
  /\ hook[h].at = "row"
  /\ row' = [row EXCEPT ![HookSub(h)] = "active"]
  /\ rowEnd' = [rowEnd EXCEPT ![HookSub(h)] = hook[h].until]
  /\ linked' = linked \cup {HookSub(h)}
  /\ HookDone(h)
  /\ UNCHANGED <<now, shopVars, billVars, stripeVars, jobVars>>

HookCancelRow(h) ==
  /\ hook[h].at = "cancel"
  /\ row' = [row EXCEPT ![HookSub(h)] = "canceled"]
  /\ HookTo(h, "check")
  /\ UNCHANGED <<now, shopVars, rowEnd, linked, billVars, stripeVars, jobVars>>

HookCheck(h) ==
  /\ hook[h].at = "check"
  /\ IF plan[ShopOf[HookSub(h)]] = PlanOf[HookSub(h)]
     THEN HookTo(h, "downgrade") ELSE HookDone(h)
  /\ UNCHANGED <<now, shopVars, rowVars, billVars, stripeVars, jobVars>>

HookDowngrade(h) ==
  /\ hook[h].at = "downgrade"
  /\ plan' = [plan EXCEPT ![ShopOf[HookSub(h)]] = Free]
  /\ planEnd' = [planEnd EXCEPT ![ShopOf[HookSub(h)]] = 0]
  /\ HookDone(h)
  /\ UNCHANGED <<now, rowVars, billVars, stripeVars, jobVars>>

(* 500, so that Stripe sends it again.                                     *)
HookFails(h) ==
  /\ hook[h].at # "idle"
  /\ HookDone(h)
  /\ UNCHANGED <<now, shopVars, rowVars, billVars, stripeVars, jobVars>>

HookStep(h) ==
  \/ \E e \in mail : Receive(h, e)
  \/ HookFind(h) \/ HookActivate(h) \/ HookRow(h)
  \/ HookCancelRow(h) \/ HookCheck(h) \/ HookDowngrade(h) \/ HookFails(h)

BillingNext ==
  \/ PassTime \/ JobStep \/ RoundFails
  \/ \E s \in CryptoSubs :
       \/ AskCrypto(s) \/ InsertCryptoRow(s) \/ InsertCryptoRowFails(s)
       \/ ConfirmBill(s) \/ ExpireBill(s) \/ SkipBill(s)
  \/ \E s \in CardSubs : OpenCard(s) \/ Subscribe(s) \/ RenewCard(s) \/ CancelCard(s)
  \/ \E h \in Handlers : HookStep(h)

(* The timer of the reconciler fires and its queries end.                  *)
BillingFairness == WF_billingVars(JobStep)

BillingSpec == BillingInit /\ [][BillingNext]_billingVars /\ BillingFairness

-----------------------------------------------------------------------------
BillingTypeOK ==
  /\ {now, mishaps} \subseteq Nat
  /\ plan \in [Shops -> Plans \cup {Free}] /\ planEnd \in [Shops -> Nat]
  /\ row \in [Subs -> {"none", "lost", "pending", "active", "expired", "canceled"}]
  /\ rowEnd \in [Subs -> Nat]
  /\ bill \in [CryptoSubs -> {"none", "pending", "confirmed", "expired"}]
  /\ written \in [CryptoSubs -> SUBSET {"confirmed", "expired"}]
  /\ billEnd \in [CryptoSubs -> Nat]
  /\ card \in [CardSubs -> {"none", "open", "paying", "ended"}]
  /\ paidTo \in [CardSubs -> Nat]
  /\ linked \subseteq CardSubs /\ todo \subseteq CryptoSubs
  /\ \A e \in mail : e.kind \in {"completed", "paid", "deleted"} /\ e.sub \in CardSubs
  /\ \A h \in Handlers : hook[h].at = "idle" \/ hook[h].event \in mail
  /\ job.at \in {"idle", "next", "merchant", "grant", "settle", "close"}

(* A merchant has no more of a plan than was paid for: the time left is    *)
(* what the last card charge bought (with the grace, from the moment the   *)
(* event arrived), and one period for each confirmed invoice of that plan; *)
(* a round that failed after activating may have added one more.  It is so *)
(* with changes of plan, events reordered and repeated, and both methods   *)
(* at work on the same merchant.                                           *)
ConfirmedOf(m, p) ==
  {s \in CryptoSubs : ShopOf[s] = m /\ PlanOf[s] = p /\ "confirmed" \in written[s]}
ChargedOf(m, p) == {s \in CardSubs : ShopOf[s] = m /\ PlanOf[s] = p /\ paidTo[s] > 0}
PaidUntil(m, p) == {now} \cup {paidTo[s] + Delay + Grace : s \in ChargedOf(m, p)}

PlanIsPaidFor ==
  \A m \in Shops : plan[m] # Free =>
    /\ ConfirmedOf(m, plan[m]) \cup ChargedOf(m, plan[m]) # {}
    /\ \E t \in PaidUntil(m, plan[m]) :
         planEnd[m] <= t + Period * (Cardinality(ConfirmedOf(m, plan[m])) + mishaps)

(* A confirmed payment of a subscription that was not given up is granted, *)
(* whenever it comes, whatever round fails and whatever else is in the     *)
(* round, unless a watcher that found the invoice expired writes so over   *)
(* the confirmation.                                                       *)
Owed(s) == /\ bill[s] = "confirmed" /\ row[s] = "pending"
           /\ ~(job.at = "close" /\ job.sub = s)

ConfirmedIsGranted == \A s \in CryptoSubs : Owed(s) ~> row[s] = "active" \/ bill[s] = "expired"

(* "they may have since paid in crypto" (billing.ts:377): a paid crypto    *)
(* period is not ended by the end of a card subscription.                  *)
CryptoStands ==
  \A s \in CryptoSubs :
    row[s] = "active" /\ rowEnd[s] >= now => plan[ShopOf[s]] # Free

(* One payment, one period: without the allowance for failed rounds.       *)
NoPeriodTwice ==
  \A m \in Shops : plan[m] # Free =>
    \E t \in PaidUntil(m, plan[m]) :
      planEnd[m] <= t + Period * Cardinality(ConfirmedOf(m, plan[m]))

(* Whatever is confirmed while it is subscribed is granted, even late.     *)
ConfirmedLateIsGranted ==
  \A s \in CryptoSubs :
    bill[s] = "confirmed" /\ row[s] \in {"pending", "expired"} ~> row[s] = "active"
=============================================================================
