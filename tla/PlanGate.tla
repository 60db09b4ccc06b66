------------------------------ MODULE PlanGate ------------------------------
(***************************************************************************)
(* POST /invoice of the cloud (cloud/src/server.ts) for one merchant: the  *)
(* key is looked up, the monthly cap of the plan is checked (withinPlan),  *)
(* the body is read and the invoice created.  Each await ends an action,   *)
(* so requests count before the others have created.                       *)
(*                                                                         *)
(* A failing query of the gate is not caught: handle() rejects with nobody *)
(* waiting, which ends the process and every request in it.                *)
(*                                                                         *)
(* A merchant whose row arrives without its body reads as one on the free  *)
(* plan (supabase-db.ts:90), which is as if his plan changed and back.     *)
(*                                                                         *)
(* External: the body of the request, the calendar, and the plan, which    *)
(* Billing and the passing of time change.                                 *)
(***************************************************************************)
EXTENDS Integers, FiniteSets

CONSTANTS Posts,       \* requests of the merchant that may be in flight together
          Caps,        \* the monthly caps its plan may have
          Unlimited,   \* null: no cap
          Months,      \* the months 1 .. n of a behaviour
          MaxCreated   \* bound: invoices of a month

ASSUME GateAssumption ==
  /\ IsFiniteSet(Posts) /\ Posts # {}
  /\ Caps \subseteq Nat /\ Unlimited \notin Nat
  /\ Months \in Nat \ {0}

VARIABLES month,       \* the calendar month (UTC)
          cap,         \* limitForPlan(effectivePlan(merchant)) as of now
          post,        \* post[r]: where the request r is
          limit,       \* limit[r]: the cap r read, while it counts
          created,     \* created[m]: invoices with created_at in the month m
          compared,    \* history: compared[m]: the largest cap a count was compared with
          unmetered    \* history: months in which a request met no cap

gateVars == <<month, cap, post, limit, created, compared, unmetered>>

GateInit ==
  /\ month = 1
  /\ cap \in Caps \cup {Unlimited}
  /\ post = [r \in Posts |-> "idle"]
  /\ limit = [r \in Posts |-> 0]
  /\ created = [m \in 1 .. Months |-> 0]
  /\ compared = [m \in 1 .. Months |-> 0]
  /\ unmetered = {}

NextMonth ==
  /\ month < Months
  /\ month' = month + 1
  /\ UNCHANGED <<cap, post, limit, created, compared, unmetered>>

ChangePlan(c) ==
  /\ cap' = c
  /\ UNCHANGED <<month, post, limit, created, compared, unmetered>>

Go(r, pc) == post' = [post EXCEPT ![r] = pc]

(* requireMerchant, and a hit the limiter allows.                          *)
Authenticate(r) ==
  /\ post[r] = "idle"
  /\ Go(r, "merchant")
  /\ UNCHANGED <<month, cap, limit, created, compared, unmetered>>

(* withinPlan: the plan as the row has it now.                             *)
ReadPlan(r) ==
  /\ post[r] = "merchant"
  /\ cap # Unlimited
  /\ limit' = [limit EXCEPT ![r] = cap]
  /\ Go(r, "count")
  /\ UNCHANGED <<month, cap, created, compared, unmetered>>

ReadUnlimitedPlan(r) ==
  /\ post[r] = "merchant"
  /\ cap = Unlimited
  /\ unmetered' = unmetered \cup {month}
  /\ Go(r, "create")
  /\ UNCHANGED <<month, cap, limit, created, compared>>

(* Mutant: the invoice that reaches the cap is not counted.                *)
WithinOneMore(r) == created[month] <= limit[r]

Within(r) == created[month] < limit[r]

(* countInvoicesSince(merchantId, monthStartIso())                         *)
CountWithin(r) ==
  /\ post[r] = "count"
  /\ Within(r)
  /\ compared' = [compared EXCEPT ![month] = IF limit[r] > @ THEN limit[r] ELSE @]
  /\ limit' = [limit EXCEPT ![r] = 0]
  /\ Go(r, "create")
  /\ UNCHANGED <<month, cap, created, unmetered>>

(* 402 plan_limit_reached                                                  *)
CountRefuses(r) ==
  /\ post[r] = "count"
  /\ ~Within(r)
  /\ limit' = [limit EXCEPT ![r] = 0]
  /\ Go(r, "idle")
  /\ UNCHANGED <<month, cap, created, compared, unmetered>>

(* createBtc, createBase: the row is inserted.                             *)
CreateBill(r) ==
  /\ post[r] = "create"
  /\ created[month] < MaxCreated
  /\ created' = [created EXCEPT ![month] = @ + 1]
  /\ Go(r, "idle")
  /\ UNCHANGED <<month, cap, limit, compared, unmetered>>

(* A bad body (400), or an error of the creation (500), which is caught.   *)
CreateFails(r) ==
  /\ post[r] = "create"
  /\ Go(r, "idle")
  /\ UNCHANGED <<month, cap, limit, created, compared, unmetered>>

(* A query before the creation throws: the process ends.                   *)
GateFails(r) ==
  /\ post[r] \in {"idle", "merchant", "count"}
  /\ post' = [q \in Posts |-> "idle"]
  /\ limit' = [q \in Posts |-> 0]
  /\ UNCHANGED <<month, cap, created, compared, unmetered>>

GateStep(r) ==
  \/ Authenticate(r) \/ ReadPlan(r) \/ ReadUnlimitedPlan(r)
  \/ CountWithin(r) \/ CountRefuses(r)
  \/ CreateBill(r) \/ CreateFails(r) \/ GateFails(r)

GateNext == \/ NextMonth
            \/ \E c \in Caps \cup {Unlimited} : ChangePlan(c)
            \/ \E r \in Posts : GateStep(r)

GateSpec == GateInit /\ [][GateNext]_gateVars

-----------------------------------------------------------------------------
GateTypeOK ==
  /\ month \in 1 .. Months
  /\ cap \in Caps \cup {Unlimited}
  /\ post \in [Posts -> {"idle", "merchant", "count", "create"}]
  /\ limit \in [Posts -> Nat]
  /\ created \in [1 .. Months -> Nat]
  /\ compared \in [1 .. Months -> Nat]
  /\ unmetered \in SUBSET (1 .. Months)

(* "a merchant may create at most its plan's monthly invoice cap"          *)
(* (server.ts:385): the cap is exceeded by no more than the requests that  *)
(* were in flight together with the one that met it, over changes of plan, *)
(* the end of the month and requests that fail.                            *)
AtLeastOne(n) == IF n > 0 THEN n ELSE 1

CapHoldsUpToOverlap ==
  \A m \in (1 .. Months) \ unmetered :
    created[m] <= AtLeastOne(compared[m]) + Cardinality(Posts) - 1

(* The cap as server.ts:385 states it.                                     *)
CapHolds == \A m \in (1 .. Months) \ unmetered : created[m] <= AtLeastOne(compared[m])
=============================================================================
