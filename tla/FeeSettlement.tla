---------------------------- MODULE FeeSettlement ----------------------------
(***************************************************************************)
(* The zettapay Solana program (programs/zettapay/src/lib.rs): it binds    *)
(* handles to merchants, anchors payments, and anchors settlements with    *)
(* the protocol fee that was in force.  It moves no money.  Every record   *)
(* is an account that is created once and never changed; the fee is the    *)
(* only field with an update.                                              *)
(***************************************************************************)
EXTENDS Integers

CONSTANTS Handles,       \* handle and owner of the bindings
          Admins,        \* wallets that may call as the admin
          PaymentIds,    \* payment_id arguments
          Paid,          \* amounts that are settled, in USDC base units
          FeeRates,      \* rates an admin may ask for, in basis points
          InitFeeBps,    \* INIT_FEE_BPS
          MaxFeeBps,     \* MAX_FEE_BPS
          BpsDenom,      \* BPS_DENOM
          Nobody         \* the admin while the settings are absent

ASSUME FeeAssumption ==
  /\ Paid \subseteq Nat
  /\ FeeRates \subseteq Nat
  /\ InitFeeBps \in 0 .. MaxFeeBps
  /\ MaxFeeBps \in Nat
  /\ BpsDenom \in Nat
  /\ MaxFeeBps < BpsDenom
  /\ Nobody \notin Admins

VARIABLES admin,         \* Settings.admin, Nobody while there is no account
          feeBps,        \* Settings.fee_bps
          bound,         \* bindings that exist
          payments,      \* payments[<<b, p>>]: Payment.amount, 0 while there is none
          receipts       \* receipts[<<b, p>>]: the SettlementReceipt, with amount 0 while there is none

feeVars == <<admin, feeBps, bound, payments, receipts>>

Keys == Handles \X PaymentIds
Receipts == [amount : Nat, fee : Nat, merchant : Nat, bps : Nat]
NoReceipt == [amount |-> 0, fee |-> 0, merchant |-> 0, bps |-> 0]

FeeInit ==
  /\ admin = Nobody
  /\ feeBps = 0
  /\ bound = {}
  /\ payments = [k \in Keys |-> 0]
  /\ receipts = [k \in Keys |-> NoReceipt]

RegisterHandle(b) ==
  /\ b \notin bound
  /\ bound' = bound \cup {b}
  /\ UNCHANGED <<admin, feeBps, payments, receipts>>

RecordPayment(b, p, a) ==
  /\ a > 0
  /\ b \in bound
  /\ payments[<<b, p>>] = 0
  /\ payments' = [payments EXCEPT ![<<b, p>>] = a]
  /\ UNCHANGED <<admin, feeBps, bound, receipts>>

InitSettings(s) ==
  /\ admin = Nobody
  /\ admin' = s
  /\ feeBps' = InitFeeBps
  /\ UNCHANGED <<bound, payments, receipts>>

SetFeeBps(s, f) ==
  /\ f <= MaxFeeBps
  /\ admin = s
  /\ feeBps' = f
  /\ UNCHANGED <<admin, bound, payments, receipts>>

(* Mutant: the merchant's part is rounded down as well.                    *)
SplitLosesDust(a, bps) == [fee |-> (a * bps) \div BpsDenom,
                           merchant |-> (a * (BpsDenom - bps)) \div BpsDenom]

(* The fee is rounded down, and the merchant gets the rest.                *)
ComputeSplit(a, bps) == LET fee == (a * bps) \div BpsDenom
                        IN [fee |-> fee, merchant |-> a - fee]

SettlePayment(b, p, a) ==
  LET split == ComputeSplit(a, feeBps) IN
  /\ a > 0
  /\ admin # Nobody
  /\ feeBps <= MaxFeeBps
  /\ b \in bound
  /\ receipts[<<b, p>>].amount = 0
  /\ receipts' = [receipts EXCEPT ![<<b, p>>] =
       [amount |-> a, fee |-> split.fee, merchant |-> split.merchant, bps |-> feeBps]]
  /\ UNCHANGED <<admin, feeBps, bound, payments>>

FeeNext ==
  \/ \E b \in Handles : RegisterHandle(b)
  \/ \E b \in Handles, p \in PaymentIds, a \in Paid : RecordPayment(b, p, a)
  \/ \E s \in Admins : InitSettings(s)
  \/ \E s \in Admins, f \in FeeRates : SetFeeBps(s, f)
  \/ \E b \in Handles, p \in PaymentIds, a \in Paid : SettlePayment(b, p, a)

FeeSpec == FeeInit /\ [][FeeNext]_feeVars

-----------------------------------------------------------------------------
FeeTypeOK ==
  /\ admin \in Admins \cup {Nobody}
  /\ feeBps \in 0 .. MaxFeeBps
  /\ bound \subseteq Handles
  /\ payments \in [Keys -> Nat]
  /\ receipts \in [Keys -> Receipts]

(* What a receipt commits to adds up to the unit, whatever the rate was    *)
(* when it was written: fee and merchant's part are the amount, the fee is *)
(* the rate's share of it rounded down, and some of it is the merchant's   *)
(* (lib.rs: fee_amount "is always strictly less than amount").             *)
ReceiptsAddUp ==
  \A k \in Keys : LET r == receipts[k] IN r.amount > 0 =>
    /\ r.fee + r.merchant = r.amount
    /\ r.fee * BpsDenom <= r.amount * r.bps
    /\ r.amount * r.bps < (r.fee + 1) * BpsDenom
    /\ r.bps <= MaxFeeBps
    /\ r.merchant > 0
=============================================================================
