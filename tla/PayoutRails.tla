---------------------------- MODULE PayoutRails ----------------------------
(***************************************************************************)
(* The ways money of a completed payment leaves again: a payout in reais    *)
(* by Pix, a payout to a bank by Coinflow, and a refund to the payer        *)
(* (pix/service.ts, coinflow/service.ts, services/refunds.ts of the API).   *)
(*                                                                         *)
(* Each way checks the payment and its own row, inserts the row and marks   *)
(* it processing in one turn of the event loop, and then awaits the         *)
(* provider.  One row for each way and payment is all there ever is: a row  *)
(* that failed is returned (payouts) or refused by the UNIQUE index of      *)
(* refunds(payment_id), and so is never tried again.                        *)
(*                                                                         *)
(* External: the provider or the cluster, which moves the money and whose   *)
(* answer may be lost, and the payment, which completes elsewhere.          *)
(***************************************************************************)
EXTENDS Naturals

CONSTANTS Paids,          \* payments
          MaxPayoutFaults \* bound: lost answers, failing audits and restarts

ASSUME PayoutAssumption == MaxPayoutFaults \in Nat

Rails == {"pix", "coinflow"}
Ways == Rails \cup {"refund"}
Outs == Ways \X Paids

VARIABLES settling,   \* the rails the merchant has enabled
          paidStatus, \* paidStatus[p]: status of the payment
          payout,     \* payout[<<w, p>>]: status of the row
          asked,      \* the outs the provider has been asked for, and has not refused
          awaiting,   \* the outs a handler of the process waits for
          moves,      \* history: moves[x]: how often money moved
          unsure,     \* history: outs whose answer or audit was lost
          payoutFaults

payoutVars == <<settling, paidStatus, payout, asked, awaiting, moves, unsure, payoutFaults>>

PayoutInit ==
  /\ settling = {}
  /\ paidStatus = [p \in Paids |-> "processing"]
  /\ payout = [x \in Outs |-> "none"]
  /\ asked = {}
  /\ awaiting = {}
  /\ moves = [x \in Outs |-> 0]
  /\ unsure = {}
  /\ payoutFaults = 0

CompletePayment(p) ==
  /\ paidStatus[p] = "processing"
  /\ paidStatus' = [paidStatus EXCEPT ![p] = "completed"]
  /\ UNCHANGED <<settling, payout, asked, awaiting, moves, unsure, payoutFaults>>

EnableRail(w) ==
  /\ settling' = settling \cup {w}
  /\ UNCHANGED <<paidStatus, payout, asked, awaiting, moves, unsure, payoutFaults>>

DisableRail(w) ==
  /\ settling' = settling \ {w}
  /\ UNCHANGED <<paidStatus, payout, asked, awaiting, moves, unsure, payoutFaults>>

(* Mutant: a failed row is tried again.                                     *)
NoRowUnlessFailed(x) == payout[x] \in {"none", "failed"}

(* The row found, if any, is returned or refused, in whatever status.       *)
NoRow(x) == payout[x] = "none"

Insert(x) ==
  /\ paidStatus[x[2]] = "completed"
  /\ NoRow(x)
  /\ payout' = [payout EXCEPT ![x] = "processing"]
  /\ asked' = asked \cup {x}
  /\ awaiting' = awaiting \cup {x}
  /\ UNCHANGED <<settling, paidStatus, moves, unsure, payoutFaults>>

SettleToRail(x) == x[1] \in settling /\ Insert(x)

Refund(x) == x[1] = "refund" /\ Insert(x)

MoveMoney(x) ==
  /\ x \in asked
  /\ asked' = asked \ {x}
  /\ moves' = [moves EXCEPT ![x] = @ + 1]
  /\ UNCHANGED <<settling, paidStatus, payout, awaiting, unsure, payoutFaults>>

(* markPaymentRefunded, after the refund's transfer.                        *)
Refunded(x) ==
  IF x[1] = "refund" THEN [paidStatus EXCEPT ![x[2]] = "refunded"] ELSE paidStatus

(* Mutant: a refund is marked before its transfer is confirmed.             *)
AnsweredEarly(x) == x \in awaiting

(* A refund's call returns once the transfer is confirmed.  A rail answers  *)
(* pending, processing or completed, and all but "failed" are taken alike.  *)
Answered(x) == x \in awaiting /\ (x[1] = "refund" => x \notin asked)

Confirm(x) ==
  /\ Answered(x)
  /\ payout' = [payout EXCEPT ![x] = "completed"]
  /\ paidStatus' = Refunded(x)
  /\ awaiting' = awaiting \ {x}
  /\ UNCHANGED <<settling, asked, moves, unsure, payoutFaults>>

(* A rail answers "failed", or the transfer does.                           *)
Reject(x) ==
  /\ x \in awaiting \cap asked
  /\ payout' = [payout EXCEPT ![x] = "failed"]
  /\ asked' = asked \ {x}
  /\ awaiting' = awaiting \ {x}
  /\ UNCHANGED <<settling, paidStatus, moves, unsure, payoutFaults>>

PayoutFault ==
  /\ payoutFaults < MaxPayoutFaults
  /\ payoutFaults' = payoutFaults + 1

(* The call throws although the money has moved, or still will.             *)
LoseReply(x) ==
  /\ PayoutFault
  /\ x \in awaiting
  /\ payout' = [payout EXCEPT ![x] = "failed"]
  /\ awaiting' = awaiting \ {x}
  /\ unsure' = unsure \cup {x}
  /\ UNCHANGED <<settling, paidStatus, asked, moves>>

(* appendAudit throws inside the try: the completed row becomes a failed    *)
(* one.  Pix writes no audit.                                               *)
AuditFails(x) ==
  /\ PayoutFault
  /\ x[1] # "pix" /\ Answered(x)
  /\ payout' = [payout EXCEPT ![x] = "failed"]
  /\ paidStatus' = Refunded(x)
  /\ awaiting' = awaiting \ {x}
  /\ unsure' = unsure \cup {x}
  /\ UNCHANGED <<settling, asked, moves>>

(* Rows that were processing stay so.                                       *)
ApiRestarts ==
  /\ PayoutFault
  /\ awaiting' = {}
  /\ unsure' = unsure \cup awaiting
  /\ UNCHANGED <<settling, paidStatus, payout, asked, moves>>

PayoutNext ==
  \/ \E p \in Paids : CompletePayment(p)
  \/ \E w \in Rails : EnableRail(w) \/ DisableRail(w)
  \/ \E x \in Outs : \/ SettleToRail(x) \/ Refund(x) \/ MoveMoney(x) \/ Confirm(x)
                     \/ Reject(x) \/ LoseReply(x) \/ AuditFails(x)
  \/ ApiRestarts

PayoutSpec == PayoutInit /\ [][PayoutNext]_payoutVars

(* The safety invariant.  Money moves at most once each way, whatever calls *)
(* are repeated and answers lost.  A completed refund, and a payment that   *)
(* reads refunded, has a transfer behind it; a completed payout has moved,  *)
(* or the provider took it and may yet move it.  Money that moved or still  *)
(* may, while the row is not completed, is awaited, or its answer, audit or *)
(* process was lost.                                                        *)
PaidOutAtMostOnce ==
  \A x \in Outs :
    /\ moves[x] + (IF x \in asked THEN 1 ELSE 0) <= 1
    /\ payout[x] = "completed" => moves[x] = 1 \/ (x[1] \in Rails /\ x \in asked)
    /\ paidStatus[x[2]] = "refunded" => moves[<<"refund", x[2]>>] = 1
    /\ moves[x] = 1 \/ x \in asked =>
         payout[x] = "completed" \/ x \in awaiting \cup unsure

(* By hand: a completed row has been paid out.  Violated: a rail that       *)
(* answers "pending" completes the row, and nothing asks it again.          *)
CompletedIsPaidOut ==
  \A x \in Outs : payout[x] = "completed" => moves[x] = 1

(* By hand: the money of a payment leaves by one way.  Violated: the ways   *)
(* do not look at each other's rows, and a refund may follow a payout or    *)
(* run beside one.                                                          *)
OneWayOut ==
  \A x, y \in Outs : x[2] = y[2] /\ moves[x] > 0 /\ moves[y] > 0 => x = y

PayoutTypeOK ==
  /\ settling \subseteq Rails
  /\ paidStatus \in [Paids -> {"processing", "completed", "refunded"}]
  /\ payout \in [Outs -> {"none", "processing", "completed", "failed"}]
  /\ asked \subseteq Outs /\ awaiting \subseteq Outs /\ unsure \subseteq Outs
  /\ moves \in [Outs -> Nat]
  /\ payoutFaults \in 0 .. MaxPayoutFaults
=============================================================================
