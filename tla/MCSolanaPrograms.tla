-------------------------- MODULE MCSolanaPrograms --------------------------
(* The two Solana programs and the cron that raises the cap of one.  The    *)
(* accounts of merchants, of the header chain and of the fee program share  *)
(* no state, and so are explored one part at a time: `part` tells which.    *)
(* The cron is explored with the configuration it changes.                  *)
(*                                                                          *)
(* A merchant settles two invoices by proofs of two signers, with two       *)
(* roots, under a cap one signer configures; a second merchant has a        *)
(* shorter chain set, and does not decode.  Two branches of headers turn a  *)
(* ring of three slots more than once.                                      *)
EXTENDS CapUpgrade, BtcHeaderChain, FeeSettlement, TLC

CONSTANTS alice, bob, s1, s2, rootA, rootB

VARIABLE part

Parts == {"settle", "cap", "headers", "fees"}

MCMasters == {alice, bob}
MCSigners == {s1, s2}
MCRoots == {rootA, rootB}

(* Two branches that both go on, at each height a header that ends one of  *)
(* them, and one that has not the work.                                    *)
Deepest == 7
MCHeaders == {<<d, x>> : d \in 1 .. Deepest, x \in 1 .. 4}
MCWorked == {h \in MCHeaders : h[2] < 4}
MCParentOf == [h \in MCHeaders |-> <<h[1] - 1, IF h[2] \in {1, 3} THEN 1 ELSE 2>>]
MCZero == <<0, 0>>

allVars == <<capVars, headerVars, feeVars, part>>

Init == /\ CoreInit /\ CronInit /\ HeaderInit /\ FeeInit
        /\ part \in Parts
        /\ part = "cap" \/ (wired /\ ~alerts)

OnlyCore    == part = "settle" /\ UNCHANGED <<cronVars, headerVars, feeVars, part>>
OnlyCron    == part = "cap" /\ UNCHANGED <<headerVars, feeVars, part>>
OnlyHeaders == part = "headers" /\ UNCHANGED <<capVars, feeVars, part>>
OnlyConfigOf(s) == /\ part = "cap" \/ (part = "settle" /\ s = s1)
                   /\ UNCHANGED <<cronVars, headerVars, feeVars, part>>
OnlyFees    == part = "fees" /\ UNCHANGED <<capVars, headerVars, part>>

Next ==
  \/ \E m \in Masters, n \in Lengths : RegisterMerchant(m, n) /\ (m = bob => n < MaxChains) /\ OnlyCore
  \/ \E m \in Masters, a \in Amounts : CreateInvoice(m, a) /\ OnlyCore
  \/ \E m \in Masters : \E S \in SUBSET Invoices : Sweep(m, S) /\ OnlyCore
  \/ \E v \in Invoices, s \in Signers, root \in Roots :
       SubmitBtcProofPart1(v, s, root) /\ OnlyCore
  \/ \E v \in Invoices, s \in Signers : SubmitBtcProofPart2(v, s) /\ OnlyCore
  \/ \E v \in Invoices : FinalizeBtcPayment(v) /\ OnlyCore
  \/ \E v \in Invoices, s \in Signers, root \in Roots :
       SubmitEthReceiptPart1(v, s, root) /\ OnlyCore
  \/ \E v \in Invoices, s \in Signers : SubmitEthReceiptPart2(v, s) /\ OnlyCore
  \/ \E v \in Invoices : FinalizeEthPayment(v) /\ OnlyCore
  \/ \E s \in Signers, c \in Caps : InitProgramConfig(s, c) /\ OnlyConfigOf(s)
  \/ \E s \in Signers, c \in Caps : SetMaxInvoiceAmount(s, c) /\ OnlyConfigOf(s)
  \/ BecomeDue /\ OnlyCron
  \/ ChangeAlerts /\ OnlyCron
  \/ \E k \in Ticks : StartTick(k) /\ OnlyCron
  \/ \E k \in Ticks : Land(k) /\ OnlyCron
  \/ \E k \in Ticks : TickApplied(k) /\ OnlyCron
  \/ \E k \in Ticks : TickFails(k) /\ OnlyCron
  \/ StrayLands /\ OnlyCron
  \/ StrayExpires /\ OnlyCron
  \/ Restart /\ OnlyCron
  \/ \E h \in Headers, n \in AnchorHeights : InitBtcHeaderChain(h, n) /\ OnlyHeaders
  \/ \E h \in Headers : UpdateBtcHeader(h) /\ OnlyHeaders
  \/ \E b \in Handles : RegisterHandle(b) /\ OnlyFees
  \/ \E b \in Handles, p \in PaymentIds, a \in Paid : RecordPayment(b, p, a) /\ OnlyFees
  \/ \E s \in Admins : InitSettings(s) /\ OnlyFees
  \/ \E s \in Admins, f \in FeeRates : SetFeeBps(s, f) /\ OnlyFees
  \/ \E b \in Handles, p \in PaymentIds, a \in Paid : SettlePayment(b, p, a) /\ OnlyFees

FairSpec == Init /\ [][Next]_allVars /\ (part = "cap" => CronFairness)

(* One type invariant for the parts.                                        *)
TypeOK == CoreTypeOK /\ CronTypeOK /\ HeaderTypeOK /\ FeeTypeOK

(* UpgradeIsRecorded, of the part that runs the cron.                       *)
CapIsRaised == part = "cap" => UpgradeIsRecorded
=============================================================================
