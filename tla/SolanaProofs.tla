---------------------------- MODULE SolanaProofs ----------------------------
(***************************************************************************)
(* Proofs about the Solana programs, for any number of merchants, invoices,*)
(* signers, headers and amounts: the settlement of invoices in             *)
(* zettapay-core, the cron that raises its cap, its ring of Bitcoin        *)
(* headers, and the fee split of zettapay.                                 *)
(***************************************************************************)
EXTENDS CapUpgrade, BtcHeaderChain, FeeSettlement, SequenceTheorems, FiniteSetTheorems,
        TLAPS

-----------------------------------------------------------------------------
(* zettapay-core.                                                          *)
CoreInv == CoreTypeOK /\ SettledByOneRail /\ IndexesAreDense

LEMMA CoreInvInit == ASSUME CoreInit PROVE CoreInv
  BY CoreAssumption DEF CoreInit, CoreInv, CoreTypeOK, SettledByOneRail, IndexesAreDense,
     Rails, Invoices, Statuses, ProofStatuses, Proofs, PaidOn

(* Each instruction preserves the invariant; those of the two rails are    *)
(* instances of one, whatever it is asked for a Bitcoin proof.             *)
LEMMA RegisterKeeps ==
  ASSUME CoreInv, NEW m \in Masters, NEW n \in Lengths, RegisterMerchant(m, n)
  PROVE  CoreInv'
  BY CoreAssumption DEF RegisterMerchant, CoreInv, CoreTypeOK, SettledByOneRail,
     IndexesAreDense

LEMMA CreateKeeps ==
  ASSUME CoreInv, NEW m \in Masters, NEW a \in Amounts, CreateInvoice(m, a)
  PROVE  CoreInv'
<1> DEFINE v == <<m, invoiceCount[m]>>
<1>1. /\ v \in Invoices /\ status[v] = "absent"
      /\ status' = [status EXCEPT ![v] = "open"]
      /\ amount' = [amount EXCEPT ![v] = a]
      /\ invoiceCount' = [invoiceCount EXCEPT ![m] = @ + 1]
      /\ UNCHANGED <<config, chains, proof>>
  BY DEF CreateInvoice
<1>2. invoiceCount[m] \in 0 .. MaxInvoices - 1
  BY <1>1 DEF Invoices
<1>3. CoreTypeOK'
  BY <1>1, <1>2, CoreAssumption DEF CoreInv, CoreTypeOK, Statuses
<1>4. SettledByOneRail'
  BY <1>1 DEF CoreInv, CoreTypeOK, SettledByOneRail, PaidOn, Rails
<1>5. IndexesAreDense'
  <2> SUFFICES ASSUME NEW k \in Masters, NEW i \in 0 .. MaxInvoices - 1
               PROVE  status'[<<k, i>>] # "absent" <=> i < invoiceCount'[k]
    BY <1>1 DEF IndexesAreDense
  <2>1. <<k, i>> \in Invoices /\ (status[<<k, i>>] # "absent" <=> i < invoiceCount[k])
    BY DEF CoreInv, IndexesAreDense, Invoices
  <2>2. CASE <<k, i>> = v
    BY <1>1, <1>2, <2>1, <2>2 DEF CoreInv, CoreTypeOK
  <2>3. CASE <<k, i>> # v
    <3>1. status'[<<k, i>>] = status[<<k, i>>]
      BY <1>1, <2>1, <2>3 DEF CoreInv, CoreTypeOK
    <3>2. k = m => i # invoiceCount[m]
      BY <2>3
    <3>3. invoiceCount'[k] = IF k = m THEN invoiceCount[k] + 1 ELSE invoiceCount[k]
      BY <1>1 DEF CoreInv, CoreTypeOK
    <3>4. invoiceCount[k] \in Int /\ i \in Int
      BY DEF CoreInv, CoreTypeOK
    <3>5. i < invoiceCount'[k] <=> i < invoiceCount[k]
      BY <3>2, <3>3, <3>4
    <3> QED BY <2>1, <3>1, <3>5
  <2> QED BY <2>2, <2>3
<1> QED BY <1>3, <1>4, <1>5 DEF CoreInv

LEMMA SweepKeeps ==
  ASSUME CoreInv, NEW m \in Masters, NEW S \in SUBSET Invoices, Sweep(m, S)
  PROVE  CoreInv'
<1>1. /\ \A v \in S : status[v] = "open"
      /\ status' = [v \in Invoices |-> IF v \in S THEN "swept" ELSE status[v]]
      /\ UNCHANGED <<config, chains, invoiceCount, amount, proof>>
  BY DEF Sweep
<1>2. CoreTypeOK'
  BY <1>1 DEF CoreInv, CoreTypeOK, Statuses
<1>3. SettledByOneRail'
  BY <1>1 DEF CoreInv, CoreTypeOK, SettledByOneRail, PaidOn, Rails
<1>4. IndexesAreDense'
  BY <1>1 DEF CoreInv, CoreTypeOK, IndexesAreDense, Invoices
<1> QED BY <1>2, <1>3, <1>4 DEF CoreInv

LEMMA OpenKeeps ==
  ASSUME CoreInv, NEW r \in Rails, NEW v \in Invoices, NEW s \in Signers,
         NEW root \in Roots, OpenProof(r, v, s, root)
  PROVE  CoreInv'
  BY DEF OpenProof, CoreInv, CoreTypeOK, SettledByOneRail, IndexesAreDense,
     Rails, Proofs, ProofStatuses, PaidOn

LEMMA VerifyKeeps ==
  ASSUME CoreInv, NEW r \in Rails, NEW v \in Invoices, NEW s \in Signers,
         VerifyProof(r, v, s)
  PROVE  CoreInv'
<1>1. /\ proof[r][v].status = "part1"
      /\ proof' = [proof EXCEPT ![r][v].status = "part2"]
      /\ UNCHANGED <<config, chains, invoiceCount, status, amount>>
  BY DEF VerifyProof
<1>2. CoreTypeOK'
  <2>1. proof[r][v] \in Proofs
    BY DEF CoreInv, CoreTypeOK
  <2>2. [proof[r][v] EXCEPT !.status = "part2"] \in Proofs
    BY <2>1 DEF Proofs, ProofStatuses
  <2>3. proof' \in [Rails -> [Invoices -> Proofs]]
    BY <1>1, <2>2 DEF CoreInv, CoreTypeOK
  <2> QED BY <1>1, <2>3 DEF CoreInv, CoreTypeOK
<1>3. SettledByOneRail'
  BY <1>1 DEF CoreInv, CoreTypeOK, SettledByOneRail, Rails, Proofs, PaidOn
<1>4. IndexesAreDense'
  BY <1>1 DEF CoreInv, IndexesAreDense
<1> QED BY <1>2, <1>3, <1>4 DEF CoreInv

LEMMA FinalizeKeeps ==
  ASSUME CoreInv, NEW r \in Rails, NEW v \in Invoices, Finalize(r, v)
  PROVE  CoreInv'
<1>1. /\ proof[r][v].status = "part2" /\ status[v] = "open"
      /\ status' = [status EXCEPT ![v] = PaidOn(r)]
      /\ proof' = [proof EXCEPT ![r][v].status = "finalized"]
      /\ UNCHANGED <<config, chains, invoiceCount, amount>>
  BY DEF Finalize
<1>2. CoreTypeOK'
  <2>1. status' \in [Invoices -> Statuses]
    BY <1>1 DEF CoreInv, CoreTypeOK, Statuses, PaidOn
  <2>2. proof[r][v] \in Proofs
    BY DEF CoreInv, CoreTypeOK
  <2>3. [proof[r][v] EXCEPT !.status = "finalized"] \in Proofs
    BY <2>2 DEF Proofs, ProofStatuses
  <2>4. proof' \in [Rails -> [Invoices -> Proofs]]
    BY <1>1, <2>3 DEF CoreInv, CoreTypeOK
  <2> QED BY <1>1, <2>1, <2>4 DEF CoreInv, CoreTypeOK
<1>3. SettledByOneRail'
  BY <1>1 DEF CoreInv, CoreTypeOK, SettledByOneRail, Rails, Proofs, PaidOn
<1>4. IndexesAreDense'
  BY <1>1 DEF CoreInv, CoreTypeOK, IndexesAreDense, Invoices, PaidOn
<1> QED BY <1>2, <1>3, <1>4 DEF CoreInv

LEMMA ConfigKeeps ==
  ASSUME CoreInv, NEW s \in Signers, NEW c \in Caps,
         InitProgramConfig(s, c) \/ SetMaxInvoiceAmount(s, c)
  PROVE  CoreInv'
  BY CoreAssumption DEF InitProgramConfig, SetMaxInvoiceAmount, CoreInv, CoreTypeOK,
     SettledByOneRail, IndexesAreDense

LEMMA CoreInvNext == ASSUME CoreInv, [CoreNext]_coreVars PROVE CoreInv'
<1>1. CASE UNCHANGED coreVars
  BY <1>1 DEF coreVars, CoreInv, CoreTypeOK, SettledByOneRail, IndexesAreDense
<1>2. CASE \E m \in Masters, n \in Lengths : RegisterMerchant(m, n)
  BY <1>2, RegisterKeeps
<1>3. CASE \E m \in Masters, a \in Amounts : CreateInvoice(m, a)
  BY <1>3, CreateKeeps
<1>4. CASE \E m \in Masters : \E S \in SUBSET Invoices : Sweep(m, S)
  BY <1>4, SweepKeeps
<1>5. CASE \E v \in Invoices, s \in Signers, root \in Roots :
             SubmitBtcProofPart1(v, s, root) \/ SubmitEthReceiptPart1(v, s, root)
  BY <1>5, OpenKeeps DEF SubmitBtcProofPart1, SubmitEthReceiptPart1, Rails
<1>6. CASE \E v \in Invoices, s \in Signers :
             SubmitBtcProofPart2(v, s) \/ SubmitEthReceiptPart2(v, s)
  BY <1>6, VerifyKeeps DEF SubmitBtcProofPart2, SubmitEthReceiptPart2, Rails
<1>7. CASE \E v \in Invoices : FinalizeBtcPayment(v) \/ FinalizeEthPayment(v)
  BY <1>7, FinalizeKeeps DEF FinalizeBtcPayment, FinalizeEthPayment, Rails
<1>8. CASE \E s \in Signers, c \in Caps :
             InitProgramConfig(s, c) \/ SetMaxInvoiceAmount(s, c)
  BY <1>8, ConfigKeeps
<1> QED BY <1>1, <1>2, <1>3, <1>4, <1>5, <1>6, <1>7, <1>8 DEF CoreNext

LEMMA CoreInvariant == CoreSpec => []CoreInv
  BY CoreInvInit, CoreInvNext, PTL DEF CoreSpec

(* An invoice is paid on a rail exactly when its proof there is finalized, *)
(* so it is settled once (lib.rs, the three finalizing instructions).      *)
THEOREM CoreOneRail == CoreSpec => []SettledByOneRail
  BY CoreInvariant, PTL DEF CoreInv

(* The invoices of a merchant are numbered without a gap.                  *)
THEOREM CoreDense == CoreSpec => []IndexesAreDense
  BY CoreInvariant, PTL DEF CoreInv

(* What part 1 of a proof committed to stays, up to its payment.           *)
THEOREM CoreProofStaysBound == CoreSpec => ProofStaysBound
<1> DEFINE Stays == \A r \in Rails, v \in Invoices : proof[r][v].status # "absent" =>
                      /\ proof'[r][v].submitter = proof[r][v].submitter
                      /\ proof'[r][v].root = proof[r][v].root
<1>1. CoreInv /\ [CoreNext]_coreVars => [Stays]_coreVars
  <2> SUFFICES ASSUME CoreInv, CoreNext PROVE Stays
    OBVIOUS
  <2> USE DEF CoreInv, CoreTypeOK
  <2>1. CASE UNCHANGED proof
    BY <2>1
  <2>2. CASE \E r \in Rails, v \in Invoices, s \in Signers, root \in Roots :
               OpenProof(r, v, s, root)
    BY <2>2 DEF OpenProof
  <2>3. CASE \E r \in Rails, v \in Invoices, s \in Signers : VerifyProof(r, v, s)
    BY <2>3 DEF VerifyProof, Proofs
  <2>4. CASE \E r \in Rails, v \in Invoices : Finalize(r, v)
    BY <2>4 DEF Finalize, Proofs
  <2> QED
    BY <2>1, <2>2, <2>3, <2>4 DEF CoreNext, RegisterMerchant, CreateInvoice, Sweep,
       SubmitBtcProofPart1, SubmitEthReceiptPart1, SubmitBtcProofPart2,
       SubmitEthReceiptPart2, FinalizeBtcPayment, FinalizeEthPayment,
       InitProgramConfig, SetMaxInvoiceAmount, Rails
<1> QED BY <1>1, CoreInvariant, PTL DEF CoreSpec, ProofStaysBound

-----------------------------------------------------------------------------
(* The cron that raises the cap.  While nothing disturbs it, one tick of   *)
(* the interval is under way at most, no row is there yet, and only its    *)
(* own transaction can have landed.                                        *)
CronCounts ==
  /\ running \in BOOLEAN
  /\ tick \in [Ticks -> {"idle", "sending"}]
  /\ sent \in [Ticks -> {"no", "sent", "landed", "skipped"}]
  /\ stray \in Nat /\ rows \in Nat /\ raised \in Nat
  /\ failures \in Nat /\ restarts \in Nat

UnderWay(k) == k \in Ticks /\ tick[k] = "sending"

OneTick ==
  /\ stray = 0 /\ raised <= 1 /\ rows <= 1
  /\ \A k \in Ticks : UnderWay(k) =>
       /\ k \in TimerTicks /\ running = TRUE /\ rows = 0
       /\ sent[k] # "no" /\ (sent[k] = "landed" <=> raised = 1)
  /\ \A j, k \in Ticks : UnderWay(j) /\ UnderWay(k) => j = k
  /\ raised = 1 => rows = 1 \/ \E k \in Ticks : UnderWay(k)

CronInv == CronCounts /\ (Undisturbed => OneTick)

LEMMA CronInvInit == ASSUME CronInit PROVE CronInv
<1>1. \A k \in Ticks : ~UnderWay(k)
  BY DEF CronInit, UnderWay
<1>2. running \in BOOLEAN
  BY Zenon DEF CronInit
<1>3. CronCounts
  BY <1>2 DEF CronInit, CronCounts
<1> QED BY <1>1, <1>3 DEF CronInit, CronInv, OneTick

(* What disturbs the cron is not forgotten.                                *)
LEMMA StartTickKeeps ==
  ASSUME CronInv, NEW k \in Ticks, StartTick(k) PROVE CronInv'
<1> USE DEF CronInv, CronCounts
<1>1. /\ tick[k] = "idle" /\ rows = 0
      /\ tick' = [tick EXCEPT ![k] = "sending"]
      /\ sent' = [sent EXCEPT ![k] = IF wired THEN "sent" ELSE "skipped"]
      /\ UNCHANGED <<stray, rows, raised, failures, restarts>>
  BY DEF StartTick, Proceeds
<1>2. sent'[k] \in {"sent", "skipped"} /\ \A j \in Ticks \ {k} : sent'[j] = sent[j]
  BY <1>1
<1>3. CASE k \in TimerTicks
  <2>1. running' = TRUE /\ (running = TRUE => FALSE)
    BY <1>3 DEF StartTick
  <2>2. CronCounts'
    BY <1>1, <1>2, <2>1
  <2>3. Undisturbed' => Undisturbed
    BY <1>1, <1>2 DEF Undisturbed, Ticks
  <2>4. ASSUME Undisturbed' PROVE OneTick'
    <3>1. OneTick
      BY <2>3, <2>4
    <3>2. \A j \in Ticks : ~UnderWay(j)
      BY <2>1, <3>1 DEF OneTick
    <3>3. raised = 0
      BY <1>1, <3>1, <3>2 DEF OneTick
    <3>4. \A j \in Ticks : UnderWay(j)' <=> j = k
      BY <1>1, <3>2 DEF UnderWay
    <3> QED BY <1>1, <1>2, <1>3, <2>1, <3>1, <3>3, <3>4 DEF OneTick
  <2> QED BY <2>2, <2>4
<1>4. CASE k \notin TimerTicks
  <2>1. UNCHANGED running
    BY <1>4 DEF StartTick
  <2>2. ~Undisturbed'
    BY <1>2, <1>4 DEF Undisturbed, Ticks
  <2> QED BY <1>1, <1>2, <2>1, <2>2
<1> QED BY <1>3, <1>4

LEMMA LandKeeps ==
  ASSUME CronInv, NEW k \in Ticks, Land(k) PROVE CronInv'
<1>1. /\ sent[k] = "sent" /\ UnderWay(k)
      /\ sent' = [sent EXCEPT ![k] = "landed"] /\ raised' = raised + 1
      /\ UNCHANGED <<running, tick, stray, rows, failures, restarts>>
  BY DEF Land, UnderWay
<1>2. CronCounts'
  BY <1>1 DEF CronInv, CronCounts
<1>3. \A j \in Ticks : UnderWay(j)' <=> UnderWay(j)
  BY <1>1 DEF UnderWay
<1>4. Undisturbed' => Undisturbed
  BY <1>1 DEF Undisturbed, CronInv, CronCounts, Ticks
<1>5. ASSUME Undisturbed' PROVE OneTick'
  <2>1. OneTick /\ raised = 0 /\ \A j \in Ticks : UnderWay(j) <=> j = k
    BY <1>1, <1>4, <1>5 DEF CronInv, CronCounts, OneTick
  <2> QED BY <1>1, <1>3, <2>1 DEF OneTick, CronInv, CronCounts
<1> QED BY <1>2, <1>5 DEF CronInv

LEMMA TickEndKeeps ==
  ASSUME CronInv, NEW k \in Ticks, TickApplied(k) \/ TickFails(k) PROVE CronInv'
<1>1. /\ UnderWay(k) /\ tick' = [tick EXCEPT ![k] = "idle"]
      /\ UNCHANGED <<sent, raised, restarts>>
  BY DEF TickApplied, TickFails, UnderWay
<1>2. running' \in BOOLEAN
  BY Zenon DEF TickApplied, TickFails, Release
<1>3. stray' \in Nat /\ rows' \in Nat /\ failures' \in Nat
  BY DEF TickApplied, TickFails, CronInv, CronCounts
<1>4. CronCounts'
  BY <1>1, <1>2, <1>3 DEF CronInv, CronCounts
<1>5. \A j \in Ticks : UnderWay(j)' <=> UnderWay(j) /\ j # k
  BY <1>1 DEF UnderWay, CronInv, CronCounts
<1>6. Undisturbed' => Undisturbed
  BY <1>1 DEF TickApplied, TickFails, Undisturbed, CronInv, CronCounts
<1>7. ASSUME Undisturbed' PROVE OneTick'
  <2>1. OneTick /\ rows = 0 /\ \A j \in Ticks : ~UnderWay(j)'
    BY <1>1, <1>5, <1>6, <1>7 DEF CronInv, OneTick
  <2>2. CASE TickApplied(k)
    BY <1>1, <2>1, <2>2 DEF OneTick, TickApplied
  <2>3. CASE TickFails(k)
    <3>1. failures' = 0 /\ failures = 0
      BY <1>6, <1>7 DEF Undisturbed
    <3>2. Refused(k)
      BY <2>3, <3>1 DEF TickFails
    <3>3. sent[k] = "sent" /\ stray' = stray /\ rows' = rows
      BY <2>3, <3>2 DEF TickFails, Refused
    <3>4. raised = 0
      BY <1>1, <2>1, <3>3 DEF OneTick, CronInv, CronCounts
    <3> QED BY <1>1, <2>1, <3>3, <3>4 DEF OneTick
  <2> QED BY <2>2, <2>3
<1> QED BY <1>4, <1>7 DEF CronInv

LEMMA CronInvNext ==
  ASSUME CronInv, [CronNext \/ (CoreNext /\ UNCHANGED cronVars)]_capVars
  PROVE  CronInv'
<1>1. CASE UNCHANGED <<running, tick, sent, stray, rows, raised, failures, restarts>>
  BY <1>1 DEF CronInv, CronCounts, OneTick, Undisturbed, UnderWay
<1>2. ASSUME NEW k \in Ticks, StartTick(k) \/ Land(k) \/ TickApplied(k) \/ TickFails(k)
      PROVE  CronInv'
  BY <1>2, StartTickKeeps, LandKeeps, TickEndKeeps
<1>3. CASE StrayLands \/ StrayExpires
  <2>1. /\ stray > 0 /\ stray' = stray - 1 /\ raised' \in {raised, raised + 1}
        /\ UNCHANGED <<running, tick, sent, rows, failures, restarts>>
    BY <1>3 DEF StrayLands, StrayExpires
  <2>2. CronCounts'
    BY <2>1 DEF CronInv, CronCounts
  <2>3. ~Undisturbed'
    BY <2>1 DEF CronInv, CronCounts, OneTick, Undisturbed
  <2> QED BY <2>2, <2>3 DEF CronInv
<1>4. CASE Restart
  <2> DEFINE sending == {k \in Ticks : tick[k] = "sending" /\ sent[k] = "sent"}
  <2>1. restarts' = restarts + 1 /\ stray' = stray + Cardinality(sending)
        /\ tick' = [k \in Ticks |-> "idle"] /\ UNCHANGED <<sent, rows, raised, failures>>
    BY <1>4 DEF Restart
  <2>2. running' \in BOOLEAN
    BY <1>4, Zenon DEF Restart
  <2>3. Cardinality(sending) \in Nat
    BY CronAssumption, FS_Subset, FS_CardinalityType
  <2>4. CronCounts'
    BY <2>1, <2>2, <2>3 DEF CronInv, CronCounts
  <2>5. ~Undisturbed'
    BY <2>1 DEF CronInv, CronCounts, Undisturbed
  <2> QED BY <2>4, <2>5 DEF CronInv
<1> QED
  BY <1>1, <1>2, <1>3, <1>4 DEF CronNext, capVars, cronVars, BecomeDue, ChangeAlerts

(* "we cannot apply the upgrade twice" (cap_upgrade.ts:147-151), whenever  *)
(* the ticks fall, unless a tick fails after its transaction was sent, is  *)
(* called by hand, or the worker is replaced.                              *)
THEOREM CapAppliedOnce == CapSpec => []AppliedOnce
<1>1. CronInv => AppliedOnce
  BY DEF CronInv, OneTick, AppliedOnce
<1> QED BY <1>1, CronInvInit, CronInvNext, PTL DEF CapSpec

-----------------------------------------------------------------------------
(* The ring of headers.  The newest header is in the slot of the head.     *)
HeaderInv == HeaderTypeOK /\ (count > 0 => latestHash = ring[headIndex])

Stored == Headers \cup {Zero}

LEMMA SlotAfterWraps ==
  ASSUME NEW s \in 0 .. Window - 1
  PROVE  SlotAfter(s) = IF s + 1 = Window THEN 0 ELSE s + 1
  BY HeaderAssumption DEF SlotAfter

LEMMA HeaderInvInit == ASSUME HeaderInit PROVE HeaderInv
  BY HeaderAssumption DEF HeaderInit, HeaderInv, HeaderTypeOK

LEMMA HeaderInvNext == ASSUME HeaderInv, [HeaderNext]_headerVars PROVE HeaderInv'
<1> USE HeaderAssumption DEF HeaderInv, HeaderTypeOK
<1>1. ASSUME NEW h \in Headers, NEW n \in AnchorHeights, InitBtcHeaderChain(h, n)
      PROVE  HeaderInv'
  BY <1>1 DEF InitBtcHeaderChain
<1>2. ASSUME NEW h \in Headers, UpdateBtcHeader(h) PROVE HeaderInv'
  BY <1>2, SlotAfterWraps DEF UpdateBtcHeader
<1>3. CASE UNCHANGED headerVars
  BY <1>3 DEF headerVars
<1> QED BY <1>1, <1>2, <1>3 DEF HeaderNext

(* What can be read is a sequence of count headers, the newest last.       *)
KeptReads ==
  /\ Kept \in Seq(Stored) /\ Len(Kept) = count
  /\ \A k \in 1 .. count : Kept[k] = ring[SlotBack(headIndex, count - k)]
  /\ count > 0 => Kept[count] = latestHash

LEMMA KeptIsRead == HeaderInv => KeptReads
<1> SUFFICES ASSUME HeaderInv PROVE KeptReads
  OBVIOUS
<1> USE HeaderAssumption DEF HeaderInv, HeaderTypeOK
<1>1. \A k \in 1 .. count : SlotBack(headIndex, count - k) \in 0 .. Window - 1
  BY DEF SlotBack
<1>2. \A k \in 1 .. count : ring[SlotBack(headIndex, count - k)] \in Stored
  BY <1>1 DEF Stored
<1>3. Kept \in [1 .. count -> Stored]
  BY <1>2 DEF Kept
<1>4. Kept \in Seq(Stored) /\ Len(Kept) = count
  BY <1>3
<1>5. \A k \in 1 .. count : Kept[k] = ring[SlotBack(headIndex, count - k)]
  BY DEF Kept
<1>6. count > 0 => SlotBack(headIndex, count - count) = headIndex
  BY DEF SlotBack
<1> QED BY <1>4, <1>5, <1>6 DEF KeptReads

LEMMA KeptIsReadNext == HeaderInv' => KeptReads'
  BY KeptIsRead, PTL

(* After an update, what was k back is k + 1 back, and not overwritten.    *)
LEMMA UpdateShifts ==
  ASSUME HeaderInv, NEW h \in Headers, UpdateBtcHeader(h),
         NEW k \in 0 .. Window - 2
  PROVE  /\ SlotBack(headIndex', k + 1) = SlotBack(headIndex, k)
         /\ SlotBack(headIndex, k) # SlotAfter(headIndex)
         /\ SlotBack(headIndex, k) \in 0 .. Window - 1
<1>1. headIndex' = IF headIndex + 1 = Window THEN 0 ELSE headIndex + 1
  BY SlotAfterWraps DEF UpdateBtcHeader, HeaderInv, HeaderTypeOK
<1>2. SlotAfter(headIndex) = IF headIndex + 1 = Window THEN 0 ELSE headIndex + 1
  BY SlotAfterWraps DEF HeaderInv, HeaderTypeOK
<1> QED BY <1>1, <1>2, HeaderAssumption DEF SlotBack, HeaderInv, HeaderTypeOK

LEMMA UpdateExtends ==
  ASSUME HeaderInv, HeaderInv', NEW h \in Headers, UpdateBtcHeader(h)
  PROVE  Reference!Extend(h)
<1> USE HeaderAssumption
<1>1. /\ count > 0 /\ ParentOf[h] = latestHash
      /\ ring' = [ring EXCEPT ![SlotAfter(headIndex)] = h]
      /\ headIndex' = SlotAfter(headIndex)
      /\ count' = IF count < Window THEN count + 1 ELSE count
      /\ latestHash' = h /\ latestHeight' = latestHeight + 1
  BY DEF UpdateBtcHeader
<1>2. count \in 0 .. Window /\ Window \in Nat /\ ring \in [0 .. Window - 1 -> Stored]
  BY DEF HeaderInv, HeaderTypeOK, Stored
<1>3. /\ Kept \in Seq(Stored) /\ Len(Kept) = count
      /\ \A k \in 1 .. count : Kept[k] = ring[SlotBack(headIndex, count - k)]
      /\ Kept[count] = latestHash
  BY <1>1, KeptIsRead DEF KeptReads
<1>4. /\ Kept' \in Seq(Stored) /\ Len(Kept') = count'
      /\ \A k \in 1 .. count' : Kept'[k] = ring'[SlotBack(headIndex', count' - k)]
      /\ Kept'[count'] = h
  <2>1. KeptReads'
    BY KeptIsReadNext
  <2>2. count' > 0
    BY <1>1, <1>2
  <2> QED BY <1>1, <2>1, <2>2 DEF KeptReads
<1>5. \A j \in 0 .. Window - 2 : ring'[SlotBack(headIndex', j + 1)] = ring[SlotBack(headIndex, j)]
  BY <1>1, <1>2, UpdateShifts
<1>6. CASE count < Window
  <2> DEFINE longer == Append(Kept, h)
  <2>1. /\ longer \in Seq(Stored) /\ Len(longer) = count + 1
        /\ \A k \in 1 .. count : longer[k] = Kept[k]
        /\ longer[count + 1] = h
    BY <1>3, AppendProperties DEF Stored
  <2>2. \A k \in 1 .. count + 1 : Kept'[k] = longer[k]
    <3> SUFFICES ASSUME NEW k \in 1 .. count PROVE Kept'[k] = longer[k]
      BY <1>1, <1>2, <1>4, <1>6, <2>1
    <3>1. count - k \in 0 .. Window - 2 /\ (count - k) + 1 = count' - k /\ k \in 1 .. count'
      BY <1>1, <1>2, <1>6
    <3>2. Kept'[k] = ring'[SlotBack(headIndex', (count - k) + 1)]
      BY <1>4, <3>1
    <3> QED BY <1>3, <1>5, <2>1, <3>1, <3>2
  <2>3. Kept' = longer
    BY <1>1, <1>4, <1>6, <2>1, <2>2, SeqEqual
  <2> QED BY <1>1, <1>2, <1>3, <1>6, <2>3, EmptySeq DEF Reference!Extend
<1>7. CASE count = Window
  <2> DEFINE moved == Append(Tail(Kept), h)
  <2>1. /\ Tail(Kept) \in Seq(Stored) /\ Len(Tail(Kept)) = count - 1
        /\ \A k \in 1 .. count - 1 : Tail(Kept)[k] = Kept[k + 1]
    BY <1>1, <1>3, HeadTailProperties, EmptySeq
  <2>2. /\ moved \in Seq(Stored) /\ Len(moved) = count
        /\ \A k \in 1 .. count - 1 : moved[k] = Kept[k + 1]
        /\ moved[count] = h
    BY <1>1, <1>2, <2>1, AppendProperties DEF Stored
  <2>3. \A k \in 1 .. count : Kept'[k] = moved[k]
    <3> SUFFICES ASSUME NEW k \in 1 .. count - 1 PROVE Kept'[k] = moved[k]
      BY <1>1, <1>2, <1>4, <1>7, <2>2
    <3>1. /\ count - (k + 1) \in 0 .. Window - 2
          /\ (count - (k + 1)) + 1 = count' - k /\ k \in 1 .. count' /\ k + 1 \in 1 .. count
      BY <1>1, <1>2, <1>7
    <3>2. Kept'[k] = ring'[SlotBack(headIndex', (count - (k + 1)) + 1)]
      BY <1>4, <3>1
    <3> QED BY <1>3, <1>5, <2>2, <3>1, <3>2
  <2>4. Kept' = moved
    <3>1. Len(Kept') = Len(moved) /\ \A k \in 1 .. Len(Kept') : Kept'[k] = moved[k]
      BY <1>1, <1>2, <1>4, <1>7, <2>2, <2>3
    <3> HIDE DEF moved
    <3> QED BY <1>4, <2>2, <3>1, SeqEqual
  <2> QED BY <1>1, <1>2, <1>3, <1>7, <2>4, EmptySeq DEF Reference!Extend
<1> QED BY <1>2, <1>6, <1>7

LEMMA InitAnchors ==
  ASSUME HeaderInv, HeaderInv', NEW h \in Headers, NEW n \in AnchorHeights,
         InitBtcHeaderChain(h, n)
  PROVE  Reference!Anchor(h, n)
<1>1. count = 0 /\ count' = 1 /\ headIndex' = 0 /\ ring'[0] = h /\ latestHeight' = n
  BY HeaderAssumption DEF InitBtcHeaderChain, HeaderInv, HeaderTypeOK
<1>2. Kept = <<>>
  BY <1>1, KeptIsRead, EmptySeq DEF KeptReads
<1>3. Kept' = <<h>>
  BY <1>1 DEF Kept, SlotBack
<1> QED BY <1>1, <1>2, <1>3 DEF Reference!Anchor

(* The ring, its head and its count are the window of the last headers of  *)
(* one chain, for a window of any length and over any number of turns.     *)
THEOREM RingImplementsWindow == HeaderSpec => ImplementsWindow
<1>1. HeaderInit => Reference!Init
  BY DEF HeaderInit, Reference!Init, Kept
<1>2. HeaderInv /\ HeaderInv' /\ [HeaderNext]_headerVars
        => [Reference!Next]_<<Kept, latestHeight>>
  BY UpdateExtends, InitAnchors DEF HeaderNext, headerVars, Reference!Next, Kept, SlotBack
<1> QED BY <1>1, <1>2, HeaderInvInit, HeaderInvNext, PTL
        DEF HeaderSpec, ImplementsWindow, Reference!Spec

(* Whatever is read from the ring is consecutive.                          *)
THEOREM RingIsAChain == HeaderSpec => []WindowIsAChain
<1> DEFINE Chain == \A k \in 1 .. Len(Kept) - 1 : ParentOf[Kept[k + 1]] = Kept[k]
<1>1. HeaderInit => Chain
  BY HeaderAssumption DEF HeaderInit, Kept
<1>2. ASSUME HeaderInv, HeaderInv', Chain, [HeaderNext]_headerVars PROVE Chain'
  <2>1. CASE UNCHANGED headerVars
    BY <1>2, <2>1 DEF headerVars, Kept, SlotBack
  <2>2. ASSUME NEW h \in Headers, NEW n \in AnchorHeights, InitBtcHeaderChain(h, n)
        PROVE  Chain'
    BY <1>2, <2>2, InitAnchors DEF Reference!Anchor
  <2>3. ASSUME NEW h \in Headers, UpdateBtcHeader(h) PROVE Chain'
    <3>1. /\ Kept # <<>> /\ Kept \in Seq(Stored)
          /\ ParentOf[h] = Kept[Len(Kept)]
          /\ Kept' = Append(Kept, h) \/ Kept' = Append(Tail(Kept), h)
      BY <1>2, <2>3, UpdateExtends, KeptIsRead DEF KeptReads, Reference!Extend
    <3>2. /\ Tail(Kept) \in Seq(Stored) /\ Len(Tail(Kept)) = Len(Kept) - 1
          /\ \A k \in 1 .. Len(Kept) - 1 : Tail(Kept)[k] = Kept[k + 1]
          /\ Len(Kept) \in Nat \ {0}
      BY <3>1, HeadTailProperties, EmptySeq, LenProperties
    <3>3. CASE Kept' = Append(Kept, h)
      BY <1>2, <3>1, <3>2, <3>3, AppendProperties DEF Stored
    <3>4. CASE Kept' = Append(Tail(Kept), h)
      <4>1. /\ Len(Kept') = Len(Kept) /\ Kept'[Len(Kept)] = h
            /\ \A k \in 1 .. Len(Kept) - 1 : Kept'[k] = Kept[k + 1]
        BY <3>2, <3>4, AppendProperties DEF Stored
      <4> SUFFICES ASSUME NEW k \in 1 .. Len(Kept) - 1
                   PROVE  ParentOf[Kept'[k + 1]] = Kept'[k]
        BY <4>1
      <4>2. CASE k = Len(Kept) - 1
        BY <3>1, <3>2, <4>1, <4>2
      <4>3. CASE k # Len(Kept) - 1
        <5>1. k + 1 \in 1 .. Len(Kept) - 1
          <6> DEFINE n == Len(Kept)
          <6>1. n \in Nat /\ k \in 1 .. n - 1 /\ k # n - 1
            BY <3>2, <4>3
          <6> HIDE DEF n
          <6>2. k + 1 \in 1 .. n - 1
            BY <6>1
          <6> QED BY <6>2 DEF n
        <5>2. ParentOf[Kept[(k + 1) + 1]] = Kept[k + 1]
          BY <1>2, <5>1
        <5>3. Kept'[k + 1] = Kept[(k + 1) + 1] /\ Kept'[k] = Kept[k + 1]
          BY <4>1, <5>1
        <5> QED BY <5>2, <5>3
      <4> QED BY <4>2, <4>3
    <3> QED BY <3>1, <3>3, <3>4
  <2> QED BY <1>2, <2>1, <2>2, <2>3 DEF HeaderNext
<1>3. Chain <=> WindowIsAChain
  BY DEF WindowIsAChain, Reference!WindowIsAChain
<1> QED BY <1>1, <1>2, <1>3, HeaderInvInit, HeaderInvNext, PTL DEF HeaderSpec

-----------------------------------------------------------------------------
(* The fee split.  A rate below the denominator takes less than the amount.*)
LEMMA SplitAddsUp ==
  ASSUME NEW a \in Nat \ {0}, NEW bps \in 0 .. MaxFeeBps
  PROVE  LET s == ComputeSplit(a, bps) IN
           /\ s.fee \in Nat /\ s.merchant \in Nat \ {0}
           /\ s.fee + s.merchant = a
           /\ s.fee * BpsDenom <= a * bps
           /\ a * bps < (s.fee + 1) * BpsDenom
<1> DEFINE share == a * bps
           fee == share \div BpsDenom
<1>1. share \in Nat /\ BpsDenom \in Nat \ {0}
  BY FeeAssumption
<1>2. fee \in Nat /\ fee * BpsDenom <= share /\ share < (fee + 1) * BpsDenom
  <2> HIDE DEF share
  <2> QED BY <1>1
<1>3. fee < a
  <2>1. share < a * BpsDenom
    BY FeeAssumption
  <2>2. ASSUME fee >= a PROVE FALSE
    <3>1. fee * BpsDenom >= a * BpsDenom
      BY <1>1, <1>2, <2>2
    <3> QED BY <1>1, <1>2, <2>1, <3>1
  <2> QED BY <1>2, <2>2
<1> HIDE DEF share, fee
<1> QED BY <1>2, <1>3 DEF ComputeSplit, fee, share

(* For every amount and rate, and whenever the rate changes, what a receipt*)
(* commits to adds up, and the merchant's part is not nothing.             *)
THEOREM FeeReceiptsAddUp == FeeSpec => []ReceiptsAddUp
<1> DEFINE Inv == FeeTypeOK /\ ReceiptsAddUp
<1>1. FeeInit => Inv
  BY FeeAssumption DEF FeeInit, FeeTypeOK, ReceiptsAddUp, Receipts, NoReceipt
<1>2. ASSUME Inv, [FeeNext]_feeVars PROVE Inv'
  <2> USE FeeAssumption DEF FeeTypeOK
  <2>1. CASE UNCHANGED feeVars
    BY <1>2, <2>1 DEF feeVars, ReceiptsAddUp
  <2>2. ASSUME NEW b \in Handles, RegisterHandle(b) PROVE Inv'
    BY <1>2, <2>2 DEF RegisterHandle, ReceiptsAddUp
  <2>3. ASSUME NEW b \in Handles, NEW p \in PaymentIds, NEW a \in Paid, RecordPayment(b, p, a)
        PROVE  Inv'
    BY <1>2, <2>3 DEF RecordPayment, ReceiptsAddUp, Keys
  <2>4. ASSUME NEW s \in Admins, InitSettings(s) PROVE Inv'
    BY <1>2, <2>4 DEF InitSettings, ReceiptsAddUp
  <2>5. ASSUME NEW s \in Admins, NEW f \in FeeRates, SetFeeBps(s, f) PROVE Inv'
    BY <1>2, <2>5 DEF SetFeeBps, ReceiptsAddUp
  <2>6. ASSUME NEW b \in Handles, NEW p \in PaymentIds, NEW a \in Paid, SettlePayment(b, p, a)
        PROVE  Inv'
    <3> DEFINE s == ComputeSplit(a, feeBps)
               r == [amount |-> a, fee |-> s.fee, merchant |-> s.merchant, bps |-> feeBps]
    <3>1. /\ a \in Nat \ {0} /\ feeBps \in 0 .. MaxFeeBps
          /\ receipts' = [receipts EXCEPT ![<<b, p>>] = r]
          /\ UNCHANGED <<admin, feeBps, bound, payments>>
      BY <1>2, <2>6 DEF SettlePayment
    <3>2. /\ s.fee \in Nat /\ s.merchant \in Nat \ {0} /\ s.fee + s.merchant = a
          /\ s.fee * BpsDenom <= a * feeBps /\ a * feeBps < (s.fee + 1) * BpsDenom
      BY <3>1, SplitAddsUp
    <3> HIDE DEF s
    <3>3. r \in Receipts
      BY <3>1, <3>2 DEF Receipts
    <3>4. FeeTypeOK'
      BY <1>2, <3>1, <3>3
    <3>5. ReceiptsAddUp'
      <4> SUFFICES ASSUME NEW k \in Keys, receipts'[k].amount > 0
                   PROVE  /\ receipts'[k].fee + receipts'[k].merchant = receipts'[k].amount
                          /\ receipts'[k].fee * BpsDenom <= receipts'[k].amount * receipts'[k].bps
                          /\ receipts'[k].amount * receipts'[k].bps < (receipts'[k].fee + 1) * BpsDenom
                          /\ receipts'[k].bps <= MaxFeeBps
                          /\ receipts'[k].merchant > 0
        BY DEF ReceiptsAddUp
      <4>1. CASE k = <<b, p>>
        <5>1. receipts'[k] = r
          BY <1>2, <3>1, <4>1
        <5> QED BY <3>1, <3>2, <5>1
      <4>2. CASE k # <<b, p>>
        <5>1. receipts'[k] = receipts[k]
          BY <1>2, <3>1, <4>2
        <5> QED BY <1>2, <5>1 DEF ReceiptsAddUp
      <4> QED BY <4>1, <4>2
    <3> QED BY <3>4, <3>5
  <2> QED BY <1>2, <2>1, <2>2, <2>3, <2>4, <2>5, <2>6 DEF FeeNext
<1> QED BY <1>1, <1>2, PTL DEF FeeSpec
=============================================================================
