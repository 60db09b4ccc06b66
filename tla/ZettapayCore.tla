---------------------------- MODULE ZettapayCore ----------------------------
(***************************************************************************)
(* The zettapay-core Solana program (programs/zettapay-core/src/lib.rs):   *)
(* merchants, their invoices, the per-invoice cap, and the three ways an   *)
(* invoice is settled: swept by the merchant, or paid on Bitcoin or on     *)
(* Ethereum by a proof in three transactions.  A transaction is atomic and *)
(* one that fails changes nothing, so an instruction is one action and its *)
(* guard is the conjunction of the checks it makes.  Accounts live at      *)
(* program-derived addresses: one merchant per master, one invoice per     *)
(* master and index, one proof per invoice and rail, one configuration.    *)
(*                                                                         *)
(* The chain set of a merchant is abstracted to its length, which is all   *)
(* that matters to whether its account can be read again.                  *)
(***************************************************************************)
EXTENDS Integers

CONSTANTS Masters,       \* wallets that may register as merchants
          Signers,       \* wallets that submit proofs or configure the program
          Lengths,       \* lengths of the chain sets merchants register with
          MaxChains,     \* MAX_CHAINS
          Amounts,       \* amounts of invoices
          Caps,          \* caps that are configured
          Roots,         \* roots a proof's path may lead to
          MaxInvoices,   \* bound: invoices of a merchant
          None           \* no value

ASSUME CoreAssumption ==
  /\ MaxChains \in Nat \ {0}
  /\ Lengths \subseteq Nat
  /\ Amounts \subseteq Nat
  /\ Caps \subseteq Nat
  /\ MaxInvoices \in Nat
  /\ None \notin Signers \cup Roots

VARIABLES config,        \* the ProgramConfig account, with authority None while it is absent
          chains,        \* chains[m]: length of the chain set of m, 0 while m has no account
          invoiceCount,  \* invoiceCount[m]: Merchant.invoice_count
          status,        \* status[v]: Invoice.status, "absent" while there is no account
          amount,        \* amount[v]: Invoice.amount
          proof          \* proof[r][v]: the proof of v on the rail r

coreVars == <<config, chains, invoiceCount, status, amount, proof>>

Rails == {"btc", "eth"}
Invoices == Masters \X (0 .. MaxInvoices - 1)
Statuses == {"absent", "open", "swept", "paid_btc", "paid_eth"}
ProofStatuses == {"absent", "part1", "part2", "finalized"}
Proofs == [status : ProofStatuses, submitter : Signers \cup {None}, root : Roots \cup {None}]

Unlimited == 0     \* MAX_INVOICE_AMOUNT_UNLIMITED
PaidOn(r) == IF r = "btc" THEN "paid_btc" ELSE "paid_eth"

CoreInit ==
  /\ config = [authority |-> None, cap |-> 0]
  /\ chains = [m \in Masters |-> 0]
  /\ invoiceCount = [m \in Masters |-> 0]
  /\ status = [v \in Invoices |-> "absent"]
  /\ amount = [v \in Invoices |-> 0]
  /\ proof = [r \in Rails |-> [v \in Invoices |->
                [status |-> "absent", submitter |-> None, root |-> None]]]

(* Merchant::try_from_slice(&merchant_ai.data) wants every byte of the     *)
(* account, which is as long as the longest chain set: a shorter one       *)
(* leaves bytes over, and the account does not decode.                     *)
MerchantDecodes(m) == chains[m] = MaxChains

(* The chain set holds between 1 and MAX_CHAINS entries, Solana's among    *)
(* them; create_account fails where the master has a merchant already.     *)
RegisterMerchant(m, n) ==
  /\ n \in 1 .. MaxChains
  /\ chains[m] = 0
  /\ chains' = [chains EXCEPT ![m] = n]
  /\ UNCHANGED <<config, invoiceCount, status, amount, proof>>

(* The index of the new invoice is the merchant's count, which advances.   *)
CreateInvoice(m, a) ==
  LET v == <<m, invoiceCount[m]>> IN
  /\ a > 0
  /\ config.authority # None
  /\ config.cap = Unlimited \/ a <= config.cap
  /\ MerchantDecodes(m)
  /\ v \in Invoices
  /\ status[v] = "absent"
  /\ status' = [status EXCEPT ![v] = "open"]
  /\ amount' = [amount EXCEPT ![v] = a]
  /\ invoiceCount' = [invoiceCount EXCEPT ![m] = @ + 1]
  /\ UNCHANGED <<config, chains, proof>>

(* The invoices S of m, all of them open, are swept together.              *)
Sweep(m, S) ==
  /\ S # {}
  /\ MerchantDecodes(m)
  /\ \A v \in S : v[1] = m /\ status[v] = "open"
  /\ status' = [v \in Invoices |-> IF v \in S THEN "swept" ELSE status[v]]
  /\ UNCHANGED <<config, chains, invoiceCount, amount, proof>>

(* The first transaction of a proof: anybody opens the proof account of an *)
(* open invoice, with the root its path leads to.                          *)
OpenProof(r, v, s, root) ==
  /\ status[v] = "open"
  /\ proof[r][v].status = "absent"
  /\ proof' = [proof EXCEPT ![r][v] =
                 [status |-> "part1", submitter |-> s, root |-> root]]
  /\ UNCHANGED <<config, chains, invoiceCount, status, amount>>

(* The second: its submitter presents a header that carries that root.     *)
VerifyProof(r, v, s) ==
  /\ proof[r][v].status = "part1"
  /\ proof[r][v].submitter = s
  /\ proof' = [proof EXCEPT ![r][v].status = "part2"]
  /\ UNCHANGED <<config, chains, invoiceCount, status, amount>>

(* Mutant: nobody looks whether the invoice is still open.                 *)
FinalizeAnyway(r, v) ==
  /\ proof[r][v].status = "part2"
  /\ MerchantDecodes(v[1])
  /\ status' = [status EXCEPT ![v] = PaidOn(r)]
  /\ proof' = [proof EXCEPT ![r][v].status = "finalized"]
  /\ UNCHANGED <<config, chains, invoiceCount, amount>>

(* The third: the merchant's master acknowledges, the invoice is paid.     *)
Finalize(r, v) ==
  /\ proof[r][v].status = "part2"
  /\ status[v] = "open"
  /\ MerchantDecodes(v[1])
  /\ status' = [status EXCEPT ![v] = PaidOn(r)]
  /\ proof' = [proof EXCEPT ![r][v].status = "finalized"]
  /\ UNCHANGED <<config, chains, invoiceCount, amount>>

(* Mutant: a proof that is not verified yet may be opened anew.            *)
SubmitBtcProofPart1Anew(v, s, root) ==
  /\ status[v] = "open"
  /\ proof["btc"][v].status \in {"absent", "part1"}
  /\ proof' = [proof EXCEPT !["btc"][v] =
                 [status |-> "part1", submitter |-> s, root |-> root]]
  /\ UNCHANGED <<config, chains, invoiceCount, status, amount>>

SubmitBtcProofPart1(v, s, root) == OpenProof("btc", v, s, root)

(* The submitter brings a header with the root, whose hash must meet the   *)
(* target the header itself states: a root of any kind can be given one.   *)
SubmitBtcProofPart2(v, s) == VerifyProof("btc", v, s)

FinalizeBtcPayment(v) == Finalize("btc", v)

SubmitEthReceiptPart1(v, s, root) == OpenProof("eth", v, s, root)

(* The header is any bytes that hold the root, and the seal any signature  *)
(* that recovers: the signer is recorded, not judged.                      *)
SubmitEthReceiptPart2(v, s) == VerifyProof("eth", v, s)

FinalizeEthPayment(v) == Finalize("eth", v)

(* Whoever calls it first becomes the authority.                           *)
InitProgramConfig(s, c) ==
  /\ config.authority = None
  /\ config' = [authority |-> s, cap |-> c]
  /\ UNCHANGED <<chains, invoiceCount, status, amount, proof>>

SetMaxInvoiceAmount(s, c) ==
  /\ config.authority = s
  /\ config' = [config EXCEPT !.cap = c]
  /\ UNCHANGED <<chains, invoiceCount, status, amount, proof>>

CoreNext ==
  \/ \E m \in Masters, n \in Lengths : RegisterMerchant(m, n)
  \/ \E m \in Masters, a \in Amounts : CreateInvoice(m, a)
  \/ \E m \in Masters : \E S \in SUBSET Invoices : Sweep(m, S)
  \/ \E v \in Invoices, s \in Signers, root \in Roots : SubmitBtcProofPart1(v, s, root)
  \/ \E v \in Invoices, s \in Signers : SubmitBtcProofPart2(v, s)
  \/ \E v \in Invoices : FinalizeBtcPayment(v)
  \/ \E v \in Invoices, s \in Signers, root \in Roots : SubmitEthReceiptPart1(v, s, root)
  \/ \E v \in Invoices, s \in Signers : SubmitEthReceiptPart2(v, s)
  \/ \E v \in Invoices : FinalizeEthPayment(v)
  \/ \E s \in Signers, c \in Caps : InitProgramConfig(s, c)
  \/ \E s \in Signers, c \in Caps : SetMaxInvoiceAmount(s, c)

CoreSpec == CoreInit /\ [][CoreNext]_coreVars

-----------------------------------------------------------------------------
CoreTypeOK ==
  /\ config \in [authority : Signers \cup {None}, cap : Nat]
  /\ chains \in [Masters -> 0 .. MaxChains]
  /\ invoiceCount \in [Masters -> 0 .. MaxInvoices]
  /\ status \in [Invoices -> Statuses]
  /\ amount \in [Invoices -> Nat]
  /\ proof \in [Rails -> [Invoices -> Proofs]]

(* An invoice says it was paid on a rail exactly when its proof on that    *)
(* rail is finalized, and so on one rail at most, and on none once it is   *)
(* swept, although proofs on both rails and a sweep may race (state.rs:    *)
(* disputes are routed by this byte).                                      *)
SettledByOneRail ==
  \A v \in Invoices, r \in Rails :
    status[v] = PaidOn(r) <=> proof[r][v].status = "finalized"

(* The invoices of a merchant are those below its count, with no gap: the  *)
(* count is "never decremented, never reused" (state.rs), and an index     *)
(* tells an indexer which invoices there are.                              *)
IndexesAreDense ==
  \A m \in Masters, i \in 0 .. MaxInvoices - 1 :
    status[<<m, i>>] # "absent" <=> i < invoiceCount[m]

(* Once a proof is opened its submitter and its root stay, whoever sends   *)
(* what in between: part 2 verifies what part 1 committed to (state.rs,    *)
(* "closing the door on a third party hijacking an in-flight proof").      *)
ProofStaysBound ==
  [][\A r \in Rails, v \in Invoices : proof[r][v].status # "absent" =>
       /\ proof'[r][v].submitter = proof[r][v].submitter
       /\ proof'[r][v].root = proof[r][v].root]_coreVars

(* A merchant that registered can be read again, to bill and to settle     *)
(* (tests/integration.rs:231, `expect("merchant decodes")`).               *)
RegisteredDecodes == \A m \in Masters : chains[m] # 0 => MerchantDecodes(m)
=============================================================================
