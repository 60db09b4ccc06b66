------------------------------ MODULE AgentPay ------------------------------
(***************************************************************************)
(* POST /agents/pay: an agent pays another (routes/agent-to-agent.ts,       *)
(* services/agent-to-agent.ts), behind the cache of answers by key          *)
(* (middleware/idempotency.ts) and the proof of identity, whose nonce works *)
(* once (services/agent-identity.ts).                                       *)
(*                                                                         *)
(* From the key to the row of the payment a request runs in one turn of the *)
(* event loop; the transfer is awaited; the outcome, the cached answer and  *)
(* the answer are one turn again.  One payer, within one day of his cap.    *)
(*                                                                         *)
(* External: the cluster, which lands transfers, also those whose call has  *)
(* thrown.                                                                  *)
(***************************************************************************)
EXTENDS Naturals, FiniteSets, FiniteSetsExt

CONSTANTS Payments, KeyOf, ProofOf, BodyOf, AmountOf, \* the requests and what they carry
          Cap,          \* AGENT_TO_AGENT_DAILY_CAP
          MaxPayFaults  \* bound: transfers that time out, failing writes and restarts

Keys == {KeyOf[r] : r \in Payments}
Proofs == {ProofOf[r] : r \in Payments}
Unseen == "unseen"

ASSUME AgentPayAssumption ==
  /\ Cap \in Nat /\ AmountOf \in [Payments -> Nat \ {0}]
  /\ \A r \in Payments : BodyOf[r] # Unseen


VARIABLES reply,     \* reply[r]: what the client of r has been told
          row,       \* row[r]: status of the payment of r
          flying,    \* transfers sent that have not landed
          landed,    \* transfers that have
          cached,    \* cached[k]: the body whose answer is kept for the key
          used,      \* nonces of proofs
          payFaults

payVars == <<reply, row, flying, landed, cached, used, payFaults>>

PayInit ==
  /\ reply = [r \in Payments |-> "none"]
  /\ row = [r \in Payments |-> "none"]
  /\ flying = {} /\ landed = {}
  /\ cached = [k \in Keys |-> Unseen]
  /\ used = {}
  /\ payFaults = 0

AmountsOf(R) == MapThenSumSet(LAMBDA r : AmountOf[r], R)

(* Mutant: only completed payments count.                                   *)
CountedIfCompleted == {r \in Payments : row[r] = "completed"}

(* sumAgentToAgentSpendSince                                                *)
Counted == {r \in Payments : row[r] \notin {"none", "failed"}}

OverCap(r) == AmountsOf(Counted) + AmountOf[r] > Cap

(* Mutant: the answer is looked up by key and body.                         *)
UncachedBody(r) == cached[KeyOf[r]] # BodyOf[r]
Uncached(r) == cached[KeyOf[r]] = Unseen

Answer(r, what) == reply' = [reply EXCEPT ![r] = what]

(* The same body is replayed, another one conflicts.                        *)
AnswerFromCache(r) ==
  /\ reply[r] = "none"
  /\ ~Uncached(r)
  /\ Answer(r, IF cached[KeyOf[r]] = BodyOf[r] THEN "replayed" ELSE "conflict")
  /\ UNCHANGED <<row, flying, landed, cached, used, payFaults>>

RejectProof(r) ==
  /\ reply[r] = "none"
  /\ Uncached(r)
  /\ ProofOf[r] \in used
  /\ Answer(r, "unauthorized")
  /\ UNCHANGED <<row, flying, landed, cached, used, payFaults>>

UseProof(r) ==
  /\ reply[r] = "none"
  /\ Uncached(r)
  /\ ProofOf[r] \notin used
  /\ used' = used \cup {ProofOf[r]}

(* The proof is spent all the same.                                         *)
RejectOverCap(r) ==
  /\ UseProof(r)
  /\ OverCap(r)
  /\ Answer(r, "limited")
  /\ UNCHANGED <<row, flying, landed, cached, payFaults>>

BeginPayment(r) ==
  /\ UseProof(r)
  /\ ~OverCap(r)
  /\ Answer(r, "waiting")
  /\ row' = [row EXCEPT ![r] = "processing"]
  /\ flying' = flying \cup {r}
  /\ UNCHANGED <<landed, cached, payFaults>>

LandPayment(r) ==
  /\ r \in flying
  /\ flying' = flying \ {r}
  /\ landed' = landed \cup {r}
  /\ UNCHANGED <<reply, row, cached, used, payFaults>>

Complete(r) ==
  /\ reply[r] = "waiting" /\ r \in landed
  /\ row' = [row EXCEPT ![r] = "completed"]

(* A key that has an answer by now keeps it.                                *)
AnswerPayment(r) ==
  /\ Complete(r)
  /\ cached' = IF Uncached(r) THEN [cached EXCEPT ![KeyOf[r]] = BodyOf[r]] ELSE cached
  /\ Answer(r, "created")
  /\ UNCHANGED <<flying, landed, used, payFaults>>

FailPayment(r) ==
  /\ reply[r] = "waiting"
  /\ row' = [row EXCEPT ![r] = "failed"]
  /\ Answer(r, "failed")

(* The transfer fails, and never lands.                                     *)
TransferFails(r) ==
  /\ r \in flying
  /\ FailPayment(r)
  /\ flying' = flying \ {r}
  /\ UNCHANGED <<landed, cached, used, payFaults>>

PayFault ==
  /\ payFaults < MaxPayFaults
  /\ payFaults' = payFaults + 1

(* The call throws although the transfer has landed, or still may.          *)
TransferTimesOut(r) ==
  /\ PayFault
  /\ FailPayment(r)
  /\ UNCHANGED <<flying, landed, cached, used>>

CacheFails(r) ==
  /\ PayFault
  /\ Complete(r)
  /\ Answer(r, "error")
  /\ UNCHANGED <<flying, landed, cached, used>>

(* Rows that were processing stay so.                                       *)
PayRestarts ==
  /\ PayFault
  /\ reply' = [r \in Payments |-> IF reply[r] = "waiting" THEN "cut" ELSE reply[r]]
  /\ UNCHANGED <<row, flying, landed, cached, used>>

AgentPayNext ==
  \/ \E r \in Payments :
       \/ AnswerFromCache(r) \/ RejectProof(r) \/ RejectOverCap(r) \/ BeginPayment(r)
       \/ LandPayment(r) \/ AnswerPayment(r) \/ TransferFails(r) \/ TransferTimesOut(r)
       \/ CacheFails(r)
  \/ PayRestarts

AgentPaySpec == PayInit /\ [][AgentPayNext]_payVars

(* The comment above the cap: what leaves the payer's wallet in a day stays *)
(* within it, but for transfers that land although their call has thrown.   *)
SpendHoldsCap ==
  AmountsOf(landed \cup flying) <= Cap + AmountsOf({r \in landed \cup flying : row[r] = "failed"})

(* By hand: without the exception.  Violated: a payment that timed out no   *)
(* longer counts, and lands.                                                *)
LandedHoldsCap == AmountsOf(landed) <= Cap

(* A proof pays once; and once a client has been told "created", no request *)
(* with his key pays again, whatever its body.                              *)
OnePaymentPerPermit ==
  [][\A r \in Payments : row[r] = "none" /\ row'[r] # "none" =>
       /\ \A q \in Payments : row[q] # "none" => ProofOf[q] # ProofOf[r]
       /\ \A q \in Payments : reply[q] = "created" => KeyOf[q] # KeyOf[r]]_payVars

(* By hand: a key pays once.  Violated by two requests at the same time, by *)
(* a restart, and by a cache that cannot be written.                        *)
OnePaymentPerKey ==
  \A q, r \in landed : KeyOf[q] = KeyOf[r] => q = r

AgentPayTypeOK ==
  /\ reply \in [Payments -> {"none", "waiting", "created", "replayed", "conflict",
                             "unauthorized", "limited", "failed", "error", "cut"}]
  /\ row \in [Payments -> {"none", "processing", "completed", "failed"}]
  /\ flying \subseteq Payments /\ landed \subseteq Payments \ flying
  /\ \A r \in Payments : row[r] = "completed" => r \in landed
  /\ cached \in [Keys -> {BodyOf[r] : r \in Payments} \cup {Unseen}]
  /\ used \subseteq Proofs
  /\ payFaults \in 0 .. MaxPayFaults
=============================================================================
