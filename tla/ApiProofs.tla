----------------------------- MODULE ApiProofs -----------------------------
(***************************************************************************)
(* Proofs about services of the API, for any number of payments, intents,  *)
(* subscriptions, dispatches, incidents, alerts and requests, and for any  *)
(* number of faults: the ways money leaves, bridge intents, the            *)
(* subscription worker, payments between agents, webhook jobs, the         *)
(* incident board and the program monitor.                                 *)
(***************************************************************************)
EXTENDS PayoutRails, BridgeIntents, SubscriptionCharger, AgentPay, WebhookJobs, IncidentBoard,
        ProgramMonitor, FiniteSetTheorems, WellFoundedInduction, NaturalsInduction, TLAPS

-----------------------------------------------------------------------------
(* Counting.                                                               *)
LEMMA LeastNatural ==
  ASSUME NEW S \in SUBSET Nat, S # {}
  PROVE  \E n \in S : \A m \in S : n <= m
<1> DEFINE R == OpToRel(<, Nat)
<1>1. IsWellFoundedOn(R, Nat)
  BY NatLessThanWellFounded
<1> HIDE DEF R
<1>2. PICK n \in S : \A m \in S : <<m, n>> \notin R
  BY <1>1, WFMin
<1>3. \A m \in S : m < n => <<m, n>> \in R
  BY DEF R, OpToRel
<1>4. \A m \in S : ~(m < n)
  BY <1>2, <1>3
<1> QED BY <1>4

LEMMA MinIsLeast ==
  ASSUME NEW S \in SUBSET Nat, S # {}
  PROVE  Min(S) \in S /\ \A m \in S : Min(S) <= m
  BY LeastNatural DEF Min

LEMMA CountWithOneMore ==
  ASSUME NEW S, NEW T, NEW t, IsFiniteSet(S), T \subseteq S \cup {t}
  PROVE  Cardinality(T) <= Cardinality(S) + 1
<1>0. Cardinality(S) \in Nat
  BY FS_CardinalityType
<1>1. IsFiniteSet(S \cup {t}) /\ Cardinality(S \cup {t}) <= Cardinality(S) + 1
  BY <1>0, FS_AddElement
<1>2. Cardinality(T) <= Cardinality(S \cup {t})
  BY <1>1, FS_Subset
<1>3. IsFiniteSet(T)
  BY <1>1, FS_Subset
<1> QED BY <1>0, <1>1, <1>2, <1>3, FS_CardinalityType

LEMMA CountWithOneLess ==
  ASSUME NEW S, NEW T, NEW t \in S, IsFiniteSet(S), T \subseteq S \ {t}
  PROVE  Cardinality(T) + 1 <= Cardinality(S)
<1>1. IsFiniteSet(S \ {t}) /\ Cardinality(S \ {t}) = Cardinality(S) - 1
  BY FS_RemoveElement
<1>2. Cardinality(T) <= Cardinality(S \ {t}) /\ IsFiniteSet(T)
  BY <1>1, FS_Subset
<1> QED BY <1>1, <1>2, FS_CardinalityType

-----------------------------------------------------------------------------
(* Payouts and refunds.  What the provider is asked for has not moved yet, *)
(* and what is awaited or completed but no longer asked for has; a refund  *)
(* is asked for no more once it is completed.                              *)
PayoutShape(x) ==
  /\ moves[x] \in 0 .. 1
  /\ payout[x] = "none" => x \notin asked \cup awaiting /\ moves[x] = 0
  /\ x \in asked => moves[x] = 0
  /\ x \in asked /\ payout[x] = "completed" => x[1] \in Rails
  /\ x \in awaiting => payout[x] # "completed"
  /\ x \in awaiting \ asked => moves[x] = 1
  /\ payout[x] = "completed" /\ x \notin asked => moves[x] = 1
  /\ paidStatus[x[2]] = "refunded" => moves[<<"refund", x[2]>>] = 1
  /\ moves[x] = 1 \/ x \in asked =>
       payout[x] = "completed" \/ x \in awaiting \cup unsure

PayoutInv == PayoutTypeOK /\ \A x \in Outs : PayoutShape(x)

LEMMA OutParts == \A x \in Outs : x[1] \in Ways /\ x[2] \in Paids
  BY DEF Outs

LEMMA PayoutInvInit == ASSUME PayoutInit PROVE PayoutInv
<1>1. PayoutTypeOK
  BY PayoutAssumption DEF PayoutInit, PayoutTypeOK
<1>2. ASSUME NEW x \in Outs PROVE PayoutShape(x)
  BY <1>2, OutParts DEF PayoutInit, PayoutShape
<1> QED BY <1>1, <1>2 DEF PayoutInv

(* An action on one out leaves the shape of the others alone.              *)
LEMMA PayoutInvNext == ASSUME PayoutInv, [PayoutNext]_payoutVars PROVE PayoutInv'
<1> USE DEF PayoutInv, PayoutTypeOK, PayoutShape
<1>1. CASE UNCHANGED payoutVars
  BY <1>1 DEF payoutVars
<1>2. ASSUME NEW p \in Paids, CompletePayment(p) PROVE PayoutInv'
  BY <1>2 DEF CompletePayment
<1>3. ASSUME NEW w \in Rails, EnableRail(w) \/ DisableRail(w) PROVE PayoutInv'
  BY <1>3 DEF EnableRail, DisableRail
<1>4. ASSUME NEW x \in Outs, Insert(x) PROVE PayoutInv'
  BY <1>4 DEF Insert, NoRow
<1>5. ASSUME NEW x \in Outs, MoveMoney(x) PROVE PayoutInv'
  BY <1>5 DEF MoveMoney
<1>6. ASSUME NEW x \in Outs, Answered(x), paidStatus' = Refunded(x), moves' = moves
      PROVE  /\ paidStatus' \in [Paids -> {"processing", "completed", "refunded"}]
             /\ \A y \in Outs : paidStatus'[y[2]] = "refunded" => moves[<<"refund", y[2]>>] = 1
             /\ x[1] # "refund" => x[1] \in Rails
  <2>1. x[1] \in Ways /\ x[2] \in Paids /\ x = <<x[1], x[2]>>
    BY DEF Outs
  <2>2. x[1] = "refund" => moves[<<"refund", x[2]>>] = 1
    BY <1>6, <2>1 DEF Answered
  <2>3. x[1] # "refund" => x[1] \in Rails
    BY <2>1 DEF Ways
  <2>4. paidStatus' \in [Paids -> {"processing", "completed", "refunded"}]
    BY <1>6, <2>1 DEF Refunded
  <2>5. ASSUME NEW y \in Outs, paidStatus'[y[2]] = "refunded"
        PROVE  moves[<<"refund", y[2]>>] = 1
    <3>1. y[2] \in Paids
      BY OutParts
    <3>2. CASE x[1] = "refund" /\ y[2] = x[2]
      BY <2>2, <3>2
    <3>3. CASE x[1] # "refund" \/ y[2] # x[2]
      BY <1>6, <2>1, <2>5, <3>1, <3>3 DEF Refunded
    <3> QED BY <3>2, <3>3
  <2> QED BY <2>3, <2>4, <2>5
<1>7. ASSUME NEW x \in Outs, Confirm(x) PROVE PayoutInv'
  <2>1. Answered(x) /\ paidStatus' = Refunded(x) /\ moves' = moves
    BY <1>7 DEF Confirm
  <2>2. PayoutTypeOK'
    BY <1>6, <1>7, <2>1 DEF Confirm
  <2>3. ASSUME NEW y \in Outs PROVE PayoutShape(y)'
    BY <1>6, <1>7, <2>1, <2>3 DEF Confirm, Answered
  <2> QED BY <2>2, <2>3
<1>8. ASSUME NEW x \in Outs, Reject(x) PROVE PayoutInv'
  BY <1>8 DEF Reject
<1>9. ASSUME NEW x \in Outs, LoseReply(x) PROVE PayoutInv'
  BY <1>9, PayoutAssumption DEF LoseReply, PayoutFault
<1>10. ASSUME NEW x \in Outs, AuditFails(x) PROVE PayoutInv'
  <2>1. Answered(x) /\ paidStatus' = Refunded(x) /\ moves' = moves
    BY <1>10 DEF AuditFails
  <2>2. PayoutTypeOK'
    BY <1>6, <1>10, <2>1, PayoutAssumption DEF AuditFails, PayoutFault
  <2>3. ASSUME NEW y \in Outs PROVE PayoutShape(y)'
    BY <1>6, <1>10, <2>1, <2>3 DEF AuditFails, Answered
  <2> QED BY <2>2, <2>3
<1>11. ASSUME ApiRestarts PROVE PayoutInv'
  BY <1>11, PayoutAssumption DEF ApiRestarts, PayoutFault
<1> QED
  BY <1>1, <1>2, <1>3, <1>4, <1>5, <1>7, <1>8, <1>9, <1>10, <1>11
     DEF PayoutNext, SettleToRail, Refund

(* PaidOutAtMostOnce: money moves at most once each way, whatever is       *)
(* repeated, lost or cut short; a refund that reads done is done, a payout *)
(* that reads done may still be the provider's to move (pix/service.ts,    *)
(* coinflow/service.ts, services/refunds.ts).                              *)
THEOREM PayoutOnce == PayoutSpec => []PaidOutAtMostOnce
<1>1. PayoutInv => PaidOutAtMostOnce
  <2> SUFFICES ASSUME PayoutInv, NEW x \in Outs
               PROVE  /\ moves[x] + (IF x \in asked THEN 1 ELSE 0) <= 1
                      /\ payout[x] = "completed" => moves[x] = 1 \/ (x[1] \in Rails /\ x \in asked)
                      /\ paidStatus[x[2]] = "refunded" => moves[<<"refund", x[2]>>] = 1
                      /\ moves[x] = 1 \/ x \in asked =>
                           payout[x] = "completed" \/ x \in awaiting \cup unsure
    BY DEF PaidOutAtMostOnce
  <2>1. PayoutShape(x)
    BY DEF PayoutInv
  <2> QED BY <2>1 DEF PayoutShape
<1> QED BY <1>1, PayoutInvInit, PayoutInvNext, PTL DEF PayoutSpec

-----------------------------------------------------------------------------
(* Bridge intents.  No text is bound twice, and what  a sync has read of an *)
(* intent was not terminal.                                                *)
ReadStates == {"none", "pending", "burned", "attested"}

BridgeInv ==
  /\ intent \in [Intents -> ReadStates \cup Terminal]
  /\ source \in [Intents -> Hashes \cup {NoHash}]
  /\ sync \in [Syncs -> [of : Intents \cup {"nothing"}, read : ReadStates]]
  /\ \A i, j \in Intents : source[i] # NoHash /\ source[i] = source[j] => i = j

LEMMA BridgeInvInit == ASSUME BridgeInit PROVE BridgeInv
  BY DEF BridgeInit, BridgeInv, NoSync, ReadStates

LEMMA BridgeInvNext == ASSUME BridgeInv, [BridgeNext]_bridgeVars PROVE BridgeInv'
<1> USE DEF BridgeInv, ReadStates, Terminal
<1>1. CASE UNCHANGED bridgeVars
  BY <1>1 DEF bridgeVars
<1>2. ASSUME NEW i \in Intents, QuoteBridgeIntent(i) \/ CompleteBridgeIntent(i)
      PROVE  BridgeInv'
  BY <1>2 DEF QuoteBridgeIntent, CompleteBridgeIntent
<1>3. ASSUME NEW i \in Intents, NEW t \in Hashes, RecordSourceTransaction(i, t)
      PROVE  BridgeInv'
  BY <1>3, BridgeAssumption DEF RecordSourceTransaction, MayBind
<1>4. ASSUME NEW i \in Intents, AttestBurn(i) PROVE BridgeInv'
  BY <1>4 DEF AttestBurn
<1>5. ASSUME NEW s \in Syncs, NEW i \in Intents, SyncReads(s, i) PROVE BridgeInv'
  BY <1>5 DEF SyncReads, IsOpen
<1>6. ASSUME NEW s \in Syncs, NEW i \in Intents, NEW status \in ReadStates \cup Terminal,
             SyncWrites(s, i, status)
      PROVE  BridgeInv'
  BY <1>6 DEF SyncWrites, NoSync
<1> QED
  BY <1>1, <1>2, <1>3, <1>4, <1>5, <1>6
     DEF BridgeNext, SyncAttested, SyncUnconfirmed, SyncFails

LEMMA BridgeInvariant == BridgeSpec => []BridgeInv
  BY BridgeInvInit, BridgeInvNext, PTL DEF BridgeSpec

(* BoundAndDone: an intent keeps its hash and shares it with none, as it   *)
(* is spelt, and only a sync that read the intent before takes it out of a *)
(* terminal state (bridge/service.ts, db/bridge_intents.ts).               *)
THEOREM BridgeBound == BridgeSpec => BoundAndDone
<1> DEFINE Bound(i) ==
      /\ source[i] # NoHash => source'[i] = source[i]
      /\ source'[i] # NoHash => \A j \in Intents \ {i} : source'[j] # source'[i]
      /\ intent[i] \in Terminal /\ intent'[i] # intent[i] =>
           \E s \in Syncs : sync[s].of = i /\ sync[s].read \notin Terminal
<1>1. BridgeInv /\ BridgeInv' /\ [BridgeNext]_bridgeVars
        => [\A i \in Intents : Bound(i)]_bridgeVars
  <2> SUFFICES ASSUME BridgeInv, BridgeInv', BridgeNext, NEW i \in Intents PROVE Bound(i)
    OBVIOUS
  <2>1. source'[i] # NoHash => \A j \in Intents \ {i} : source'[j] # source'[i]
    BY DEF BridgeInv
  <2>2. source[i] # NoHash => source'[i] = source[i]
    <3> USE DEF BridgeInv
    <3>1. CASE \E k \in Intents, t \in Hashes : RecordSourceTransaction(k, t)
      BY <3>1 DEF RecordSourceTransaction, MayBind
    <3>2. CASE UNCHANGED source
      BY <3>2
    <3> QED
      BY <3>1, <3>2 DEF BridgeNext, QuoteBridgeIntent, CompleteBridgeIntent, AttestBurn,
         SyncReads, SyncAttested, SyncUnconfirmed, SyncFails, SyncWrites
  <2>3. intent[i] \in Terminal /\ intent'[i] # intent[i] =>
          \E s \in Syncs : sync[s].of = i /\ sync[s].read \notin Terminal
    <3> USE DEF BridgeInv, Terminal, ReadStates
    <3>1. CASE UNCHANGED intent
      BY <3>1
    <3>2. ASSUME NEW k \in Intents, NEW t \in Hashes,
                 QuoteBridgeIntent(k) \/ CompleteBridgeIntent(k) \/ RecordSourceTransaction(k, t)
          PROVE  intent[i] \in Terminal => intent'[i] = intent[i]
      BY <3>2 DEF QuoteBridgeIntent, CompleteBridgeIntent, RecordSourceTransaction
    <3>3. ASSUME NEW k \in Intents, QuoteBridgeIntent(k) \/ CompleteBridgeIntent(k)
          PROVE  intent[i] \in Terminal => intent'[i] = intent[i]
      BY <3>3 DEF QuoteBridgeIntent, CompleteBridgeIntent
    <3>4. ASSUME NEW s \in Syncs, NEW k \in Intents, NEW status, SyncWrites(s, k, status),
                 intent[i] \in Terminal, intent'[i] # intent[i]
          PROVE  sync[s].of = i /\ sync[s].read \notin Terminal
      BY <3>4 DEF SyncWrites
    <3> QED
      BY <3>1, <3>2, <3>3, <3>4 DEF BridgeNext, AttestBurn, SyncReads, SyncAttested,
         SyncUnconfirmed, SyncFails
  <2> QED BY <2>1, <2>2, <2>3
<1> QED BY <1>1, BridgeInvariant, PTL DEF BridgeSpec, BoundAndDone

-----------------------------------------------------------------------------
(* Payments between agents.  A payment that was begun has spent its proof, *)
(* and a client told "created" finds his answer cached.                    *)
AgentPayInv ==
  /\ reply \in [Payments -> {"none", "waiting", "created", "replayed", "conflict",
                             "unauthorized", "limited", "failed", "error", "cut"}]
  /\ row \in [Payments -> {"none", "processing", "completed", "failed"}]
  /\ cached \in [Keys -> {BodyOf[r] : r \in Payments} \cup {Unseen}]
  /\ \A r \in Payments :
       /\ row[r] # "none" => ProofOf[r] \in used
       /\ row[r] = "none" => reply[r] # "waiting"
       /\ reply[r] = "created" => ~Uncached(r)

LEMMA AgentPayInvInit == ASSUME PayInit PROVE AgentPayInv
  BY DEF PayInit, AgentPayInv

LEMMA AgentPayInvNext == ASSUME AgentPayInv, [AgentPayNext]_payVars PROVE AgentPayInv'
<1> USE DEF AgentPayInv, Uncached, Answer
<1>1. CASE UNCHANGED payVars
  BY <1>1 DEF payVars
<1>2. ASSUME NEW r \in Payments, AnswerFromCache(r) PROVE AgentPayInv'
  BY <1>2 DEF AnswerFromCache
<1>3. ASSUME NEW r \in Payments, RejectProof(r) \/ RejectOverCap(r) \/ BeginPayment(r)
      PROVE  AgentPayInv'
  BY <1>3 DEF RejectProof, RejectOverCap, BeginPayment, UseProof
<1>4. ASSUME NEW r \in Payments, LandPayment(r) PROVE AgentPayInv'
  BY <1>4 DEF LandPayment
<1>5. ASSUME NEW r \in Payments, AnswerPayment(r) PROVE AgentPayInv'
  <2>1. KeyOf[r] \in Keys /\ BodyOf[r] # Unseen /\ row[r] # "none"
    BY <1>5, AgentPayAssumption DEF Keys, AnswerPayment, Complete
  <2>2. \A k \in Keys : cached[k] # Unseen => cached'[k] = cached[k]
    BY <1>5, <2>1 DEF AnswerPayment
  <2>3. cached' \in [Keys -> {BodyOf[q] : q \in Payments} \cup {Unseen}]
    BY <1>5, <2>1 DEF AnswerPayment
  <2>4. cached'[KeyOf[r]] # Unseen
    BY <1>5, <2>1 DEF AnswerPayment
  <2>5. \A q \in Payments : KeyOf[q] \in Keys
    BY DEF Keys
  <2> QED BY <1>5, <2>1, <2>2, <2>3, <2>4, <2>5 DEF AnswerPayment, Complete
<1>6. ASSUME NEW r \in Payments, TransferFails(r) \/ TransferTimesOut(r) PROVE AgentPayInv'
  BY <1>6 DEF TransferFails, TransferTimesOut, FailPayment
<1>7. ASSUME NEW r \in Payments, CacheFails(r) PROVE AgentPayInv'
  BY <1>7 DEF CacheFails, Complete
<1>8. CASE PayRestarts
  BY <1>8 DEF PayRestarts
<1> QED BY <1>1, <1>2, <1>3, <1>4, <1>5, <1>6, <1>7, <1>8 DEF AgentPayNext

LEMMA AgentPayInvariant == AgentPaySpec => []AgentPayInv
  BY AgentPayInvInit, AgentPayInvNext, PTL DEF AgentPaySpec

(* A proof pays once, and a key whose client was told "created" pays no    *)
(* more (routes/agent-to-agent.ts, middleware/idempotency.ts).             *)
THEOREM AgentPaysOnce == AgentPaySpec => OnePaymentPerPermit
<1> DEFINE Once == \A r \in Payments : row[r] = "none" /\ row'[r] # "none" =>
                     /\ \A q \in Payments : row[q] # "none" => ProofOf[q] # ProofOf[r]
                     /\ \A q \in Payments : reply[q] = "created" => KeyOf[q] # KeyOf[r]
<1>1. AgentPayInv /\ [AgentPayNext]_payVars => [Once]_payVars
  <2> SUFFICES ASSUME AgentPayInv, AgentPayNext PROVE Once
    OBVIOUS
  <2> USE DEF AgentPayInv, Uncached
  <2>1. CASE UNCHANGED row
    BY <2>1
  <2>2. ASSUME NEW r \in Payments, BeginPayment(r) PROVE Once
    BY <2>2 DEF BeginPayment, UseProof
  <2>3. ASSUME NEW r \in Payments, Complete(r) \/ FailPayment(r) PROVE Once
    BY <2>3 DEF Complete, FailPayment
  <2> QED
    BY <2>1, <2>2, <2>3 DEF AgentPayNext, AnswerFromCache, RejectProof, RejectOverCap,
       LandPayment, AnswerPayment, TransferFails, TransferTimesOut, CacheFails, PayRestarts
<1> QED BY <1>1, AgentPayInvariant, PTL DEF AgentPaySpec, OnePaymentPerPermit

-----------------------------------------------------------------------------
(* Webhook jobs.  Unless a reply was lost or a job handed out again, one   *)
(* dispatch at most is under way or waiting, while the row is pending, and *)
(* what it has heard is what the merchant did.                             *)
RunStates == [is : {"nothing", "job", "hand"}, attempt : Nat,
              at : {"rest", "merchant", "accepted", "refused", "final"}]

Certain ==
  /\ queued => outcome = "absent" /\ ~fresh
  /\ Busy # {} => outcome = "pending" /\ ~queued
  /\ \A x, y \in Busy : x = y
  /\ \A x \in Busy : fresh <=> run[x].at = "accepted"
  /\ outcome = "sent" => fresh
  /\ outcome = "dead" => ~fresh

JobsInv ==
  /\ outcome \in {"absent", "pending", "sent", "dead"}
  /\ run \in [Runs -> RunStates]
  /\ \A x \in Runs : run[x] # NoRun => run[x].is # "nothing" /\ run[x].at # "rest"
  /\ outcome = "absent" => Busy = {} /\ ~taken
  /\ fresh => taken
  /\ \A x \in Runs : run[x].at = "accepted" => taken
  /\ outcome = "sent" => taken
  /\ stalled \in Nat
  /\ \A x \in holds : x \in Runs /\ run[x].is = "job"
  /\ outcome = "pending" =>
       queued \/ left \/ holds # {} \/ \E x \in Busy : run[x].is = "hand"
  /\ ~doubt => Certain

LEMMA JobsInvInit == ASSUME JobsInit PROVE JobsInv
<1> USE DEF JobsInit
<1>1. Busy = {}
  BY DEF Busy
<1>2. run \in [Runs -> RunStates] /\ \A x \in Runs : run[x] = NoRun
  BY DEF RunStates, NoRun
<1>3. ~queued /\ ~taken /\ ~fresh /\ outcome = "absent" /\ stalled = 0 /\ holds = {}
  BY Zenon
<1>4. \A x \in Runs : run[x].at # "accepted"
  BY DEF NoRun
<1>5. Certain
  BY <1>1, <1>3 DEF Certain
<1> HIDE DEF JobsInit
<1> HIDE DEF Certain
<1> QED BY <1>1, <1>2, <1>3, <1>4, <1>5 DEF JobsInv

(* A dispatch that ends leaves the others as they are.                     *)
LEMMA RunEnds ==
  ASSUME JobsInv, NEW x \in Runs, run' = [run EXCEPT ![x] = NoRun]
  PROVE  /\ run' \in [Runs -> RunStates]
         /\ \A y \in Runs : run'[y] # NoRun => y # x /\ run'[y] = run[y]
         /\ \A y \in Runs : run'[y].at = "accepted" => y # x /\ run'[y] = run[y]
         /\ Busy' = Busy \ {x}
<1> USE DEF JobsInv, RunStates, NoRun
<1>1. run'[x] = NoRun /\ \A y \in Runs \ {x} : run'[y] = run[y]
  OBVIOUS
<1>2. Busy' = Busy \ {x}
  BY <1>1 DEF Busy
<1>3. run' \in [Runs -> RunStates]
  OBVIOUS
<1>4. run'[x].at # "accepted"
  BY <1>1
<1> HIDE DEF JobsInv, RunStates, NoRun
<1> QED BY <1>1, <1>2, <1>3, <1>4

(* A job that stalls waits again or is given up.                           *)
LEMMA StallsFacts ==
  ASSUME stalled \in Nat, NEW x, Stalls(x)
  PROVE  queued' \/ left'
<1>1. CASE stalled < MaxStalledCount
  BY <1>1 DEF Stalls
<1>2. CASE stalled >= MaxStalledCount
  BY <1>2 DEF Stalls
<1> QED BY <1>1, <1>2 DEF MaxStalledCount

LEMMA JobsInvNext == ASSUME JobsInv, [JobsNext]_jobVars PROVE JobsInv'
<1> USE DEF JobsInv, Certain, Busy, NoRun, RunStates
<1>1. CASE UNCHANGED jobVars
  BY <1>1 DEF jobVars
<1>2. CASE Enqueue
  BY <1>2 DEF Enqueue
<1>3. ASSUME NEW x \in Runs, StartJob(x) PROVE JobsInv'
  BY <1>3 DEF StartJob, Begin
<1>4. ASSUME NEW x \in Runs, RetryByHand(x) PROVE JobsInv'
  <2>1. run' = [run EXCEPT ![x] = [is |-> "hand", attempt |-> 1, at |-> "merchant"]] /\ x \notin Busy
    BY <1>4 DEF RetryByHand, Begin
  <2>2. Busy' = Busy \cup {x} /\ run'[x].is = "hand" /\ \A y \in Busy : run'[y] = run[y]
    BY <2>1
  <2>3. \A y \in holds : y \in Runs /\ run'[y].is = "job"
    BY <2>1
  <2>4. ~doubt' => Certain'
    BY <1>4, <2>1, <2>2 DEF RetryByHand, MayRetry
  <2> QED BY <1>4, <2>1, <2>2, <2>3, <2>4 DEF RetryByHand, MayRetry
<1>5. ASSUME NEW x \in Runs, Accept(x) PROVE JobsInv'
  BY <1>5 DEF Accept, Receives
<1>6. ASSUME NEW x \in Runs, AcceptUnheard(x) PROVE JobsInv'
  BY <1>6 DEF AcceptUnheard, Receives
<1>7. ASSUME NEW x \in Runs, NEW how, Refuse(x, how) PROVE JobsInv'
  BY <1>7 DEF Refuse, Receives
<1>8. ASSUME NEW x \in Runs, Deliver(x) PROVE JobsInv'
  <2>1. run' = [run EXCEPT ![x] = NoRun] /\ x \in Busy
    BY <1>8 DEF Deliver, Finalize
  <2>2. ~doubt' => Certain'
    BY <1>8, <2>1, RunEnds DEF Deliver, Finalize
  <2> QED BY <1>8, <2>1, <2>2, RunEnds DEF Deliver, Finalize
<1>9. ASSUME NEW x \in Runs, DeadLetter(x) PROVE JobsInv'
  <2>1. run' = [run EXCEPT ![x] = NoRun] /\ x \in Busy
    BY <1>9 DEF DeadLetter, Finalize
  <2>2. ~doubt' => Certain'
    BY <1>9, <2>1, RunEnds DEF DeadLetter, Finalize
  <2> QED BY <1>9, <2>1, <2>2, RunEnds DEF DeadLetter, Finalize
<1>10. ASSUME NEW x \in Runs, TryAgain(x) PROVE JobsInv'
  BY <1>10 DEF TryAgain
<1>11. ASSUME NEW x \in Runs, HandOutAgain(x) PROVE JobsInv'
  <2>1. queued' \/ left'
    BY <1>11, StallsFacts DEF HandOutAgain
  <2>2. stalled' \in Nat /\ holds' \subseteq holds
    BY <1>11 DEF HandOutAgain, Stalls
  <2> QED BY <1>11, <2>1, <2>2 DEF HandOutAgain
<1>12. ASSUME NEW x \in Runs, DieRunning(x) PROVE JobsInv'
  <2>1. run' = [run EXCEPT ![x] = NoRun] /\ x \in Busy /\ run[x].is \in {"job", "hand"}
    BY <1>12 DEF DieRunning
  <2>2. ~doubt' => Certain'
    <3>1. CASE run[x].is = "job"
      BY <1>12, <3>1 DEF DieRunning
    <3>2. CASE run[x].is = "hand"
      <4>1. x \notin holds /\ "hand" # "job"
        BY <3>2
      <4>2. queued' = queued /\ outcome' = outcome /\ fresh' = fresh
        BY <1>12, <4>1 DEF DieRunning
      <4>3. ~doubt' => ~doubt
        BY <1>12 DEF DieRunning
      <4> QED BY <2>1, <4>2, <4>3, RunEnds
    <3> QED BY <2>1, <3>1, <3>2
  <2>3. stalled' \in Nat /\ holds' \subseteq holds \ {x}
    BY <1>12 DEF DieRunning, Stalls
  <2>4. outcome' = "pending" =>
          queued' \/ left' \/ holds' # {} \/ \E y \in Busy' : run'[y].is = "hand"
    <3>1. CASE x \in holds
      <4>1. Stalls(x)
        BY <1>12, <3>1 DEF DieRunning
      <4>2. queued' \/ left'
        BY <4>1, StallsFacts
      <4> QED BY <4>2
    <3>2. CASE x \notin holds
      <4>1. /\ left' = (left \/ run[x].is = "hand") /\ queued' = queued /\ holds' = holds
            /\ outcome' = outcome
        BY <1>12, <3>2 DEF DieRunning
      <4> QED BY <2>1, <4>1, RunEnds
    <3> QED BY <3>1, <3>2
  <2>5. \A y \in holds' : y \in Runs /\ run'[y].is = "job"
    BY <2>1, <2>3
  <2> QED BY <1>12, <2>1, <2>2, <2>4, <2>3, <2>5, RunEnds DEF DieRunning
<1>13. ASSUME NEW x \in Runs, FinalizeFails(x) PROVE JobsInv'
  <2>1. run' = [run EXCEPT ![x] = NoRun] /\ x \in Busy
    BY <1>13 DEF FinalizeFails
  <2>2. ~doubt' => Certain'
    BY <1>13, <2>1, RunEnds DEF FinalizeFails
  <2> QED BY <1>13, <2>1, <2>2, RunEnds DEF FinalizeFails
<1> QED
  BY <1>1, <1>2, <1>3, <1>4, <1>5, <1>6, <1>7, <1>8, <1>9, <1>10, <1>11, <1>12, <1>13
     DEF JobsNext

(* What the row of an event tells is true, and a pending row has a dispatch *)
(* to come unless one was lost (services/webhook_worker.ts).               *)
THEOREM JobsTellTheTruth == JobsSpec => []RowTellsTheTruth
<1>1. JobsInv => RowTellsTheTruth
  BY DEF JobsInv, Certain, RowTellsTheTruth, Busy, NoRun
<1> QED BY <1>1, JobsInvInit, JobsInvNext, PTL DEF JobsSpec

-----------------------------------------------------------------------------
(* The sum of a finite set of amounts.  Induction on finite sets: among    *)
(* some there is one that no other is a part of.                           *)
LEMMA MinimalSet ==
  ASSUME NEW F, F # {}, \A S \in F : IsFiniteSet(S)
  PROVE  \E S \in F : \A T \in SUBSET S : T # S => T \notin F
<1> DEFINE Sizes == {Cardinality(S) : S \in F}
<1>1. Sizes \subseteq Nat /\ Sizes # {}
  BY FS_CardinalityType
<1>2. PICK n \in Sizes : \A m \in Sizes : n <= m
  BY <1>1, LeastNatural
<1>3. PICK S \in F : n = Cardinality(S)
  BY <1>2
<1>4. ASSUME NEW T \in SUBSET S, T # S, T \in F PROVE FALSE
  <2>1. Cardinality(T) < Cardinality(S) /\ Cardinality(T) \in Nat
    BY <1>4, FS_Subset, FS_CardinalityType
  <2>2. Cardinality(S) <= Cardinality(T) /\ Cardinality(S) \in Nat
    BY <1>2, <1>3, <1>4, FS_CardinalityType
  <2> QED BY <2>1, <2>2
<1> QED BY <1>4

(* AmountsOf adds one amount after the other, in the order they are picked *)
(* in; f adds so for every part of T.                                      *)
Picked(s) == CHOOSE x \in s : TRUE
Adds(f, T) ==
  f = [s \in SUBSET T |-> IF s = {} THEN 0 ELSE AmountOf[Picked(s)] + f[s \ {Picked(s)}]]
Adding(T) == CHOOSE f : Adds(f, T)

LEMMA AmountsAreAdded == \A T : AmountsOf(T) = Adding(T)[T]
  BY DEF AmountsOf, MapThenSumSet, MapThenFoldSet, Adding, Adds, Picked

LEMMA AddsOneWay ==
  ASSUME NEW S, NEW T, IsFiniteSet(S), S \subseteq T, NEW f, NEW g, Adds(f, S), Adds(g, T)
  PROVE  f[S] = g[S]
<1> DEFINE F == {s \in SUBSET S : f[s] # g[s]}
<1>1. ASSUME F # {} PROVE FALSE
  <2>1. \A s \in F : IsFiniteSet(s)
    BY FS_Subset
  <2>2. PICK s \in F : \A t \in SUBSET s : t # s => t \notin F
    BY <1>1, <2>1, MinimalSet
  <2>3. s \in SUBSET S /\ s \in SUBSET T /\ f[s] # g[s]
    BY <2>2
  <2>4. /\ f[s] = IF s = {} THEN 0 ELSE AmountOf[Picked(s)] + f[s \ {Picked(s)}]
        /\ g[s] = IF s = {} THEN 0 ELSE AmountOf[Picked(s)] + g[s \ {Picked(s)}]
    BY <2>3 DEF Adds
  <2>5. s # {} => s \ {Picked(s)} # s /\ s \ {Picked(s)} \in SUBSET s
    BY DEF Picked
  <2>6. s # {} => f[s \ {Picked(s)}] = g[s \ {Picked(s)}]
    BY <2>2, <2>3, <2>5
  <2> QED BY <2>3, <2>4, <2>6
<1> QED BY <1>1

LEMMA AddingAdds == ASSUME NEW T, IsFiniteSet(T) PROVE Adds(Adding(T), T)
<1> DEFINE F == {s \in SUBSET T : ~\E f : Adds(f, s)}
<1>1. ASSUME F # {} PROVE FALSE
  <2>1. \A s \in F : IsFiniteSet(s)
    BY FS_Subset
  <2>2. PICK S \in F : \A s \in SUBSET S : s # S => s \notin F
    BY <1>1, <2>1, MinimalSet
  <2>3. S \in SUBSET T /\ ~\E f : Adds(f, S) /\ IsFiniteSet(S)
    BY <2>1, <2>2
  <2>4. ASSUME NEW s \in SUBSET S, s # S PROVE Adds(Adding(s), s) /\ IsFiniteSet(s)
    <3>1. \E f : Adds(f, s)
      BY <2>2, <2>3, <2>4
    <3> QED BY <2>3, <3>1, FS_Subset DEF Adding
  <2> DEFINE Rest(s) == s \ {Picked(s)}
             g == [s \in SUBSET S |->
                     IF s = {} THEN 0 ELSE AmountOf[Picked(s)] + Adding(Rest(s))[Rest(s)]]
  <2>5. ASSUME NEW s \in SUBSET S, s # S PROVE g[s] = Adding(s)[s]
    <3>1. Adds(Adding(s), s)
      BY <2>4, <2>5
    <3>2. Adding(s)[s] = IF s = {} THEN 0 ELSE AmountOf[Picked(s)] + Adding(s)[Rest(s)]
      BY <3>1 DEF Adds
    <3>3. ASSUME s # {} PROVE Adding(s)[Rest(s)] = Adding(Rest(s))[Rest(s)]
      <4>1. Rest(s) \in SUBSET s /\ Rest(s) \in SUBSET S /\ Rest(s) # S
        BY <2>5, <3>3 DEF Picked
      <4>2. Adds(Adding(Rest(s)), Rest(s)) /\ IsFiniteSet(Rest(s))
        BY <2>4, <4>1
      <4> QED BY <3>1, <4>1, <4>2, AddsOneWay
    <3> QED BY <3>2, <3>3
  <2>6. ASSUME NEW s \in SUBSET S, s # {} PROVE g[Rest(s)] = Adding(Rest(s))[Rest(s)]
    <3>1. Rest(s) \in SUBSET S /\ Rest(s) # S
      BY <2>6 DEF Picked
    <3> QED BY <2>5, <3>1
  <2>7. g = [s \in SUBSET S |-> IF s = {} THEN 0 ELSE AmountOf[Picked(s)] + g[Rest(s)]]
    BY <2>6
  <2> HIDE DEF g
  <2>8. Adds(g, S)
    BY <2>7 DEF Adds
  <2> QED BY <2>3, <2>8
<1>2. T \notin F
  BY <1>1
<1> QED BY <1>2 DEF Adding

LEMMA AmountsByOne ==
  ASSUME NEW S, IsFiniteSet(S)
  PROVE  /\ S = {} => AmountsOf(S) = 0
         /\ S # {} => /\ Picked(S) \in S
                      /\ AmountsOf(S) = AmountOf[Picked(S)] + AmountsOf(S \ {Picked(S)})
<1> DEFINE R == S \ {Picked(S)}
<1>1. Adds(Adding(S), S) /\ Adds(Adding(R), R) /\ IsFiniteSet(R) /\ R \subseteq S
  BY AddingAdds, FS_Subset
<1>2. Adding(S)[S] = IF S = {} THEN 0 ELSE AmountOf[Picked(S)] + Adding(S)[R]
  BY <1>1 DEF Adds
<1>3. Adding(R)[R] = Adding(S)[R]
  BY <1>1, AddsOneWay
<1>4. S # {} => Picked(S) \in S
  BY DEF Picked
<1> QED BY <1>2, <1>3, <1>4, AmountsAreAdded

LEMMA AmountsAreNatural ==
  ASSUME NEW S \in SUBSET Payments, IsFiniteSet(S)
  PROVE  AmountsOf(S) \in Nat
<1> DEFINE F == {s \in SUBSET S : AmountsOf(s) \notin Nat}
<1>1. ASSUME F # {} PROVE FALSE
  <2>1. \A s \in F : IsFiniteSet(s)
    BY FS_Subset
  <2>2. PICK s \in F : \A t \in SUBSET s : t # s => t \notin F
    BY <1>1, <2>1, MinimalSet
  <2>3. s \in SUBSET S /\ IsFiniteSet(s) /\ AmountsOf(s) \notin Nat
    BY <2>1, <2>2
  <2>4. s # {} => /\ Picked(s) \in s
                  /\ AmountsOf(s) = AmountOf[Picked(s)] + AmountsOf(s \ {Picked(s)})
    BY <2>3, AmountsByOne
  <2>5. s # {} => AmountsOf(s \ {Picked(s)}) \in Nat
    BY <2>2, <2>3, <2>4
  <2>6. s # {} => AmountOf[Picked(s)] \in Nat
    BY <2>3, <2>4, AgentPayAssumption
  <2>7. s = {} => AmountsOf(s) = 0
    BY <2>3, AmountsByOne
  <2> QED BY <2>3, <2>4, <2>5, <2>6, <2>7
<1> QED BY <1>1

(* One more: in whatever order they are picked.                            *)
LEMMA AmountsWithOneMore ==
  ASSUME NEW S \in SUBSET Payments, IsFiniteSet(S), NEW x \in Payments \ S
  PROVE  AmountsOf(S \cup {x}) = AmountsOf(S) + AmountOf[x]
<1> DEFINE Wrong(s, y) == AmountsOf(s \cup {y}) # AmountsOf(s) + AmountOf[y]
           F == {s \in SUBSET (S \cup {x}) : \E y \in (S \cup {x}) \ s : Wrong(s, y)}
<1>1. IsFiniteSet(S \cup {x}) /\ S \cup {x} \subseteq Payments
  BY FS_AddElement
<1>2. ASSUME F # {} PROVE FALSE
  <2>1. \A s \in F : IsFiniteSet(s)
    BY <1>1, FS_Subset
  <2>2. PICK s \in F : \A t \in SUBSET s : t # s => t \notin F
    BY <1>2, <2>1, MinimalSet
  <2>3. PICK y \in (S \cup {x}) \ s : Wrong(s, y)
    BY <2>2
  <2>4. /\ s \subseteq Payments /\ y \in Payments \ s /\ IsFiniteSet(s)
        /\ IsFiniteSet(s \cup {y}) /\ s \cup {y} # {}
    BY <1>1, <2>1, <2>2, <2>3, FS_AddElement
  <2> DEFINE p == Picked(s \cup {y})
  <2>5. /\ p \in s \cup {y}
        /\ AmountsOf(s \cup {y}) = AmountOf[p] + AmountsOf((s \cup {y}) \ {p})
    BY <2>4, AmountsByOne
  <2> HIDE DEF p
  <2>6. AmountsOf(s) \in Nat /\ AmountOf[y] \in Nat /\ AmountOf[p] \in Nat
    BY <2>4, <2>5, AmountsAreNatural, AgentPayAssumption
  <2>7. CASE p = y
    <3>1. (s \cup {y}) \ {p} = s
      BY <2>4, <2>7
    <3>2. AmountsOf(s \cup {y}) = AmountOf[y] + AmountsOf(s)
      BY <2>5, <2>7, <3>1
    <3> QED BY <2>3, <2>6, <3>2
  <2>8. CASE p # y
    <3> DEFINE t == s \ {p}
    <3>1. /\ p \in s /\ t \subseteq s /\ t # s /\ (s \cup {y}) \ {p} = t \cup {y}
          /\ t \cup {p} = s /\ y \notin t /\ p \notin t
      BY <2>4, <2>5, <2>8
    <3> HIDE DEF t
    <3>2. t \notin F
      BY <2>2, <3>1
    <3>3. ~Wrong(t, y) /\ ~Wrong(t, p)
      BY <2>2, <2>3, <3>1, <3>2
    <3>4. AmountsOf(t) \in Nat
      BY <2>4, <3>1, FS_Subset, AmountsAreNatural
    <3>5. AmountsOf(t \cup {y}) = AmountsOf(t) + AmountOf[y] /\ AmountsOf(s) = AmountsOf(t) + AmountOf[p]
      BY <3>1, <3>3
    <3>6. AmountsOf(s \cup {y}) = AmountOf[p] + AmountsOf(t \cup {y})
      BY <2>5, <3>1
    <3> QED BY <2>3, <2>6, <3>4, <3>5, <3>6
  <2> QED BY <2>7, <2>8
<1>3. S \notin F /\ S \in SUBSET (S \cup {x}) /\ x \in (S \cup {x}) \ S
  BY <1>2
<1> QED BY <1>3

LEMMA AmountsOfParts ==
  ASSUME NEW A \in SUBSET Payments, NEW B \in SUBSET Payments,
         IsFiniteSet(A), IsFiniteSet(B), A \cap B = {}
  PROVE  AmountsOf(A \cup B) = AmountsOf(A) + AmountsOf(B)
<1> DEFINE F == {s \in SUBSET B : AmountsOf(A \cup s) # AmountsOf(A) + AmountsOf(s)}
<1>1. ASSUME F # {} PROVE FALSE
  <2>1. \A s \in F : IsFiniteSet(s)
    BY FS_Subset
  <2>2. PICK s \in F : \A t \in SUBSET s : t # s => t \notin F
    BY <1>1, <2>1, MinimalSet
  <2>3. s \in SUBSET B /\ IsFiniteSet(s) /\ AmountsOf(A) \in Nat
        /\ AmountsOf(A \cup s) # AmountsOf(A) + AmountsOf(s)
    BY <2>1, <2>2, AmountsAreNatural
  <2>4. CASE s = {}
    <3>1. AmountsOf(s) = 0 /\ A \cup s = A
      BY <2>3, <2>4, AmountsByOne
    <3>2. AmountsOf(A \cup s) = AmountsOf(A)
      BY <3>1, Zenon
    <3> QED BY <2>3, <3>1, <3>2
  <2>5. ASSUME NEW x \in s PROVE FALSE
    <3> DEFINE t == s \ {x}
    <3>1. /\ t \subseteq s /\ t # s /\ t \cup {x} = s /\ (A \cup t) \cup {x} = A \cup s
          /\ x \in Payments \ t /\ x \in Payments \ (A \cup t) /\ A \cup t \subseteq Payments
          /\ t \in SUBSET B
      BY <2>3
    <3>2. IsFiniteSet(t) /\ IsFiniteSet(A \cup t)
      BY <2>3, FS_Subset, FS_Union
    <3> HIDE DEF t
    <3>3. AmountsOf(A \cup t) = AmountsOf(A) + AmountsOf(t)
      BY <2>2, <3>1
    <3>4. AmountsOf((A \cup t) \cup {x}) = AmountsOf(A \cup t) + AmountOf[x]
      BY <3>1, <3>2, AmountsWithOneMore
    <3>5. AmountsOf(t \cup {x}) = AmountsOf(t) + AmountOf[x]
      BY <3>1, <3>2, AmountsWithOneMore
    <3>6. AmountsOf(t) \in Nat /\ AmountOf[x] \in Nat
      BY <3>1, <3>2, AmountsAreNatural, AgentPayAssumption
    <3>7. /\ AmountsOf(A \cup s) = AmountsOf(A) + AmountsOf(t) + AmountOf[x]
          /\ AmountsOf(s) = AmountsOf(t) + AmountOf[x]
      BY <3>1, <3>3, <3>4, <3>5, Zenon
    <3> QED BY <2>3, <3>6, <3>7
  <2> QED BY <2>4, <2>5
<1> QED BY <1>1

LEMMA AmountsOfLess ==
  ASSUME NEW A, NEW B \in SUBSET Payments, IsFiniteSet(B), A \subseteq B
  PROVE  AmountsOf(A) \in Nat /\ AmountsOf(B) \in Nat /\ AmountsOf(A) <= AmountsOf(B)
<1>1. IsFiniteSet(A) /\ IsFiniteSet(B \ A) /\ A \cup (B \ A) = B /\ A \cap (B \ A) = {}
  BY FS_Subset
<1>2. AmountsOf(A) \in Nat /\ AmountsOf(B \ A) \in Nat /\ AmountsOf(B) \in Nat
  BY <1>1, AmountsAreNatural
<1>3. AmountsOf(B) = AmountsOf(A) + AmountsOf(B \ A)
  BY <1>1, AmountsOfParts
<1> QED BY <1>2, <1>3

-----------------------------------------------------------------------------
(* Agent payments.  A request that waits has its row, and what counts is   *)
(* within the cap.                                                         *)
Begun == {r \in Payments : row[r] # "none"}

SpendInv ==
  /\ row \in [Payments -> {"none", "processing", "completed", "failed"}]
  /\ reply \in [Payments -> {"none", "waiting", "created", "replayed", "conflict",
                             "unauthorized", "limited", "failed", "error", "cut"}]
  /\ \A r \in Payments : /\ reply[r] = "none" => row[r] = "none"
                         /\ reply[r] = "waiting" => row[r] = "processing"
  /\ flying \cup landed \subseteq Begun
  /\ IsFiniteSet(Begun)
  /\ AmountsOf(Counted) <= Cap

LEMMA SpendInvInit == PayInit => SpendInv
<1> SUFFICES ASSUME PayInit PROVE SpendInv
  OBVIOUS
<1>1. Begun = {} /\ Counted = {} /\ IsFiniteSet({})
  BY FS_EmptySet DEF PayInit, Begun, Counted
<1>2. AmountsOf({}) = 0
  BY <1>1, AmountsByOne
<1> QED BY <1>1, <1>2, AgentPayAssumption DEF SpendInv, PayInit

LEMMA SpendInvNext == SpendInv /\ [AgentPayNext]_payVars => SpendInv'
<1> SUFFICES ASSUME SpendInv, [AgentPayNext]_payVars PROVE SpendInv'
  OBVIOUS
<1> USE DEF SpendInv
<1>1. CASE \E r \in Payments : BeginPayment(r)
  <2>1. PICK r \in Payments : BeginPayment(r)
    BY <1>1
  <2>2. /\ row[r] = "none" /\ row' = [row EXCEPT ![r] = "processing"]
        /\ reply' = [reply EXCEPT ![r] = "waiting"]
        /\ flying' = flying \cup {r} /\ landed' = landed /\ ~OverCap(r)
    BY <2>1 DEF BeginPayment, UseProof, Answer
  <2>3. Begun' = Begun \cup {r} /\ IsFiniteSet(Begun')
    BY <2>2, FS_AddElement DEF Begun
  <2>4. Counted' = Counted \cup {r} /\ r \notin Counted /\ Counted \subseteq Begun
    BY <2>2 DEF Counted, Begun
  <2>5. IsFiniteSet(Counted) /\ Counted \in SUBSET Payments
    BY <2>4, FS_Subset DEF Counted
  <2>6. AmountsOf(Counted \cup {r}) = AmountsOf(Counted) + AmountOf[r]
    BY <2>4, <2>5, AmountsWithOneMore
  <2>7. AmountsOf(Counted) \in Nat /\ AmountOf[r] \in Nat /\ Cap \in Nat
    BY <2>5, AmountsAreNatural, AgentPayAssumption
  <2>8. AmountsOf(Counted') <= Cap
    BY <2>2, <2>4, <2>6, <2>7 DEF OverCap
  <2>9. AmountsOf(Counted)' <= Cap
    BY <2>8 DEF AmountsOf, MapThenSumSet, MapThenFoldSet
  <2> QED BY <2>2, <2>3, <2>9 DEF Begun
<1>2. ASSUME Counted' \subseteq Counted, Begun' = Begun
      PROVE  IsFiniteSet(Begun') /\ AmountsOf(Counted)' <= Cap
  <2>1. IsFiniteSet(Counted) /\ Counted \in SUBSET Payments
    <3>1. Counted \subseteq Begun
      BY DEF Counted, Begun
    <3> QED BY <3>1, FS_Subset DEF Counted
  <2>2. /\ AmountsOf(Counted') <= AmountsOf(Counted) /\ AmountsOf(Counted') \in Nat
        /\ AmountsOf(Counted) \in Nat
    BY <1>2, <2>1, AmountsOfLess
  <2>3. AmountsOf(Counted') <= Cap
    BY <2>2, AgentPayAssumption
  <2>4. AmountsOf(Counted)' <= Cap
    BY <2>3 DEF AmountsOf, MapThenSumSet, MapThenFoldSet
  <2> QED BY <1>2, <2>4
<1>3. CASE \E r \in Payments :
             \/ AnswerFromCache(r) \/ RejectProof(r) \/ RejectOverCap(r) \/ LandPayment(r)
             \/ AnswerPayment(r) \/ TransferFails(r) \/ TransferTimesOut(r) \/ CacheFails(r)
  <2>1. PICK r \in Payments :
          \/ AnswerFromCache(r) \/ RejectProof(r) \/ RejectOverCap(r) \/ LandPayment(r)
          \/ AnswerPayment(r) \/ TransferFails(r) \/ TransferTimesOut(r) \/ CacheFails(r)
    BY <1>3
  <2>2. \/ /\ row' = row
           /\ \/ reply' = reply
              \/ \E what \in {"replayed", "conflict", "unauthorized", "limited"} :
                   reply' = [reply EXCEPT ![r] = what]
        \/ /\ row[r] # "none"
           /\ \/ row' = [row EXCEPT ![r] = "completed"] /\ row[r] # "failed"
              \/ row' = [row EXCEPT ![r] = "failed"]
           /\ \E what \in {"created", "failed", "error"} : reply' = [reply EXCEPT ![r] = what]
    BY <2>1 DEF AnswerFromCache, RejectProof, RejectOverCap, UseProof, LandPayment,
       AnswerPayment, TransferFails, TransferTimesOut, CacheFails, Complete, FailPayment, Answer
  <2>3. flying' \cup landed' \subseteq flying \cup landed
    BY <2>1 DEF AnswerFromCache, RejectProof, RejectOverCap, UseProof, LandPayment,
       AnswerPayment, TransferFails, TransferTimesOut, CacheFails, Complete, FailPayment
  <2>4. /\ row' \in [Payments -> {"none", "processing", "completed", "failed"}]
        /\ reply' \in [Payments -> {"none", "waiting", "created", "replayed", "conflict",
                                    "unauthorized", "limited", "failed", "error", "cut"}]
        /\ \A q \in Payments : /\ reply'[q] = "none" => row'[q] = "none"
                               /\ reply'[q] = "waiting" => row'[q] = "processing"
    BY <2>2
  <2>5. Counted' \subseteq Counted /\ Begun' = Begun
    BY <2>2 DEF Counted, Begun
  <2> QED BY <1>2, <2>3, <2>4, <2>5
<1>4. CASE PayRestarts \/ UNCHANGED payVars
  <2>1. /\ UNCHANGED <<row, flying, landed>>
        /\ \/ reply' = reply
           \/ reply' = [r \in Payments |-> IF reply[r] = "waiting" THEN "cut" ELSE reply[r]]
    BY <1>4 DEF PayRestarts, payVars
  <2>2. Counted' \subseteq Counted /\ Begun' = Begun
    BY <2>1 DEF Counted, Begun
  <2> QED BY <1>2, <2>1, <2>2
<1> QED BY <1>1, <1>3, <1>4 DEF AgentPayNext

(* SpendHoldsCap: what leaves the wallet stays within the daily cap, but   *)
(* for transfers that land although their call has thrown                  *)
(* (services/agent-to-agent.ts).                                           *)
THEOREM AgentsKeepToCap == AgentPaySpec => []SpendHoldsCap
<1>1. SpendInv => SpendHoldsCap
  <2> SUFFICES ASSUME SpendInv PROVE SpendHoldsCap
    OBVIOUS
  <2> DEFINE Sent == landed \cup flying
             Thrown == {r \in Sent : row[r] = "failed"}
             Told == Sent \ Thrown
  <2>1. /\ Told \subseteq Counted /\ Counted \subseteq Begun /\ Thrown \subseteq Begun
        /\ Told \subseteq Begun /\ Begun \subseteq Payments
    BY DEF SpendInv, Counted, Begun
  <2>2. Sent = Told \cup Thrown /\ Told \cap Thrown = {}
    OBVIOUS
  <2> HIDE DEF Told
  <2>3. IsFiniteSet(Told) /\ IsFiniteSet(Thrown) /\ IsFiniteSet(Counted)
    BY <2>1, FS_Subset DEF SpendInv
  <2>4. AmountsOf(Told \cup Thrown) = AmountsOf(Told) + AmountsOf(Thrown)
    BY <2>1, <2>2, <2>3, AmountsOfParts
  <2>5. /\ AmountsOf(Told) <= AmountsOf(Counted) /\ AmountsOf(Told) \in Nat
        /\ AmountsOf(Counted) \in Nat
    BY <2>1, <2>3, AmountsOfLess
  <2>6. AmountsOf(Thrown) \in Nat
    BY <2>1, <2>3, AmountsAreNatural
  <2> HIDE DEF Sent, Thrown
  <2>7. AmountsOf(Sent) = AmountsOf(Told) + AmountsOf(Thrown)
    BY <2>2, <2>4, Zenon
  <2>8. AmountsOf(Sent) <= Cap + AmountsOf(Thrown)
    BY <2>5, <2>6, <2>7, AgentPayAssumption DEF SpendInv
  <2> QED BY <2>8 DEF SpendHoldsCap, Sent, Thrown
<1> QED BY <1>1, SpendInvInit, SpendInvNext, PTL DEF AgentPaySpec

-----------------------------------------------------------------------------
(* The charger.  A period counts as owed once more while a transfer for it *)
(* is under way.                                                           *)
Copies == [sub : Subs, due : Periods, signed : BOOLEAN]
Charging == {w \in Workers : stage[w] # "idle"}
Sent(s, d) == {w \in Workers : stage[w] = "sent" /\ Copy(w).sub = s /\ Copy(w).due = d}
Incurred(s, d) == charged[<<s, d>>] + Cardinality(Sent(s, d))
Excused(s) == lost[s] + overlap[s]

ChargerShape ==
  /\ due \in [Subs -> Nat]
  /\ todo \in [Workers -> Seq(Copies)]
  /\ stage \in [Workers -> {"idle", "sent", "landed"}]
  /\ charged \in [Subs \X Periods -> Nat]
  /\ lost \in [Subs -> Nat] /\ overlap \in [Subs -> Nat]
  /\ \A w \in Workers : todo[w] = <<>> => stage[w] = "idle"
  /\ IsFiniteSet(Charging)

(* A period that is not past, of which no copy is in hand, and a period    *)
(* after that of a copy in hand, which may turn the date back, are not     *)
(* charged for but by a charge that is excused.                            *)
ChargesBounded(s, d) ==
  /\ Incurred(s, d) <= 1 + Excused(s)
  /\ d >= due[s] /\ (\A w \in InHand(s) : Copy(w).due # d) => Incurred(s, d) <= Excused(s)
  /\ (\E w \in InHand(s) : Copy(w).due < d) => Incurred(s, d) <= Excused(s)

(* Neither the date of a row nor that of a copy has moved past a period    *)
(* that is not charged for.                                                *)
PastIsCharged ==
  /\ \A s \in Subs, d \in Periods : d < due[s] => charged[<<s, d>>] > 0
  /\ \A w \in Workers : \A i \in DOMAIN todo[w], d \in Periods :
       d < todo[w][i].due => charged[<<todo[w][i].sub, d>>] > 0
  /\ \A w \in Workers : stage[w] = "landed" => charged[<<Copy(w).sub, Copy(w).due>>] > 0

ChargerInv ==
  /\ ChargerShape
  /\ PastIsCharged
  /\ \A s \in Subs, d \in Periods : ChargesBounded(s, d)

LEMMA CopyInHand ==
  ASSUME ChargerShape, NEW w \in Workers, todo[w] # <<>>
  PROVE  /\ Copy(w) = todo[w][1] /\ Copy(w) \in Copies /\ 1 \in DOMAIN todo[w]
         /\ Copy(w).sub \in Subs /\ Copy(w).due \in Periods /\ Copy(w).due \in Nat
<1>1. todo[w] \in Seq(Copies)
  BY DEF ChargerShape
<1>2. Copy(w) = todo[w][1] /\ 1 \in DOMAIN todo[w] /\ todo[w][1] \in Copies
  BY <1>1 DEF Copy
<1> QED BY <1>2 DEF Copies, Periods

LEMMA SentAreFinite ==
  ASSUME ChargerShape, NEW s \in Subs, NEW d \in Periods
  PROVE  /\ IsFiniteSet(Sent(s, d)) /\ Cardinality(Sent(s, d)) \in Nat
         /\ Incurred(s, d) \in Nat /\ Excused(s) \in Nat
<1>1. Sent(s, d) \subseteq Charging
  BY DEF Sent, Charging
<1>2. IsFiniteSet(Sent(s, d)) /\ Cardinality(Sent(s, d)) \in Nat
  BY <1>1, FS_Subset, FS_CardinalityType DEF ChargerShape
<1> QED BY <1>2 DEF ChargerShape, Incurred, Excused

LEMMA SentAreFiniteNext ==
  ASSUME ChargerShape', NEW s \in Subs, NEW d \in Periods
  PROVE  /\ Cardinality(Sent(s, d)') \in Nat
         /\ Incurred(s, d)' \in Nat /\ Excused(s)' \in Nat
<1>1. Sent(s, d)' \subseteq Charging'
  BY DEF Sent, Charging
<1>2. IsFiniteSet(Sent(s, d)') /\ Cardinality(Sent(s, d)') \in Nat
  BY <1>1, FS_Subset, FS_CardinalityType DEF ChargerShape
<1> QED BY <1>2 DEF ChargerShape, Incurred, Excused

LEMMA ChargerInvInit == ASSUME ChargerInit PROVE ChargerInv
<1>1. Charging = {} /\ \A s \in Subs, d \in Periods : Sent(s, d) = {}
  BY DEF ChargerInit, Charging, Sent
<1>2. ChargerShape
  BY <1>1, FS_EmptySet DEF ChargerInit, ChargerShape
<1>3. PastIsCharged
  BY DEF ChargerInit, PastIsCharged, Periods
<1>4. ASSUME NEW s \in Subs, NEW d \in Periods PROVE ChargesBounded(s, d)
  <2>1. Incurred(s, d) = 0 /\ Excused(s) = 0
    BY <1>1, FS_EmptySet DEF ChargerInit, Incurred, Excused
  <2>2. InHand(s) = {}
    BY DEF ChargerInit, InHand
  <2> QED BY <2>1, <2>2 DEF ChargesBounded
<1> QED BY <1>2, <1>3, <1>4 DEF ChargerInv

(* Nothing of the worker's copies in hand, of the charges and of the dates *)
(* changes.                                                                *)
LEMMA ChargerInvAside ==
  ASSUME ChargerInv, ChargerShape', UNCHANGED <<due, stage, charged, lost, overlap>>,
         \A w \in Workers : stage[w] # "idle" => todo'[w] = todo[w],
         \A w \in Workers : \A i \in DOMAIN todo'[w], d \in Periods :
           d < todo'[w][i].due => charged[<<todo'[w][i].sub, d>>] > 0
  PROVE  ChargerInv'
<1> USE DEF ChargerInv
<1>1. \A w \in Workers : stage[w] # "idle" => Copy(w)' = Copy(w)
  BY DEF Copy
<1>2. PastIsCharged'
  BY <1>1 DEF PastIsCharged
<1>3. ASSUME NEW s \in Subs, NEW d \in Periods PROVE ChargesBounded(s, d)'
  <2>1. Sent(s, d)' = Sent(s, d)
    BY <1>1 DEF Sent
  <2>2. Incurred(s, d)' = Incurred(s, d) /\ Excused(s)' = Excused(s)
    BY <2>1 DEF Incurred, Excused
  <2>3. InHand(s)' = InHand(s) /\ \A w \in InHand(s) : Copy(w)' = Copy(w)
    BY <1>1 DEF InHand
  <2> QED BY <2>2, <2>3 DEF ChargesBounded
<1> QED BY <1>2, <1>3

(* A transfer begins: from the copy of today's date, while no other is in  *)
(* hand, or else it is counted.                                            *)
LEMMA BeginBounded ==
  ASSUME ChargerInv, NEW w \in Workers, BeginTransfer(w), ChargerShape',
         NEW s \in Subs, NEW d \in Periods
  PROVE  ChargesBounded(s, d)'
<1> DEFINE c == Copy(w)
<1>1. ChargerShape /\ ChargesBounded(s, d)
  BY DEF ChargerInv
<1>2. /\ todo[w] # <<>> /\ stage[w] = "idle"
      /\ stage' = [stage EXCEPT ![w] = "sent"]
      /\ overlap' = IF InHand(c.sub) # {} \/ due[c.sub] # c.due
                    THEN [overlap EXCEPT ![c.sub] = @ + 1] ELSE overlap
      /\ todo' = todo /\ due' = due /\ charged' = charged /\ lost' = lost
  BY DEF BeginTransfer, subVars
<1>3. c.sub \in Subs /\ c.due \in Periods /\ c.due \in Nat
  BY <1>1, <1>2, CopyInHand
<1>4. \A u \in Workers : Copy(u)' = Copy(u)
  BY <1>2 DEF Copy
<1>5. /\ Sent(s, d) \subseteq Sent(s, d)'
      /\ Sent(s, d)' \subseteq Sent(s, d) \cup {w}
      /\ (s = c.sub /\ d = c.due) \/ Sent(s, d)' = Sent(s, d)
  BY <1>2, <1>4 DEF Sent, ChargerShape
<1>6. /\ IsFiniteSet(Sent(s, d)) /\ Cardinality(Sent(s, d)) \in Nat
      /\ Incurred(s, d) \in Nat /\ Excused(s) \in Nat
  BY <1>1, SentAreFinite
<1>7. Cardinality(Sent(s, d)') \in Nat /\ Incurred(s, d)' \in Nat /\ Excused(s)' \in Nat
  BY SentAreFiniteNext
<1>8. /\ charged[<<s, d>>] \in Nat /\ lost[s] \in Nat /\ overlap[s] \in Nat
      /\ due[s] \in Nat /\ d \in Nat
  BY <1>1 DEF ChargerShape, Periods
<1>9. Incurred(s, d)' <= Incurred(s, d) + 1
  <2>1. Cardinality(Sent(s, d)') <= Cardinality(Sent(s, d)) + 1
    BY <1>5, <1>6, CountWithOneMore
  <2> QED BY <1>2, <1>6, <1>7, <1>8, <2>1 DEF Incurred
<1>10. (s = c.sub /\ d = c.due) \/ Incurred(s, d)' = Incurred(s, d)
  BY <1>2, <1>5 DEF Incurred
<1>11. InHand(s)' = IF s = c.sub THEN InHand(s) \cup {w} ELSE InHand(s)
  BY <1>2, <1>4 DEF InHand, ChargerShape
<1>12. CASE s # c.sub
  <2>1. Incurred(s, d)' = Incurred(s, d) /\ InHand(s)' = InHand(s)
    BY <1>10, <1>11, <1>12
  <2>2. Excused(s)' = Excused(s)
    BY <1>2, <1>3, <1>12 DEF Excused, ChargerShape
  <2>3. \A u \in InHand(s) : Copy(u)' = Copy(u)
    BY <1>4 DEF InHand
  <2> QED BY <1>1, <1>2, <2>1, <2>2, <2>3 DEF ChargesBounded
<1>13. CASE s = c.sub /\ (InHand(s) # {} \/ due[s] # c.due)
  <2>1. overlap'[s] = overlap[s] + 1
    BY <1>1, <1>2, <1>13 DEF ChargerShape
  <2>2. Excused(s)' = Excused(s) + 1
    BY <1>2, <1>8, <2>1 DEF Excused
  <2>3. Incurred(s, d)' <= 1 + Excused(s)'
    BY <1>1, <1>6, <1>7, <1>9, <2>2 DEF ChargesBounded
  <2>4. ASSUME d >= due'[s], \A u \in InHand(s)' : Copy(u)'.due # d
        PROVE  Incurred(s, d)' <= Excused(s)'
    <3>1. d # c.due /\ \A u \in InHand(s) : Copy(u).due # d
      BY <1>4, <1>11, <1>13, <2>4 DEF InHand
    <3> QED BY <1>1, <1>2, <1>6, <1>7, <1>10, <2>2, <2>4, <3>1 DEF ChargesBounded
  <2>5. ASSUME \E u \in InHand(s)' : Copy(u)'.due < d
        PROVE  Incurred(s, d)' <= Excused(s)'
    <3>1. CASE d = c.due
      <4>1. ~(c.due < d)
        BY <1>3, <3>1
      <4>2. \E u \in InHand(s) : Copy(u).due < d
        BY <1>4, <1>11, <1>13, <2>5, <4>1 DEF InHand
      <4> QED BY <1>1, <1>6, <1>7, <1>9, <2>2, <4>2 DEF ChargesBounded
    <3>2. CASE d # c.due
      BY <1>1, <1>6, <1>7, <1>10, <2>2, <3>2 DEF ChargesBounded
    <3> QED BY <3>1, <3>2
  <2> QED BY <2>3, <2>4, <2>5 DEF ChargesBounded
<1>14. CASE s = c.sub /\ InHand(s) = {} /\ due[s] = c.due
  <2>1. Excused(s)' = Excused(s)
    BY <1>2, <1>14 DEF Excused
  <2>2. InHand(s)' = {w} /\ Copy(w)'.due = c.due
    BY <1>4, <1>11, <1>14
  <2>3. CASE d >= due[s]
    <3>1. Incurred(s, d) <= Excused(s)
      BY <1>1, <1>14, <2>3 DEF ChargesBounded
    <3>2. Incurred(s, d)' <= 1 + Excused(s)
      BY <1>6, <1>7, <1>9, <3>1
    <3>3. d # c.due => Incurred(s, d)' <= Excused(s)
      BY <1>10, <3>1
    <3>4. ~(c.due < c.due)
      BY <1>3
    <3> QED BY <2>1, <2>2, <3>2, <3>3, <3>4 DEF ChargesBounded
  <2>4. CASE ~(d >= due[s])
    <3>1. d # c.due /\ ~(c.due < d) /\ ~(d >= due'[s])
      BY <1>2, <1>3, <1>8, <1>14, <2>4
    <3>2. Incurred(s, d)' = Incurred(s, d)
      BY <1>10, <3>1
    <3> QED BY <1>1, <2>1, <2>2, <3>1, <3>2 DEF ChargesBounded
  <2> QED BY <2>3, <2>4
<1> QED BY <1>12, <1>13, <1>14

(* A transfer lands: what was under way is charged for.                    *)
LEMMA LandBounded ==
  ASSUME ChargerInv, NEW w \in Workers, LandCharge(w), ChargerShape',
         NEW s \in Subs, NEW d \in Periods
  PROVE  ChargesBounded(s, d)'
<1> DEFINE c == Copy(w)
<1>1. ChargerShape /\ ChargesBounded(s, d)
  BY DEF ChargerInv
<1>2. /\ stage[w] = "sent" /\ stage' = [stage EXCEPT ![w] = "landed"]
      /\ charged' = [charged EXCEPT ![<<c.sub, c.due>>] = @ + 1]
      /\ todo' = todo /\ due' = due /\ lost' = lost /\ overlap' = overlap
  BY DEF LandCharge, subVars
<1>3. c.sub \in Subs /\ c.due \in Periods
  BY <1>1, <1>2, CopyInHand DEF ChargerShape
<1>4. \A u \in Workers : Copy(u)' = Copy(u)
  BY <1>2 DEF Copy
<1>5. /\ IsFiniteSet(Sent(s, d)) /\ Cardinality(Sent(s, d)) \in Nat
      /\ Incurred(s, d) \in Nat /\ Excused(s) \in Nat
  BY <1>1, SentAreFinite
<1>6. Cardinality(Sent(s, d)') \in Nat /\ Incurred(s, d)' \in Nat
  BY SentAreFiniteNext
<1>7. charged[<<s, d>>] \in Nat /\ charged'[<<s, d>>] \in Nat
  BY <1>1 DEF ChargerShape
<1>8. Incurred(s, d)' <= Incurred(s, d)
  <2>1. CASE s = c.sub /\ d = c.due
    <3>1. w \in Sent(s, d) /\ Sent(s, d)' \subseteq Sent(s, d) \ {w}
      BY <1>1, <1>2, <1>4, <2>1 DEF Sent, ChargerShape
    <3>2. Cardinality(Sent(s, d)') + 1 <= Cardinality(Sent(s, d))
      BY <1>5, <3>1, CountWithOneLess
    <3>3. charged'[<<s, d>>] = charged[<<s, d>>] + 1
      BY <1>1, <1>2, <2>1 DEF ChargerShape
    <3> QED BY <1>5, <1>6, <1>7, <3>2, <3>3 DEF Incurred
  <2>2. CASE ~(s = c.sub /\ d = c.due)
    <3>1. Sent(s, d)' = Sent(s, d)
      BY <1>1, <1>2, <1>4, <2>2 DEF Sent, ChargerShape
    <3>2. charged'[<<s, d>>] = charged[<<s, d>>]
      BY <1>1, <1>2, <1>3, <2>2 DEF ChargerShape
    <3> QED BY <1>6, <3>1, <3>2 DEF Incurred
  <2> QED BY <2>1, <2>2
<1>9. InHand(s)' = InHand(s) /\ \A u \in InHand(s) : Copy(u)' = Copy(u)
  BY <1>1, <1>2, <1>4 DEF InHand, ChargerShape
<1>10. Excused(s)' = Excused(s)
  BY <1>2 DEF Excused
<1> QED BY <1>1, <1>2, <1>5, <1>6, <1>8, <1>9, <1>10 DEF ChargesBounded

(* A worker is done with a copy: one it had not begun or that failed, one  *)
(* whose transfer it lost, or one it recorded.                             *)
Recorded(w) == lost' = lost /\ due' = [due EXCEPT ![Copy(w).sub] = Copy(w).due + 1]

Leaves(w) ==
  /\ stage' = [stage EXCEPT ![w] = "idle"]
  /\ todo[w] # <<>> /\ todo' = [todo EXCEPT ![w] = todo'[w]]
  /\ UNCHANGED <<charged, overlap>>
  /\ \/ stage[w] # "landed" /\ UNCHANGED <<due, lost>>
     \/ stage[w] = "landed" /\ due' = due /\ lost' = [lost EXCEPT ![Copy(w).sub] = @ + 1]
     \/ stage[w] = "landed" /\ Recorded(w)

LEMMA LeaveBounded ==
  ASSUME ChargerInv, NEW w \in Workers, Leaves(w), ChargerShape',
         NEW s \in Subs, NEW d \in Periods
  PROVE  ChargesBounded(s, d)'
<1> DEFINE c == Copy(w)
<1>1. ChargerShape /\ ChargesBounded(s, d)
  BY DEF ChargerInv
<1>2. c.sub \in Subs /\ c.due \in Periods /\ c.due \in Nat
  BY <1>1, CopyInHand DEF Leaves
<1>3. \A u \in Workers \ {w} : Copy(u)' = Copy(u) /\ stage'[u] = stage[u]
  BY <1>1 DEF Copy, Leaves, ChargerShape
<1>4. /\ Sent(s, d)' = Sent(s, d) \ {w}
      /\ InHand(s)' = InHand(s) \ {w}
  BY <1>1, <1>3 DEF Sent, InHand, Leaves, ChargerShape
<1>5. /\ IsFiniteSet(Sent(s, d)) /\ Cardinality(Sent(s, d)) \in Nat
      /\ Incurred(s, d) \in Nat /\ Excused(s) \in Nat
  BY <1>1, SentAreFinite
<1>6. Cardinality(Sent(s, d)') \in Nat /\ Incurred(s, d)' \in Nat /\ Excused(s)' \in Nat
  BY SentAreFiniteNext
<1>7. /\ charged[<<s, d>>] \in Nat /\ lost[s] \in Nat /\ overlap[s] \in Nat
      /\ due[s] \in Nat /\ d \in Nat
  BY <1>1 DEF ChargerShape, Periods
<1>8. Incurred(s, d)' <= Incurred(s, d)
  <2>1. Cardinality(Sent(s, d)') <= Cardinality(Sent(s, d))
    BY <1>4, <1>5, FS_Subset
  <2>2. charged'[<<s, d>>] = charged[<<s, d>>]
    BY DEF Leaves
  <2> QED BY <1>5, <1>6, <1>7, <2>1, <2>2 DEF Incurred
<1>9. Excused(s) <= Excused(s)'
  <2>1. lost[s] <= lost'[s] /\ lost'[s] \in Nat /\ overlap'[s] = overlap[s]
    <3>1. overlap'[s] = overlap[s]
      BY DEF Leaves
    <3>2. CASE lost' = lost
      BY <1>7, <3>1, <3>2
    <3>3. CASE lost' = [lost EXCEPT ![c.sub] = @ + 1]
      BY <1>1, <1>2, <1>7, <3>1, <3>3 DEF ChargerShape
    <3> QED BY <3>2, <3>3 DEF Leaves, Recorded
  <2> QED BY <1>7, <2>1 DEF Excused
<1>10. Incurred(s, d)' <= 1 + Excused(s)'
  BY <1>1, <1>5, <1>6, <1>8, <1>9 DEF ChargesBounded
<1>11. (\E u \in InHand(s)' : Copy(u)'.due < d) => Incurred(s, d)' <= Excused(s)'
  <2>1. (\E u \in InHand(s)' : Copy(u)'.due < d) => \E u \in InHand(s) : Copy(u).due < d
    BY <1>3, <1>4 DEF InHand
  <2> QED BY <1>1, <1>5, <1>6, <1>8, <1>9, <2>1 DEF ChargesBounded
<1>12. ASSUME d >= due'[s], \A u \in InHand(s)' : Copy(u)'.due # d
       PROVE  Incurred(s, d)' <= Excused(s)'
  <2>1. \A u \in InHand(s) \ {w} : Copy(u).due # d
    BY <1>3, <1>4, <1>12 DEF InHand
  <2>2. CASE w \notin InHand(s)
    <3>1. due'[s] = due[s]
      BY <1>1, <1>2, <2>2 DEF InHand, Leaves, Recorded, ChargerShape
    <3>2. Incurred(s, d) <= Excused(s)
      BY <1>1, <1>12, <2>1, <2>2, <3>1 DEF ChargesBounded
    <3> QED BY <1>5, <1>6, <1>8, <1>9, <3>2
  <2>3. CASE w \in InHand(s) /\ stage[w] = "sent"
    <3>1. c.sub = s /\ due'[s] = due[s]
      BY <2>3 DEF InHand, Leaves
    <3>2. CASE c.due = d
      <4>1. w \in Sent(s, d)
        BY <2>3, <3>1, <3>2 DEF Sent
      <4>2. Cardinality(Sent(s, d)') + 1 <= Cardinality(Sent(s, d))
        BY <1>4, <1>5, <4>1, CountWithOneLess
      <4>3. charged'[<<s, d>>] = charged[<<s, d>>]
        BY DEF Leaves
      <4>4. Incurred(s, d)' + 1 <= Incurred(s, d)
        BY <1>5, <1>6, <1>7, <4>2, <4>3 DEF Incurred
      <4>5. Incurred(s, d) <= 1 + Excused(s)
        BY <1>1 DEF ChargesBounded
      <4> QED BY <1>5, <1>6, <1>9, <4>4, <4>5
    <3>3. CASE c.due # d
      <4>1. Incurred(s, d) <= Excused(s)
        BY <1>1, <1>12, <2>1, <3>1, <3>3 DEF ChargesBounded
      <4> QED BY <1>5, <1>6, <1>8, <1>9, <4>1
    <3> QED BY <3>2, <3>3
  <2>4. CASE w \in InHand(s) /\ stage[w] = "landed" /\ lost' = [lost EXCEPT ![c.sub] = @ + 1]
    <3>1. lost'[s] = lost[s] + 1 /\ overlap'[s] = overlap[s]
      BY <1>1, <2>4 DEF InHand, Leaves, ChargerShape
    <3>2. Excused(s)' = Excused(s) + 1
      BY <1>7, <3>1 DEF Excused
    <3>3. Incurred(s, d) <= 1 + Excused(s)
      BY <1>1 DEF ChargesBounded
    <3> QED BY <1>5, <1>6, <1>8, <3>2, <3>3
  <2>5. CASE w \in InHand(s) /\ stage[w] = "landed" /\ Recorded(w)
    <3>1. c.sub = s /\ due'[s] = c.due + 1
      BY <1>1, <2>5 DEF InHand, Recorded, ChargerShape
    <3>2. c.due < d
      BY <1>2, <1>7, <1>12, <3>1
    <3>3. Incurred(s, d) <= Excused(s)
      BY <1>1, <2>5, <3>2 DEF ChargesBounded
    <3> QED BY <1>5, <1>6, <1>8, <1>9, <3>3
  <2>6. w \in InHand(s) => stage[w] \in {"sent", "landed"}
    BY <1>1 DEF InHand, ChargerShape
  <2> QED BY <2>2, <2>3, <2>4, <2>5, <2>6 DEF Leaves
<1> QED BY <1>10, <1>11, <1>12 DEF ChargesBounded

LEMMA TailOfCopies ==
  ASSUME NEW S, NEW q \in Seq(S), q # <<>>
  PROVE  /\ Tail(q) \in Seq(S)
         /\ \A i \in DOMAIN Tail(q) : i + 1 \in DOMAIN q /\ Tail(q)[i] = q[i + 1]
  OBVIOUS

(* ... and goes on with the rest, or drops it.                             *)
LEMMA ChargerInvLeave ==
  ASSUME ChargerInv, NEW w \in Workers, Leaves(w), todo'[w] \in {Tail(todo[w]), <<>>}
  PROVE  ChargerInv'
<1> DEFINE c == Copy(w)
<1>1. ChargerShape
  BY DEF ChargerInv
<1>2. /\ c.sub \in Subs /\ c.due \in Periods /\ c.due \in Nat
      /\ todo[w] \in Seq(Copies) /\ todo[w] # <<>> /\ c = todo[w][1] /\ 1 \in DOMAIN todo[w]
  BY <1>1, CopyInHand DEF Leaves, ChargerShape
<1>3. /\ todo'[w] \in Seq(Copies)
      /\ \A i \in DOMAIN todo'[w] : i + 1 \in DOMAIN todo[w] /\ todo'[w][i] = todo[w][i + 1]
  <2>1. CASE todo'[w] = Tail(todo[w])
    BY <1>2, <2>1, TailOfCopies
  <2>2. CASE todo'[w] = <<>>
    BY <2>2
  <2> QED BY <2>1, <2>2
<1>4. /\ todo' \in [Workers -> Seq(Copies)]
      /\ \A u \in Workers \ {w} : todo'[u] = todo[u] /\ stage'[u] = stage[u]
      /\ stage'[w] = "idle"
  BY <1>1, <1>3 DEF Leaves, ChargerShape
<1>5. ChargerShape'
  <2>1. /\ due' \in [Subs -> Nat] /\ lost' \in [Subs -> Nat]
        /\ charged' = charged /\ overlap' = overlap
        /\ stage' \in [Workers -> {"idle", "sent", "landed"}]
    <3>1. due' \in [Subs -> Nat]
      <4>1. c.due + 1 \in Nat
        BY <1>2
      <4>2. due' = due \/ due' = [due EXCEPT ![c.sub] = c.due + 1]
        BY DEF Leaves, Recorded
      <4> QED BY <1>1, <4>1, <4>2 DEF ChargerShape
    <3>2. lost' \in [Subs -> Nat]
      <4>1. lost' = lost \/ lost' = [lost EXCEPT ![c.sub] = @ + 1]
        BY DEF Leaves, Recorded
      <4>2. lost \in [Subs -> Nat] /\ lost[c.sub] + 1 \in Nat
        BY <1>1, <1>2 DEF ChargerShape
      <4> QED BY <4>1, <4>2
    <3> QED BY <1>1, <3>1, <3>2 DEF Leaves, ChargerShape
  <2>2. Charging' \subseteq Charging
    BY <1>4 DEF Charging
  <2>3. IsFiniteSet(Charging')
    BY <1>1, <2>2, FS_Subset DEF ChargerShape
  <2>4. \A u \in Workers : todo'[u] = <<>> => stage'[u] = "idle"
    BY <1>1, <1>4 DEF ChargerShape
  <2> QED BY <1>1, <1>4, <2>1, <2>3, <2>4 DEF ChargerShape
<1>6. \A u \in Workers \ {w} : Copy(u)' = Copy(u)
  BY <1>4 DEF Copy
<1>7. PastIsCharged'
  <2>1. ASSUME NEW s \in Subs, NEW d \in Periods, d < due'[s] PROVE charged[<<s, d>>] > 0
    <3>1. CASE due' = due
      BY <2>1, <3>1 DEF ChargerInv, PastIsCharged
    <3>2. CASE stage[w] = "landed" /\ Recorded(w)
      <4>1. CASE s # c.sub
        <5>1. due'[s] = due[s]
          BY <1>1, <3>2, <4>1 DEF Recorded, ChargerShape
        <5> QED BY <2>1, <5>1 DEF ChargerInv, PastIsCharged
      <4>2. CASE s = c.sub
        <5>1. due'[s] = c.due + 1 /\ d \in Nat
          BY <1>1, <3>2, <4>2 DEF Recorded, ChargerShape, Periods
        <5>2. d < c.due \/ d = c.due
          BY <1>2, <2>1, <5>1
        <5>3. d < c.due => charged[<<s, d>>] > 0
          BY <1>2, <4>2 DEF ChargerInv, PastIsCharged
        <5>4. charged[<<c.sub, c.due>>] > 0
          BY <3>2 DEF ChargerInv, PastIsCharged
        <5> QED BY <4>2, <5>2, <5>3, <5>4
      <4> QED BY <4>1, <4>2
    <3> QED BY <3>1, <3>2 DEF Leaves
  <2>2. ASSUME NEW u \in Workers, NEW i \in DOMAIN todo'[u], NEW d \in Periods,
               d < todo'[u][i].due
        PROVE  charged[<<todo'[u][i].sub, d>>] > 0
    BY <1>3, <1>4, <2>2 DEF ChargerInv, PastIsCharged
  <2>3. ASSUME NEW u \in Workers, stage'[u] = "landed"
        PROVE  charged[<<Copy(u)'.sub, Copy(u)'.due>>] > 0
    BY <1>4, <1>6, <2>3 DEF ChargerInv, PastIsCharged
  <2>4. charged' = charged
    BY DEF Leaves
  <2> QED BY <2>1, <2>2, <2>3, <2>4 DEF PastIsCharged
<1>8. \A s \in Subs, d \in Periods : ChargesBounded(s, d)'
  BY <1>5, LeaveBounded
<1> QED BY <1>5, <1>7, <1>8 DEF ChargerInv

LEMMA ChargerInvTransfer ==
  ASSUME ChargerInv, NEW w \in Workers, BeginTransfer(w) \/ LandCharge(w)
  PROVE  ChargerInv'
<1>1. ChargerShape
  BY DEF ChargerInv
<1>2. w \in Workers /\ todo[w] # <<>> /\ todo' = todo /\ due' = due /\ lost' = lost
  BY <1>1 DEF BeginTransfer, LandCharge, ChargerShape, subVars
<1>3. Copy(w).sub \in Subs /\ Copy(w).due \in Periods
  BY <1>1, <1>2, CopyInHand
<1>4. /\ overlap' \in [Subs -> Nat] /\ charged' \in [Subs \X Periods -> Nat]
      /\ stage' \in [Workers -> {"idle", "sent", "landed"}]
      /\ \A s \in Subs, d \in Periods : charged[<<s, d>>] > 0 => charged'[<<s, d>>] > 0
  <2>1. CASE BeginTransfer(w)
    BY <1>1, <1>3, <2>1 DEF BeginTransfer, ChargerShape
  <2>2. CASE LandCharge(w)
    BY <1>1, <1>3, <2>2 DEF LandCharge, ChargerShape
  <2> QED BY <2>1, <2>2
<1>5. ChargerShape'
  <2>1. Charging' \subseteq Charging \cup {w}
    BY <1>1 DEF Charging, BeginTransfer, LandCharge, ChargerShape
  <2>2. IsFiniteSet(Charging')
    BY <1>1, <2>1, FS_Subset, FS_AddElement DEF ChargerShape
  <2>3. \A u \in Workers : todo'[u] = <<>> => stage'[u] = "idle"
    BY <1>1, <1>2 DEF BeginTransfer, LandCharge, ChargerShape
  <2> QED BY <1>1, <1>2, <1>4, <2>2, <2>3 DEF ChargerShape
<1>6. PastIsCharged'
  <2>1. \A u \in Workers, i \in Nat : i \in DOMAIN todo[u] => todo[u][i].sub \in Subs
    <3>1. \A u \in Workers : todo[u] \in Seq(Copies)
      BY <1>1 DEF ChargerShape
    <3>2. \A u \in Workers, i \in Nat : i \in DOMAIN todo[u] => todo[u][i] \in Copies
      BY <3>1
    <3> QED BY <3>2 DEF Copies
  <2>2. \A s \in Subs, d \in Periods : d < due'[s] => charged'[<<s, d>>] > 0
    BY <1>2, <1>4 DEF ChargerInv, PastIsCharged
  <2>3. ASSUME NEW u \in Workers, NEW i \in DOMAIN todo'[u], NEW d \in Periods,
               d < todo'[u][i].due
        PROVE  charged'[<<todo'[u][i].sub, d>>] > 0
    <3>1. i \in Nat /\ i \in DOMAIN todo[u]
      BY <1>1, <1>2 DEF ChargerShape
    <3> QED BY <1>2, <1>4, <2>1, <2>3, <3>1 DEF ChargerInv, PastIsCharged
  <2>4. ASSUME NEW u \in Workers, stage'[u] = "landed"
        PROVE  charged'[<<Copy(u)'.sub, Copy(u)'.due>>] > 0
    <3>1. Copy(u)' = Copy(u)
      BY <1>2 DEF Copy
    <3>2. CASE stage[u] = "landed"
      <4>1. Copy(u).sub \in Subs /\ Copy(u).due \in Periods
        BY <1>1, <3>2, CopyInHand DEF ChargerShape
      <4> QED BY <1>4, <3>1, <3>2, <4>1 DEF ChargerInv, PastIsCharged
    <3>3. CASE stage[u] # "landed"
      <4>1. u = w /\ charged' = [charged EXCEPT ![<<Copy(w).sub, Copy(w).due>>] = @ + 1]
        BY <1>1, <2>4, <3>3 DEF BeginTransfer, LandCharge, ChargerShape
      <4>2. charged[<<Copy(w).sub, Copy(w).due>>] \in Nat
        BY <1>1, <1>3 DEF ChargerShape
      <4>3. charged'[<<Copy(w).sub, Copy(w).due>>] = charged[<<Copy(w).sub, Copy(w).due>>] + 1
        BY <1>1, <1>3, <4>1 DEF ChargerShape
      <4> QED BY <3>1, <4>1, <4>2, <4>3
    <3> QED BY <3>2, <3>3
  <2> QED BY <2>2, <2>3, <2>4 DEF PastIsCharged
<1>7. \A s \in Subs, d \in Periods : ChargesBounded(s, d)'
  BY <1>5, BeginBounded, LandBounded
<1> QED BY <1>5, <1>6, <1>7 DEF ChargerInv

LEMMA ChargerInvNext == ASSUME ChargerInv, [ChargerNext]_chargerVars PROVE ChargerInv'
<1>1. ChargerShape
  BY DEF ChargerInv
<1>2. ASSUME UNCHANGED <<due, stage, charged, lost, overlap, todo>> PROVE ChargerInv'
  <2>1. ChargerShape'
    BY <1>1, <1>2 DEF ChargerShape, Charging
  <2> QED BY <1>2, <2>1, ChargerInvAside DEF ChargerInv, PastIsCharged
<1>3. ASSUME NEW w \in Workers, StartTick(w) PROVE ChargerInv'
  <2>1. Cardinality(Due) \in Nat
    BY ChargerAssumption, FS_Subset, FS_CardinalityType DEF Due
  <2>2. PICK l \in Listings : todo' = [todo EXCEPT ![w] = l]
    BY <1>3 DEF StartTick
  <2>3. /\ l \in [1 .. Cardinality(Due) -> [sub : Due, due : Periods, signed : BOOLEAN]]
        /\ \A i \in DOMAIN l : l[i].due = due[l[i].sub]
    BY DEF Listings
  <2>4. l \in Seq(Copies) /\ \A i \in DOMAIN l : l[i].sub \in Subs
    <3>1. \A i \in DOMAIN l : l[i] \in [sub : Due, due : Periods, signed : BOOLEAN]
      BY <2>3
    <3>2. \A i \in DOMAIN l : l[i] \in Copies /\ l[i].sub \in Subs
      BY <3>1 DEF Copies, Due
    <3> QED BY <2>1, <2>3, <3>2
  <2>5. UNCHANGED <<due, stage, charged, lost, overlap>> /\ stage[w] = "idle"
    BY <1>1, <1>3 DEF StartTick, subVars, ChargerShape
  <2>6. /\ todo' \in [Workers -> Seq(Copies)] /\ todo'[w] = l
        /\ \A u \in Workers \ {w} : todo'[u] = todo[u]
    BY <1>1, <2>2, <2>4 DEF ChargerShape
  <2>7. ChargerShape'
    BY <1>1, <2>5, <2>6 DEF ChargerShape, Charging
  <2>8. ASSUME NEW u \in Workers, NEW i \in DOMAIN todo'[u], NEW d \in Periods,
               d < todo'[u][i].due
        PROVE  charged[<<todo'[u][i].sub, d>>] > 0
    <3>1. CASE u = w
      <4>1. i \in DOMAIN l /\ todo'[u][i] = l[i]
        BY <2>6, <3>1
      <4>2. l[i].sub \in Subs /\ d < due[l[i].sub]
        BY <2>3, <2>4, <2>8, <4>1
      <4> QED BY <4>1, <4>2 DEF ChargerInv, PastIsCharged
    <3>2. CASE u # w
      BY <2>6, <2>8, <3>2 DEF ChargerInv, PastIsCharged
    <3> QED BY <3>1, <3>2
  <2> QED BY <2>5, <2>6, <2>7, <2>8, ChargerInvAside
<1>4. ASSUME NEW w \in Workers, BeginTransfer(w) \/ LandCharge(w) PROVE ChargerInv'
  BY <1>4, ChargerInvTransfer
<1>5. ASSUME NEW w \in Workers,
             \/ Charge(w) \/ ChargeFails(w) \/ LoseAnswer(w) \/ ChargeAuditFails(w)
             \/ StopTick(w)
      PROVE  ChargerInv'
  <2>1. todo[w] # <<>>
    BY <1>1, <1>5 DEF Charge, ChargeFails, LoseAnswer, ChargeAuditFails, StopTick, ChargerShape
  <2>2. /\ stage' = [stage EXCEPT ![w] = "idle"]
        /\ todo' = [todo EXCEPT ![w] = todo'[w]]
        /\ todo'[w] \in {Tail(todo[w]), <<>>}
    BY <1>1, <1>5 DEF Charge, ChargeFails, LoseAnswer, ChargeAuditFails, StopTick, GoOn, ChargerShape
  <2>3. UNCHANGED <<charged, overlap>>
    BY <1>5 DEF Charge, ChargeFails, LoseAnswer, ChargeAuditFails, StopTick
  <2>4. \/ stage[w] # "landed" /\ UNCHANGED <<due, lost>>
        \/ /\ stage[w] = "landed" /\ due' = due
           /\ lost' = [lost EXCEPT ![Copy(w).sub] = @ + 1]
        \/ stage[w] = "landed" /\ Recorded(w)
    BY <1>5 DEF Charge, ChargeFails, LoseAnswer, ChargeAuditFails, StopTick, Lose, Recorded,
                RecordCharge, subVars
  <2>5. Leaves(w)
    BY <2>1, <2>2, <2>3, <2>4 DEF Leaves
  <2> QED BY <2>2, <2>5, ChargerInvLeave
<1>6. CASE BecomePayable
  BY <1>2, <1>6 DEF BecomePayable, subVars
<1>7. ASSUME NEW s \in Subs, Authorize(s) \/ Cancel(s) \/ Pause(s) \/ Resume(s)
      PROVE  ChargerInv'
  BY <1>2, <1>7 DEF Authorize, Cancel, Pause, Resume, SetStatus
<1>8. CASE UNCHANGED chargerVars
  BY <1>2, <1>8 DEF chargerVars, subVars
<1> QED BY <1>3, <1>4, <1>5, <1>6, <1>7, <1>8 DEF ChargerNext

(* ChargesAreExplained: each charge of a period beyond the first is        *)
(* explained by a transfer whose answer was lost or that was begun beside  *)
(* another worker or from an old copy, and the due date moves past no      *)
(* period that is not paid for (services/subscription_charger.ts).         *)
THEOREM ChargesAccountedFor == ChargerSpec => []ChargesAreExplained
<1>1. ChargerInv => ChargesAreExplained
  <2> SUFFICES ASSUME ChargerInv, NEW s \in Subs, NEW d \in Periods
               PROVE  /\ charged[<<s, d>>] <= 1 + lost[s] + overlap[s]
                      /\ d < due[s] => charged[<<s, d>>] > 0
    BY DEF ChargesAreExplained
  <2>1. /\ charged[<<s, d>>] \in Nat /\ lost[s] \in Nat /\ overlap[s] \in Nat
        /\ Cardinality(Sent(s, d)) \in Nat
    BY SentAreFinite DEF ChargerInv, ChargerShape
  <2>2. charged[<<s, d>>] + Cardinality(Sent(s, d)) <= 1 + (lost[s] + overlap[s])
    BY DEF ChargerInv, ChargesBounded, Incurred, Excused
  <2> QED BY <2>1, <2>2 DEF ChargerInv, PastIsCharged
<1> QED BY <1>1, ChargerInvInit, ChargerInvNext, PTL DEF ChargerSpec

-----------------------------------------------------------------------------
(* The board.  The last of some positions is one of them, and a position   *)
(* past all others is the last.                                            *)
LEMMA LastIsThere ==
  ASSUME NEW n \in Nat, NEW S \in SUBSET (1 .. n), S # {}
  PROVE  Max(S) \in S
<1> DEFINE Before == {n - k : k \in S}
<1>1. Before \subseteq Nat /\ Before # {}
  <2>1. \A k \in S : k \in 1 .. n
    OBVIOUS
  <2>2. \A k \in 1 .. n : n - k \in Nat
    OBVIOUS
  <2> QED BY <2>1, <2>2
<1>2. PICK d \in Before : \A e \in Before : d <= e
  BY <1>1, LeastNatural
<1>3. PICK k \in S : d = n - k
  BY <1>2
<1>4. \A j \in S : k >= j
  <2> SUFFICES ASSUME NEW j \in S PROVE k >= j
    OBVIOUS
  <2>1. d <= n - j /\ j \in 1 .. n /\ k \in 1 .. n
    BY <1>2
  <2> QED BY <1>3, <2>1
<1> QED BY <1>4 DEF Max

LEMMA NewestIsLast ==
  ASSUME NEW n \in Nat, NEW S \in SUBSET (1 .. n)
  PROVE  Max(S \cup {n + 1}) = n + 1
<1>1. \A k \in S \cup {n + 1} : k \in Nat /\ n + 1 >= k /\ (k >= n + 1 => k = n + 1)
  OBVIOUS
<1> QED BY <1>1 DEF Max

Incident == [status : {"unopened", "investigating", "identified", "monitoring", "resolved"},
             kill : BOOLEAN]

BoardShape ==
  /\ opens \in Seq([of : Incidents, kill : BOOLEAN])
  /\ updates \in Seq([of : Incidents, status : {"investigating", "identified", "monitoring"},
                      kill : {"on", "off", "same"}])
  /\ resolves \in Seq([of : Incidents])
  /\ cache \in [Boards -> [Incidents -> Incident] \cup {Unread}]
  /\ stated \in [Incidents -> Incident]
  /\ split \in BOOLEAN

(* What the actors were told is what the journal holds, and what a process *)
(* shows that is not behind; only what was opened was updated or resolved. *)
BoardTrue ==
  WithinLimit /\ ~split =>
    /\ \A i \in Incidents : stated[i] = Hydrated(i)
    /\ \A b \in Boards \ behind : cache[b] # Unread => cache[b] = stated
    /\ \A i \in Incidents : Of(opens, i) = {} => Of(updates, i) = {} /\ Of(resolves, i) = {}

BoardInv == BoardShape /\ BoardTrue

(* A position of a list that holds the whole journal.                      *)
LEMMA OfIsInJournal ==
  ASSUME NEW X, NEW journal \in Seq(X), NEW i
  PROVE  Len(journal) \in Nat /\ Of(journal, i) \subseteq 1 .. Len(journal)
  BY DEF Of, Listed

LEMMA OfAfterAppend ==
  ASSUME NEW X, NEW journal \in Seq(X), NEW e \in X, NEW i,
         Len(Append(journal, e)) <= JournalLimit
  PROVE  /\ e.of = i => Of(Append(journal, e), i) = Of(journal, i) \cup {Len(journal) + 1}
         /\ e.of # i => Of(Append(journal, e), i) = Of(journal, i)
<1>1. /\ Len(journal) \in Nat /\ Len(Append(journal, e)) = Len(journal) + 1
      /\ DOMAIN journal = 1 .. Len(journal)
      /\ DOMAIN Append(journal, e) = 1 .. Len(journal) + 1
      /\ \A k \in 1 .. Len(journal) : Append(journal, e)[k] = journal[k]
      /\ Append(journal, e)[Len(journal) + 1] = e
  OBVIOUS
<1>2. /\ Listed(journal) = 1 .. Len(journal)
      /\ Listed(Append(journal, e)) = 1 .. Len(journal) + 1
  BY <1>1, BoardAssumption DEF Listed
<1>3. 1 .. Len(journal) + 1 = (1 .. Len(journal)) \cup {Len(journal) + 1}
  BY <1>1
<1> QED BY <1>1, <1>2, <1>3 DEF Of

LEMMA KeptAfterAppend ==
  ASSUME NEW X, NEW journal \in Seq(X), NEW e, NEW i, NEW k \in Of(journal, i)
  PROVE  Append(journal, e)[k] = journal[k]
<1>1. k \in 1 .. Len(journal)
  BY OfIsInJournal
<1> QED BY <1>1

LEMMA EntryIsThere ==
  ASSUME NEW X, NEW journal \in Seq(X), NEW n \in 1 .. Len(journal)
  PROVE  journal[n] \in X
  OBVIOUS

LEMMA HydratedIsIncident ==
  ASSUME BoardShape, NEW i \in Incidents
  PROVE  Hydrated(i) \in Incident
<1>1. CASE Of(opens, i) = {} \/ Of(resolves, i) # {}
  BY <1>1 DEF Hydrated, Unopened, Over, Incident
<1>2. CASE ~(Of(opens, i) = {} \/ Of(resolves, i) # {})
  <2> DEFINE told == Of(updates, i)
             first == opens[Max(Of(opens, i))]
  <2>1. first.kill \in BOOLEAN
    <3>1. Max(Of(opens, i)) \in 1 .. Len(opens)
      BY <1>2, LastIsThere, OfIsInJournal DEF BoardShape
    <3>2. first \in [of : Incidents, kill : BOOLEAN]
      BY <3>1, EntryIsThere DEF BoardShape
    <3> QED BY <3>2
  <2>2. told # {} => updates[Max(told)].status \in {"investigating", "identified", "monitoring"}
    <3>1. told # {} => Max(told) \in 1 .. Len(updates)
      BY LastIsThere, OfIsInJournal DEF BoardShape
    <3> HIDE DEF told
    <3>2. told # {} => updates[Max(told)] \in [of : Incidents, status : {"investigating", "identified", "monitoring"},
                                              kill : {"on", "off", "same"}]
      BY <3>1, EntryIsThere DEF BoardShape
    <3> QED BY <3>2
  <2>3. Hydrated(i) = ApplyUpdates([status |-> "investigating", kill |-> first.kill], told)
    BY <1>2 DEF Hydrated
  <2> HIDE DEF told, first
  <2>4. /\ Hydrated(i).status \in {"investigating", "identified", "monitoring"}
        /\ Hydrated(i).kill \in BOOLEAN
        /\ Hydrated(i) = [status |-> Hydrated(i).status, kill |-> Hydrated(i).kill]
    <3> DEFINE s == IF told = {} THEN "investigating" ELSE updates[Max(told)].status
               k == IF Switching(told) = {} THEN first.kill
                    ELSE updates[Max(Switching(told))].kill = "on"
    <3>1. Hydrated(i) = [status |-> s, kill |-> k]
      BY <2>3 DEF ApplyUpdates
    <3>2. s \in {"investigating", "identified", "monitoring"} /\ k \in BOOLEAN
      BY <2>1, <2>2
    <3> HIDE DEF s, k
    <3> QED BY <3>1, <3>2
  <2> QED BY <2>4 DEF Incident
<1> QED BY <1>1, <1>2

LEMMA ShownIsIncidents ==
  ASSUME BoardShape, NEW b \in Boards
  PROVE  Shown(b) \in [Incidents -> Incident]
  BY HydratedIsIncident DEF Shown, BoardShape

LEMMA ShownIsStated ==
  ASSUME BoardInv, WithinLimit, ~split, NEW b \in Boards \ behind
  PROVE  Shown(b) = stated
<1>1. stated = [i \in Incidents |-> Hydrated(i)]
  BY DEF BoardInv, BoardShape, BoardTrue
<1> QED BY <1>1 DEF BoardInv, BoardTrue, Shown

(* A change that is told: the process that made it, and those that have    *)
(* not read the journal yet, show what was told.                           *)
LEMMA StateKeeps ==
  ASSUME BoardInv, NEW b \in Boards, NEW i \in Incidents, NEW x \in Incident, State(b, i, x)
  PROVE  /\ cache' \in [Boards -> [Incidents -> Incident] \cup {Unread}]
         /\ stated' \in [Incidents -> Incident] /\ split' \in BOOLEAN
         /\ WithinLimit /\ ~split' =>
              /\ ~split /\ Shown(b) = stated
              /\ stated' = [stated EXCEPT ![i] = x]
              /\ \A c \in Boards \ behind' : cache'[c] # Unread => cache'[c] = stated'
<1>1. Shown(b) \in [Incidents -> Incident]
  BY ShownIsIncidents DEF BoardInv
<1>2. /\ cache' = [cache EXCEPT ![b] = [Shown(b) EXCEPT ![i] = x]]
      /\ stated' = [stated EXCEPT ![i] = x]
      /\ behind' = behind \cup {c \in Boards \ {b} : cache[c] # Unread}
      /\ split' = (split \/ b \in behind)
  BY DEF State
<1>3. [Shown(b) EXCEPT ![i] = x] \in [Incidents -> Incident]
  BY <1>1
<1>4. cache' \in [Boards -> [Incidents -> Incident] \cup {Unread}]
  BY <1>2, <1>3 DEF BoardInv, BoardShape
<1>5. stated' \in [Incidents -> Incident] /\ split' \in BOOLEAN
  BY <1>2 DEF BoardInv, BoardShape
<1>6. ASSUME WithinLimit, ~split'
      PROVE  /\ ~split /\ Shown(b) = stated
             /\ \A c \in Boards \ behind' : cache'[c] # Unread => cache'[c] = stated'
  <2>1. ~split /\ b \notin behind
    BY <1>2, <1>6
  <2>2. Shown(b) = stated
    BY <1>6, <2>1, ShownIsStated
  <2>3. cache'[b] = stated'
    BY <1>2, <2>2 DEF BoardInv, BoardShape
  <2>4. \A c \in Boards \ behind' : c # b => cache'[c] = Unread
    BY <1>2 DEF BoardInv, BoardShape
  <2> QED BY <2>1, <2>2, <2>3, <2>4
<1> QED BY <1>2, <1>4, <1>5, <1>6

LEMMA BoardInvInit == BoardInit => BoardInv
<1> SUFFICES ASSUME BoardInit PROVE BoardInv
  OBVIOUS
<1>1. BoardShape
  <2>1. opens = <<>> /\ updates = <<>> /\ resolves = <<>>
    BY DEF BoardInit
  <2>2. /\ cache \in [Boards -> [Incidents -> Incident] \cup {Unread}]
        /\ stated \in [Incidents -> Incident] /\ split \in BOOLEAN
    BY DEF BoardInit, Unopened, Incident
  <2> QED BY <2>1, <2>2 DEF BoardShape
<1>2. \A i \in Incidents : Of(opens, i) = {} /\ Of(updates, i) = {} /\ Of(resolves, i) = {}
  BY DEF BoardInit, Of, Listed
<1> QED BY <1>1, <1>2 DEF BoardInv, BoardTrue, BoardInit, Hydrated

LEMMA OpenKeeps ==
  ASSUME BoardInv, NEW b \in Boards, NEW i \in Incidents, NEW kill \in BOOLEAN, Open(b, i, kill)
  PROVE  BoardInv'
<1> DEFINE e == [of |-> i, kill |-> kill]
           x == [status |-> "investigating", kill |-> kill]
<1>1. /\ opens' = Append(opens, e) /\ updates' = updates /\ resolves' = resolves
      /\ \A k \in DOMAIN opens : opens[k].of # i
      /\ State(b, i, x) /\ x \in Incident /\ e \in [of : Incidents, kill : BOOLEAN]
  BY DEF Open, Incident
<1> HIDE DEF e, x
<1>2. BoardShape'
  BY <1>1, StateKeeps DEF BoardInv, BoardShape
<1>3. ASSUME WithinLimit', ~split'
      PROVE  BoardTrue'
  <2>1. Len(opens') <= JournalLimit /\ Len(opens') = Len(opens) + 1 /\ Len(opens) \in Nat
        /\ WithinLimit
    BY <1>1, <1>3, BoardAssumption DEF WithinLimit, BoardInv, BoardShape
  <2>2. /\ ~split
        /\ stated' = [stated EXCEPT ![i] = x]
        /\ \A c \in Boards \ behind' : cache'[c] # Unread => cache'[c] = stated'
    BY <1>1, <1>3, <2>1, StateKeeps
  <2>3. Of(opens, i) = {}
    BY <1>1 DEF Of, Listed
  <2>4. Of(updates, i) = {} /\ Of(resolves, i) = {}
    BY <2>1, <2>2, <2>3 DEF BoardInv, BoardTrue
  <2>5. /\ Of(opens, i)' = {Len(opens) + 1} /\ opens'[Len(opens) + 1] = e
        /\ \A j \in Incidents \ {i} : /\ Of(opens, j)' = Of(opens, j)
                                      /\ \A k \in Of(opens, j) : opens'[k] = opens[k]
    <3>1. ASSUME NEW j \in Incidents
          PROVE  /\ e.of = j => Of(opens', j) = Of(opens, j) \cup {Len(opens) + 1}
                 /\ e.of # j => Of(opens', j) = Of(opens, j)
                 /\ \A k \in Of(opens, j) : opens'[k] = opens[k]
                 /\ opens'[Len(opens) + 1] = e
      <4>1. opens \in Seq([of : Incidents, kill : BOOLEAN]) /\ Len(Append(opens, e)) <= JournalLimit
        BY <1>1, <2>1 DEF BoardInv, BoardShape
      <4>2. /\ e.of = j => Of(Append(opens, e), j) = Of(opens, j) \cup {Len(opens) + 1}
            /\ e.of # j => Of(Append(opens, e), j) = Of(opens, j)
            /\ \A k \in Of(opens, j) : Append(opens, e)[k] = opens[k]
            /\ Append(opens, e)[Len(opens) + 1] = e
        <5> DEFINE Opening == [of : Incidents, kill : BOOLEAN]
        <5>1. opens \in Seq(Opening) /\ e \in Opening
          BY <1>1, <4>1
        <5> HIDE DEF Opening
        <5>2. Len(Append(opens, e)) <= JournalLimit
          BY <4>1
        <5>3. \A k \in Of(opens, j) : Append(opens, e)[k] = opens[k]
          BY <5>1, KeptAfterAppend
        <5>4. /\ e.of = j => Of(Append(opens, e), j) = Of(opens, j) \cup {Len(opens) + 1}
              /\ e.of # j => Of(Append(opens, e), j) = Of(opens, j)
          BY <5>1, <5>2, OfAfterAppend
        <5>5. Append(opens, e)[Len(opens) + 1] = e
          BY <5>1
        <5> QED BY <5>3, <5>4, <5>5
      <4> QED BY <1>1, <4>2
    <3> QED BY <2>3, <3>1 DEF e, Of, Listed
  <2>6. Of(updates, i)' = {} /\ Of(resolves, i)' = {}
        /\ \A j \in Incidents : Of(updates, j)' = Of(updates, j) /\ Of(resolves, j)' = Of(resolves, j)
    BY <1>1, <2>4 DEF Of, Listed
  <2>7. Hydrated(i)' = x
    <3>1. Max(Of(opens, i))' = Len(opens) + 1
      BY <2>1, <2>5 DEF Max
    <3> QED BY <2>5, <2>6, <3>1 DEF Hydrated, ApplyUpdates, Switching, e, x
  <2>8. ASSUME NEW j \in Incidents \ {i} PROVE Hydrated(j)' = Hydrated(j)
    <3>1. Of(opens, j) # {} => Max(Of(opens, j)) \in Of(opens, j)
      BY LastIsThere, OfIsInJournal DEF BoardInv, BoardShape
    <3>2. Of(opens, j) # {} => opens'[Max(Of(opens, j)')] = opens[Max(Of(opens, j))]
      BY <2>5, <3>1
    <3> QED BY <1>1, <2>5, <2>6, <3>2 DEF Hydrated, ApplyUpdates, Switching
  <2>9. \A j \in Incidents : stated'[j] = Hydrated(j)'
    BY <2>1, <2>2, <2>7, <2>8 DEF BoardInv, BoardShape, BoardTrue
  <2> QED BY <2>1, <2>2, <2>5, <2>6, <2>9 DEF BoardInv, BoardTrue
<1> QED BY <1>2, <1>3 DEF BoardInv, BoardTrue

LEMMA UpdateKeeps ==
  ASSUME BoardInv, NEW b \in Boards, NEW i \in Incidents,
         NEW status \in {"investigating", "identified", "monitoring"}, NEW kill \in {"on", "off", "same"},
         PostUpdate(b, i, status, kill)
  PROVE  BoardInv'
<1> DEFINE e == [of |-> i, status |-> status, kill |-> kill]
           x == [status |-> status, kill |-> IF kill = "same" THEN Shown(b)[i].kill ELSE kill = "on"]
           Update == [of : Incidents, status : {"investigating", "identified", "monitoring"},
                      kill : {"on", "off", "same"}]
<1>1. /\ updates' = Append(updates, e) /\ opens' = opens /\ resolves' = resolves
      /\ IsOpenOn(b, i) /\ State(b, i, x) /\ e \in Update
      /\ e.of = i /\ e.status = status /\ e.kill = kill
  BY DEF PostUpdate
<1>2. x \in Incident
  <2>1. Shown(b)[i] \in Incident
    BY ShownIsIncidents DEF BoardInv
  <2>2. (IF kill = "same" THEN Shown(b)[i].kill ELSE kill = "on") \in BOOLEAN
    BY <2>1 DEF Incident
  <2> QED BY <2>2 DEF Incident
<1>3. updates \in Seq(Update)
  BY DEF BoardInv, BoardShape
<1> HIDE DEF e, Update
<1>4. BoardShape'
  <2>1. updates' \in Seq(Update)
    BY <1>1, <1>3
  <2>2. /\ cache' \in [Boards -> [Incidents -> Incident] \cup {Unread}]
        /\ stated' \in [Incidents -> Incident] /\ split' \in BOOLEAN
    BY <1>1, <1>2, StateKeeps
  <2> QED BY <1>1, <2>1, <2>2 DEF BoardInv, BoardShape, Update
<1>5. ASSUME WithinLimit', ~split'
      PROVE  BoardTrue'
  <2>1. Len(updates') <= JournalLimit /\ Len(updates') = Len(updates) + 1
        /\ Len(updates) \in Nat /\ WithinLimit
    BY <1>1, <1>3, <1>5, BoardAssumption DEF WithinLimit
  <2>2. /\ ~split /\ Shown(b) = stated
        /\ stated' = [stated EXCEPT ![i] = x]
        /\ \A c \in Boards \ behind' : cache'[c] # Unread => cache'[c] = stated'
    BY <1>1, <1>2, <1>5, <2>1, StateKeeps
  <2>3. stated[i] = Hydrated(i)
    BY <2>1, <2>2 DEF BoardInv, BoardTrue
  <2>4. /\ Of(opens, i) # {} /\ Of(resolves, i) = {}
    BY <1>1, <2>2, <2>3 DEF IsOpenOn, Hydrated, Unopened, Over
  <2>5. ASSUME NEW j \in Incidents
        PROVE  /\ i = j => Of(updates', j) = Of(updates, j) \cup {Len(updates) + 1}
               /\ i # j => Of(updates', j) = Of(updates, j)
               /\ \A k \in Of(updates, j) : updates'[k] = updates[k]
               /\ updates'[Len(updates) + 1] = e
    <3>1. /\ e.of = j => Of(Append(updates, e), j) = Of(updates, j) \cup {Len(updates) + 1}
          /\ e.of # j => Of(Append(updates, e), j) = Of(updates, j)
          /\ \A k \in Of(updates, j) : Append(updates, e)[k] = updates[k]
          /\ Append(updates, e)[Len(updates) + 1] = e
      <4>1. Len(Append(updates, e)) <= JournalLimit
        BY <1>1, <2>1
      <4>2. e \in Update
        BY <1>1
      <4>3. \A k \in Of(updates, j) : Append(updates, e)[k] = updates[k]
        BY <1>3, KeptAfterAppend
      <4>4. /\ e.of = j => Of(Append(updates, e), j) = Of(updates, j) \cup {Len(updates) + 1}
            /\ e.of # j => Of(Append(updates, e), j) = Of(updates, j)
        BY <1>3, <4>1, <4>2, OfAfterAppend
      <4>5. Append(updates, e)[Len(updates) + 1] = e
        BY <1>3, <4>2
      <4> QED BY <4>3, <4>4, <4>5
    <3> QED BY <1>1, <3>1
  <2>6. \A j \in Incidents : Of(opens, j)' = Of(opens, j) /\ Of(resolves, j)' = Of(resolves, j)
    BY <1>1 DEF Of, Listed
  <2>7. Hydrated(i)' = x
    <3>1. PICK n, told, switched, first :
            /\ n = Len(updates) + 1 /\ told = Of(updates, i) /\ switched = Switching(told)
            /\ first = opens[Max(Of(opens, i))].kill
      OBVIOUS
    <3>2. /\ told \subseteq 1 .. Len(updates) /\ switched \subseteq 1 .. Len(updates)
      BY <1>3, <3>1, OfIsInJournal DEF Switching
    <3>3. Max(told \cup {n}) = n /\ Max(switched \cup {n}) = n
      BY <2>1, <3>1, <3>2, NewestIsLast
    <3>4. switched # {} => Max(switched) \in switched
      BY <2>1, <3>2, LastIsThere
    <3>5. Of(updates, i)' = told \cup {n} /\ updates'[n] = e
          /\ \A k \in told : updates'[k] = updates[k]
      BY <2>5, <3>1
    <3>6. {k \in told \cup {n} : updates'[k].kill # "same"}
            = IF kill = "same" THEN switched ELSE switched \cup {n}
      <4>1. switched = {k \in told : updates[k].kill # "same"}
        BY <3>1 DEF Switching
      <4> QED BY <1>1, <3>5, <4>1
    <3>7. Shown(b)[i].kill = IF switched = {} THEN first ELSE updates[Max(switched)].kill = "on"
      BY <2>2, <2>3, <2>4, <3>1 DEF Hydrated, ApplyUpdates
    <3>8. Hydrated(i)' =
            ApplyUpdates([status |-> "investigating", kill |-> first], told \cup {n})'
      BY <1>1, <2>4, <2>6, <3>1, <3>5 DEF Hydrated
    <3>9. /\ updates'[Max(told \cup {n})].status = status
          /\ IF kill = "same"
             THEN switched # {} => updates'[Max(switched)].kill = updates[Max(switched)].kill
             ELSE updates'[Max(switched \cup {n})].kill = kill
      BY <1>1, <3>1, <3>3, <3>4, <3>5 DEF Switching
    <3>10. CASE kill = "same"
      <4>1. Hydrated(i)'.status = status /\ x = [status |-> status, kill |-> Shown(b)[i].kill]
        BY <3>8, <3>9, <3>10 DEF ApplyUpdates
      <4>2. Hydrated(i)'.kill = Shown(b)[i].kill
        <5>1. Switching(told \cup {n})' = switched
          BY <3>6, <3>10 DEF Switching
        <5>2. Hydrated(i)'.kill = IF switched = {} THEN first
                                  ELSE updates'[Max(switched)].kill = "on"
          BY <3>8, <5>1 DEF ApplyUpdates
        <5> QED BY <3>7, <3>9, <3>10, <5>2
      <4>3. Hydrated(i)' = [status |-> Hydrated(i)'.status, kill |-> Hydrated(i)'.kill]
        BY <3>8 DEF ApplyUpdates
      <4> QED BY <4>1, <4>2, <4>3
    <3>11. CASE kill # "same"
      BY <3>6, <3>8, <3>9, <3>11 DEF ApplyUpdates, Switching
    <3> QED BY <3>10, <3>11
  <2>8. ASSUME NEW j \in Incidents \ {i} PROVE Hydrated(j)' = Hydrated(j)
    <3>1. PICK told, switched : told = Of(updates, j) /\ switched = Switching(told)
      OBVIOUS
    <3>2. told \subseteq 1 .. Len(updates) /\ switched \subseteq 1 .. Len(updates)
          /\ switched \subseteq told
      BY <1>3, <3>1, OfIsInJournal DEF Switching
    <3>3. Of(updates, j)' = told /\ \A k \in told : updates'[k] = updates[k]
      BY <2>5, <3>1
    <3>4. Switching(told)' = switched
      BY <3>1, <3>3 DEF Switching
    <3>5. /\ told # {} => updates'[Max(told)] = updates[Max(told)]
          /\ switched # {} => updates'[Max(switched)] = updates[Max(switched)]
      BY <2>1, <3>2, <3>3, LastIsThere
    <3>6. ASSUME NEW a PROVE ApplyUpdates(a, told)' = ApplyUpdates(a, told)
      BY <3>1, <3>4, <3>5 DEF ApplyUpdates
    <3> QED BY <1>1, <2>6, <3>1, <3>3, <3>6 DEF Hydrated
  <2>9. \A j \in Incidents : stated'[j] = Hydrated(j)'
    BY <2>1, <2>2, <2>7, <2>8 DEF BoardInv, BoardShape, BoardTrue
  <2>10. \A j \in Incidents :
           Of(opens, j)' = {} => Of(updates, j)' = {} /\ Of(resolves, j)' = {}
    BY <2>1, <2>2, <2>4, <2>5, <2>6 DEF BoardInv, BoardTrue
  <2> QED BY <2>2, <2>9, <2>10 DEF BoardTrue
<1> QED BY <1>4, <1>5 DEF BoardInv, BoardTrue

LEMMA ResolveKeeps ==
  ASSUME BoardInv, NEW b \in Boards, NEW i \in Incidents, Resolve(b, i)
  PROVE  BoardInv'
<1> DEFINE e == [of |-> i]
<1>1. /\ resolves' = Append(resolves, e) /\ opens' = opens /\ updates' = updates
      /\ IsOpenOn(b, i) /\ State(b, i, Over) /\ e \in [of : Incidents] /\ e.of = i
  BY DEF Resolve
<1>2. Over \in Incident /\ resolves \in Seq([of : Incidents])
  BY DEF Over, Incident, BoardInv, BoardShape
<1> HIDE DEF e
<1>3. BoardShape'
  <2>1. resolves' \in Seq([of : Incidents])
    BY <1>1, <1>2
  <2>2. /\ cache' \in [Boards -> [Incidents -> Incident] \cup {Unread}]
        /\ stated' \in [Incidents -> Incident] /\ split' \in BOOLEAN
    BY <1>1, <1>2, StateKeeps
  <2> QED BY <1>1, <2>1, <2>2 DEF BoardInv, BoardShape
<1>4. ASSUME WithinLimit', ~split'
      PROVE  BoardTrue'
  <2>1. Len(resolves') <= JournalLimit /\ Len(resolves') = Len(resolves) + 1
        /\ Len(resolves) \in Nat /\ WithinLimit
    BY <1>1, <1>2, <1>4, BoardAssumption DEF WithinLimit
  <2>2. /\ ~split /\ Shown(b) = stated
        /\ stated' = [stated EXCEPT ![i] = Over]
        /\ \A c \in Boards \ behind' : cache'[c] # Unread => cache'[c] = stated'
    BY <1>1, <1>2, <1>4, <2>1, StateKeeps
  <2>3. Of(opens, i) # {}
    <3>1. stated[i] = Hydrated(i)
      BY <2>1, <2>2 DEF BoardInv, BoardTrue
    <3> QED BY <1>1, <2>2, <3>1 DEF IsOpenOn, Hydrated, Unopened
  <2>4. ASSUME NEW j \in Incidents
        PROVE  /\ i = j => Of(resolves', j) # {}
               /\ i # j => Of(resolves', j) = Of(resolves, j)
    <3>1. Len(Append(resolves, e)) <= JournalLimit
      BY <1>1, <2>1
    <3>2. /\ e.of = j => Of(Append(resolves, e), j) = Of(resolves, j) \cup {Len(resolves) + 1}
          /\ e.of # j => Of(Append(resolves, e), j) = Of(resolves, j)
      <4> DEFINE Resolved == [of : Incidents]
      <4>1. resolves \in Seq(Resolved) /\ e \in Resolved
        BY <1>1, <1>2
      <4> HIDE DEF Resolved
      <4> QED BY <3>1, <4>1, OfAfterAppend
    <3> QED BY <1>1, <3>2
  <2>5. \A j \in Incidents : Of(opens, j)' = Of(opens, j) /\ Of(updates, j)' = Of(updates, j)
    BY <1>1 DEF Of, Listed
  <2>6. Hydrated(i)' = Over
    BY <2>3, <2>4, <2>5 DEF Hydrated
  <2>7. \A j \in Incidents \ {i} : Hydrated(j)' = Hydrated(j)
    BY <1>1, <2>4, <2>5 DEF Hydrated, ApplyUpdates, Switching
  <2>8. \A j \in Incidents : stated'[j] = Hydrated(j)'
    BY <2>1, <2>2, <2>6, <2>7 DEF BoardInv, BoardShape, BoardTrue
  <2>9. \A j \in Incidents :
          Of(opens, j)' = {} => Of(updates, j)' = {} /\ Of(resolves, j)' = {}
    BY <2>1, <2>2, <2>3, <2>4, <2>5 DEF BoardInv, BoardTrue
  <2> QED BY <2>2, <2>8, <2>9 DEF BoardTrue
<1> QED BY <1>3, <1>4 DEF BoardInv, BoardTrue

(* Reading the journal and forgetting it: the journal is as it was.        *)
LEMMA ReadKeeps ==
  ASSUME BoardInv, \/ \E b \in Boards : Read(b) \/ RestartBoard(b)
                   \/ UNCHANGED boardVars
  PROVE  BoardInv'
<1>1. UNCHANGED <<opens, updates, resolves, stated, split>>
  BY DEF Read, RestartBoard, boardVars
<1>2. \A i \in Incidents :
        /\ Hydrated(i)' = Hydrated(i) /\ Of(opens, i)' = Of(opens, i)
        /\ Of(updates, i)' = Of(updates, i) /\ Of(resolves, i)' = Of(resolves, i)
  BY <1>1 DEF Hydrated, ApplyUpdates, Switching, Of, Listed
<1>3. cache' \in [Boards -> [Incidents -> Incident] \cup {Unread}]
  BY ShownIsIncidents DEF Read, RestartBoard, boardVars, BoardInv, BoardShape
<1>4. ASSUME WithinLimit', ~split'
      PROVE  \A b \in Boards \ behind' : cache'[b] # Unread => cache'[b] = stated'
  <2>1. WithinLimit /\ ~split
    BY <1>1, <1>4 DEF WithinLimit
  <2>2. \A b \in Boards \ behind : Shown(b) = stated /\ (cache[b] # Unread => cache[b] = stated)
    BY <2>1, ShownIsStated DEF BoardInv, BoardTrue
  <2>3. CASE \E b \in Boards : Read(b)
    <3>1. PICK b \in Boards : Read(b)
      BY <2>3
    <3>2. /\ cache' = [cache EXCEPT ![b] = Shown(b)] /\ behind' = behind
      BY <3>1 DEF Read
    <3> QED BY <1>1, <2>2, <3>2 DEF BoardInv, BoardShape
  <2>4. CASE \E b \in Boards : RestartBoard(b)
    <3>1. PICK b \in Boards : RestartBoard(b)
      BY <2>4
    <3>2. /\ cache' = [cache EXCEPT ![b] = Unread] /\ behind' = behind \ {b}
      BY <3>1 DEF RestartBoard
    <3> QED BY <1>1, <2>2, <3>2 DEF BoardInv, BoardShape
  <2>5. CASE UNCHANGED boardVars
    BY <2>2, <2>5 DEF boardVars
  <2> QED BY <2>3, <2>4, <2>5
<1> QED BY <1>1, <1>2, <1>3, <1>4 DEF BoardInv, BoardShape, BoardTrue, WithinLimit

LEMMA BoardInvNext == BoardInv /\ [BoardNext]_boardVars => BoardInv'
  BY OpenKeeps, UpdateKeeps, ResolveKeeps, ReadKeeps DEF BoardNext

(* KillSwitchSurvives: a process that is not behind shows what operators   *)
(* were told, also after a restart, in which it reads the journal back as  *)
(* openings, updates and resolutions (services/incident.ts).               *)
THEOREM SwitchOutlivesProcess == BoardSpec => []KillSwitchSurvives
<1>1. BoardInv => KillSwitchSurvives
  BY ShownIsStated DEF KillSwitchSurvives
<1> QED BY <1>1, BoardInvInit, BoardInvNext, PTL DEF BoardSpec

-----------------------------------------------------------------------------
(* The monitor.  A tick under way can still page for an alert it found and *)
(* has not passed; it will clear, when it ends, one it did not find.  Each *)
(* further page for an alert needs a tick that may page for it (or the     *)
(* condition, for a tick to come), and that it is not raised then: that it *)
(* is not now, or that a tick clears it.  The lesser of the two numbers is *)
(* what may still be paged for, and has been paid for.                     *)
Running == {t \in Ticks : tick[t] # NoTick}
Ahead(k) == {t \in Running : k \in tick[t].found /\ tick[t].awaits < k}
Lacking(k) == {t \in Running : k \notin tick[t].found}

MayPage(k) == Cardinality(Ahead(k)) + (IF k \in unwell THEN 1 ELSE 0)
MayClear(k) == Cardinality(Lacking(k)) + (IF k \in raised THEN 0 ELSE 1)

MonitorShape ==
  /\ unwell \subseteq Alerts /\ raised \subseteq Alerts
  /\ tick \in [Ticks -> [found : SUBSET Alerts, awaits : Alerts \cup {0}]]
  /\ stopped \in BOOLEAN
  /\ onsets \in [Alerts -> Nat] /\ pages \in [Alerts -> Nat] /\ beside \in Nat
  /\ forgot \in [Alerts -> Nat]
  /\ IsFiniteSet(Running)

PagesPaidFor(k) ==
  \/ pages[k] + MayPage(k) <= onsets[k] + forgot[k] + beside
  \/ pages[k] + MayClear(k) <= onsets[k] + forgot[k] + beside

MonitorInv == MonitorShape /\ \A k \in Alerts : PagesPaidFor(k)

LEMMA TicksAreFinite ==
  ASSUME MonitorShape, NEW k \in Alerts
  PROVE  /\ IsFiniteSet(Ahead(k)) /\ Cardinality(Ahead(k)) \in Nat
         /\ IsFiniteSet(Lacking(k)) /\ Cardinality(Lacking(k)) \in Nat
         /\ MayPage(k) \in Nat /\ MayClear(k) \in Nat
<1>1. Ahead(k) \subseteq Running /\ Lacking(k) \subseteq Running
  BY DEF Ahead, Lacking
<1>2. IsFiniteSet(Ahead(k)) /\ IsFiniteSet(Lacking(k))
  BY <1>1, FS_Subset DEF MonitorShape
<1> QED BY <1>2, FS_CardinalityType DEF MayPage, MayClear

LEMMA MonitorInvInit == ASSUME MonitorInit PROVE MonitorInv
<1>1. Running = {}
  BY DEF MonitorInit, Running
<1>2. \A k \in Alerts : Ahead(k) = {} /\ Lacking(k) = {}
  BY <1>1 DEF Ahead, Lacking
<1>3. MonitorShape
  BY <1>1, FS_EmptySet DEF MonitorInit, MonitorShape, NoTick
<1> QED BY <1>2, <1>3, FS_EmptySet DEF MonitorInit, MonitorInv, PagesPaidFor, MayPage

(* What a turn of a tick leaves: t is the tick, F what it found, j the     *)
(* alert it has come to.                                                   *)
LEMMA GoShape ==
  ASSUME MonitorShape, NEW t \in Ticks, NEW F \in SUBSET Alerts, NEW j \in Alerts \cup {0},
         Go(t, F, j), UNCHANGED <<unwell, stopped, onsets, forgot>>, beside' \in Nat
  PROVE  /\ MonitorShape'
         /\ Running' \subseteq Running \cup {t}
         /\ \A u \in Ticks \ {t} : tick'[u] = tick[u]
<1> DEFINE next == {a \in F \ raised : a > j}
<1> USE DEF MonitorShape
<1>1. /\ raised' \subseteq Alerts
      /\ tick' \in [Ticks -> [found : SUBSET Alerts, awaits : Alerts \cup {0}]]
      /\ pages' \in [Alerts -> Nat]
      /\ \A u \in Ticks \ {t} : tick'[u] = tick[u]
  <2>1. CASE next = {}
    BY <2>1 DEF Go, NoTick, StillRaised
  <2>2. CASE next # {}
    <3>1. next \in SUBSET Nat
      BY MonitorAssumption
    <3>2. Min(next) \in F
      BY <2>2, <3>1, MinIsLeast
    <3> QED BY <2>2, <3>2 DEF Go
  <2> QED BY <2>1, <2>2
<1>2. Running' \subseteq Running \cup {t}
  BY <1>1 DEF Running
<1>3. IsFiniteSet(Running')
  BY <1>2, FS_Subset, FS_AddElement
<1> QED BY <1>1, <1>2, <1>3

(* ... and for an alert k: it is paged for, or it is not; and then it is   *)
(* cleared only by the end of a tick that did not find it.                 *)
LEMMA GoAlert ==
  ASSUME MonitorShape, NEW t \in Ticks, NEW F \in SUBSET Alerts, NEW j \in Alerts \cup {0},
         Go(t, F, j), NEW k \in Alerts
  PROVE  \/ /\ k \in F /\ j < k /\ k \notin raised
            /\ k \in raised' /\ pages'[k] = pages[k] + 1
            /\ t \notin Ahead(k)' /\ t \notin Lacking(k)'
         \/ /\ pages'[k] = pages[k]
            /\ t \in Ahead(k)' => k \in F /\ j < k
            /\ t \in Lacking(k)' => k \notin F
            /\ (k \in raised <=> k \in raised') \/ (k \notin F /\ t \notin Lacking(k)')
<1> DEFINE next == {a \in F \ raised : a > j}
<1> USE DEF MonitorShape
<1>0. Alerts \subseteq Nat \ {0}
  BY MonitorAssumption
<1>1. CASE next = {}
  <2>1. tick'[t] = NoTick /\ raised' = raised \cap F /\ pages' = pages
    BY <1>1 DEF Go, StillRaised, NoTick
  <2>2. t \notin Ahead(k)' /\ t \notin Lacking(k)'
    BY <2>1 DEF Ahead, Lacking, Running
  <2> QED BY <2>1, <2>2
<1>2. CASE next # {}
  <2>1. next \in SUBSET Nat
    BY <1>0
  <2> DEFINE m == Min(next)
  <2>2. m \in next /\ \A a \in next : m <= a
    BY <1>2, <2>1, MinIsLeast
  <2>3. /\ tick'[t] = [found |-> F, awaits |-> m]
        /\ raised' = raised \cup {m}
        /\ pages' = [pages EXCEPT ![m] = @ + 1]
    BY <1>2 DEF Go
  <2> HIDE DEF m
  <2>4. m \in F /\ m \notin raised /\ j < m /\ m \in Alerts
    BY <1>0, <2>2
  <2>5. t \in Ahead(k)' => k \in F /\ m < k
    BY <2>3 DEF Ahead
  <2>6. t \in Lacking(k)' => k \notin F
    BY <2>3 DEF Lacking
  <2>7. CASE k = m
    BY <1>0, <2>3, <2>4, <2>5, <2>6, <2>7
  <2>8. CASE k # m
    <3>1. pages'[k] = pages[k] /\ (k \in raised <=> k \in raised')
      BY <2>3, <2>4, <2>8
    <3>2. t \in Ahead(k)' => k \in F /\ j < k
      BY <1>0, <2>4, <2>5
    <3> QED BY <2>6, <3>1, <3>2
  <2> QED BY <2>7, <2>8
<1> QED BY <1>1, <1>2

(* How the two sets of ticks grow and shrink with one tick.                *)
LEMMA AnswerPaidFor ==
  ASSUME MonitorShape, NEW t \in Ticks, AnswerPage(t), MonitorShape',
         \A u \in Ticks \ {t} : tick'[u] = tick[u],
         Running' \subseteq Running \cup {t},
         NEW k \in Alerts, PagesPaidFor(k)
  PROVE  PagesPaidFor(k)'
<1> DEFINE F == tick[t].found
           j == tick[t].awaits
<1>1. t \in Running /\ F \in SUBSET Alerts /\ j \in Alerts \cup {0} /\ Go(t, F, j)
  BY DEF AnswerPage, Running, MonitorShape
<1>2. unwell' = unwell /\ onsets' = onsets /\ beside' = beside /\ forgot' = forgot
  BY DEF AnswerPage
<1>3. Ahead(k)' \subseteq Ahead(k) \cup {t} /\ Lacking(k)' \subseteq Lacking(k) \cup {t}
  BY DEF Ahead, Lacking, Running
<1>4. (t \in Ahead(k) <=> k \in F /\ j < k) /\ (t \in Lacking(k) <=> k \notin F)
  BY <1>1 DEF Ahead, Lacking
<1>5. /\ IsFiniteSet(Ahead(k)) /\ Cardinality(Ahead(k)) \in Nat
      /\ IsFiniteSet(Lacking(k)) /\ Cardinality(Lacking(k)) \in Nat
      /\ MayPage(k) \in Nat /\ MayClear(k) \in Nat
  BY TicksAreFinite
<1>6. /\ Cardinality(Ahead(k)') \in Nat /\ Cardinality(Lacking(k)') \in Nat
      /\ MayPage(k)' \in Nat /\ MayClear(k)' \in Nat
  <2>1. Ahead(k)' \subseteq Running' /\ Lacking(k)' \subseteq Running'
    BY DEF Ahead, Lacking
  <2>2. IsFiniteSet(Ahead(k)') /\ IsFiniteSet(Lacking(k)')
    BY <2>1, FS_Subset DEF MonitorShape
  <2> QED BY <2>2, FS_CardinalityType DEF MayPage, MayClear
<1>7. pages[k] \in Nat /\ onsets[k] \in Nat /\ forgot[k] \in Nat /\ beside \in Nat /\ pages'[k] \in Nat
  BY DEF MonitorShape
<1>8. CASE /\ k \in F /\ j < k /\ k \notin raised
           /\ k \in raised' /\ pages'[k] = pages[k] + 1
           /\ t \notin Ahead(k)' /\ t \notin Lacking(k)'
  <2>1. t \in Ahead(k) /\ Ahead(k)' \subseteq Ahead(k) \ {t} /\ Lacking(k)' \subseteq Lacking(k)
    BY <1>3, <1>4, <1>8
  <2>2. Cardinality(Ahead(k)') + 1 <= Cardinality(Ahead(k))
    BY <1>5, <2>1, CountWithOneLess
  <2>3. Cardinality(Lacking(k)') <= Cardinality(Lacking(k))
    BY <1>5, <2>1, FS_Subset
  <2>4. MayPage(k)' + 1 <= MayPage(k)
    BY <1>2, <1>5, <1>6, <2>2 DEF MayPage
  <2>5. MayClear(k)' + 1 <= MayClear(k)
    BY <1>5, <1>6, <1>8, <2>3 DEF MayClear
  <2>6. \/ pages'[k] + MayPage(k)' <= onsets[k] + forgot[k] + beside
        \/ pages'[k] + MayClear(k)' <= onsets[k] + forgot[k] + beside
    BY <1>5, <1>6, <1>7, <1>8, <2>4, <2>5 DEF PagesPaidFor
  <2> QED BY <1>2, <2>6 DEF PagesPaidFor
<1>9. CASE /\ pages'[k] = pages[k]
           /\ t \in Ahead(k)' => k \in F /\ j < k
           /\ t \in Lacking(k)' => k \notin F
           /\ (k \in raised <=> k \in raised') \/ (k \notin F /\ t \notin Lacking(k)')
  <2>1. Ahead(k)' \subseteq Ahead(k) /\ Lacking(k)' \subseteq Lacking(k)
    BY <1>3, <1>4, <1>9
  <2>2. Cardinality(Ahead(k)') <= Cardinality(Ahead(k))
    BY <1>5, <2>1, FS_Subset
  <2>3. Cardinality(Lacking(k)') <= Cardinality(Lacking(k))
    BY <1>5, <2>1, FS_Subset
  <2>4. MayPage(k)' <= MayPage(k)
    BY <1>2, <1>5, <1>6, <2>2 DEF MayPage
  <2>5. MayClear(k)' <= MayClear(k)
    <3>1. CASE k \in raised <=> k \in raised'
      BY <1>5, <1>6, <2>3, <3>1 DEF MayClear
    <3>2. CASE k \notin F /\ t \notin Lacking(k)'
      <4>1. t \in Lacking(k) /\ Lacking(k)' \subseteq Lacking(k) \ {t}
        BY <1>4, <2>1, <3>2
      <4>2. Cardinality(Lacking(k)') + 1 <= Cardinality(Lacking(k))
        BY <1>5, <4>1, CountWithOneLess
      <4> QED BY <1>5, <1>6, <4>2 DEF MayClear
    <3> QED BY <1>9, <3>1, <3>2
  <2>6. \/ pages'[k] + MayPage(k)' <= onsets[k] + forgot[k] + beside
        \/ pages'[k] + MayClear(k)' <= onsets[k] + forgot[k] + beside
    BY <1>5, <1>6, <1>7, <1>9, <2>4, <2>5 DEF PagesPaidFor
  <2> QED BY <1>2, <2>6 DEF PagesPaidFor
<1> QED BY <1>1, <1>8, <1>9, GoAlert

(* A tick that begins: alone, or beside another.                           *)
LEMMA StartPaidFor ==
  ASSUME MonitorShape, NEW t \in Ticks, StartMonitorTick(t), MonitorShape',
         \A u \in Ticks \ {t} : tick'[u] = tick[u],
         Running' \subseteq Running \cup {t},
         NEW k \in Alerts, PagesPaidFor(k)
  PROVE  PagesPaidFor(k)'
<1>1. unwell \in SUBSET Alerts /\ 0 \in Alerts \cup {0} /\ Go(t, unwell, 0)
  BY DEF StartMonitorTick, MonitorShape
<1>2. unwell' = unwell /\ onsets' = onsets /\ forgot' = forgot
  BY DEF StartMonitorTick
<1>3. Ahead(k)' \subseteq Ahead(k) \cup {t} /\ Lacking(k)' \subseteq Lacking(k) \cup {t}
  BY DEF Ahead, Lacking, Running
<1>5. /\ IsFiniteSet(Ahead(k)) /\ Cardinality(Ahead(k)) \in Nat
      /\ IsFiniteSet(Lacking(k)) /\ Cardinality(Lacking(k)) \in Nat
      /\ MayPage(k) \in Nat /\ MayClear(k) \in Nat
  BY TicksAreFinite
<1>6. /\ Cardinality(Ahead(k)') \in Nat /\ Cardinality(Lacking(k)') \in Nat
      /\ MayPage(k)' \in Nat /\ MayClear(k)' \in Nat
  <2>1. Ahead(k)' \subseteq Running' /\ Lacking(k)' \subseteq Running'
    BY DEF Ahead, Lacking
  <2>2. IsFiniteSet(Ahead(k)') /\ IsFiniteSet(Lacking(k)')
    BY <2>1, FS_Subset DEF MonitorShape
  <2> QED BY <2>2, FS_CardinalityType DEF MayPage, MayClear
<1>7. /\ pages[k] \in Nat /\ onsets[k] \in Nat /\ forgot[k] \in Nat /\ beside \in Nat
      /\ pages'[k] \in Nat /\ beside' \in Nat
  BY DEF MonitorShape
<1> DEFINE Paged == /\ k \in unwell /\ 0 < k /\ k \notin raised
                    /\ k \in raised' /\ pages'[k] = pages[k] + 1
                    /\ t \notin Ahead(k)' /\ t \notin Lacking(k)'
           Unpaged == /\ pages'[k] = pages[k]
                      /\ t \in Ahead(k)' => k \in unwell /\ 0 < k
                      /\ t \in Lacking(k)' => k \notin unwell
                      /\ (k \in raised <=> k \in raised') \/ (k \notin unwell /\ t \notin Lacking(k)')
<1>8. Paged \/ Unpaged
  BY <1>1, GoAlert
<1>9. CASE Running = {}
  <2>1. Ahead(k) = {} /\ Lacking(k) = {}
    BY <1>9 DEF Ahead, Lacking
  <2>2. /\ MayPage(k) = (IF k \in unwell THEN 1 ELSE 0)
        /\ MayClear(k) = (IF k \in raised THEN 0 ELSE 1)
    BY <2>1, FS_EmptySet DEF MayPage, MayClear
  <2>3. beside' = beside
    BY <1>9 DEF StartMonitorTick, Running
  <2>4. CASE k \in unwell
    <3>1. Lacking(k)' = {}
      BY <1>3, <1>8, <2>1, <2>4
    <3>2. MayClear(k)' = (IF k \in raised' THEN 0 ELSE 1)
      BY <3>1, FS_EmptySet DEF MayClear
    <3>3. pages'[k] + MayClear(k)' <= onsets[k] + forgot[k] + beside
      BY <1>7, <1>8, <2>2, <2>4, <3>2 DEF PagesPaidFor
    <3> QED BY <1>2, <2>3, <3>3 DEF PagesPaidFor
  <2>5. CASE k \notin unwell
    <3>1. Ahead(k)' = {} /\ pages'[k] = pages[k]
      BY <1>3, <1>8, <2>1, <2>5
    <3>2. MayPage(k)' = 0
      BY <1>2, <2>5, <3>1, FS_EmptySet DEF MayPage
    <3>3. pages'[k] + MayPage(k)' <= onsets[k] + forgot[k] + beside
      BY <1>5, <1>7, <3>1, <3>2 DEF PagesPaidFor
    <3> QED BY <1>2, <2>3, <3>3 DEF PagesPaidFor
  <2> QED BY <2>4, <2>5
<1>10. CASE Running # {}
  <2>1. beside' = beside + 1
    BY <1>10 DEF StartMonitorTick, Running
  <2>2. CASE Paged
    <3>1. Ahead(k)' \subseteq Ahead(k) /\ Lacking(k)' \subseteq Lacking(k)
      BY <1>3, <2>2
    <3>2. Cardinality(Ahead(k)') <= Cardinality(Ahead(k))
      BY <1>5, <3>1, FS_Subset
    <3>3. Cardinality(Lacking(k)') <= Cardinality(Lacking(k))
      BY <1>5, <3>1, FS_Subset
    <3>4. MayPage(k)' <= MayPage(k)
      BY <1>2, <1>5, <1>6, <3>2 DEF MayPage
    <3>5. MayClear(k)' <= MayClear(k)
      BY <1>5, <1>6, <2>2, <3>3 DEF MayClear
    <3>6. \/ pages'[k] + MayPage(k)' <= onsets[k] + forgot[k] + (beside + 1)
          \/ pages'[k] + MayClear(k)' <= onsets[k] + forgot[k] + (beside + 1)
      BY <1>5, <1>6, <1>7, <2>2, <3>4, <3>5 DEF PagesPaidFor
    <3> QED BY <1>2, <2>1, <3>6 DEF PagesPaidFor
  <2>3. CASE Unpaged
    <3>1. Cardinality(Ahead(k)') <= Cardinality(Ahead(k)) + 1
      BY <1>3, <1>5, CountWithOneMore
    <3>2. MayPage(k)' <= MayPage(k) + 1
      BY <1>2, <1>5, <1>6, <3>1 DEF MayPage
    <3>3. MayClear(k)' <= MayClear(k) + 1
      <4>1. CASE k \in raised <=> k \in raised'
        <5>1. Cardinality(Lacking(k)') <= Cardinality(Lacking(k)) + 1
          BY <1>3, <1>5, CountWithOneMore
        <5> QED BY <1>5, <1>6, <4>1, <5>1 DEF MayClear
      <4>2. CASE t \notin Lacking(k)'
        <5>1. Lacking(k)' \subseteq Lacking(k)
          BY <1>3, <4>2
        <5>2. Cardinality(Lacking(k)') <= Cardinality(Lacking(k))
          BY <1>5, <5>1, FS_Subset
        <5> QED BY <1>5, <1>6, <5>2 DEF MayClear
      <4> QED BY <2>3, <4>1, <4>2
    <3>4. \/ pages'[k] + MayPage(k)' <= onsets[k] + forgot[k] + (beside + 1)
          \/ pages'[k] + MayClear(k)' <= onsets[k] + forgot[k] + (beside + 1)
      BY <1>5, <1>6, <1>7, <2>3, <3>2, <3>3 DEF PagesPaidFor
    <3> QED BY <1>2, <2>1, <3>4 DEF PagesPaidFor
  <2> QED BY <1>8, <2>2, <2>3
<1> QED BY <1>9, <1>10

LEMMA MonitorInvNext == ASSUME MonitorInv, [MonitorNext]_monitorVars PROVE MonitorInv'
<1> USE DEF MonitorInv
<1>1. CASE UNCHANGED monitorVars
  BY <1>1 DEF monitorVars, MonitorShape, PagesPaidFor, MayPage, MayClear, Ahead, Lacking, Running
<1>2. ASSUME UNCHANGED <<raised, tick, pages, beside, forgot>>, MonitorShape',
             \A k \in Alerts : \/ onsets'[k] = onsets[k] /\ (k \in unwell' => k \in unwell)
                               \/ onsets'[k] = onsets[k] + 1
      PROVE  MonitorInv'
  <2> SUFFICES ASSUME NEW k \in Alerts PROVE PagesPaidFor(k)'
    BY <1>2
  <2>1. Cardinality(Ahead(k)') = Cardinality(Ahead(k)) /\ MayClear(k)' = MayClear(k)
    BY <1>2 DEF Ahead, Lacking, Running, MayClear
  <2>2. MayPage(k) \in Nat /\ MayClear(k) \in Nat /\ Cardinality(Ahead(k)) \in Nat
    BY TicksAreFinite
  <2>3. /\ pages[k] \in Nat /\ onsets[k] \in Nat /\ forgot[k] \in Nat /\ beside \in Nat
        /\ onsets'[k] \in Nat
    BY <1>2 DEF MonitorShape
  <2>4. CASE onsets'[k] = onsets[k] /\ (k \in unwell' => k \in unwell)
    <3>1. MayPage(k)' <= MayPage(k) /\ MayPage(k)' \in Nat
      BY <2>1, <2>2, <2>4 DEF MayPage
    <3>2. \/ pages[k] + MayPage(k)' <= onsets[k] + forgot[k] + beside
          \/ pages[k] + MayClear(k) <= onsets[k] + forgot[k] + beside
      BY <2>2, <2>3, <3>1 DEF PagesPaidFor
    <3> QED BY <1>2, <2>1, <2>4, <3>2 DEF PagesPaidFor
  <2>5. CASE onsets'[k] = onsets[k] + 1
    <3>1. MayPage(k)' <= MayPage(k) + 1 /\ MayPage(k)' \in Nat
      BY <2>1, <2>2 DEF MayPage
    <3>2. \/ pages[k] + MayPage(k)' <= (onsets[k] + 1) + forgot[k] + beside
          \/ pages[k] + MayClear(k) <= (onsets[k] + 1) + forgot[k] + beside
      BY <2>2, <2>3, <3>1 DEF PagesPaidFor
    <3> QED BY <1>2, <2>1, <2>5, <3>2 DEF PagesPaidFor
  <2> QED BY <1>2, <2>4, <2>5
<1>3. ASSUME NEW k \in Alerts, Worsen(k) PROVE MonitorInv'
  <2>1. MonitorShape'
    BY <1>3 DEF Worsen, MonitorShape, Running
  <2>2. \A i \in Alerts : \/ onsets'[i] = onsets[i] /\ (i \in unwell' => i \in unwell)
                          \/ onsets'[i] = onsets[i] + 1
    BY <1>3 DEF Worsen, MonitorShape
  <2> QED BY <1>2, <1>3, <2>1, <2>2 DEF Worsen
<1>4. ASSUME NEW k \in Alerts, Recover(k) PROVE MonitorInv'
  <2>1. MonitorShape'
    BY <1>4 DEF Recover, MonitorShape, Running
  <2> QED BY <1>2, <1>4, <2>1 DEF Recover
<1>5. ASSUME NEW t \in Ticks, StartMonitorTick(t) PROVE MonitorInv'
  <2>1. beside' \in Nat
    BY <1>5 DEF StartMonitorTick, MonitorShape
  <2>2. /\ unwell \in SUBSET Alerts /\ 0 \in Alerts \cup {0}
        /\ Go(t, unwell, 0) /\ UNCHANGED <<unwell, stopped, onsets, forgot>>
    BY <1>5 DEF StartMonitorTick, MonitorShape
  <2>3. /\ MonitorShape' /\ Running' \subseteq Running \cup {t}
        /\ \A u \in Ticks \ {t} : tick'[u] = tick[u]
    BY <2>1, <2>2, GoShape
  <2> QED BY <1>5, <2>3, StartPaidFor
<1>6. ASSUME NEW t \in Ticks, AnswerPage(t) PROVE MonitorInv'
  <2>1. beside' \in Nat
    BY <1>6 DEF AnswerPage, MonitorShape
  <2>2. /\ tick[t].found \in SUBSET Alerts /\ tick[t].awaits \in Alerts \cup {0}
        /\ Go(t, tick[t].found, tick[t].awaits) /\ UNCHANGED <<unwell, stopped, onsets, forgot>>
    BY <1>6 DEF AnswerPage, MonitorShape
  <2>3. /\ MonitorShape' /\ Running' \subseteq Running \cup {t}
        /\ \A u \in Ticks \ {t} : tick'[u] = tick[u]
    BY <2>1, <2>2, GoShape
  <2> QED BY <1>6, <2>3, AnswerPaidFor
<1>7. CASE Close
  BY <1>7, <1>2 DEF Close, MonitorShape, Running
<1>8. CASE RestartMonitor
  <2>1. Running' = {}
    BY <1>8 DEF RestartMonitor, Running
  <2>2. MonitorShape'
    <3>1. /\ tick' \in [Ticks -> [found : SUBSET Alerts, awaits : Alerts \cup {0}]]
          /\ forgot' \in [Alerts -> Nat]
      BY <1>8 DEF RestartMonitor, MonitorShape, NoTick
    <3>2. IsFiniteSet(Running')
      BY <2>1, FS_EmptySet
    <3> QED BY <1>8, <3>1, <3>2 DEF RestartMonitor, MonitorShape
  <2>3. SUFFICES ASSUME NEW k \in Alerts PROVE PagesPaidFor(k)'
    BY <2>2
  <2>4. Ahead(k)' = {} /\ Lacking(k)' = {}
    BY <2>1 DEF Ahead, Lacking
  <2>5. MayPage(k)' = (IF k \in unwell THEN 1 ELSE 0) /\ MayClear(k)' = 1
    BY <1>8, <2>4, FS_EmptySet DEF RestartMonitor, MayPage, MayClear
  <2>6. /\ Cardinality(Ahead(k)) \in Nat /\ Cardinality(Lacking(k)) \in Nat
        /\ MayPage(k) \in Nat /\ MayClear(k) \in Nat
    BY TicksAreFinite
  <2>7. /\ pages[k] \in Nat /\ onsets[k] \in Nat /\ forgot[k] \in Nat /\ beside \in Nat
        /\ pages' = pages /\ onsets' = onsets /\ beside' = beside
        /\ forgot'[k] = IF k \in raised THEN forgot[k] + 1 ELSE forgot[k]
    BY <1>8 DEF RestartMonitor, MonitorShape
  <2>8. CASE k \in raised
    <3>1. pages[k] <= onsets[k] + forgot[k] + beside
      BY <2>6, <2>7 DEF PagesPaidFor
    <3>2. pages[k] + MayClear(k)' <= onsets[k] + (forgot[k] + 1) + beside
      BY <2>5, <2>7, <3>1
    <3> QED BY <2>7, <2>8, <3>2 DEF PagesPaidFor
  <2>9. CASE k \notin raised
    <3>1. MayPage(k)' <= MayPage(k) /\ MayClear(k)' <= MayClear(k)
      BY <2>5, <2>6, <2>9 DEF MayPage, MayClear
    <3>2. \/ pages[k] + MayPage(k)' <= onsets[k] + forgot[k] + beside
          \/ pages[k] + MayClear(k)' <= onsets[k] + forgot[k] + beside
      BY <2>5, <2>6, <2>7, <3>1 DEF PagesPaidFor
    <3> QED BY <2>7, <2>9, <3>2 DEF PagesPaidFor
  <2> QED BY <2>8, <2>9
<1> QED BY <1>1, <1>3, <1>4, <1>5, <1>6, <1>7, <1>8 DEF MonitorNext

(* NoDoublePage: a condition that lasts is paged once, but for ticks that  *)
(* run beside each other and restarts that forget the alert was raised     *)
(* (services/program_monitor.ts).                                          *)
THEOREM MonitorPagesOnce == MonitorSpec => []NoDoublePage
<1>1. MonitorInv => NoDoublePage
  <2> SUFFICES ASSUME MonitorInv, NEW k \in Alerts PROVE pages[k] <= onsets[k] + forgot[k] + beside
    BY DEF NoDoublePage
  <2>1. pages[k] \in Nat /\ onsets[k] \in Nat /\ forgot[k] \in Nat /\ beside \in Nat
    BY DEF MonitorInv, MonitorShape
  <2>2. MayPage(k) \in Nat /\ MayClear(k) \in Nat
    BY TicksAreFinite DEF MonitorInv
  <2> QED BY <2>1, <2>2 DEF MonitorInv, PagesPaidFor
<1> QED BY <1>1, MonitorInvInit, MonitorInvNext, PTL DEF MonitorSpec
=============================================================================
