----------------------------- MODULE FixedAddress -----------------------------
(***************************************************************************)
(* The fixed-address receive mode, end to end: every invoice is paid to    *)
(* ONE address and is told apart by its exact amount, a nonce in the low   *)
(* decimals.  Three activities interleave over the storage, in one process *)
(* (listener/src/main.ts):                                                 *)
(*   - POST /invoice requests, createFixedEvmInvoiceForMerchant            *)
(*     (invoice-core.ts): list the active nonces, then store the invoice;  *)
(*   - GET /invoice/:id requests (http-server.ts), which expire an overdue *)
(*     invoice as they read it;                                            *)
(*   - the poll loop of FixedAddressWatcher (fixed-address-watcher.ts).    *)
(* Each await of the code on the storage or on an endpoint ends an action. *)
(*                                                                         *)
(* One chain, one token, one base price: prices and tokens have disjoint   *)
(* amount spaces, so an amount is its nonce; 0 is an amount no invoice     *)
(* has.  Blocks are final: minConfirmations is the code's answer to        *)
(* reorganisations and no other part of it reacts to one.                  *)
(*                                                                         *)
(* External: the chain, the payers and the endpoints.                      *)
(***************************************************************************)
EXTENDS Integers, FiniteSets, RpcQuorum

CONSTANTS
  Invoices,          \* POST /invoice requests, and the invoices they create
  Transfers,         \* Transfer logs to the address, one per transaction
  None,              \* no transfer
  NonceMax,          \* NONCE_MAX
  NRpc,              \* configured endpoints
  Quorum,            \* quorum option of the watcher (DEFAULT_QUORUM)
  FaultyRpcs,        \* endpoints that may report anything
  MinConfirmations,  \* chain.minConfirmations
  BlockWindow,       \* trailing blocks scanned by each poll
  UniqueEventIds,    \* TRUE: sqlite, an existing event id is an error and an
                     \* update atomic; FALSE: json, the event file is
                     \* overwritten and an update reads the row first
  MaxListed,         \* bound: how often a faulty endpoint lists one log
  MaxHeight,         \* bound: blocks
  MaxCrashes,        \* bound: process restarts
  MaxErrors          \* bound: storage errors while recording an event

Rpcs == 1 .. NRpc
Nonces == 1 .. NonceMax
Amounts == 0 .. NonceMax
threshold == quorumThreshold(NRpc, Quorum)

ASSUME FixedAddressAssumption ==
  /\ NonceMax \in Nat \ {0} /\ NRpc \in Nat \ {0} /\ Quorum \in Nat
  /\ FaultyRpcs \subseteq Rpcs /\ MaxListed \in Nat \ {0}
  /\ MinConfirmations \in Nat /\ BlockWindow \in Nat
  /\ UniqueEventIds \in BOOLEAN
  /\ MaxHeight \in Nat /\ MaxCrashes \in Nat /\ MaxErrors \in Nat
  /\ None \notin Transfers

VARIABLES
  status,    \* status[i]: "new", "creating", "refused", or the stored status
  amount,    \* amount[i]: the nonce encoded in the stored amount
  txHash,    \* txHash[i]: the settling transfer, or None
  activeAt,  \* activeAt[i]: the invoices POST i found active
  storedAt,  \* history, for a property: the invoices stored by then
  overdue,   \* the invoices whose expires_at has passed
  expiring,  \* <<invoice, tx_hash>> pairs: the invoices a GET found pending and
             \* overdue, and the tx_hash it read
  events,    \* webhook events in storage: <<kind, subject, transfer>>, the
             \* first two being what the event's id is made of
  height,    \* the latest block
  block,     \* block[t]: the block of transfer t, 0 before it is mined
  value,     \* value[t]: the amount it carries
  due,       \* history, for properties: the invoices that were active, at
             \* that amount, when t was mined
  pc,        \* where the poll is
  active,    \* the poll's snapshot of the active invoices
  batch,     \* decided transfers the poll has still to handle
  current,   \* the decision whose confirmed event is being recorded
  matched,   \* the invoice it confirmed
  seen,      \* transfers that reached a terminal decision in this process
  crashes, errors

storage == <<status, amount, txHash, events>>
requests == <<activeAt, storedAt, expiring>>
chain == <<height, block, value, due>>
poll == <<pc, active, batch, current, matched, seen>>
bounds == <<crashes, errors>>
vars == <<storage, requests, overdue, chain, poll, bounds>>

NoDecision == [tx |-> None, value |-> 0, confirmations |-> 0, from |-> 0]
Decision == [tx : Transfers, value : Amounts, confirmations : Nat, from : Rpcs]
Stored == {"pending", "confirmed", "expired"}

Init ==
  /\ status = [i \in Invoices |-> "new"]
  /\ amount = [i \in Invoices |-> 0]
  /\ txHash = [i \in Invoices |-> None]
  /\ activeAt = [i \in Invoices |-> {}]
  /\ storedAt = [i \in Invoices |-> {}]
  /\ overdue = {} /\ expiring = {} /\ events = {}
  /\ height = 0
  /\ block = [t \in Transfers |-> 0]
  /\ value = [t \in Transfers |-> 0]
  /\ due = [t \in Transfers |-> {}]
  /\ pc = "idle" /\ active = {} /\ batch = {}
  /\ current = NoDecision /\ matched = {} /\ seen = {}
  /\ crashes = 0 /\ errors = 0

(* storage.listPendingInvoices: pending rows that are not overdue.         *)
Active == {i \in Invoices : status[i] = "pending" /\ i \notin overdue}
Mined == {t \in Transfers : block[t] # 0}

-----------------------------------------------------------------------------
(* The HTTP server                                                         *)

(* collectActiveNonces: what POST i knows of the pool.                     *)
CollectActiveNonces(i) ==
  /\ status[i] = "new"
  /\ status' = [status EXCEPT ![i] = "creating"]
  /\ activeAt' = [activeAt EXCEPT ![i] = Active]
  /\ storedAt' = [storedAt EXCEPT ![i] = {j \in Invoices : status[j] \in Stored}]
  /\ UNCHANGED <<amount, txHash, events, expiring, overdue, chain, poll, bounds>>

(* Mutant: the active invoices are looked up at another price.             *)
FreeAtAnotherPrice(i) == Nonces

(* allocateNonce: the first free slot of the ring from a random start.     *)
Free(i) == Nonces \ {amount[j] : j \in activeAt[i]}

(* Mutant: the slot after the start, not wrapped.                          *)
NextSlot(free, start) == start + 1

allocateNonce(free, start) ==
  CHOOSE n \in free :
    \A m \in free : (n - start) % NonceMax <= (m - start) % NonceMax

StoreInvoice(i) ==
  /\ status[i] = "creating"
  /\ Free(i) # {}
  /\ \E start \in Nonces :
       amount' = [amount EXCEPT ![i] = allocateNonce(Free(i), start)]
  /\ status' = [status EXCEPT ![i] = "pending"]
  /\ UNCHANGED <<txHash, events, requests, overdue, chain, poll, bounds>>

(* nonce pool exhausted: 503                                               *)
RefuseInvoice(i) ==
  /\ status[i] = "creating"
  /\ Free(i) = {}
  /\ status' = [status EXCEPT ![i] = "refused"]
  /\ UNCHANGED <<amount, txHash, events, requests, overdue, chain, poll, bounds>>

(* GET /invoice/:id finds the invoice pending and overdue; in json the     *)
(* updateInvoiceStatus that follows reads it again, maybe later ...        *)
GetReads(i) ==
  /\ \/ status[i] = "pending" /\ i \in overdue
     \/ \E t \in Transfers \cup {None} : <<i, t>> \in expiring
  /\ expiring' = {p \in expiring : p[1] # i} \cup {<<i, txHash[i]>>}
  /\ UNCHANGED <<storage, activeAt, storedAt, overdue, chain, poll, bounds>>

(* ... and stores `expired`, whatever the status has become, and in json   *)
(* with it the tx_hash it read.                                            *)
GetExpires(i) ==
  /\ \E t \in Transfers \cup {None} :
       /\ <<i, t>> \in expiring
       /\ txHash' = IF UniqueEventIds THEN txHash ELSE [txHash EXCEPT ![i] = t]
  /\ status' = [status EXCEPT ![i] = "expired"]
  /\ expiring' = {p \in expiring : p[1] # i}
  /\ UNCHANGED <<amount, events, activeAt, storedAt, overdue, chain, poll, bounds>>

(* The clock passes expires_at.                                            *)
Deadline(i) ==
  /\ status[i] \in Stored /\ i \notin overdue
  /\ overdue' = overdue \cup {i}
  /\ UNCHANGED <<storage, requests, chain, poll, bounds>>

-----------------------------------------------------------------------------
(* External: the chain grows, and may carry a transfer of any amount.      *)

Block ==
  /\ height < MaxHeight
  /\ height' = height + 1
  /\ \/ UNCHANGED <<block, value, due>>
     \/ \E t \in Transfers \ Mined, v \in Amounts :
          /\ block' = [block EXCEPT ![t] = height + 1]
          /\ value' = [value EXCEPT ![t] = v]
          /\ due' = [due EXCEPT ![t] = {i \in Active : amount[i] = v}]
  /\ UNCHANGED <<storage, requests, overdue, poll, bounds>>

(* scanOneRpc: the logs of the trailing window of an endpoint whose latest *)
(* block is `latest`; it may lag.  It lists each log once.                 *)
LogsUpTo(latest) ==
  [p \in {t \in Mined : block[t] <= latest /\ block[t] >= latest - BlockWindow} \X {1}
     |-> [value |-> value[p[1]], confirmations |-> latest - block[p[1]] + 1]]

(* Whatever a faulty endpoint reports: logs that are real or not, the same *)
(* one more than once, each time with what it likes.                       *)
Listings == {S \in SUBSET (Transfers \X (1 .. MaxListed)) :
               \A p \in S : \A k \in 1 .. p[2] : <<p[1], k>> \in S}
AnyLogs ==
  UNION {[S -> [value : Amounts, confirmations : {0, MaxHeight}]] : S \in Listings}

-----------------------------------------------------------------------------
(* The poll of the watcher                                                 *)

(* pendingForChain                                                         *)
PendingForChain ==
  /\ pc = "idle"
  /\ active' = Active
  /\ pc' = "listed"
  /\ UNCHANGED <<storage, requests, overdue, chain, batch, current, matched,
                 seen, bounds>>

(* expireStale, a best effort, and the filter that follows it: a listed    *)
(* invoice may have become overdue since.                                  *)
ExpireStale ==
  /\ pc = "listed"
  /\ \E S \in SUBSET (active \cap overdue) :
       status' = [i \in Invoices |-> IF i \in S THEN "expired" ELSE status[i]]
  /\ active' = active \ overdue
  /\ pc' = "scan"
  /\ UNCHANGED <<amount, txHash, events, requests, overdue, chain, batch,
                 current, matched, seen, bounds>>

(* byKey: the observations of transfer t across the responding endpoints,  *)
(* one for each log entry.                                                 *)
Entries(scan, t) == {p \in (DOMAIN scan) \X (1 .. MaxListed) :
                       <<t, p[2]>> \in DOMAIN scan[p[1]]}
Observations(scan, t) == [p \in Entries(scan, t) |-> scan[p[1]][<<t, p[2]>>]]

FirstReporter(obs) ==
  CHOOSE r \in {p[1] : p \in DOMAIN obs} : \A p \in DOMAIN obs : r <= p[1]

DecisionOn(t, obs) ==
  LET agreed == decideTransferQuorum(obs, threshold)
  IN  [tx |-> t, value |-> agreed.value,
       confirmations |-> agreed.confirmations, from |-> FirstReporter(obs)]

Decided(scan) ==
  {DecisionOn(t, Observations(scan, t)) :
     t \in {u \in Transfers \ seen : Agreed(Observations(scan, u), threshold)}}

(* byKey is iterated in insertion order: endpoint by endpoint, and within  *)
(* the answer of one along the chain, or as a faulty one likes.            *)
Before(d, e) ==
  \/ d.from < e.from
  \/ d.from = e.from /\ (d.from \in FaultyRpcs \/ block[d.tx] <= block[e.tx])
IsNext(d) == d \in batch /\ \A e \in batch : Before(d, e)

(* scanToken: too few answers and the poll ends degraded; otherwise the    *)
(* transfers that a quorum agrees on, and are not `seen`, are handled.     *)
ScanDegraded ==
  /\ pc = "scan"
  /\ pc' = "idle"
  /\ active' = {}
  /\ UNCHANGED <<storage, requests, overdue, chain, batch, current, matched,
                 seen, bounds>>

ScanWith(scan) ==
  /\ batch' = Decided(scan)
  /\ pc' = "handle"
  /\ UNCHANGED <<storage, requests, overdue, chain, active, current, matched,
                 seen, bounds>>

(* The endpoints of R answer, the faulty ones with any of `lies`.          *)
ScanAnswered(R, lies) ==
  /\ pc = "scan"
  /\ Cardinality(R) >= threshold
  /\ \E latest \in [R \ FaultyRpcs -> 0 .. height], lie \in [R \cap FaultyRpcs -> lies] :
       ScanWith([r \in R |-> IF r \in FaultyRpcs THEN lie[r] ELSE LogsUpTo(latest[r])])

Scan == \E R \in SUBSET Rpcs : ScanAnswered(R, AnyLogs)

(* findInvoiceByValue                                                      *)
Matches(d) == {i \in active : amount[i] = d.value /\ amount[i] > 0}

(* deterministicEventId, and recordWebhookEvent of an id already there.    *)
EventId(kind, subject) == <<kind, subject>>
IdOf(e) == <<e[1], e[2]>>
CanRecord(id) == ~(UniqueEventIds /\ \E e \in events : IdOf(e) = id)
Record(id, t) ==
  /\ CanRecord(id)
  /\ events' = {e \in events : IdOf(e) # id} \cup {<<id[1], id[2], t>>}

(* Mutant: an orphan is not remembered.                                    *)
HandleOrphanForgets(d) ==
  /\ pc = "handle" /\ IsNext(d)
  /\ Matches(d) = {}
  /\ Record(EventId("orphan", d.tx), d.tx)
  /\ batch' = batch \ {d}
  /\ UNCHANGED <<status, amount, txHash, requests, overdue, chain, pc, active,
                 current, matched, seen, bounds>>

(* handleTransfer, no match: payment.orphan, terminal.                     *)
HandleOrphan(d) ==
  /\ pc = "handle" /\ IsNext(d)
  /\ Matches(d) = {}
  /\ Record(EventId("orphan", d.tx), d.tx)
  /\ seen' = seen \cup {d.tx}
  /\ batch' = batch \ {d}
  /\ UNCHANGED <<status, amount, txHash, requests, overdue, chain, pc, active,
                 current, matched, bounds>>

(* Mutant: a transfer that is not deep enough is dropped for good.         *)
HandleShallowIsFinal(d) ==
  /\ pc = "handle" /\ IsNext(d)
  /\ Matches(d) # {}
  /\ d.confirmations < MinConfirmations
  /\ batch' = batch \ {d}
  /\ seen' = seen \cup {d.tx}
  /\ UNCHANGED <<storage, requests, overdue, chain, pc, active, current,
                 matched, bounds>>

(* handleTransfer, below minConfirmations: left for a later poll.          *)
HandleShallow(d) ==
  /\ pc = "handle" /\ IsNext(d)
  /\ Matches(d) # {}
  /\ d.confirmations < MinConfirmations
  /\ batch' = batch \ {d}
  /\ UNCHANGED <<storage, requests, overdue, chain, pc, active, current,
                 matched, seen, bounds>>

(* handleTransfer, a match: updateInvoiceStatus(confirmed) ...             *)
HandleConfirmed(d) ==
  /\ pc = "handle" /\ IsNext(d)
  /\ d.confirmations >= MinConfirmations
  /\ \E i \in Matches(d) :
       /\ status' = [status EXCEPT ![i] = "confirmed"]
       /\ txHash' = [txHash EXCEPT ![i] = d.tx]
       /\ matched' = {i}
  /\ current' = d
  /\ pc' = "record"
  /\ UNCHANGED <<amount, events, requests, overdue, chain, active, batch,
                 seen, bounds>>

(* Mutants: the event is kept from an invoice that is overdue by now; the  *)
(* transfer is not remembered.                                             *)
RecordConfirmedInTime(i) ==
  /\ pc = "record" /\ i \in matched
  /\ IF i \in overdue THEN UNCHANGED events
                      ELSE Record(EventId("confirmed", i), current.tx)
  /\ seen' = seen \cup {current.tx}
  /\ batch' = batch \ {current}
  /\ current' = NoDecision /\ matched' = {}
  /\ pc' = "handle"
  /\ UNCHANGED <<status, amount, txHash, requests, overdue, chain, active, bounds>>

RecordConfirmedForgets(i) ==
  /\ pc = "record" /\ i \in matched
  /\ Record(EventId("confirmed", i), current.tx)
  /\ batch' = batch \ {current}
  /\ current' = NoDecision /\ matched' = {}
  /\ pc' = "handle"
  /\ UNCHANGED <<status, amount, txHash, requests, overdue, chain, active, seen,
                 bounds>>

(* ... then emitConfirmedWebhook, and the transfer is terminal.            *)
RecordConfirmed(i) ==
  /\ pc = "record" /\ i \in matched
  /\ Record(EventId("confirmed", i), current.tx)
  /\ seen' = seen \cup {current.tx}
  /\ batch' = batch \ {current}
  /\ current' = NoDecision /\ matched' = {}
  /\ pc' = "handle"
  /\ UNCHANGED <<status, amount, txHash, requests, overdue, chain, active, bounds>>

(* Leave the poll: what it had not handled waits for the next one.         *)
LeavePoll ==
  /\ pc' = "idle"
  /\ active' = {} /\ batch' = {} /\ current' = NoDecision /\ matched' = {}

EndPoll ==
  /\ pc = "handle" /\ batch = {}
  /\ LeavePoll
  /\ UNCHANGED <<storage, requests, overdue, chain, seen, bounds>>

(* A storage call throws, and the throw ends the poll (chain_failed):      *)
(* recordWebhookEvent because the id exists, or any call for a reason of   *)
(* the storage's own.                                                      *)
RecordRefused ==
  /\ \/ /\ pc = "handle"
        /\ \E d \in batch : /\ IsNext(d) /\ Matches(d) = {}
                            /\ ~CanRecord(EventId("orphan", d.tx))
     \/ /\ pc = "record"
        /\ \E i \in matched : ~CanRecord(EventId("confirmed", i))
  /\ LeavePoll
  /\ UNCHANGED <<storage, requests, overdue, chain, seen, bounds>>

StorageFails ==
  /\ pc \in {"handle", "record"} /\ batch # {}
  /\ errors < MaxErrors
  /\ errors' = errors + 1
  /\ LeavePoll
  /\ UNCHANGED <<storage, requests, overdue, chain, seen, crashes>>

(* The process dies and starts again: what it held in memory is gone.      *)
Crash ==
  /\ crashes < MaxCrashes
  /\ crashes' = crashes + 1
  /\ LeavePoll
  /\ seen' = {}
  /\ expiring' = {}
  /\ status' = [i \in Invoices |->
                  IF status[i] = "creating" THEN "refused" ELSE status[i]]
  /\ UNCHANGED <<amount, txHash, events, activeAt, storedAt, overdue, chain,
                 errors>>

Request(i) == \/ CollectActiveNonces(i) \/ StoreInvoice(i) \/ RefuseInvoice(i)
              \/ GetReads(i) \/ GetExpires(i) \/ Deadline(i)

Handle(d) == HandleOrphan(d) \/ HandleShallow(d) \/ HandleConfirmed(d)

Poll == \/ PendingForChain \/ ExpireStale \/ ScanDegraded \/ Scan
        \/ \E d \in batch : Handle(d)
        \/ \E i \in matched : RecordConfirmed(i)
        \/ EndPoll \/ RecordRefused \/ StorageFails

Next == (\E i \in Invoices : Request(i)) \/ Block \/ Poll \/ Crash

Spec == Init /\ [][Next]_vars

(* The poll loop always schedules its next step; blocks keep coming; and   *)
(* an endpoint that lags or fails does not do so forever, so a scan that   *)
(* keeps being made is, time and again, answered by all of them in full.   *)
PollStep == \/ PendingForChain \/ ExpireStale
            \/ \E d \in batch : Handle(d)
            \/ \E i \in matched : RecordConfirmed(i)
            \/ EndPoll \/ RecordRefused
FullScan ==
  /\ pc = "scan"
  /\ \E scan \in {[r \in Rpcs |-> LogsUpTo(height)]} : ScanWith(scan)

FairSpec == /\ Spec
            /\ WF_vars(PollStep)
            /\ SF_vars(FullScan)
            /\ WF_vars(Block)

-----------------------------------------------------------------------------
(* Properties                                                              *)

TypeOK ==
  /\ status \in [Invoices -> Stored \cup {"new", "creating", "refused"}]
  /\ amount \in [Invoices -> Amounts]
  /\ txHash \in [Invoices -> Transfers \cup {None}]
  /\ activeAt \in [Invoices -> SUBSET Invoices]
  /\ storedAt \in [Invoices -> SUBSET Invoices]
  /\ overdue \in SUBSET Invoices
  /\ expiring \in SUBSET (Invoices \X (Transfers \cup {None}))
  /\ events \in SUBSET (({"confirmed"} \X Invoices \X Transfers) \cup
                        ({"orphan"} \X Transfers \X Transfers))
  /\ height \in Nat
  /\ block \in [Transfers -> Nat]
  /\ value \in [Transfers -> Amounts]
  /\ due \in [Transfers -> SUBSET Invoices]
  /\ pc \in {"idle", "listed", "scan", "handle", "record"}
  /\ active \in SUBSET Invoices
  /\ batch \in SUBSET Decision
  /\ current \in Decision \cup {NoDecision}
  /\ matched \in SUBSET Invoices
  /\ seen \in SUBSET Transfers
  /\ crashes \in Nat /\ errors \in Nat

Announced(i) == \E t \in Transfers : <<"confirmed", i, t>> \in events
Orphan(t) == <<"orphan", t, t>>

Settled(i, t) ==
  /\ block[t] # 0
  /\ value[t] = amount[i]
  /\ height - block[t] + 1 >= MinConfirmations

(* The log entries that faulty endpoints can add for one transfer do not   *)
(* fill a quorum.  That fewer endpoints than the threshold are faulty does *)
(* not ensure it, since entries are counted and not endpoints.             *)
FaultyAreFew == Cardinality(FaultyRpcs) * MaxListed < threshold

(* An invoice is confirmed, in storage or to the merchant, only if a       *)
(* transfer of exactly its amount is on the chain, minConfirmations deep:  *)
(* faulty endpoints whose log entries do not fill a quorum, whatever they  *)
(* report and however the others lag, cannot decide a confirmation         *)
(* (rpc-quorum.ts).                                                        *)
ConfirmedIsPaid ==
  /\ \A i \in Invoices : txHash[i] # None => Settled(i, txHash[i])
  /\ \A i \in Invoices : status[i] = "confirmed" => txHash[i] # None
  /\ \A i \in Invoices, t \in Transfers :
       <<"confirmed", i, t>> \in events => Settled(i, t)

(* A POST that starts after an invoice was stored never gives its amount   *)
(* away while that invoice is active, through expiry, confirmation and     *)
(* restarts: the nonce pool is unique among requests that do not overlap.  *)
SequentialNoncesDiffer ==
  \A i, j \in Active : i # j /\ j \in storedAt[i] => amount[i] # amount[j]

(* One payment settles one invoice: within a run of the process, in which  *)
(* no storage call failed, `seen` guarantees it whatever nonces are        *)
(* recycled in the meantime.  So it is in json; in sqlite recording the    *)
(* event of a second payment fails by itself (RecordRefused), and the      *)
(* transfer is not `seen`.                                                 *)
NoFault == crashes = 0 /\ errors = 0

OneInvoicePerTransfer ==
  NoFault => \A i, j \in Invoices : txHash[i] = txHash[j] /\ txHash[i] # None => i = j

(* Within such a run, a payment reported as orphan never settles an        *)
(* invoice, nor the other way round: one terminal decision per transfer,   *)
(* in json.  In sqlite a second payment that is handled in the same poll   *)
(* replaces the tx_hash of the invoice and is then reported as an orphan.  *)
OneDecisionPerTransfer ==
  NoFault => \A i \in Invoices : Orphan(txHash[i]) \notin events

(* Every transfer to the address that gets deep enough is reported in the  *)
(* end, as the payment of an invoice or as an orphan, although polls are   *)
(* degraded, endpoints lag, the process restarts and storage calls fail.   *)
Matures(t) == block[t] # 0 /\ block[t] + MinConfirmations - 1 <= MaxHeight
Reported(t) == \E e \in events : e[3] = t

EveryTransferReported ==
  \A t \in Transfers : (Matures(t) /\ t \notin seen) ~> Reported(t)

(* Every invoice that is confirmed gets its invoice.confirmed event, or a  *)
(* crash or a storage error came between the two.                          *)
ConfirmedIsAnnounced ==
  \A i \in Invoices :
    txHash[i] # None ~> (Announced(i) \/ ~NoFault)

(* What the documents say and the code does not do: see the README.        *)

(* "uniqueness within the active (chain, base price) pool is guaranteed"   *)
(* (invoice-core.ts): no two active invoices ask for the same amount.      *)
UniqueActiveAmounts ==
  \A i, j \in Active : amount[i] = amount[j] => i = j

(* "the payer is identified by the EXACT amount" (fixed-address-watcher.ts)*)
(* : a payment made to one invoice does not settle another one that was    *)
(* requested after the first was stored.                                   *)
PaymentSettlesItsInvoice ==
  \A i, j \in Invoices, t \in Transfers :
    txHash[j] = t /\ i \in due[t] /\ i \in storedAt[j] => j \in due[t]

(* "A transfer that matches no active invoice emits payment.orphan"        *)
(* (CHANGELOG.md): of a transfer the watcher is done with there is an      *)
(* event.                                                                  *)
NoPaymentVanishes ==
  \A t \in seen : Reported(t)

(* Pull reconciliation, GET /invoice/:id, agrees with the webhook          *)
(* (README.md): an invoice announced as confirmed reads as confirmed.      *)
PullAgreesWithWebhook ==
  \A i \in Invoices : Announced(i) => status[i] = "confirmed"

(* "a re-detection after a listener restart produces the SAME id"          *)
(* (fixed-address-watcher.ts): the transfer that settled an invoice is     *)
(* never announced under another id.                                       *)
RedetectionKeepsId ==
  [][\A t \in Transfers :
       Orphan(t) \in events' \ events =>
         \A i \in Invoices : <<"confirmed", i, t>> \notin events]_vars

(* "We NEVER activate a plan/invoice off an orphan"                        *)
(* (fixed-address-watcher.ts), over restarts too.                          *)
OrphanNeverActivates ==
  \A i \in Invoices : Orphan(txHash[i]) \notin events
=============================================================================
