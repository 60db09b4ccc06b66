----------------------------- MODULE BtcListener -----------------------------
(***************************************************************************)
(* The Bitcoin watcher (listener/src/listener.ts).  Every message of the    *)
(* mempool.space socket starts an asynchronous handler at once, so several  *)
(* run together, with the reconciliation of the subscriptions and with the  *)
(* GET /invoice/:id requests (http-server.ts) that expire what they read.   *)
(* Each await on the storage or on the REST API ends an action, and one on  *)
(* the storage may throw.                                                   *)
(*                                                                          *)
(* One address per invoice: an address is named by its invoice.  Blocks are *)
(* final, the listener reacts to no reorganisation.  A reconciliation is    *)
(* not overlapped with another, and an update of an invoice is atomic, as   *)
(* it is in sqlite.                                                         *)
(*                                                                          *)
(* External: payers, the chain, and mempool.space, which tells a socket     *)
(* about new blocks, and about a transaction to an address it tracks when   *)
(* it enters the mempool and when it is mined.                              *)
(***************************************************************************)
EXTENDS Integers, Sequences, FiniteSets, SequencesExt

CONSTANTS
  Invoices,     \* BTC invoices, and their addresses
  Txs,          \* Bitcoin transactions that pay one of them
  None,         \* no transaction
  PaidTo,       \* PaidTo[t]: the invoice that t pays
  Required,     \* Required[i]: requiredConfirmations
  Handlers,     \* bound: messages handled at the same time
  BootHandler,  \* the one that runs the backfill
  MayExpire,    \* bound: the invoices that may pass their expires_at
  MaxInbox,     \* bound: messages on their way
  MaxHeight,    \* bound: blocks with new transactions or new depth
  MaxEvents,    \* bound: events of an invoice that are counted
  MaxCloses,    \* bound: losses of the socket
  MaxCrashes,   \* bound: deaths of the process
  MaxErrors     \* bound: storage calls that throw

ASSUME BtcAssumption ==
  /\ IsFiniteSet(Invoices) /\ Invoices # {} /\ IsFiniteSet(Txs)
  /\ None \notin Txs /\ PaidTo \in [Txs -> Invoices]
  /\ Required \in [Invoices -> Nat \ {0}]
  /\ BootHandler \in Handlers /\ MayExpire \subseteq Invoices
  /\ MaxInbox \in Nat \ {0} /\ MaxHeight \in Nat \ {0} /\ MaxEvents \in Nat \ {0}
  /\ MaxCloses \in Nat /\ MaxCrashes \in Nat /\ MaxErrors \in Nat

VARIABLES
  status,      \* status[i]: "new" or the stored status
  txHash,      \* txHash[i]: the stored candidate or settling transaction
  overdue,     \* invoices whose expires_at has passed
  expiring,    \* invoices a GET found pending and overdue
  events,      \* events[i]: invoice.confirmed events in storage, each with an
               \* id of its own (randomUUID)
  announced,   \* the <<invoice, transaction>> pairs of these events
  height,      \* the latest block
  block,       \* block[t]: Unseen, Mempool, or its block
  ws,          \* "boot", "backfill", "closed" (connecting), "open"
  tracked,     \* addresses the server tracks for the open socket
  inbox,       \* messages sent on it and not yet received
  notified,    \* history: transactions the server told about
  onWatch,     \* history: transactions sent while the socket was open and
               \* their address among the subscriptions
  subscribed,  \* subscribed
  watched,     \* addressToInvoiceId
  last,        \* lastBlockHeight, 0 for null
  rec,         \* reconcileSubscriptions: "idle", "opened" (it lists, called on
               \* 'open'), "list" (it lists, called by the timer), "apply"
  pending,     \* what it listed
  task,        \* task[h]: what handler h is doing
  unannounced, \* history: invoices whose event was not recorded, as the call
               \* threw or the process died before it
  closes, crashes, errors

storage == <<status, txHash, events, announced>>
requests == <<overdue, expiring>>
chain == <<height, block>>
server == <<tracked, inbox, notified, onWatch>>
memory == <<subscribed, watched, last, rec, pending>>
bounds == <<closes, crashes, errors, unannounced>>
vars == <<storage, requests, chain, ws, server, memory, task, bounds>>

Unseen == -1
Mempool == 0
Fetch == -2       \* an observation that is still to be fetched over REST

Observation == [inv : Invoices, tx : Txs \cup {None}, block : Int]
NoObservation == [inv |-> CHOOSE i \in Invoices : TRUE, tx |-> None, block |-> Fetch]
Free == [pc |-> "free", queue |-> <<>>, advance |-> FALSE, obs |-> NoObservation]

Init ==
  /\ status = [i \in Invoices |-> "new"]
  /\ txHash = [i \in Invoices |-> None]
  /\ overdue = {} /\ expiring = {}
  /\ events = [i \in Invoices |-> 0] /\ announced = {}
  /\ height = 0 /\ block = [t \in Txs |-> Unseen]
  /\ ws = "boot" /\ tracked = {} /\ inbox = <<>>
  /\ notified = {} /\ onWatch = {}
  /\ subscribed = {} /\ watched = {} /\ last = 0
  /\ rec = "idle" /\ pending = {}
  /\ task = [h \in Handlers |-> Free]
  /\ closes = 0 /\ crashes = 0 /\ errors = 0 /\ unannounced = {}

(* storage.listPendingInvoices                                             *)
Pending == {i \in Invoices : status[i] = "pending" /\ i \notin overdue}

-----------------------------------------------------------------------------
(* The HTTP server                                                         *)

CreateInvoice(i) ==
  /\ status[i] = "new"
  /\ status' = [status EXCEPT ![i] = "pending"]
  /\ UNCHANGED <<txHash, events, announced, requests, chain, ws, server, memory,
                 task, bounds>>

Deadline(i) ==
  /\ i \in MayExpire \ overdue /\ status[i] # "new"
  /\ overdue' = overdue \cup {i}
  /\ UNCHANGED <<storage, expiring, chain, ws, server, memory, task, bounds>>

GetReads(i) ==
  /\ status[i] = "pending" /\ i \in overdue
  /\ expiring' = expiring \cup {i}
  /\ UNCHANGED <<storage, overdue, chain, ws, server, memory, task, bounds>>

GetExpires(i) ==
  /\ i \in expiring
  /\ expiring' = expiring \ {i}
  /\ status' = [status EXCEPT ![i] = "expired"]
  /\ UNCHANGED <<txHash, events, announced, overdue, chain, ws, server, memory,
                 task, bounds>>

-----------------------------------------------------------------------------
(* External: payments, blocks, and the messages about them.                *)

Message(h, S, blk) ==
  [height |-> h, txs |-> SetToSeq({[inv |-> PaidTo[t], tx |-> t, block |-> blk] : t \in S})]

Tell(m, S) ==
  /\ inbox' = IF ws = "open" /\ (m.txs # <<>> \/ m.height # 0)
                THEN Append(inbox, m) ELSE inbox
  /\ notified' = IF ws = "open" THEN notified \cup S ELSE notified
  /\ UNCHANGED tracked

ToTracked(S) == {t \in S : PaidTo[t] \in tracked}

Pay(t) ==
  /\ block[t] = Unseen /\ status[PaidTo[t]] # "new" /\ Len(inbox) < MaxInbox
  /\ block' = [block EXCEPT ![t] = Mempool]
  /\ Tell(Message(0, ToTracked({t}), Mempool), ToTracked({t}))
  /\ onWatch' = IF ws = "open" /\ PaidTo[t] \in subscribed THEN onWatch \cup {t}
                                                           ELSE onWatch
  /\ UNCHANGED <<storage, requests, height, ws, memory, task, bounds>>

Mine ==
  /\ height < MaxHeight /\ Len(inbox) < MaxInbox
  /\ height' = height + 1
  /\ \E S \in {{}} \cup {{t} : t \in {u \in Txs : block[u] = Mempool}} :
       /\ block' = [t \in Txs |-> IF t \in S THEN height + 1 ELSE block[t]]
       /\ Tell(Message(height + 1, ToTracked(S), height + 1), ToTracked(S))
  /\ UNCHANGED <<storage, requests, ws, onWatch, memory, task, bounds>>

(* Blocks beyond the bound, which only make deep transactions deeper.      *)
MineMore ==
  /\ height = MaxHeight /\ ws = "open" /\ inbox = <<>>
  /\ inbox' = <<[height |-> height, txs |-> <<>>]>>
  /\ UNCHANGED <<storage, requests, chain, ws, tracked, notified, onWatch, memory,
                 task, bounds>>

-----------------------------------------------------------------------------
(* Connection and subscriptions                                            *)

(* start: backfillPending comes before connect.                            *)
StartBackfill ==
  /\ ws = "boot"
  /\ ws' = "backfill"
  /\ task' = [task EXCEPT ![BootHandler] =
       IF Pending = {} THEN Free
       ELSE [Free EXCEPT !.pc = "next",
               !.queue = SetToSeq({[inv |-> i, tx |-> None, block |-> Fetch] : i \in Pending})]]
  /\ UNCHANGED <<storage, requests, chain, server, memory, bounds>>

Connect ==
  /\ ws = "backfill" /\ task[BootHandler] = Free
  /\ ws' = "closed"
  /\ UNCHANGED <<storage, requests, chain, server, memory, task, bounds>>

(* 'open': a new socket tracks nothing; the subscriptions are reconciled.  *)
Open ==
  /\ ws = "closed" /\ rec = "idle"
  /\ ws' = "open"
  /\ tracked' = {} /\ inbox' = <<>>
  /\ rec' = "opened"
  /\ UNCHANGED <<storage, requests, chain, notified, onWatch, subscribed, watched,
                 last, pending, task, bounds>>

(* 'close': the handlers go on, a new socket is opened later.              *)
Close ==
  /\ ws = "open" /\ closes < MaxCloses
  /\ ws' = "closed"
  /\ tracked' = {} /\ inbox' = <<>>
  /\ closes' = closes + 1
  /\ UNCHANGED <<storage, requests, chain, notified, onWatch, memory, task, crashes,
                 errors, unannounced>>

(* scheduleReconcile                                                       *)
ReconcileTimer ==
  /\ ws \in {"closed", "open"} /\ rec = "idle"
  /\ rec' = "list"
  /\ UNCHANGED <<storage, requests, chain, ws, server, subscribed, watched, last,
                 pending, task, bounds>>

ReconcileLists ==
  /\ rec \in {"list", "opened"}
  /\ pending' = Pending
  /\ rec' = "apply"
  /\ UNCHANGED <<storage, requests, chain, ws, server, subscribed, watched, last,
                 task, bounds>>

sendTrackAddresses(addresses) ==
  tracked' = IF ws = "open" THEN addresses ELSE tracked

ReconcileApplies ==
  /\ rec = "apply"
  /\ watched' = pending
  /\ subscribed' = pending
  /\ IF pending # subscribed THEN sendTrackAddresses(pending) ELSE UNCHANGED tracked
  /\ rec' = "idle" /\ pending' = {}
  /\ UNCHANGED <<storage, requests, chain, ws, inbox, notified, onWatch, last, task,
                 bounds>>

-----------------------------------------------------------------------------
(* Handlers                                                                *)

(* A handler that has no more to do is free.                               *)
Proceed(h, queue, advance) ==
  task' = [task EXCEPT ![h] =
    IF queue = <<>> /\ ~advance THEN Free
    ELSE [pc |-> "next", queue |-> queue, advance |-> advance, obs |-> NoObservation]]

Continue(h) == Proceed(h, task[h].queue, task[h].advance)

(* 'message', and the start of handleWsMessage.                            *)
Receive(h) ==
  /\ ws = "open" /\ inbox # <<>> /\ task[h] = Free
  /\ inbox' = Tail(inbox)
  /\ last' = IF Head(inbox).height # 0 THEN Head(inbox).height ELSE last
  /\ Proceed(h, Head(inbox).txs, Head(inbox).height # 0)
  /\ UNCHANGED <<storage, requests, chain, ws, tracked, notified, onWatch, subscribed,
                 watched, rec, pending, bounds>>

Next1(h) == task[h].pc = "next" /\ task[h].queue # <<>>
Unchanged == UNCHANGED <<storage, requests, chain, ws, server, memory, bounds>>

(* advanceConfirmationsOnNewBlock lists the pending invoices with a        *)
(* candidate.                                                              *)
ListCandidates(h) ==
  /\ task[h].pc = "next" /\ task[h].queue = <<>> /\ task[h].advance
  /\ Proceed(h, SetToSeq({[inv |-> i, tx |-> txHash[i], block |-> Fetch] :
                            i \in {j \in Pending : txHash[j] # None}}), FALSE)
  /\ Unchanged

(* fetchTx, fetchAddressTxs: no answer, or what the server knows.          *)
RestFails(h) ==
  /\ Next1(h) /\ Head(task[h].queue).block = Fetch
  /\ Proceed(h, Tail(task[h].queue), task[h].advance)
  /\ Unchanged

RestAnswers(h) ==
  /\ Next1(h) /\ Head(task[h].queue).block = Fetch
  /\ LET asked == Head(task[h].queue)
         known == {t \in Txs : /\ block[t] # Unseen /\ PaidTo[t] = asked.inv
                               /\ asked.tx \in {t, None}}
     IN Proceed(h, SetToSeq({[inv |-> asked.inv, tx |-> t, block |-> block[t]] : t \in known})
                     \o Tail(task[h].queue), task[h].advance)
  /\ Unchanged

(* processTx: the address is looked up ...                                 *)
Lookup(h) ==
  /\ Next1(h) /\ Head(task[h].queue).block # Fetch
  /\ IF Head(task[h].queue).inv \in watched
       THEN task' = [task EXCEPT ![h].pc = "read", ![h].obs = Head(task[h].queue),
                                 ![h].queue = Tail(task[h].queue)]
       ELSE Proceed(h, Tail(task[h].queue), task[h].advance)
  /\ Unchanged


(* Mutant: a transaction of the mempool counts like one of block 0.        *)
ConfirmationsOfAny(obs) ==
  IF last = 0 \/ last < obs.block THEN 1 ELSE last - obs.block + 1

computeConfirmations(obs) ==
  IF obs.block = Mempool THEN 0
  ELSE IF last = 0 \/ last < obs.block THEN 1 ELSE last - obs.block + 1

(* Mutant: one confirmation too many is asked for.                         *)
DeeperThanRequired(obs) == computeConfirmations(obs) > Required[obs.inv]

DeepEnough(obs) == computeConfirmations(obs) >= Required[obs.inv]

(* ... the invoice is read, and what to do is decided on what was read ... *)
GetInvoice(h) ==
  /\ task[h].pc = "read"
  /\ LET obs == task[h].obs IN
     IF status[obs.inv] # "pending" THEN Continue(h)
     ELSE IF DeepEnough(obs)
       THEN task' = [task EXCEPT ![h].pc = "confirm"]
     ELSE IF txHash[obs.inv] # obs.tx
       THEN task' = [task EXCEPT ![h].pc = "touch"]
     ELSE Continue(h)
  /\ Unchanged

(* ... then stored: updateInvoiceStatus(pending) with the candidate,       *)
StoreCandidate(h) ==
  /\ task[h].pc = "touch"
  /\ status' = [status EXCEPT ![task[h].obs.inv] = "pending"]
  /\ txHash' = [txHash EXCEPT ![task[h].obs.inv] = task[h].obs.tx]
  /\ Continue(h)
  /\ UNCHANGED <<events, announced, requests, chain, ws, server, memory, bounds>>

(* Mutant: no event once the address is no longer watched.                 *)
StoreConfirmedIfWatched(h) ==
  /\ task[h].pc = "confirm"
  /\ status' = [status EXCEPT ![task[h].obs.inv] = "confirmed"]
  /\ txHash' = [txHash EXCEPT ![task[h].obs.inv] = task[h].obs.tx]
  /\ IF task[h].obs.inv \in watched THEN task' = [task EXCEPT ![h].pc = "emit"]
                                    ELSE Continue(h)
  /\ UNCHANGED <<events, announced, requests, chain, ws, server, memory, bounds>>

(* or updateInvoiceStatus(confirmed),                                      *)
StoreConfirmed(h) ==
  /\ task[h].pc = "confirm"
  /\ status' = [status EXCEPT ![task[h].obs.inv] = "confirmed"]
  /\ txHash' = [txHash EXCEPT ![task[h].obs.inv] = task[h].obs.tx]
  /\ task' = [task EXCEPT ![h].pc = "emit"]
  /\ UNCHANGED <<events, announced, requests, chain, ws, server, memory, bounds>>

(* and emitConfirmedWebhook, after which the address is dropped.           *)
EmitConfirmed(h) ==
  /\ task[h].pc = "emit"
  /\ LET i == task[h].obs.inv IN
     /\ events' = [events EXCEPT ![i] = IF @ < MaxEvents THEN @ + 1 ELSE @]
     /\ announced' = announced \cup {<<i, task[h].obs.tx>>}
     /\ subscribed' = subscribed \ {i}
     /\ watched' = watched \ {i}
     /\ sendTrackAddresses(subscribed')
  /\ Continue(h)
  /\ UNCHANGED <<status, txHash, requests, chain, ws, inbox, notified, onWatch, last,
                 rec, pending, bounds>>

-----------------------------------------------------------------------------
(* The process dies, and starts again.                                     *)
InHand == {task[h].obs.inv : h \in {g \in Handlers : task[g].pc = "emit"}}

Dies ==
  /\ ws' = "boot" /\ tracked' = {} /\ inbox' = <<>>
  /\ subscribed' = {} /\ watched' = {} /\ last' = 0
  /\ rec' = "idle" /\ pending' = {}
  /\ task' = [h \in Handlers |-> Free]
  /\ expiring' = {}
  /\ unannounced' = unannounced \cup InHand
  /\ UNCHANGED <<storage, overdue, chain, notified, onWatch, closes>>

Crash ==
  /\ crashes < MaxCrashes
  /\ crashes' = crashes + 1
  /\ Dies
  /\ UNCHANGED errors

-----------------------------------------------------------------------------
(* Storage calls that throw                                                *)

(* What a handler awaits on the storage next: the candidates, the invoice, *)
(* or one of the writes.                                                   *)
AwaitsStorage(h) ==
  \/ task[h].pc \in {"read", "touch", "confirm", "emit"}
  \/ task[h].pc = "next" /\ task[h].queue = <<>> /\ task[h].advance

Throws == errors < MaxErrors /\ errors' = errors + 1

(* The error of a handler is logged, and the rest of its message dropped.  *)
HandlerFails(h) ==
  /\ ws # "backfill" /\ AwaitsStorage(h)
  /\ Throws
  /\ task' = [task EXCEPT ![h] = Free]
  /\ unannounced' = IF task[h].pc = "emit" THEN unannounced \cup {task[h].obs.inv}
                                           ELSE unannounced
  /\ UNCHANGED <<storage, requests, chain, ws, server, memory, closes, crashes>>

(* That of a reconciliation ends it if the timer called it.                *)
ReconcileFails ==
  /\ rec = "list"
  /\ Throws
  /\ rec' = "idle"
  /\ UNCHANGED <<storage, requests, chain, ws, server, subscribed, watched, last,
                 pending, task, closes, crashes, unannounced>>

(* Nobody catches that of the backfill, in start(), and that of the        *)
(* reconciliation on 'open': they end the process.                         *)
UncaughtError ==
  /\ (ws = "backfill" /\ AwaitsStorage(BootHandler)) \/ rec = "opened"
  /\ Throws
  /\ Dies
  /\ UNCHANGED crashes

Request(i) == CreateInvoice(i) \/ Deadline(i) \/ GetReads(i) \/ GetExpires(i)
External == (\E t \in Txs : Pay(t)) \/ Mine \/ MineMore
Connection == \/ StartBackfill \/ Connect \/ Open
              \/ ReconcileTimer \/ ReconcileLists \/ ReconcileApplies
Handle(h) == \/ ListCandidates(h) \/ Lookup(h) \/ GetInvoice(h)
             \/ StoreCandidate(h) \/ StoreConfirmed(h) \/ EmitConfirmed(h)
Step(h) == Receive(h) \/ RestFails(h) \/ RestAnswers(h) \/ Handle(h)

Next == \/ \E i \in Invoices : Request(i)
        \/ External \/ Connection \/ Close \/ Crash
        \/ ReconcileFails \/ UncaughtError
        \/ \E h \in Handlers : Step(h) \/ HandlerFails(h)

Spec == Init /\ [][Next]_vars

(* Timers fire and sockets get opened; a received message is handled, and  *)
(* an await ends; blocks keep coming; and the REST API, asked again and    *)
(* again, answers.                                                         *)
FairSpec ==
  /\ Spec
  /\ WF_vars(Connection) /\ WF_vars(Mine) /\ WF_vars(MineMore)
  /\ \A h \in Handlers :
       /\ WF_vars(Receive(h)) /\ WF_vars(Handle(h))
       /\ WF_vars(RestFails(h) \/ RestAnswers(h)) /\ SF_vars(RestAnswers(h))

-----------------------------------------------------------------------------
(* Properties                                                              *)

TypeOK ==
  /\ status \in [Invoices -> {"new", "pending", "confirmed", "expired"}]
  /\ txHash \in [Invoices -> Txs \cup {None}]
  /\ overdue \in SUBSET Invoices /\ expiring \in SUBSET Invoices
  /\ events \in [Invoices -> 0 .. MaxEvents]
  /\ announced \in SUBSET (Invoices \X Txs)
  /\ height \in 0 .. MaxHeight
  /\ block \in [Txs -> Unseen .. MaxHeight]
  /\ ws \in {"boot", "backfill", "closed", "open"}
  /\ tracked \in SUBSET Invoices
  /\ inbox \in Seq([height : Nat, txs : Seq(Observation)])
  /\ notified \in SUBSET Txs /\ onWatch \in SUBSET Txs
  /\ subscribed \in SUBSET Invoices /\ watched \in SUBSET Invoices
  /\ last \in 0 .. height
  /\ rec \in {"idle", "list", "opened", "apply"} /\ pending \in SUBSET Invoices
  /\ task \in [Handlers ->
       [pc : {"free", "next", "read", "confirm", "emit", "touch"},
        queue : Seq(Observation), advance : BOOLEAN, obs : Observation]]
  /\ unannounced \in SUBSET Invoices
  /\ closes \in 0 .. MaxCloses /\ crashes \in 0 .. MaxCrashes
  /\ errors \in 0 .. MaxErrors

Deep(t) == block[t] > 0 /\ height - block[t] + 1 >= Required[PaidTo[t]]

(* An invoice is announced as confirmed only for a transaction that pays   *)
(* it and is deep enough, although depth is computed from the last block   *)
(* the socket told about and transactions from messages that may be old.   *)
AnnouncedIsDeep ==
  \A p \in announced : PaidTo[p[2]] = p[1] /\ Deep(p[2])

(* A stored confirmation was announced, or a handler is about to: the event*)
(* is lost only if recording it throws or the process dies before it, and  *)
(* not by handlers, requests, reconciliations and the backfill that        *)
(* interleave.                                                             *)
ConfirmedIsAnnounced ==
  \A i \in Invoices : status[i] = "confirmed" =>
    \/ events[i] > 0
    \/ \E h \in Handlers : task[h].pc = "emit" /\ task[h].obs.inv = i
    \/ i \in unannounced

(* A payment the server told about is announced in the end, whatever       *)
(* order its messages, the blocks and the reconciliation are handled in.   *)
(* It holds of one payment per invoice only: a second transaction that is  *)
(* never mined takes the place of the candidate.                           *)
Matures(t) == block[t] > 0 /\ block[t] + Required[PaidTo[t]] - 1 <= MaxHeight
IsAnnounced(t) == events[PaidTo[t]] > 0

NotifiedIsAnnounced ==
  \A t \in Txs : (t \in notified /\ Matures(t)) ~> IsAnnounced(t)

(* "walks each pending invoice through the confirmations curve to          *)
(* `confirmed`" (listener.ts): a payment made while the listener is        *)
(* connected and has its address among the subscriptions is announced.     *)
WatchedIsAnnounced ==
  \A t \in Txs : (t \in onWatch /\ Matures(t)) ~> IsAnnounced(t)

(* "REST backfill on boot" (listener.ts): a payment that is deep enough    *)
(* when the listener boots is announced.                                   *)
BackfillAnnounces ==
  \A t \in Txs :
    (ws = "backfill" /\ Deep(t) /\ PaidTo[t] \in Pending) ~> IsAnnounced(t)

(* "stay pending - backfill on next block tick (or REST poll) will         *)
(* eventually flip to confirmed" (listener.ts): an invoice with a candidate*)
(* transaction that gets deep enough is confirmed.                         *)
CandidateIsConfirmed ==
  \A t \in Txs : (txHash[PaidTo[t]] = t /\ Matures(t)) ~> IsAnnounced(t)

(* "X-ZettaPay-Event-Id is the same in all attempts of an event,           *)
(* deduplicate by it" (README.md): an invoice is announced under one id.   *)
AnnouncedOnce == \A i \in Invoices : events[i] <= 1
=============================================================================
