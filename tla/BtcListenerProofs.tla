-------------------------- MODULE BtcListenerProofs --------------------------
(***************************************************************************)
(* Proofs about the Bitcoin watcher, for any finite sets of invoices and    *)
(* transactions, any number of handlers that run at the same time, and any  *)
(* bounds on the messages, blocks, lost sockets, crashes and errors.        *)
(*                                                                          *)
(* A handler decides on what a message or a REST answer said, at a time     *)
(* when the chain, the last height the socket told about and the stored     *)
(* invoice may all have moved.  The argument is that what was said of a     *)
(* block is still true when it is used, and that every height that is used  *)
(* is one the chain has reached.                                            *)
(***************************************************************************)
EXTENDS BtcListener, FiniteSetTheorems, SequenceTheorems, TLAPS

Tasks == [pc : {"free", "next", "read", "confirm", "emit", "touch"},
          queue : Seq(Observation), advance : BOOLEAN, obs : Observation]

(* What was said of a transaction: nothing yet, that it is in the mempool, *)
(* or the block that it is in.                                             *)
Truth ==
  {o \in Observation :
     \/ o.block = Fetch
     \/ /\ o.block \in Nat
        /\ o.tx \in Txs /\ PaidTo[o.tx] = o.inv
        /\ o.block > 0 => block[o.tx] = o.block}

Decided(x) == x.obs.tx \in Txs /\ PaidTo[x.obs.tx] = x.obs.inv

(* A handler holds nothing but true observations, and settles an invoice   *)
(* only for a transaction that is deep enough.                             *)
Sound(x) ==
  /\ x.queue \in Seq(Truth)
  /\ x.pc = "read" => x.obs \in Truth /\ x.obs.block # Fetch
  /\ x.pc = "touch" => Decided(x)
  /\ x.pc \in {"confirm", "emit"} => Decided(x) /\ Deep(x.obs.tx)

ChainInv == \A t \in Txs : block[t] <= height
InboxInv ==
  \A k \in DOMAIN inbox : inbox[k].height \in 0 .. height /\ inbox[k].txs \in Seq(Truth)
TaskInv == \A h \in Handlers : Sound(task[h])

(* Nothing is in hand before the backfill, which takes a handler.          *)
BootInv == ws = "boot" => \A h \in Handlers : task[h].pc = "free"

Inv == /\ TypeOK /\ ChainInv /\ InboxInv /\ TaskInv /\ BootInv
       /\ AnnouncedIsDeep /\ ConfirmedIsAnnounced

-----------------------------------------------------------------------------
(* Sequences and sets.                                                     *)

LEMMA SetToSeqType ==
  ASSUME NEW S, IsFiniteSet(S)
  PROVE  SetToSeq(S) \in Seq(S)
<1>1. Cardinality(S) \in Nat /\ ExistsBijection(1 .. Cardinality(S), S)
  BY FS_CardinalityType
<1>2. PICK f \in [1 .. Cardinality(S) -> S] : IsInjective(f)
  BY <1>1 DEF ExistsBijection, Bijection, Injection, IsInjective
<1>3. SetToSeq(S) \in [1 .. Cardinality(S) -> S]
  BY <1>2 DEF SetToSeq
<1> QED BY <1>1, <1>3

LEMMA ImageFinite ==
  ASSUME NEW S, IsFiniteSet(S), NEW f
  PROVE  IsFiniteSet({f[x] : x \in S})
<1> DEFINE T == {f[x] : x \in S}
           g == [x \in S |-> f[x]]
<1>1. g \in Surjection(S, T)
  BY DEF Surjection
<1> HIDE DEF T, g
<1>2. IsFiniteSet(T)
  BY <1>1, FS_Surjection
<1> QED BY <1>2 DEF T

LEMMA SeqOfMore ==
  ASSUME NEW S, NEW T, S \subseteq T
  PROVE  Seq(S) \subseteq Seq(T)
OBVIOUS

LEMMA SeqFacts ==
  ASSUME NEW S, NEW s \in Seq(S)
  PROVE  /\ s # <<>> => Head(s) \in S /\ Tail(s) \in Seq(S) /\ Head(s) = s[1] /\ 1 \in DOMAIN s
         /\ \A k \in DOMAIN s : s[k] \in S
         /\ \A k \in DOMAIN Tail(s) : s # <<>> => k + 1 \in DOMAIN s /\ Tail(s)[k] = s[k + 1]
OBVIOUS

LEMMA AppendFacts ==
  ASSUME NEW S, NEW s \in Seq(S), NEW x \in S
  PROVE  /\ Append(s, x) \in Seq(S)
         /\ \A k \in DOMAIN Append(s, x) : (k \in DOMAIN s /\ Append(s, x)[k] = s[k])
                                             \/ Append(s, x)[k] = x
OBVIOUS

-----------------------------------------------------------------------------
(* Observations.                                                           *)

LEMMA Constants ==
  /\ NoObservation \in Truth /\ NoObservation \in Observation
  /\ \A i \in Invoices : Required[i] \in Nat /\ Required[i] > 0
  /\ \A t \in Txs : PaidTo[t] \in Invoices /\ t # None
BY BtcAssumption DEF NoObservation, Truth, Observation, Fetch

LEMMA TruthTyped == Truth \subseteq Observation /\ Seq(Truth) \subseteq Seq(Observation)
<1>1. Truth \subseteq Observation
  BY DEF Truth
<1> QED BY <1>1, SeqOfMore

(* The chain only grows: what was said of a block stays true, and a deep   *)
(* transaction stays deep.                                                 *)
ChainGrows ==
  /\ height' \in Nat /\ height' >= height
  /\ \A t \in Txs : block[t] > 0 => block'[t] = block[t]

LEMMA TruthLasts ==
  ASSUME TypeOK, ChainGrows
  PROVE  /\ Truth \subseteq Truth' /\ Seq(Truth) \subseteq Seq(Truth')
         /\ \A t \in Txs : Deep(t) => Deep(t)'
         /\ \A x \in Tasks : Sound(x) => Sound(x)'
<1>1. Truth \subseteq Truth'
  BY DEF ChainGrows, Truth, Observation
<1>2. Seq(Truth) \subseteq Seq(Truth')
  BY <1>1, SeqOfMore
<1>3. ASSUME NEW t \in Txs, Deep(t) PROVE Deep(t)'
  <2>1. block[t] \in Int /\ height \in Int /\ Required[PaidTo[t]] \in Int
    BY Constants DEF TypeOK, Unseen
  <2>2. block'[t] = block[t] /\ height' \in Int /\ height' >= height
    BY <1>3 DEF Deep, ChainGrows
  <2> QED BY <1>3, <2>1, <2>2 DEF Deep
<1>4. ASSUME NEW x \in Tasks, Sound(x) PROVE Sound(x)'
  BY <1>1, <1>2, <1>3, <1>4 DEF Sound, Decided
<1> QED BY <1>1, <1>2, <1>3, <1>4

LEMMA FreeSound == Free \in Tasks /\ Sound(Free) /\ Free.pc = "free"
<1>1. <<>> \in Seq(Observation) /\ <<>> \in Seq(Truth)
  OBVIOUS
<1> QED BY <1>1, Constants DEF Free, Tasks, Sound

(* Where a handler goes on to its next observation, it is sound.           *)
LEMMA ProceedSound ==
  ASSUME NEW h \in Handlers, NEW q \in Seq(Truth), NEW a \in BOOLEAN, Proceed(h, q, a)
  PROVE  \E x \in Tasks : /\ Sound(x) /\ x.pc \in {"free", "next"}
                          /\ task' = [task EXCEPT ![h] = x]
<1> DEFINE y == [pc |-> "next", queue |-> q, advance |-> a, obs |-> NoObservation]
<1>1. y \in Tasks
  BY Constants, TruthTyped DEF Tasks
<1>2. Sound(y) /\ y.pc = "next"
  BY DEF Sound
<1> HIDE DEF y
<1>3. task' = [task EXCEPT ![h] = IF q = <<>> /\ ~a THEN Free ELSE y]
  BY DEF Proceed, y
<1> QED BY <1>1, <1>2, <1>3, FreeSound

-----------------------------------------------------------------------------
LEMMA InitInv == Init => Inv
<1> SUFFICES ASSUME Init PROVE Inv
  OBVIOUS
<1> USE DEF Init
<1>1. TypeOK
  <2>1. task \in [Handlers -> Tasks]
    BY FreeSound
  <2>2. inbox \in Seq([height : Nat, txs : Seq(Observation)])
    OBVIOUS
  <2>3. MaxHeight \in Nat /\ MaxEvents \in Nat /\ MaxCloses \in Nat /\ MaxCrashes \in Nat
      /\ MaxErrors \in Nat
    BY BtcAssumption
  <2> QED BY <2>1, <2>2, <2>3 DEF TypeOK, Tasks, Unseen
<1>2. ChainInv /\ InboxInv /\ AnnouncedIsDeep /\ ConfirmedIsAnnounced
  BY DEF ChainInv, InboxInv, AnnouncedIsDeep, ConfirmedIsAnnounced, Unseen
<1>3. TaskInv /\ BootInv
  BY FreeSound DEF TaskInv, BootInv
<1> QED BY <1>1, <1>2, <1>3 DEF Inv

(* What a step leaves alone: the chain and the handlers.                   *)
LEMMA QuietTasks ==
  ASSUME Inv, UNCHANGED <<chain, task>>, ws' # "boot" \/ ws' = ws
  PROVE  ChainInv' /\ TaskInv' /\ BootInv'
<1> USE DEF Inv, chain
<1>1. ChainInv' /\ BootInv'
  BY DEF ChainInv, BootInv
<1>2. \A x : Sound(x)' <=> Sound(x)
  BY DEF Sound, Truth, Decided, Deep
<1>3. TaskInv'
  BY <1>2 DEF TaskInv
<1> QED BY <1>1, <1>3

LEMMA QuietInbox ==
  ASSUME Inv, UNCHANGED chain, inbox' = inbox \/ inbox' = <<>>
  PROVE  InboxInv' /\ inbox' \in Seq([height : Nat, txs : Seq(Observation)])
<1>1. Truth' = Truth /\ height' = height
  BY DEF chain, Truth
<1>2. inbox' \in Seq([height : Nat, txs : Seq(Observation)])
  <2>1. inbox \in Seq([height : Nat, txs : Seq(Observation)])
    BY DEF Inv, TypeOK
  <2>2. \A S : <<>> \in Seq(S)
    OBVIOUS
  <2> QED BY <2>1, <2>2
<1>3. InboxInv'
  BY <1>1 DEF Inv, InboxInv
<1> QED BY <1>2, <1>3

LEMMA QuietAnnounced ==
  ASSUME Inv, ChainGrows, UNCHANGED announced
  PROVE  AnnouncedIsDeep'
<1>1. \A p \in announced : p[2] \in Txs
  <2>1. \A p \in Invoices \X Txs : p[2] \in Txs
    OBVIOUS
  <2>2. announced \subseteq Invoices \X Txs
    BY DEF Inv, TypeOK
  <2> QED BY <2>1, <2>2
<1> QED BY <1>1, TruthLasts DEF Inv, AnnouncedIsDeep

LEMMA SameChain == ASSUME Inv, UNCHANGED chain PROVE ChainGrows
BY DEF Inv, TypeOK, chain, ChainGrows

LEMMA RequestInv == ASSUME NEW i \in Invoices PROVE Inv /\ Request(i) => Inv'
<1> SUFFICES ASSUME Inv, Request(i) PROVE Inv'
  OBVIOUS
<1>1. /\ UNCHANGED <<txHash, events, announced, chain, ws, server, memory, task, bounds>>
      /\ \A j \in Invoices : status'[j] = "confirmed" => status[j] = "confirmed"
  BY DEF Request, CreateInvoice, Deadline, GetReads, GetExpires, storage, requests, Inv, TypeOK
<1>2. TypeOK'
  <2>1. status' \in [Invoices -> {"new", "pending", "confirmed", "expired"}]
    BY DEF Request, CreateInvoice, Deadline, GetReads, GetExpires, storage, Inv, TypeOK
  <2>2. overdue' \in SUBSET Invoices /\ expiring' \in SUBSET Invoices
    BY DEF Request, CreateInvoice, Deadline, GetReads, GetExpires, requests, Inv, TypeOK
  <2> QED BY <1>1, <2>1, <2>2 DEF Inv, TypeOK, chain, server, memory, bounds
<1>3. ChainInv' /\ TaskInv' /\ BootInv'
  BY <1>1, QuietTasks
<1>4. InboxInv'
  BY <1>1, QuietInbox DEF server
<1>5. AnnouncedIsDeep'
  BY <1>1, QuietAnnounced, SameChain
<1>6. ConfirmedIsAnnounced'
  BY <1>1 DEF Inv, ConfirmedIsAnnounced, bounds
<1> QED BY <1>2, <1>3, <1>4, <1>5, <1>6 DEF Inv

-----------------------------------------------------------------------------
(* The chain, and what the socket says of it.                              *)

LEMMA MessageTrue ==
  ASSUME NEW S \in SUBSET Txs, NEW n \in Nat, NEW b \in Nat,
         \A t \in S : b > 0 => block'[t] = b
  PROVE  /\ Message(n, S, b).txs \in Seq(Truth') /\ Message(n, S, b).height = n
         /\ Message(n, S, b) \in [height : Nat, txs : Seq(Observation)]
<1> DEFINE f == [t \in S |-> [inv |-> PaidTo[t], tx |-> t, block |-> b]]
           T == {f[t] : t \in S}
           U == {[inv |-> PaidTo[t], tx |-> t, block |-> b] : t \in S}
<1>1. IsFiniteSet(T)
  <2>1. IsFiniteSet(S)
    BY FS_Subset, BtcAssumption
  <2> HIDE DEF f
  <2> QED BY <2>1, ImageFinite
<1>2. T = U
  OBVIOUS
<1>3. U \subseteq Truth'
  BY Constants DEF Truth, Observation
<1>4. U \subseteq Observation
  BY Constants DEF Observation
<1> HIDE DEF T, U, f
<1>5. SetToSeq(U) \in Seq(U)
  BY <1>1, <1>2, SetToSeqType
<1>6. SetToSeq(U) \in Seq(Truth') /\ SetToSeq(U) \in Seq(Observation)
  BY <1>3, <1>4, <1>5, SeqOfMore
<1> QED BY <1>6 DEF Message, U

LEMMA ToldInv ==
  ASSUME Inv, ChainGrows, ChainInv', height' \in 0 .. MaxHeight,
         block' \in [Txs -> Unseen .. MaxHeight],
         NEW m \in [height : Nat, txs : Seq(Observation)],
         m.height \in 0 .. height', m.txs \in Seq(Truth'),
         inbox' = Append(inbox, m) \/ inbox' = inbox \/ inbox' = <<m>>,
         notified' \in SUBSET Txs, onWatch' \in SUBSET Txs,
         UNCHANGED <<storage, requests, ws, tracked, memory, task, bounds>>
  PROVE  Inv'
<1> DEFINE M == [height : Nat, txs : Seq(Observation)]
<1>1. inbox \in Seq(M) /\ inbox' \in Seq(M)
  <2>1. inbox \in Seq(M)
    BY DEF Inv, TypeOK
  <2> HIDE DEF M
  <2>2. m \in M
    BY DEF M
  <2>3. Append(inbox, m) \in Seq(M) /\ <<m>> \in Seq(M)
    BY <2>1, <2>2, AppendFacts
  <2> QED BY <2>1, <2>3
<1>2. TypeOK'
  <2>1. last \in 0 .. height'
    BY DEF ChainGrows, Inv, TypeOK
  <2> QED BY <1>1, <2>1 DEF Inv, TypeOK, storage, requests, memory, bounds
<1>3. InboxInv'
  <2>1. \A k \in DOMAIN inbox' : (k \in DOMAIN inbox /\ inbox'[k] = inbox[k]) \/ inbox'[k] = m
    <3> HIDE DEF M
    <3>1. CASE inbox' = Append(inbox, m)
      <4>1. m \in M
        BY DEF M
      <4> QED BY <1>1, <3>1, <4>1, AppendFacts
    <3>2. CASE inbox' = inbox
      BY <3>2
    <3>3. CASE inbox' = <<m>>
      <4>1. DOMAIN <<m>> = {1} /\ <<m>>[1] = m
        OBVIOUS
      <4> QED BY <3>3, <4>1
    <3> QED BY <3>1, <3>2, <3>3
  <2>2. Seq(Truth) \subseteq Seq(Truth')
    BY TruthLasts DEF Inv
  <2>3. 0 .. height \subseteq 0 .. height'
    BY DEF ChainGrows, Inv, TypeOK
  <2> QED BY <2>1, <2>2, <2>3 DEF InboxInv, Inv
<1>4. TaskInv' /\ BootInv'
  <2>1. \A h \in Handlers : task[h] \in Tasks
    BY DEF Inv, TypeOK, Tasks
  <2> QED BY <2>1, TruthLasts DEF Inv, TaskInv, BootInv
<1>5. AnnouncedIsDeep'
  BY QuietAnnounced DEF storage
<1>6. ConfirmedIsAnnounced'
  BY DEF Inv, ConfirmedIsAnnounced, storage, bounds
<1> QED BY <1>2, <1>3, <1>4, <1>5, <1>6 DEF Inv

LEMMA PayInv == ASSUME NEW t \in Txs PROVE Inv /\ Pay(t) => Inv'
<1> SUFFICES ASSUME Inv, Pay(t) PROVE Inv'
  OBVIOUS
<1> DEFINE S == ToTracked({t})
           m == Message(0, S, Mempool)
<1>1. /\ block[t] = Unseen /\ block' = [block EXCEPT ![t] = Mempool] /\ Tell(m, S)
      /\ onWatch' = IF ws = "open" /\ PaidTo[t] \in subscribed THEN onWatch \cup {t}
                                                               ELSE onWatch
      /\ UNCHANGED <<storage, requests, height, ws, memory, task, bounds>>
  BY DEF Pay
<1>2. S \in SUBSET Txs
  BY DEF ToTracked
<1>3. block \in [Txs -> Unseen .. MaxHeight] /\ height \in 0 .. MaxHeight /\ MaxHeight \in Nat
  BY BtcAssumption DEF Inv, TypeOK
<1>4. ChainGrows
  BY <1>1, <1>3 DEF ChainGrows, Unseen, Mempool
<1>5. ChainInv'
  BY <1>1, <1>3 DEF Inv, ChainInv, Mempool
<1>6. block' \in [Txs -> Unseen .. MaxHeight]
  BY <1>1, <1>3 DEF Unseen, Mempool
<1>7. /\ m.txs \in Seq(Truth') /\ m.height = 0
      /\ m \in [height : Nat, txs : Seq(Observation)]
  <2>1. Mempool = 0 /\ 0 \in Nat /\ \A u \in S : 0 > 0 => block'[u] = 0
    BY DEF Mempool
  <2> HIDE DEF S
  <2>2. /\ Message(0, S, 0).txs \in Seq(Truth') /\ Message(0, S, 0).height = 0
        /\ Message(0, S, 0) \in [height : Nat, txs : Seq(Observation)]
    BY <1>2, <2>1, MessageTrue
  <2> QED BY <2>1, <2>2
<1>8. /\ inbox' = Append(inbox, m) \/ inbox' = inbox
      /\ notified' \in SUBSET Txs /\ tracked' = tracked
  BY <1>1, <1>2 DEF Tell, Inv, TypeOK
<1>9. onWatch' \in SUBSET Txs
  BY <1>1 DEF Inv, TypeOK
<1>10. m.height \in 0 .. height' /\ height' \in 0 .. MaxHeight
  BY <1>1, <1>3, <1>7
<1> HIDE DEF m, S
<1> QED BY <1>1, <1>4, <1>5, <1>6, <1>7, <1>8, <1>9, <1>10, ToldInv

LEMMA MineInv == Inv /\ Mine => Inv'
<1> SUFFICES ASSUME Inv, Mine PROVE Inv'
  OBVIOUS
<1>1. PICK S \in {{}} \cup {{t} : t \in {u \in Txs : block[u] = Mempool}} :
        /\ block' = [t \in Txs |-> IF t \in S THEN height + 1 ELSE block[t]]
        /\ Tell(Message(height + 1, ToTracked(S), height + 1), ToTracked(S))
  BY DEF Mine
<1>2. /\ height < MaxHeight /\ height' = height + 1
      /\ UNCHANGED <<storage, requests, ws, onWatch, memory, task, bounds>>
  BY DEF Mine
<1> DEFINE m == Message(height + 1, ToTracked(S), height + 1)
<1>3. block \in [Txs -> Unseen .. MaxHeight] /\ height \in 0 .. MaxHeight /\ MaxHeight \in Nat
  BY BtcAssumption DEF Inv, TypeOK
<1>4. S \subseteq Txs /\ \A t \in S : block[t] = 0
  BY <1>1 DEF Mempool
<1>5. ToTracked(S) \in SUBSET Txs /\ \A t \in ToTracked(S) : block'[t] = height + 1
  BY <1>1, <1>4 DEF ToTracked
<1>6. ChainGrows
  BY <1>1, <1>2, <1>3, <1>4 DEF ChainGrows, Unseen
<1>7. ChainInv'
  BY <1>1, <1>2, <1>3 DEF Inv, ChainInv, Unseen
<1>8. block' \in [Txs -> Unseen .. MaxHeight] /\ height' \in 0 .. MaxHeight
  BY <1>1, <1>2, <1>3 DEF Unseen
<1>9. height + 1 \in Nat
  BY <1>3
<1>10. /\ m.txs \in Seq(Truth') /\ m.height = height + 1
       /\ m \in [height : Nat, txs : Seq(Observation)]
  BY <1>5, <1>9, MessageTrue
<1>11. /\ inbox' = Append(inbox, m) \/ inbox' = inbox
       /\ notified' \in SUBSET Txs /\ tracked' = tracked
  BY <1>1, <1>5 DEF Tell, Inv, TypeOK
<1>12. onWatch' \in SUBSET Txs /\ m.height \in 0 .. height'
  BY <1>2, <1>3, <1>10 DEF Inv, TypeOK
<1> HIDE DEF m
<1> QED BY <1>2, <1>6, <1>7, <1>8, <1>10, <1>11, <1>12, ToldInv

LEMMA MineMoreInv == Inv /\ MineMore => Inv'
<1> SUFFICES ASSUME Inv, MineMore PROVE Inv'
  OBVIOUS
<1> DEFINE m == [height |-> height, txs |-> <<>>]
<1>1. /\ inbox' = <<m>>
      /\ UNCHANGED <<storage, requests, chain, ws, tracked, notified, onWatch, memory,
                     task, bounds>>
  BY DEF MineMore
<1>2. height \in 0 .. MaxHeight /\ MaxHeight \in Nat
  BY BtcAssumption DEF Inv, TypeOK
<1>3. <<>> \in Seq(Observation) /\ <<>> \in Seq(Truth')
  OBVIOUS
<1>4. m \in [height : Nat, txs : Seq(Observation)] /\ m.height \in 0 .. height'
      /\ m.txs \in Seq(Truth')
  BY <1>1, <1>2, <1>3 DEF chain
<1>5. ChainGrows /\ ChainInv'
  BY <1>1, SameChain DEF Inv, ChainInv, chain
<1>6. /\ height' \in 0 .. MaxHeight /\ block' \in [Txs -> Unseen .. MaxHeight]
      /\ notified' \in SUBSET Txs /\ onWatch' \in SUBSET Txs
  BY <1>1 DEF Inv, TypeOK, chain
<1> HIDE DEF m
<1> QED BY <1>1, <1>4, <1>5, <1>6, ToldInv

-----------------------------------------------------------------------------
(* The connection and the subscriptions.                                   *)

LEMMA ConnectionInv ==
  Inv /\ (Connect \/ Open \/ Close \/ ReconcileTimer \/ ReconcileLists \/ ReconcileApplies
            \/ UNCHANGED vars) => Inv'
<1> SUFFICES ASSUME Inv, Connect \/ Open \/ Close \/ ReconcileTimer \/ ReconcileLists
                           \/ ReconcileApplies \/ UNCHANGED vars
             PROVE  Inv'
  OBVIOUS
<1> USE DEF Connect, Open, Close, ReconcileTimer, ReconcileLists, ReconcileApplies, vars
<1>1. UNCHANGED <<storage, requests, chain, notified, onWatch, last, task, crashes, errors,
               unannounced>>
  BY DEF server, memory, bounds
<1>2. inbox' = inbox \/ inbox' = <<>>
  BY DEF server
<1>3. ws' \in {"closed", "open"} \/ ws' = ws
  OBVIOUS
<1>4. TypeOK'
  <2>1. Pending \in SUBSET Invoices
    BY DEF Pending
  <2>2. /\ rec' \in {"idle", "list", "opened", "apply"} /\ pending' \in SUBSET Invoices
        /\ tracked' \in SUBSET Invoices
        /\ subscribed' \in SUBSET Invoices /\ watched' \in SUBSET Invoices
    BY <2>1 DEF server, memory, Inv, TypeOK, sendTrackAddresses
  <2>3. closes' \in 0 .. MaxCloses
    BY BtcAssumption DEF bounds, Inv, TypeOK
  <2>4. ws' \in {"boot", "backfill", "closed", "open"}
    BY <1>3 DEF Inv, TypeOK
  <2>5. inbox' \in Seq([height : Nat, txs : Seq(Observation)])
    BY <1>1, <1>2, QuietInbox
  <2> QED BY <1>1, <2>2, <2>3, <2>4, <2>5 DEF Inv, TypeOK, storage, requests, chain
<1>5. ChainInv' /\ TaskInv' /\ BootInv'
  BY <1>1, <1>3, QuietTasks
<1>6. InboxInv'
  BY <1>1, <1>2, QuietInbox
<1>7. AnnouncedIsDeep'
  BY <1>1, QuietAnnounced, SameChain DEF storage
<1>8. ConfirmedIsAnnounced'
  BY <1>1 DEF Inv, ConfirmedIsAnnounced, storage
<1> QED BY <1>4, <1>5, <1>6, <1>7, <1>8 DEF Inv

-----------------------------------------------------------------------------
(* The handlers.                                                           *)

(* A list of things to fetch says nothing, and is always true.             *)
LEMMA FetchTrue ==
  ASSUME NEW S \in SUBSET Invoices, NEW g, \A i \in S : g[i] \in Txs \cup {None}
  PROVE  SetToSeq({[inv |-> i, tx |-> g[i], block |-> Fetch] : i \in S}) \in Seq(Truth)
<1> DEFINE f == [i \in S |-> [inv |-> i, tx |-> g[i], block |-> Fetch]]
           T == {f[i] : i \in S}
           U == {[inv |-> i, tx |-> g[i], block |-> Fetch] : i \in S}
<1>1. IsFiniteSet(T)
  <2>1. IsFiniteSet(S)
    BY FS_Subset, BtcAssumption
  <2> HIDE DEF f
  <2> QED BY <2>1, ImageFinite
<1>2. T = U
  OBVIOUS
<1>3. U \subseteq Truth
  BY DEF Truth, Observation, Fetch
<1> HIDE DEF T, U, f
<1>4. SetToSeq(U) \in Seq(U)
  BY <1>1, <1>2, SetToSeqType
<1> QED BY <1>3, <1>4, SeqOfMore DEF U

(* One handler moves on, and is sound where it goes; it may leave the      *)
(* announcement of an invoice only when there is an event.                 *)
LEMMA TaskStep ==
  ASSUME Inv, NEW h \in Handlers, UNCHANGED chain, ws' = ws \/ ws' # "boot", ws' # "boot",
         \E x \in Tasks : Sound(x) /\ task' = [task EXCEPT ![h] = x]
  PROVE  /\ task' \in [Handlers -> Tasks] /\ ChainInv' /\ TaskInv' /\ BootInv'
         /\ \A g \in Handlers \ {h} : task'[g] = task[g]
<1>1. PICK x \in Tasks : Sound(x) /\ task' = [task EXCEPT ![h] = x]
  OBVIOUS
<1>2. task \in [Handlers -> Tasks]
  BY DEF Inv, TypeOK, Tasks
<1>3. ChainGrows
  BY SameChain
<1>4. \A y \in Tasks : Sound(y) => Sound(y)'
  BY <1>3, TruthLasts DEF Inv
<1>5. TaskInv'
  BY <1>1, <1>2, <1>4 DEF Inv, TaskInv
<1> QED BY <1>1, <1>2, <1>5 DEF Inv, ChainInv, BootInv, chain

(* Steps of a handler that decide nothing.                                 *)
LEMMA ReadingInv ==
  ASSUME Inv, NEW h \in Handlers, task[h].pc # "emit", ws' = ws, ws # "boot",
         UNCHANGED <<storage, requests, chain, tracked, notified, onWatch, subscribed,
                     watched, rec, pending, bounds>>,
         \E x \in Tasks : Sound(x) /\ task' = [task EXCEPT ![h] = x],
         inbox' \in Seq([height : Nat, txs : Seq(Observation)]), InboxInv',
         last' \in 0 .. height
  PROVE  Inv'
<1>1. /\ task' \in [Handlers -> Tasks] /\ ChainInv' /\ TaskInv' /\ BootInv'
      /\ \A g \in Handlers \ {h} : task'[g] = task[g]
  BY TaskStep
<1>2. TypeOK'
  BY <1>1 DEF Inv, TypeOK, Tasks, storage, requests, chain, bounds
<1>3. AnnouncedIsDeep'
  BY QuietAnnounced, SameChain DEF storage
<1>4. ConfirmedIsAnnounced'
  BY <1>1 DEF Inv, ConfirmedIsAnnounced, storage, bounds
<1> QED BY <1>1, <1>2, <1>3, <1>4 DEF Inv

(* What is known of the handler before it moves.                           *)
LEMMA HandlerFacts ==
  ASSUME Inv, NEW h \in Handlers
  PROVE  /\ task[h] \in Tasks /\ Sound(task[h])
         /\ task[h].queue \in Seq(Truth) /\ task[h].advance \in BOOLEAN
         /\ task[h].obs \in Observation
         /\ task[h].obs.inv \in Invoices /\ task[h].obs.tx \in Txs \cup {None}
         /\ task[h].pc # "free" => ws # "boot"
         /\ task[h].queue # <<>> =>
              /\ Head(task[h].queue) \in Truth /\ Head(task[h].queue) \in Observation
              /\ Tail(task[h].queue) \in Seq(Truth)
<1>1. task[h] \in Tasks /\ Sound(task[h])
  BY DEF Inv, TypeOK, Tasks, TaskInv
<1>2. task[h].queue \in Seq(Truth) /\ task[h].advance \in BOOLEAN
      /\ task[h].obs \in Observation
  BY <1>1 DEF Tasks, Sound
<1>3. task[h].obs.inv \in Invoices /\ task[h].obs.tx \in Txs \cup {None}
  BY <1>2 DEF Observation
<1>4. task[h].pc # "free" => ws # "boot"
  BY DEF Inv, BootInv
<1>5. task[h].queue # <<>> =>
        Head(task[h].queue) \in Truth /\ Tail(task[h].queue) \in Seq(Truth)
  BY <1>2, SeqFacts
<1> QED BY <1>1, <1>2, <1>3, <1>4, <1>5, TruthTyped

LEMMA ReceiveInv == ASSUME NEW h \in Handlers PROVE Inv /\ Receive(h) => Inv'
<1> SUFFICES ASSUME Inv, Receive(h) PROVE Inv'
  OBVIOUS
<1> DEFINE M == [height : Nat, txs : Seq(Observation)]
<1>1. inbox \in Seq(M) /\ inbox # <<>>
  BY DEF Inv, TypeOK, Receive
<1>2. Tail(inbox) \in Seq(M) /\ Head(inbox) = inbox[1] /\ 1 \in DOMAIN inbox
      /\ \A k \in DOMAIN Tail(inbox) : k + 1 \in DOMAIN inbox /\ Tail(inbox)[k] = inbox[k + 1]
  <2> HIDE DEF M
  <2> QED BY <1>1, SeqFacts
<1>3. Head(inbox).height \in 0 .. height /\ Head(inbox).txs \in Seq(Truth)
  BY <1>2 DEF Inv, InboxInv
<1>4. Truth' = Truth /\ height' = height
  BY DEF Receive, Truth, chain
<1>5. inbox' \in Seq(M) /\ InboxInv'
  BY <1>2, <1>4 DEF Receive, Inv, InboxInv
<1>6. last' \in 0 .. height
  BY <1>3 DEF Receive, Inv, TypeOK
<1>7. \E x \in Tasks : Sound(x) /\ task' = [task EXCEPT ![h] = x]
  BY <1>3, ProceedSound DEF Receive
<1>8. task[h].pc # "emit" /\ ws' = ws /\ ws # "boot"
  BY FreeSound DEF Receive
<1>9. UNCHANGED <<storage, requests, chain, tracked, notified, onWatch, subscribed,
                  watched, rec, pending, bounds>>
  BY DEF Receive
<1> QED BY <1>5, <1>6, <1>7, <1>8, <1>9, ReadingInv

(* Steps that change nothing but the task.                                 *)
LEMMA OnlyTaskInv ==
  ASSUME Inv, NEW h \in Handlers, Unchanged, task[h].pc \in {"next", "read"},
         \E x \in Tasks : Sound(x) /\ task' = [task EXCEPT ![h] = x]
  PROVE  Inv'
<1>1. ws # "boot"
  BY HandlerFacts
<1>2. inbox' \in Seq([height : Nat, txs : Seq(Observation)]) /\ InboxInv'
  BY QuietInbox DEF Unchanged, server
<1>3. last' \in 0 .. height /\ ws' = ws
  BY DEF Unchanged, memory, Inv, TypeOK
<1>4. UNCHANGED <<storage, requests, chain, tracked, notified, onWatch, subscribed,
                  watched, rec, pending, bounds>>
  BY DEF Unchanged, server, memory
<1> QED BY <1>1, <1>2, <1>3, <1>4, ReadingInv

LEMMA ListCandidatesInv == ASSUME NEW h \in Handlers PROVE Inv /\ ListCandidates(h) => Inv'
<1> SUFFICES ASSUME Inv, ListCandidates(h) PROVE Inv'
  OBVIOUS
<1> DEFINE S == {j \in Pending : txHash[j] # None}
<1>1. S \in SUBSET Invoices /\ \A i \in S : txHash[i] \in Txs \cup {None}
  BY DEF Pending, Inv, TypeOK
<1>2. SetToSeq({[inv |-> i, tx |-> txHash[i], block |-> Fetch] : i \in S}) \in Seq(Truth)
  BY <1>1, FetchTrue
<1>3. \E x \in Tasks : Sound(x) /\ task' = [task EXCEPT ![h] = x]
  BY <1>2, ProceedSound DEF ListCandidates
<1> QED BY <1>3, OnlyTaskInv DEF ListCandidates

LEMMA RestFailsInv == ASSUME NEW h \in Handlers PROVE Inv /\ RestFails(h) => Inv'
<1> SUFFICES ASSUME Inv, RestFails(h) PROVE Inv'
  OBVIOUS
<1>1. Tail(task[h].queue) \in Seq(Truth) /\ task[h].advance \in BOOLEAN
  BY HandlerFacts DEF RestFails, Next1
<1>2. \E x \in Tasks : Sound(x) /\ task' = [task EXCEPT ![h] = x]
  BY <1>1, ProceedSound DEF RestFails
<1> QED BY <1>2, OnlyTaskInv DEF RestFails, Next1

LEMMA RestAnswersInv == ASSUME NEW h \in Handlers PROVE Inv /\ RestAnswers(h) => Inv'
<1> SUFFICES ASSUME Inv, RestAnswers(h) PROVE Inv'
  OBVIOUS
<1> DEFINE asked == Head(task[h].queue)
           known == {t \in Txs : /\ block[t] # Unseen /\ PaidTo[t] = asked.inv
                                 /\ asked.tx \in {t, None}}
           f == [t \in known |-> [inv |-> asked.inv, tx |-> t, block |-> block[t]]]
           T == {f[t] : t \in known}
           U == {[inv |-> asked.inv, tx |-> t, block |-> block[t]] : t \in known}
<1>1. /\ Tail(task[h].queue) \in Seq(Truth) /\ task[h].advance \in BOOLEAN
      /\ asked \in Observation
  BY HandlerFacts DEF RestAnswers, Next1
<1>2. IsFiniteSet(T)
  <2>1. IsFiniteSet(known)
    BY FS_Subset, BtcAssumption
  <2> HIDE DEF f, known
  <2> QED BY <2>1, ImageFinite
<1>3. T = U
  OBVIOUS
<1>4. U \subseteq Truth
  <2>1. asked.inv \in Invoices
    BY <1>1 DEF Observation
  <2>2. \A t \in known : block[t] \in Nat /\ block[t] \in Int
    BY DEF Inv, TypeOK, Unseen
  <2> QED BY <2>1, <2>2 DEF Truth, Observation
<1>5. SetToSeq(U) \in Seq(Truth)
  <2> HIDE DEF T, U
  <2> QED BY <1>2, <1>3, <1>4, SetToSeqType, SeqOfMore
<1>6. Proceed(h, SetToSeq(U) \o Tail(task[h].queue), task[h].advance)
  BY DEF RestAnswers
<1>7. SetToSeq(U) \o Tail(task[h].queue) \in Seq(Truth)
  <2> HIDE DEF U
  <2> QED BY <1>1, <1>5
<1> HIDE DEF U
<1>8. \E x \in Tasks : Sound(x) /\ task' = [task EXCEPT ![h] = x]
  BY <1>1, <1>6, <1>7, ProceedSound
<1> QED BY <1>8, OnlyTaskInv DEF RestAnswers, Next1

LEMMA LookupInv == ASSUME NEW h \in Handlers PROVE Inv /\ Lookup(h) => Inv'
<1> SUFFICES ASSUME Inv, Lookup(h) PROVE Inv'
  OBVIOUS
<1> DEFINE o == Head(task[h].queue)
<1>1. /\ Tail(task[h].queue) \in Seq(Truth) /\ task[h].advance \in BOOLEAN
      /\ o \in Truth /\ o \in Observation /\ o.block # Fetch
      /\ task[h] \in Tasks
  BY HandlerFacts DEF Lookup, Next1
<1>2. CASE o.inv \in watched
  <2> DEFINE x == [task[h] EXCEPT !.pc = "read", !.obs = o, !.queue = Tail(task[h].queue)]
  <2>1. task' = [task EXCEPT ![h] = x]
    BY <1>2 DEF Lookup, Inv, TypeOK
  <2>2. x \in Tasks /\ Sound(x)
    BY <1>1, TruthTyped DEF Tasks, Sound
  <2> HIDE DEF x
  <2> QED BY <2>1, <2>2, OnlyTaskInv DEF Lookup, Next1
<1>3. CASE o.inv \notin watched
  <2>1. \E x \in Tasks : Sound(x) /\ task' = [task EXCEPT ![h] = x]
    BY <1>1, <1>3, ProceedSound DEF Lookup
  <2> QED BY <2>1, OnlyTaskInv DEF Lookup, Next1
<1> QED BY <1>2, <1>3

(* The depth computed from the last height the socket told about is never  *)
(* more than the depth of the transaction.                                 *)
LEMMA DepthIsReal ==
  ASSUME Inv, NEW o \in Truth, o.block # Fetch, DeepEnough(o)
  PROVE  o.tx \in Txs /\ PaidTo[o.tx] = o.inv /\ Deep(o.tx)
<1>1. o.block \in Nat /\ o.tx \in Txs /\ PaidTo[o.tx] = o.inv
      /\ (o.block > 0 => block[o.tx] = o.block)
  BY DEF Truth
<1>2. Required[o.inv] \in Nat /\ Required[o.inv] > 0
  BY <1>1, Constants
<1>3. last \in Nat /\ height \in Nat /\ last <= height
  BY DEF Inv, TypeOK
<1>4. o.block > 0
  BY <1>1, <1>2 DEF DeepEnough, computeConfirmations, Mempool
<1>5. block[o.tx] = o.block /\ o.block <= height
  BY <1>1, <1>4 DEF Inv, ChainInv
<1>6. height - o.block + 1 >= Required[o.inv]
  BY <1>1, <1>2, <1>3, <1>4, <1>5 DEF DeepEnough, computeConfirmations, Mempool
<1> QED BY <1>1, <1>4, <1>5, <1>6 DEF Deep

LEMMA GetInvoiceInv == ASSUME NEW h \in Handlers PROVE Inv /\ GetInvoice(h) => Inv'
<1> SUFFICES ASSUME Inv, GetInvoice(h) PROVE Inv'
  OBVIOUS
<1> DEFINE o == task[h].obs
<1>1. /\ task[h].pc = "read" /\ task[h] \in Tasks /\ Sound(task[h])
      /\ task[h].queue \in Seq(Truth) /\ task[h].advance \in BOOLEAN
      /\ o \in Truth /\ o.block # Fetch
  BY HandlerFacts DEF GetInvoice, Sound
<1>2. o.tx \in Txs /\ PaidTo[o.tx] = o.inv
  BY <1>1 DEF Truth
<1>3. CASE Continue(h)
  <2>1. \E x \in Tasks : Sound(x) /\ task' = [task EXCEPT ![h] = x]
    BY <1>1, <1>3, ProceedSound DEF Continue
  <2> QED BY <1>1, <2>1, OnlyTaskInv DEF GetInvoice
<1>4. CASE DeepEnough(o) /\ task' = [task EXCEPT ![h].pc = "confirm"]
  <2> DEFINE x == [task[h] EXCEPT !.pc = "confirm"]
  <2>1. task' = [task EXCEPT ![h] = x]
    BY <1>4 DEF Inv, TypeOK
  <2>2. Deep(o.tx)
    BY <1>1, <1>4, DepthIsReal
  <2>3. x \in Tasks /\ Sound(x)
    BY <1>1, <1>2, <2>2 DEF Tasks, Sound, Decided
  <2> HIDE DEF x
  <2> QED BY <1>1, <2>1, <2>3, OnlyTaskInv DEF GetInvoice
<1>5. CASE task' = [task EXCEPT ![h].pc = "touch"]
  <2> DEFINE x == [task[h] EXCEPT !.pc = "touch"]
  <2>1. task' = [task EXCEPT ![h] = x]
    BY <1>5 DEF Inv, TypeOK
  <2>2. x \in Tasks /\ Sound(x)
    BY <1>1, <1>2 DEF Tasks, Sound, Decided
  <2> HIDE DEF x
  <2> QED BY <1>1, <2>1, <2>2, OnlyTaskInv DEF GetInvoice
<1> QED BY <1>3, <1>4, <1>5 DEF GetInvoice

LEMMA StoreCandidateInv == ASSUME NEW h \in Handlers PROVE Inv /\ StoreCandidate(h) => Inv'
<1> SUFFICES ASSUME Inv, StoreCandidate(h) PROVE Inv'
  OBVIOUS
<1> DEFINE o == task[h].obs
<1>1. /\ task[h].pc = "touch" /\ o.inv \in Invoices /\ o.tx \in Txs /\ ws # "boot"
      /\ task[h].queue \in Seq(Truth) /\ task[h].advance \in BOOLEAN
  BY HandlerFacts DEF StoreCandidate, Sound, Decided
<1>2. /\ status' = [status EXCEPT ![o.inv] = "pending"]
      /\ txHash' = [txHash EXCEPT ![o.inv] = o.tx]
      /\ UNCHANGED <<events, announced, requests, chain, ws, server, memory, bounds>>
  BY DEF StoreCandidate
<1>3. \E x \in Tasks : Sound(x) /\ task' = [task EXCEPT ![h] = x]
  BY <1>1, ProceedSound DEF StoreCandidate, Continue
<1>4. /\ task' \in [Handlers -> Tasks] /\ ChainInv' /\ TaskInv' /\ BootInv'
      /\ \A g \in Handlers \ {h} : task'[g] = task[g]
  BY <1>1, <1>2, <1>3, TaskStep
<1>5. TypeOK'
  <2>1. /\ status' \in [Invoices -> {"new", "pending", "confirmed", "expired"}]
        /\ txHash' \in [Invoices -> Txs \cup {None}]
    BY <1>1, <1>2 DEF Inv, TypeOK
  <2> QED BY <1>2, <1>4, <2>1 DEF Inv, TypeOK, Tasks, requests, chain, server, memory, bounds
<1>6. InboxInv'
  BY <1>2, QuietInbox DEF server
<1>7. AnnouncedIsDeep'
  BY <1>2, QuietAnnounced, SameChain
<1>8. ConfirmedIsAnnounced'
  <2> SUFFICES ASSUME NEW i \in Invoices, status'[i] = "confirmed"
               PROVE  \/ events[i] > 0
                      \/ \E g \in Handlers : task'[g].pc = "emit" /\ task'[g].obs.inv = i
                      \/ i \in unannounced
    BY <1>2 DEF ConfirmedIsAnnounced, bounds
  <2>1. status[i] = "confirmed"
    BY <1>1, <1>2 DEF Inv, TypeOK
  <2>2. CASE \E g \in Handlers : task[g].pc = "emit" /\ task[g].obs.inv = i
    BY <1>1, <1>4, <2>2
  <2> QED BY <2>1, <2>2 DEF Inv, ConfirmedIsAnnounced
<1> QED BY <1>4, <1>5, <1>6, <1>7, <1>8 DEF Inv

LEMMA StoreConfirmedInv == ASSUME NEW h \in Handlers PROVE Inv /\ StoreConfirmed(h) => Inv'
<1> SUFFICES ASSUME Inv, StoreConfirmed(h) PROVE Inv'
  OBVIOUS
<1> DEFINE o == task[h].obs
           x == [task[h] EXCEPT !.pc = "emit"]
<1>1. /\ task[h].pc = "confirm" /\ o.inv \in Invoices /\ o.tx \in Txs /\ ws # "boot"
      /\ task[h] \in Tasks /\ Sound(task[h])
  BY HandlerFacts DEF StoreConfirmed, Sound, Decided
<1>2. /\ status' = [status EXCEPT ![o.inv] = "confirmed"]
      /\ txHash' = [txHash EXCEPT ![o.inv] = o.tx]
      /\ UNCHANGED <<events, announced, requests, chain, ws, server, memory, bounds>>
  BY DEF StoreConfirmed
<1>3. task' = [task EXCEPT ![h] = x] /\ task'[h].pc = "emit" /\ task'[h].obs.inv = o.inv
  BY <1>1 DEF StoreConfirmed, Inv, TypeOK, Tasks
<1>4. x \in Tasks /\ Sound(x)
  BY <1>1 DEF Tasks, Sound, Decided
<1> HIDE DEF x
<1>5. /\ task' \in [Handlers -> Tasks] /\ ChainInv' /\ TaskInv' /\ BootInv'
      /\ \A g \in Handlers \ {h} : task'[g] = task[g]
  BY <1>1, <1>2, <1>3, <1>4, TaskStep
<1>6. TypeOK'
  <2>1. /\ status' \in [Invoices -> {"new", "pending", "confirmed", "expired"}]
        /\ txHash' \in [Invoices -> Txs \cup {None}]
    BY <1>1, <1>2 DEF Inv, TypeOK
  <2> QED BY <1>2, <1>5, <2>1 DEF Inv, TypeOK, Tasks, requests, chain, server, memory, bounds
<1>7. InboxInv'
  BY <1>2, QuietInbox DEF server
<1>8. AnnouncedIsDeep'
  BY <1>2, QuietAnnounced, SameChain
<1>9. ConfirmedIsAnnounced'
  BY <1>1, <1>2, <1>3, <1>5 DEF Inv, TypeOK, ConfirmedIsAnnounced, bounds
<1> QED BY <1>5, <1>6, <1>7, <1>8, <1>9 DEF Inv

LEMMA EmitConfirmedInv == ASSUME NEW h \in Handlers PROVE Inv /\ EmitConfirmed(h) => Inv'
<1> SUFFICES ASSUME Inv, EmitConfirmed(h) PROVE Inv'
  OBVIOUS
<1> DEFINE o == task[h].obs
<1>1. /\ task[h].pc = "emit" /\ o.inv \in Invoices /\ o.tx \in Txs /\ ws # "boot"
      /\ PaidTo[o.tx] = o.inv /\ Deep(o.tx)
      /\ task[h].queue \in Seq(Truth) /\ task[h].advance \in BOOLEAN
  BY HandlerFacts DEF EmitConfirmed, Sound, Decided
<1>2. /\ events' = [events EXCEPT ![o.inv] = IF @ < MaxEvents THEN @ + 1 ELSE @]
      /\ announced' = announced \cup {<<o.inv, o.tx>>}
      /\ subscribed' = subscribed \ {o.inv} /\ watched' = watched \ {o.inv}
      /\ tracked' = IF ws = "open" THEN subscribed' ELSE tracked
      /\ UNCHANGED <<status, txHash, requests, chain, ws, inbox, notified, onWatch, last,
                     rec, pending, bounds>>
  BY DEF EmitConfirmed, sendTrackAddresses
<1>3. \E x \in Tasks : Sound(x) /\ task' = [task EXCEPT ![h] = x]
  BY <1>1, ProceedSound DEF EmitConfirmed, Continue
<1>4. /\ task' \in [Handlers -> Tasks] /\ ChainInv' /\ TaskInv' /\ BootInv'
      /\ \A g \in Handlers \ {h} : task'[g] = task[g]
  BY <1>1, <1>2, <1>3, TaskStep
<1>5. MaxEvents \in Nat /\ MaxEvents > 0 /\ events \in [Invoices -> 0 .. MaxEvents]
  BY BtcAssumption DEF Inv, TypeOK
<1>6. /\ events' \in [Invoices -> 0 .. MaxEvents] /\ events'[o.inv] > 0
      /\ \A i \in Invoices : events'[i] >= events[i]
  BY <1>1, <1>2, <1>5
<1>7. TypeOK'
  <2>1. announced' \in SUBSET (Invoices \X Txs)
    BY <1>1, <1>2 DEF Inv, TypeOK
  <2>2. /\ subscribed' \in SUBSET Invoices /\ watched' \in SUBSET Invoices
        /\ tracked' \in SUBSET Invoices
    BY <1>2 DEF Inv, TypeOK
  <2> QED BY <1>2, <1>4, <1>6, <2>1, <2>2 DEF Inv, TypeOK, Tasks, requests, chain, bounds
<1>8. InboxInv'
  BY <1>2, QuietInbox
<1>9. AnnouncedIsDeep'
  <2>1. \A t \in Txs : Deep(t)' <=> Deep(t)
    BY <1>2 DEF Deep, chain
  <2>2. \A p \in announced : p[2] \in Txs
    BY DEF Inv, TypeOK
  <2> QED BY <1>1, <1>2, <2>1, <2>2 DEF Inv, AnnouncedIsDeep
<1>10. ConfirmedIsAnnounced'
  <2> SUFFICES ASSUME NEW i \in Invoices, status[i] = "confirmed", i # o.inv
               PROVE  \/ events'[i] > 0
                      \/ \E g \in Handlers : task'[g].pc = "emit" /\ task'[g].obs.inv = i
                      \/ i \in unannounced
    BY <1>2, <1>6 DEF ConfirmedIsAnnounced, bounds
  <2>1. CASE events[i] > 0
    BY <1>5, <1>6, <2>1
  <2>2. CASE i \in unannounced
    BY <2>2
  <2>3. CASE \E g \in Handlers : task[g].pc = "emit" /\ task[g].obs.inv = i
    BY <1>4, <2>3
  <2> QED BY <2>1, <2>2, <2>3 DEF Inv, ConfirmedIsAnnounced
<1> QED BY <1>4, <1>7, <1>8, <1>9, <1>10 DEF Inv

-----------------------------------------------------------------------------
(* The start of the process, and its death.                                *)

LEMMA StartBackfillInv == Inv /\ StartBackfill => Inv'
<1> SUFFICES ASSUME Inv, StartBackfill PROVE Inv'
  OBVIOUS
<1> DEFINE g == [i \in Pending |-> None]
           q == SetToSeq({[inv |-> i, tx |-> None, block |-> Fetch] : i \in Pending})
           x == [Free EXCEPT !.pc = "next", !.queue = q]
<1>1. /\ ws = "boot" /\ ws' = "backfill"
      /\ task' = [task EXCEPT ![BootHandler] = IF Pending = {} THEN Free ELSE x]
      /\ UNCHANGED <<storage, requests, chain, server, memory, bounds>>
  BY DEF StartBackfill
<1>2. q \in Seq(Truth)
  <2>1. Pending \in SUBSET Invoices /\ \A i \in Pending : g[i] \in Txs \cup {None}
    BY DEF Pending
  <2>2. SetToSeq({[inv |-> i, tx |-> g[i], block |-> Fetch] : i \in Pending}) \in Seq(Truth)
    <3> HIDE DEF g
    <3> QED BY <2>1, FetchTrue
  <2>3. {[inv |-> i, tx |-> g[i], block |-> Fetch] : i \in Pending}
          = {[inv |-> i, tx |-> None, block |-> Fetch] : i \in Pending}
    OBVIOUS
  <2> QED BY <2>2, <2>3
<1> HIDE DEF q, g
<1>3. x \in Tasks /\ Sound(x)
  BY <1>2, Constants, TruthTyped DEF Free, Tasks, Sound
<1> HIDE DEF x
<1>4. \E y \in Tasks : Sound(y) /\ task' = [task EXCEPT ![BootHandler] = y]
  BY <1>1, <1>3, FreeSound
<1>5. BootHandler \in Handlers
  BY BtcAssumption
<1>6. task' \in [Handlers -> Tasks] /\ ChainInv' /\ TaskInv' /\ BootInv'
  BY <1>1, <1>4, <1>5, TaskStep
<1>7. TypeOK'
  BY <1>1, <1>6 DEF Inv, TypeOK, Tasks, storage, requests, chain, server, memory, bounds
<1>8. InboxInv'
  BY <1>1, QuietInbox DEF server
<1>9. AnnouncedIsDeep'
  BY <1>1, QuietAnnounced, SameChain DEF storage
<1>10. ConfirmedIsAnnounced'
  BY <1>1 DEF Inv, BootInv, ConfirmedIsAnnounced, storage, bounds
<1> QED BY <1>6, <1>7, <1>8, <1>9, <1>10 DEF Inv

(* The process dies in a crash, or of an error nobody catches.             *)
LEMMA DiesInv ==
  ASSUME Inv, Dies, crashes' \in 0 .. MaxCrashes, errors' \in 0 .. MaxErrors
  PROVE  Inv'
<1>1. /\ ws' = "boot" /\ tracked' = {} /\ inbox' = <<>>
      /\ subscribed' = {} /\ watched' = {} /\ last' = 0 /\ rec' = "idle" /\ pending' = {}
      /\ task' = [h \in Handlers |-> Free] /\ expiring' = {}
      /\ unannounced' = unannounced \cup InHand
      /\ UNCHANGED <<storage, overdue, chain, notified, onWatch, closes>>
  BY DEF Dies
<1>2. InHand \in SUBSET Invoices
  BY HandlerFacts DEF InHand
<1>3. Sound(Free)'
  <2>1. <<>> \in Seq(Truth')
    OBVIOUS
  <2> QED BY <2>1 DEF Sound, Free
<1>4. TypeOK'
  <2>1. task' \in [Handlers -> Tasks]
    BY <1>1, FreeSound
  <2>2. inbox' \in Seq([height : Nat, txs : Seq(Observation)])
    BY <1>1
  <2>3. last' \in 0 .. height'
    BY <1>1 DEF Inv, TypeOK, chain
  <2> QED BY <1>1, <1>2, <2>1, <2>2, <2>3 DEF Inv, TypeOK, Tasks, storage, chain
<1>5. ChainInv' /\ InboxInv' /\ TaskInv' /\ BootInv'
  BY <1>1, <1>3, FreeSound DEF Inv, ChainInv, InboxInv, TaskInv, BootInv, chain
<1>6. AnnouncedIsDeep'
  BY <1>1, QuietAnnounced, SameChain DEF storage
<1>7. ConfirmedIsAnnounced'
  BY <1>1 DEF Inv, ConfirmedIsAnnounced, InHand, storage
<1> QED BY <1>4, <1>5, <1>6, <1>7 DEF Inv

LEMMA ThrowsTyped == ASSUME Inv, Throws PROVE errors' \in 0 .. MaxErrors
BY BtcAssumption DEF Throws, Inv, TypeOK

LEMMA CrashInv == Inv /\ (Crash \/ UncaughtError) => Inv'
<1> SUFFICES ASSUME Inv, Crash \/ UncaughtError PROVE Inv'
  OBVIOUS
<1>1. Dies
  BY DEF Crash, UncaughtError
<1>2. crashes' \in 0 .. MaxCrashes
  BY BtcAssumption DEF Crash, UncaughtError, Inv, TypeOK
<1>3. errors' \in 0 .. MaxErrors
  BY ThrowsTyped DEF Crash, UncaughtError, Inv, TypeOK
<1> QED BY <1>1, <1>2, <1>3, DiesInv

(* A storage call that throws ends a handler or a reconciliation.          *)
LEMMA HandlerFailsInv == ASSUME NEW h \in Handlers PROVE Inv /\ HandlerFails(h) => Inv'
<1> SUFFICES ASSUME Inv, HandlerFails(h) PROVE Inv'
  OBVIOUS
<1>1. /\ task' = [task EXCEPT ![h] = Free]
      /\ unannounced' = IF task[h].pc = "emit" THEN unannounced \cup {task[h].obs.inv}
                                               ELSE unannounced
      /\ UNCHANGED <<storage, requests, chain, ws, server, memory, closes, crashes>>
  BY DEF HandlerFails
<1>2. errors' \in 0 .. MaxErrors /\ unannounced' \in SUBSET Invoices
  BY <1>1, ThrowsTyped, HandlerFacts DEF HandlerFails, Inv, TypeOK
<1>3. \E x \in Tasks : Sound(x) /\ task' = [task EXCEPT ![h] = x]
  BY <1>1, FreeSound
<1>4. ws # "boot"
  BY HandlerFacts DEF HandlerFails, AwaitsStorage
<1>5. /\ task' \in [Handlers -> Tasks] /\ ChainInv' /\ TaskInv' /\ BootInv'
      /\ \A g \in Handlers \ {h} : task'[g] = task[g]
  BY <1>1, <1>3, <1>4, TaskStep
<1>6. TypeOK'
  BY <1>1, <1>2, <1>5 DEF Inv, TypeOK, Tasks, storage, requests, chain, server, memory
<1>7. InboxInv'
  BY <1>1, QuietInbox DEF server
<1>8. AnnouncedIsDeep'
  BY <1>1, QuietAnnounced, SameChain DEF storage
<1>9. ConfirmedIsAnnounced'
  BY <1>1, <1>5 DEF Inv, ConfirmedIsAnnounced, storage
<1> QED BY <1>5, <1>6, <1>7, <1>8, <1>9 DEF Inv

LEMMA ReconcileFailsInv == Inv /\ ReconcileFails => Inv'
<1> SUFFICES ASSUME Inv, ReconcileFails PROVE Inv'
  OBVIOUS
<1>1. /\ rec' = "idle"
      /\ UNCHANGED <<storage, requests, chain, ws, server, subscribed, watched, last,
                     pending, task, closes, crashes, unannounced>>
  BY DEF ReconcileFails
<1>2. errors' \in 0 .. MaxErrors
  BY ThrowsTyped DEF ReconcileFails
<1>3. TypeOK'
  BY <1>1, <1>2 DEF Inv, TypeOK, storage, requests, chain, server
<1>4. ChainInv' /\ TaskInv' /\ BootInv'
  BY <1>1, QuietTasks
<1>5. InboxInv'
  BY <1>1, QuietInbox DEF server
<1>6. AnnouncedIsDeep'
  BY <1>1, QuietAnnounced, SameChain DEF storage
<1>7. ConfirmedIsAnnounced'
  BY <1>1 DEF Inv, ConfirmedIsAnnounced, storage
<1> QED BY <1>3, <1>4, <1>5, <1>6, <1>7 DEF Inv

LEMMA NextInv == Inv /\ [Next]_vars => Inv'
<1> SUFFICES ASSUME Inv, [Next]_vars PROVE Inv'
  OBVIOUS
<1>1. CASE \E i \in Invoices : Request(i)
  BY <1>1, RequestInv
<1>2. CASE External
  BY <1>2, PayInv, MineInv, MineMoreInv DEF External
<1>3. CASE StartBackfill
  BY <1>3, StartBackfillInv
<1>4. CASE \/ Connect \/ Open \/ Close
           \/ ReconcileTimer \/ ReconcileLists \/ ReconcileApplies \/ UNCHANGED vars
  BY <1>4, ConnectionInv
<1>5. CASE Crash \/ UncaughtError \/ ReconcileFails
  BY <1>5, CrashInv, ReconcileFailsInv
<1>6. CASE \E h \in Handlers : Step(h)
  <2>1. PICK h \in Handlers : Step(h)
    BY <1>6
  <2>2. CASE Receive(h) \/ RestFails(h) \/ RestAnswers(h)
    BY <2>2, ReceiveInv, RestFailsInv, RestAnswersInv
  <2>3. CASE ListCandidates(h) \/ Lookup(h) \/ GetInvoice(h)
    BY <2>3, ListCandidatesInv, LookupInv, GetInvoiceInv
  <2>4. CASE StoreCandidate(h) \/ StoreConfirmed(h) \/ EmitConfirmed(h)
    BY <2>4, StoreCandidateInv, StoreConfirmedInv, EmitConfirmedInv
  <2> QED BY <2>1, <2>2, <2>3, <2>4 DEF Step, Handle
<1>7. CASE \E h \in Handlers : HandlerFails(h)
  BY <1>7, HandlerFailsInv
<1> QED BY <1>1, <1>2, <1>3, <1>4, <1>5, <1>6, <1>7 DEF Next, Connection

THEOREM InductiveInv == Spec => []Inv
BY InitInv, NextInv, PTL DEF Spec

-----------------------------------------------------------------------------
(* The storage, the socket and every handler are well typed: no height the *)
(* listener knows is above the chain's, and no observation is partial.     *)
THEOREM BtcTypeOK == Spec => []TypeOK
BY InductiveInv, PTL DEF Inv

(* processTx confirms an invoice only for a transaction that pays it and   *)
(* has its required depth, with any number of handlers, late messages,     *)
(* lost sockets and restarts.                                              *)
THEOREM AnnouncedDeep == Spec => []AnnouncedIsDeep
BY InductiveInv, PTL DEF Inv

(* No interleaving of the handlers, of the requests that expire invoices   *)
(* or of the backfill loses the event of a confirmed invoice: it is lost   *)
(* only where the call that records it throws, or the process dies between *)
(* the two writes.                                                         *)
THEOREM ConfirmedAnnounced == Spec => []ConfirmedIsAnnounced
BY InductiveInv, PTL DEF Inv
=============================================================================
