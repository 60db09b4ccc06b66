------------------------------ MODULE MCBtcParts ------------------------------
(* The Bitcoin watcher, explored in two parts; `part` tells which:          *)
(*   "twice"  an invoice that two transactions pay, over one mishap: its    *)
(*            deadline, a lost socket, a death of the process, or a storage *)
(*            call that throws;                                             *)
(*   "once"   an invoice that one transaction pays, and no mishap.          *)
(* Liveness is asked of the second part only, which alone is scheduled      *)
(* fairly.                                                                  *)
EXTENDS MCBtcListener

VARIABLE part

once == part = "once"
InPart == UNCHANGED part
Mishap == ~once /\ closes + crashes + errors + Cardinality(overdue) = 0

BtcInit == Init /\ part \in {"twice", "once"}

BtcNext ==
  \/ \E i \in Invoices : CreateInvoice(i) /\ InPart
  \/ \E i \in Invoices : Deadline(i) /\ Mishap /\ InPart
  \/ \E i \in Invoices : GetReads(i) /\ InPart
  \/ \E i \in Invoices : GetExpires(i) /\ InPart
  \/ \E t \in Txs : Pay(t) /\ (once => t = t1) /\ InPart
  \/ Mine /\ InPart
  \/ MineMore /\ InPart
  \/ StartBackfill /\ InPart
  \/ Connect /\ InPart
  \/ Open /\ InPart
  \/ ReconcileTimer /\ InPart
  \/ ReconcileLists /\ InPart
  \/ ReconcileApplies /\ InPart
  \/ Close /\ Mishap /\ InPart
  \/ \E h \in Handlers : Receive(h) /\ InPart
  \/ \E h \in Handlers : RestFails(h) /\ InPart
  \/ \E h \in Handlers : RestAnswers(h) /\ InPart
  \/ \E h \in Handlers : ListCandidates(h) /\ InPart
  \/ \E h \in Handlers : Lookup(h) /\ InPart
  \/ \E h \in Handlers : GetInvoice(h) /\ InPart
  \/ \E h \in Handlers : StoreCandidate(h) /\ InPart
  \/ \E h \in Handlers : StoreConfirmed(h) /\ InPart
  \/ \E h \in Handlers : EmitConfirmed(h) /\ InPart
  \/ \E h \in Handlers : HandlerFails(h) /\ Mishap /\ InPart
  \/ ReconcileFails /\ Mishap /\ InPart
  \/ UncaughtError /\ Mishap /\ InPart
  \/ Crash /\ Mishap /\ InPart

BtcSpec ==
  /\ BtcInit /\ [][BtcNext]_<<vars, part>>
  /\ WF_vars(once /\ Connection) /\ WF_vars(once /\ Mine) /\ WF_vars(once /\ MineMore)
  /\ \A h \in Handlers :
       /\ WF_vars(once /\ Receive(h)) /\ WF_vars(once /\ Handle(h))
       /\ WF_vars(once /\ (RestFails(h) \/ RestAnswers(h)))
       /\ SF_vars(once /\ RestAnswers(h))

(* A payment the server told about is announced in the end, whatever order *)
(* its messages, the blocks and the reconciliation are handled in, where   *)
(* it is the only payment of its invoice and nothing fails: a second       *)
(* transaction that is never mined takes the place of the candidate.       *)
PaidOnceIsAnnounced == once => NotifiedIsAnnounced
=============================================================================
