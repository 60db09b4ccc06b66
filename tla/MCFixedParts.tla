----------------------------- MODULE MCFixedParts -----------------------------
(* The fixed-address watcher, explored one part at a time; `part` tells     *)
(* which.  For safety:                                                      *)
(*   "quorum"  one invoice and one transfer, before three endpoints of      *)
(*             which one lists a log twice, with whatever it likes;         *)
(*   "pool"    three invoices on a ring of two nonces, so that two are      *)
(*             active together, the ring wraps, the pool runs out and a     *)
(*             nonce is given again; no transfers, and no GET: the watcher  *)
(*             expires what is overdue;                                     *)
(*   "pair"    two invoices and two transfers, on the same ring.            *)
(* And for liveness, with one endpoint that may lag:                        *)
(*   "json"    two transfers that may both pay one invoice;                 *)
(*   "sqlite"  a transfer that may pay one invoice, over the store in       *)
(*             which an event id that is recorded is refused.               *)
(* In the parts "pool" and "pair" every endpoint answers, and truly.        *)
(* Invoices and transfers that play the same part are interchangeable.      *)
EXTENDS MCFixedAddress, TLC

VARIABLE part

partVars == <<vars, part>>

Sqlite == INSTANCE FixedAddress WITH UniqueEventIds <- TRUE

InvoicesOf == [quorum |-> {i1}, pool |-> ThreeInvoices, pair |-> {i2, i3},
               json |-> {i1}, sqlite |-> {i1}]
TransfersOf == [quorum |-> {t1}, pool |-> {}, pair |-> {t2, t3},
                json |-> {t1, t2}, sqlite |-> {t1}]
HeightOf == [quorum |-> 2, pool |-> 0, pair |-> 3, json |-> 3, sqlite |-> 3]
CrashesOf == [quorum |-> 1, pool |-> 1, pair |-> 0, json |-> 1, sqlite |-> 1]
Symmetry == Permutations({i2, i3}) \cup Permutations({t2, t3})

live == part \in {"json", "sqlite"}
sqlite == part = "sqlite"
InPart == UNCHANGED part

LogsOf(T) == {logs \in AnyLogs : \A p \in DOMAIN logs : p[1] \in T}
LogsOfOne == LogsOf({t1})

(* The transfers of the part "pair" are of the amount of some nonce.        *)
Grow ==
  /\ height < HeightOf[part] /\ Block
  /\ Mined' \subseteq TransfersOf[part]
  /\ part = "pair" => \A t \in Mined' : value'[t] \in Nonces

(* A behaviour has one mishap, a restart or a storage error.                *)
Mishap == crashes + errors = 0

PartNext ==
  \/ \E i \in InvoicesOf[part] : CollectActiveNonces(i) /\ InPart
  \/ \E i \in InvoicesOf[part] : StoreInvoice(i) /\ InPart
  \/ \E i \in InvoicesOf[part] : RefuseInvoice(i) /\ InPart
  \/ \E i \in InvoicesOf[part] : part # "pool" /\ GetReads(i) /\ InPart
  \/ \E i \in InvoicesOf[part] : ~sqlite /\ GetExpires(i) /\ InPart
  \/ \E i \in InvoicesOf[part] : sqlite /\ Sqlite!GetExpires(i) /\ InPart
  \/ \E i \in InvoicesOf[part] : Deadline(i) /\ InPart
  \/ Grow /\ InPart
  \/ PendingForChain /\ InPart
  \/ ExpireStale /\ InPart
  \/ ScanDegraded /\ InPart
  \/ part = "quorum" /\ ScanAnswered(Rpcs, LogsOfOne) /\ InPart
  \/ part \in {"pool", "pair"} /\ FullScan /\ InPart
  \/ live /\ Scan /\ InPart
  \/ \E d \in batch : ~sqlite /\ HandleOrphan(d) /\ InPart
  \/ \E d \in batch : sqlite /\ Sqlite!HandleOrphan(d) /\ InPart
  \/ \E d \in batch : HandleShallow(d) /\ InPart
  \/ \E d \in batch : HandleConfirmed(d) /\ InPart
  \/ \E i \in matched : ~sqlite /\ RecordConfirmed(i) /\ InPart
  \/ \E i \in matched : sqlite /\ Sqlite!RecordConfirmed(i) /\ InPart
  \/ EndPoll /\ InPart
  \/ sqlite /\ Sqlite!RecordRefused /\ InPart
  \/ Mishap /\ StorageFails /\ InPart
  \/ Mishap /\ crashes < CrashesOf[part] /\ Crash /\ InPart

QuorumInit == Init /\ part \in {"quorum", "pool", "pair"}
LiveInit == Init /\ part \in {"json", "sqlite"}

QuorumSpec == QuorumInit /\ [][PartNext]_partVars

(* The fairness of FixedAddress, in the parts for liveness.                 *)
LiveSpec ==
  /\ LiveInit /\ [][PartNext]_partVars
  /\ WF_vars((~sqlite /\ PollStep) \/ (sqlite /\ Sqlite!PollStep))
  /\ SF_vars(FullScan)
  /\ WF_vars(Grow)
=============================================================================
