-------------------------- MODULE FixedAddressProofs --------------------------
(***************************************************************************)
(* The quorum, for any endpoints and answers: as long as fewer log entries *)
(* than the threshold come from faulty endpoints, the value agreed on was  *)
(* reported by an endpoint that is not, and the depth agreed on is no      *)
(* deeper than that endpoint saw.                                          *)
(*                                                                         *)
(* The fixed-address watcher, for any number of invoices, transfers,       *)
(* endpoints, nonces, crashes and errors.                                  *)
(***************************************************************************)
EXTENDS FixedAddress, FiniteSetTheorems, WellFoundedInduction, TLAPS

-----------------------------------------------------------------------------
(* The quorum.                                                             *)

(* A set of naturals that is not empty has a least element.                *)
LEMMA LeastNatural ==
  ASSUME NEW S \in SUBSET Nat, S # {}
  PROVE  \E n \in S : \A m \in S : n <= m
<1> DEFINE R == OpToRel(<, Nat)
<1>1. IsWellFoundedOn(R, Nat)
  BY NatLessThanWellFounded
<1> HIDE DEF R
<1>2. PICK n \in S : \A m \in S : <<m, n>> \notin R
  BY <1>1, WFMin
<1>3. \A m \in S : m < n => <<m, n>> \in R
  BY DEF R, OpToRel
<1>4. \A m \in S : ~(m < n)
  BY <1>2, <1>3
<1> QED BY <1>4

(* The threshold is at least one and at most the endpoints configured.     *)
LEMMA ThresholdBounds ==
  ASSUME NEW n \in Nat \ {0}, NEW q \in Nat
  PROVE  quorumThreshold(n, q) \in 1 .. n
  BY DEF quorumThreshold

(* The depth of a group is one that the group reported, and the least.     *)
LEMMA MinDepthIsLeast ==
  ASSUME NEW obs, NEW v,
         \A r \in Reporters(obs, v) : obs[r].confirmations \in Nat,
         Reporters(obs, v) # {}
  PROVE  /\ MinDepth(obs, v) \in Nat
         /\ \A r \in Reporters(obs, v) : MinDepth(obs, v) <= obs[r].confirmations
<1> DEFINE Depths == {obs[r].confirmations : r \in Reporters(obs, v)}
<1>1. Depths \in SUBSET Nat /\ Depths # {}
  OBVIOUS
<1>2. \E d \in Depths : \A e \in Depths : d <= e
  BY <1>1, LeastNatural
<1>3. \E d \in Depths : \A r \in Reporters(obs, v) : d <= obs[r].confirmations
  BY <1>2
<1>4. /\ MinDepth(obs, v) \in Depths
      /\ \A r \in Reporters(obs, v) : MinDepth(obs, v) <= obs[r].confirmations
  BY <1>3 DEF MinDepth
<1> QED BY <1>1, <1>4

(* decideTransferQuorum agrees on nothing that only faulty entries say, as *)
(* long as they are fewer than the threshold, however many groups there    *)
(* are and in whatever order they were opened.  Faulty is a set of entries,*)
(* not of endpoints: one endpoint may supply several.                      *)
THEOREM AgreementIsHonest ==
  ASSUME NEW obs, NEW least \in Nat \ {0}, NEW Faulty,
         IsFiniteSet(DOMAIN obs), IsFiniteSet(Faulty),
         Cardinality(Faulty) < least,
         \A r \in DOMAIN obs : obs[r].confirmations \in Nat,
         Agreed(obs, least)
  PROVE  /\ MinDepth(obs, Top(obs)) \in Nat
         /\ \E r \in DOMAIN obs \ Faulty :
              /\ obs[r].value = Top(obs)
              /\ MinDepth(obs, Top(obs)) <= obs[r].confirmations
<1> DEFINE v == Top(obs)
           G == Reporters(obs, v)
<1>1. Cardinality(G) >= least
  BY DEF Agreed, Count
<1>2. G \in SUBSET DOMAIN obs
  BY DEF Reporters
<1>3. IsFiniteSet(G)
  BY <1>2, FS_Subset
<1>4. \E r \in G : r \notin Faulty
  <2> SUFFICES ASSUME G \in SUBSET Faulty PROVE FALSE
    OBVIOUS
  <2>1. Cardinality(G) <= Cardinality(Faulty)
    BY FS_Subset
  <2>2. Cardinality(G) \in Nat /\ Cardinality(Faulty) \in Nat
    BY <1>3, FS_CardinalityType
  <2> QED BY <1>1, <2>1, <2>2
<1>5. /\ MinDepth(obs, v) \in Nat
      /\ \A r \in G : MinDepth(obs, v) <= obs[r].confirmations
  BY <1>2, <1>4, MinDepthIsLeast
<1>6. \A r \in G : r \in DOMAIN obs /\ obs[r].value = v
  BY DEF Reporters
<1> HIDE DEF v, G
<1> QED BY <1>4, <1>5, <1>6 DEF v

-----------------------------------------------------------------------------
(* Operators                                                               *)

LEMMA Threshold == threshold \in Nat \ {0}
<1>1. NRpc \in Nat \ {0} /\ Quorum \in Nat
  BY FixedAddressAssumption
<1>2. quorumThreshold(NRpc, Quorum) \in 1 .. NRpc
  BY <1>1, ThresholdBounds
<1> QED BY <1>1, <1>2 DEF threshold

(* A free nonce is what a POST takes.                                      *)
LEMMA AllocatedIsFree ==
  ASSUME NEW free \in SUBSET Nonces, free # {}, NEW start \in Nonces
  PROVE  allocateNonce(free, start) \in free
<1> DEFINE Distance(n) == (n - start) % NonceMax
           Distances == {Distance(n) : n \in free}
<1>1. NonceMax \in Nat \ {0} /\ start \in Int /\ free \in SUBSET Int
  BY FixedAddressAssumption DEF Nonces
<1>2. \A n \in Int : Distance(n) \in Nat
  BY <1>1
<1>3. Distances \in SUBSET Nat /\ Distances # {}
  BY <1>1, <1>2
<1>4. \E d \in Distances : \A e \in Distances : d <= e
  BY <1>3, LeastNatural
<1>5. \E n \in free : \A m \in free : Distance(n) <= Distance(m)
  BY <1>4
<1> QED BY <1>5 DEF allocateNonce

(* What an honest endpoint reports of a transfer is true, or was when the  *)
(* chain was shorter.                                                      *)
True(d) ==
  /\ block[d.tx] # 0
  /\ value[d.tx] = d.value
  /\ height - block[d.tx] + 1 >= d.confirmations

LEMMA FirstReporterReported ==
  ASSUME NEW obs, DOMAIN obs \in SUBSET (Rpcs \X Nat), DOMAIN obs # {}
  PROVE  FirstReporter(obs) \in Rpcs
<1> DEFINE S == {p[1] : p \in DOMAIN obs}
<1>1. S \in SUBSET Rpcs /\ S \in SUBSET Nat /\ S # {}
  BY DEF Rpcs
<1>2. \E r \in S : \A q \in S : r <= q
  BY <1>1, LeastNatural
<1>3. \E r \in S : \A p \in DOMAIN obs : r <= p[1]
  BY <1>2
<1>4. FirstReporter(obs) \in S
  BY <1>3 DEF FirstReporter
<1> QED BY <1>1, <1>4

(* What an endpoint may answer, and that a scan consists of such answers.  *)
Answers(r) == IF r \in FaultyRpcs THEN AnyLogs
                                  ELSE {LogsUpTo(latest) : latest \in 0 .. height}

LEMMA ScanIsAnswered ==
  ASSUME Scan
  PROVE  \E R \in SUBSET Rpcs : \E scan :
           DOMAIN scan = R /\ (\A r \in R : scan[r] \in Answers(r)) /\ ScanWith(scan)
<1>1. PICK R \in SUBSET Rpcs : ScanAnswered(R, AnyLogs)
  BY DEF Scan
<1>2. PICK latest \in [R \ FaultyRpcs -> 0 .. height] :
        \E lie \in [R \cap FaultyRpcs -> AnyLogs] :
          ScanWith([r \in R |-> IF r \in FaultyRpcs THEN lie[r] ELSE LogsUpTo(latest[r])])
  BY <1>1 DEF ScanAnswered
<1>3. PICK lie \in [R \cap FaultyRpcs -> AnyLogs] :
        ScanWith([r \in R |-> IF r \in FaultyRpcs THEN lie[r] ELSE LogsUpTo(latest[r])])
  BY <1>2
<1> DEFINE scan == [r \in R |-> IF r \in FaultyRpcs THEN lie[r] ELSE LogsUpTo(latest[r])]
<1>4. DOMAIN scan = R /\ \A r \in R : scan[r] \in Answers(r)
  BY DEF Answers
<1>5. ScanWith(scan)
  BY <1>3
<1> HIDE DEF scan
<1> QED BY <1>4, <1>5

(* What a scan tells of a transfer: true if an honest endpoint tells it.   *)
LEMMA ObservationsAreTyped ==
  ASSUME TypeOK, NEW R \in SUBSET Rpcs, NEW scan, DOMAIN scan = R,
         \A r \in R : scan[r] \in Answers(r),
         NEW t \in Transfers, NEW p \in DOMAIN Observations(scan, t)
  PROVE  /\ p[1] \in R /\ p[2] \in 1 .. MaxListed /\ p = <<p[1], p[2]>>
         /\ Observations(scan, t)[p] \in [value : Amounts, confirmations : Nat]
         /\ p[1] \notin FaultyRpcs =>
              /\ block[t] # 0
              /\ Observations(scan, t)[p].value = value[t]
              /\ Observations(scan, t)[p].confirmations <= height - block[t] + 1
<1> DEFINE o == Observations(scan, t)[p]
           r == p[1]
<1>1. /\ p \in R \X (1 .. MaxListed) /\ <<t, p[2]>> \in DOMAIN scan[r]
      /\ o = scan[r][<<t, p[2]>>]
  BY DEF Observations, Entries
<1>2. r \in R /\ p[2] \in 1 .. MaxListed /\ p = <<p[1], p[2]>>
  BY <1>1
<1>3. CASE r \in FaultyRpcs
  <2>1. scan[r] \in AnyLogs
    BY <1>2, <1>3 DEF Answers
  <2>2. PICK S : scan[r] \in [S -> [value : Amounts, confirmations : {0, MaxHeight}]]
    BY <2>1 DEF AnyLogs
  <2>3. scan[r][<<t, p[2]>>] \in [value : Amounts, confirmations : {0, MaxHeight}]
    BY <1>1, <2>2
  <2>4. o \in [value : Amounts, confirmations : Nat]
    BY <1>1, <2>3, FixedAddressAssumption
  <2> QED BY <1>2, <1>3, <2>4
<1>4. CASE r \notin FaultyRpcs
  <2>1. PICK latest \in 0 .. height : scan[r] = LogsUpTo(latest)
    BY <1>2, <1>4 DEF Answers
  <2>2. <<t, p[2]>> \in DOMAIN LogsUpTo(latest) /\ o = LogsUpTo(latest)[<<t, p[2]>>]
    BY <1>1, <2>1
  <2>3. /\ t \in Mined /\ block[t] <= latest
        /\ o = [value |-> value[t], confirmations |-> latest - block[t] + 1]
    BY <2>2 DEF LogsUpTo
  <2>4. block[t] \in Nat /\ value[t] \in Amounts /\ height \in Nat
    BY DEF TypeOK
  <2>5. /\ block[t] # 0 /\ o.value = value[t]
        /\ o.confirmations <= height - block[t] + 1
        /\ o \in [value : Amounts, confirmations : Nat]
    BY <2>1, <2>3, <2>4 DEF Mined
  <2> QED BY <1>2, <2>5
<1> QED BY <1>3, <1>4

(* A decision has the type of one, and is true if the faulty are few.      *)
LEMMA Decides ==
  ASSUME TypeOK, NEW R \in SUBSET Rpcs,
         NEW scan, DOMAIN scan = R,
         \A r \in R : scan[r] \in Answers(r),
         NEW d \in Decided(scan)
  PROVE  d \in Decision /\ (FaultyAreFew => True(d))
<1>1. PICK t \in Transfers :
        /\ Agreed(Observations(scan, t), threshold)
        /\ d = DecisionOn(t, Observations(scan, t))
  BY DEF Decided
<1> DEFINE obs == Observations(scan, t)
           v == Top(obs)
<1>2. \A p \in DOMAIN obs :
        /\ p[1] \in R /\ p[2] \in 1 .. MaxListed /\ p = <<p[1], p[2]>>
        /\ obs[p] \in [value : Amounts, confirmations : Nat]
        /\ p[1] \notin FaultyRpcs =>
             /\ block[t] # 0
             /\ obs[p].value = value[t]
             /\ obs[p].confirmations <= height - block[t] + 1
  BY ObservationsAreTyped
<1>3. IsFiniteSet(Rpcs) /\ IsFiniteSet(1 .. MaxListed) /\ MaxListed \in Nat
  BY FixedAddressAssumption, FS_Interval DEF Rpcs
<1>4. IsFiniteSet(DOMAIN obs)
  <2>1. IsFiniteSet(Rpcs \X (1 .. MaxListed))
    BY <1>3, FS_Product
  <2>2. DOMAIN obs \in SUBSET (Rpcs \X (1 .. MaxListed))
    BY DEF Observations, Entries
  <2> QED BY <2>1, <2>2, FS_Subset
<1>5. Agreed(obs, threshold)
  BY <1>1
<1>6. DOMAIN obs \in SUBSET (Rpcs \X Nat) /\ DOMAIN obs # {}
  BY <1>5 DEF Observations, Entries, Agreed
<1>7. /\ d = [tx |-> t, value |-> v, confirmations |-> MinDepth(obs, v),
              from |-> FirstReporter(obs)]
      /\ FirstReporter(obs) \in Rpcs
  BY <1>1, <1>5, <1>6, FirstReporterReported DEF DecisionOn, decideTransferQuorum
<1> HIDE DEF obs
<1>8. PICK w \in DOMAIN obs : obs[w].value = v
  <2>1. Cardinality({}) = 0
    BY FS_EmptySet
  <2>2. Cardinality(Reporters(obs, v)) >= threshold
    BY <1>5 DEF Agreed, Count
  <2>3. Reporters(obs, v) # {}
    BY <2>1, <2>2, Threshold
  <2> QED BY <2>3 DEF Reporters
<1>9. MinDepth(obs, v) \in Nat
  <2>1. \A p \in Reporters(obs, v) : obs[p].confirmations \in Nat
    BY <1>2 DEF Reporters
  <2>2. Reporters(obs, v) # {}
    BY <1>8 DEF Reporters
  <2> QED BY <2>1, <2>2, MinDepthIsLeast
<1>10. d \in Decision
  BY <1>2, <1>7, <1>8, <1>9 DEF Decision
<1>11. ASSUME FaultyAreFew PROVE True(d)
  <2> DEFINE Faulty == FaultyRpcs \X (1 .. MaxListed)
  <2>1. IsFiniteSet(FaultyRpcs)
    BY <1>3, FS_Subset, FixedAddressAssumption
  <2>2. Cardinality(1 .. MaxListed) = MaxListed
    BY <1>3, FS_Interval
  <2>3. IsFiniteSet(Faulty) /\ Cardinality(Faulty) < threshold
    BY <1>3, <1>11, <2>1, <2>2, FS_Product DEF FaultyAreFew
  <2>4. \A p \in DOMAIN obs : obs[p].confirmations \in Nat
    BY <1>2
  <2> HIDE DEF Faulty
  <2>5. \E p \in DOMAIN obs \ Faulty :
          obs[p].value = v /\ MinDepth(obs, v) <= obs[p].confirmations
    BY <1>4, <1>5, <2>3, <2>4, Threshold, AgreementIsHonest
  <2>6. PICK q \in DOMAIN obs \ Faulty :
          obs[q].value = v /\ MinDepth(obs, v) <= obs[q].confirmations
    BY <2>5
  <2>7. q[1] \notin FaultyRpcs
    BY <1>2, <2>6 DEF Faulty
  <2>8. /\ block[t] # 0 /\ value[t] = v /\ obs[q].confirmations \in Nat
        /\ obs[q].confirmations <= height - block[t] + 1
    BY <1>2, <2>6, <2>7
  <2>9. block[t] \in Nat /\ height \in Nat
    BY DEF TypeOK
  <2> QED BY <1>7, <1>9, <2>6, <2>8, <2>9 DEF True
<1> QED BY <1>10, <1>11

-----------------------------------------------------------------------------
(* Types                                                                   *)

(* While an event is being recorded there is a decision to record.         *)
Typed == TypeOK /\ (matched # {} => current \in Decision)

LEMMA InitTyped == Init => Typed
  BY FixedAddressAssumption DEF Init, Typed, TypeOK, Amounts, Stored, NoDecision

LEMMA NextTyped == Typed /\ [Next]_vars => Typed'
<1> SUFFICES ASSUME Typed, [Next]_vars PROVE Typed'
  OBVIOUS
<1> USE DEF Typed, TypeOK, vars, storage, requests, chain, poll, bounds
<1>1. ASSUME NEW i \in Invoices, CollectActiveNonces(i) PROVE Typed'
  BY <1>1 DEF CollectActiveNonces, Active
<1>2. ASSUME NEW i \in Invoices, StoreInvoice(i) PROVE Typed'
  <2>1. PICK start \in Nonces :
          amount' = [amount EXCEPT ![i] = allocateNonce(Free(i), start)]
    BY <1>2 DEF StoreInvoice
  <2>2. allocateNonce(Free(i), start) \in Nonces
    <3>1. Free(i) \in SUBSET Nonces /\ Free(i) # {}
      BY <1>2 DEF StoreInvoice, Free
    <3> QED BY <3>1, AllocatedIsFree
  <2>3. Nonces \in SUBSET Amounts
    BY FixedAddressAssumption DEF Nonces, Amounts
  <2>4. amount' \in [Invoices -> Amounts]
    BY <2>1, <2>2, <2>3
  <2> QED BY <1>2, <2>4 DEF StoreInvoice, Stored
<1>3. ASSUME NEW i \in Invoices, RefuseInvoice(i) PROVE Typed'
  BY <1>3 DEF RefuseInvoice
<1>4. ASSUME NEW i \in Invoices, GetReads(i) PROVE Typed'
  BY <1>4 DEF GetReads
<1>5. ASSUME NEW i \in Invoices, GetExpires(i) PROVE Typed'
  <2>1. txHash' \in [Invoices -> Transfers \cup {None}]
    BY <1>5 DEF GetExpires
  <2> QED BY <1>5, <2>1 DEF GetExpires, Stored
<1>6. ASSUME NEW i \in Invoices, Deadline(i) PROVE Typed'
  BY <1>6 DEF Deadline
<1>7. ASSUME Block PROVE Typed'
  <2>1. height' \in Nat /\ block' \in [Transfers -> Nat]
    BY <1>7 DEF Block
  <2>2. value' \in [Transfers -> Amounts] /\ due' \in [Transfers -> SUBSET Invoices]
    BY <1>7 DEF Block, Active
  <2> QED BY <1>7, <2>1, <2>2 DEF Block
<1>8. ASSUME PendingForChain PROVE Typed'
  BY <1>8 DEF PendingForChain, Active
<1>9. ASSUME ExpireStale PROVE Typed'
  <2>1. status' \in [Invoices -> Stored \cup {"new", "creating", "refused"}]
    BY <1>9 DEF ExpireStale, Stored
  <2> QED BY <1>9, <2>1 DEF ExpireStale
<1>10. ASSUME ScanDegraded PROVE Typed'
  BY <1>10 DEF ScanDegraded
<1>11. ASSUME Scan PROVE Typed'
  <2>1. PICK R \in SUBSET Rpcs : \E scan :
          DOMAIN scan = R /\ (\A r \in R : scan[r] \in Answers(r)) /\ ScanWith(scan)
    BY <1>11, ScanIsAnswered
  <2>2. PICK scan :
          DOMAIN scan = R /\ (\A r \in R : scan[r] \in Answers(r)) /\ ScanWith(scan)
    BY <2>1
  <2>3. batch' \in SUBSET Decision
    BY <2>2, Decides DEF ScanWith
  <2> QED BY <2>2, <2>3 DEF ScanWith
<1>12. ASSUME NEW d \in batch, HandleOrphan(d) PROVE Typed'
  <2>1. d.tx \in Transfers
    BY DEF Decision
  <2>2. events' \subseteq events \cup {<<"orphan", d.tx, d.tx>>}
    BY <1>12 DEF HandleOrphan, Record, EventId
  <2> QED BY <1>12, <2>1, <2>2 DEF HandleOrphan
<1>13. ASSUME NEW d \in batch, HandleShallow(d) PROVE Typed'
  BY <1>13 DEF HandleShallow
<1>14. ASSUME NEW d \in batch, HandleConfirmed(d) PROVE Typed'
  BY <1>14 DEF HandleConfirmed, Matches, Decision, Stored
<1>15. ASSUME NEW i \in matched, RecordConfirmed(i) PROVE Typed'
  <2>1. current.tx \in Transfers
    BY DEF Decision
  <2>2. events' \subseteq events \cup {<<"confirmed", i, current.tx>>}
    BY <1>15 DEF RecordConfirmed, Record, EventId
  <2> QED BY <1>15, <2>1, <2>2 DEF RecordConfirmed
<1>16. ASSUME EndPoll PROVE Typed'
  BY <1>16 DEF EndPoll, LeavePoll
<1>17. ASSUME RecordRefused PROVE Typed'
  BY <1>17 DEF RecordRefused, LeavePoll
<1>18. ASSUME StorageFails PROVE Typed'
  BY <1>18 DEF StorageFails, LeavePoll
<1>19. ASSUME Crash PROVE Typed'
  BY <1>19 DEF Crash, LeavePoll, Stored
<1>20. CASE UNCHANGED vars
  BY <1>20
<1> QED
  BY <1>1, <1>2, <1>3, <1>4, <1>5, <1>6, <1>7, <1>8, <1>9, <1>10, <1>11,
     <1>12, <1>13, <1>14, <1>15, <1>16, <1>17, <1>18, <1>19, <1>20
     DEF Next, Request, Poll, Handle

-----------------------------------------------------------------------------
(* What a step may change                                                  *)

(* Blocks, once they are there, stay, with the transfers they carry.       *)
ChainGrows ==
  /\ height' \in Nat /\ height' >= height
  /\ \A t \in Transfers :
       block[t] # 0 => block'[t] = block[t] /\ value'[t] = value[t]

(* A stored invoice stays stored, at its amount.                           *)
StoredStays ==
  \A i \in Invoices :
    status[i] \in Stored => status'[i] \in Stored /\ amount'[i] = amount[i]

(* A tx_hash is written by a GET that read it before, or by the poll from  *)
(* a deep decision of the invoice's amount.                                *)
TxHashWritten ==
  \A i \in Invoices :
    \/ txHash'[i] = txHash[i]
    \/ <<i, txHash'[i]>> \in expiring
    \/ /\ status'[i] \in Stored /\ amount'[i] = amount[i]
       /\ \E d \in batch : /\ txHash'[i] = d.tx /\ amount[i] = d.value
                           /\ d.confirmations >= MinConfirmations

ConfirmedWritten ==
  \A i \in Invoices :
    status'[i] = "confirmed" =>
      \/ status[i] = "confirmed" /\ txHash'[i] = txHash[i]
      \/ txHash'[i] \in Transfers

MatchedWritten ==
  \A i \in matched' :
    \/ i \in matched /\ current' = current
    \/ /\ status'[i] \in Stored /\ amount'[i] = amount[i]
       /\ \E d \in batch : /\ current' = d /\ amount[i] = d.value
                           /\ d.confirmations >= MinConfirmations

BatchWritten ==
  \A d \in batch' : d \in batch \/ (d \in Decision /\ (FaultyAreFew => True(d)))

ExpiringWritten ==
  \A i \in Invoices, t \in Transfers \cup {None} :
    <<i, t>> \in expiring' =>
      \/ <<i, t>> \in expiring
      \/ /\ t = txHash[i]
         /\ \/ status[i] \in Stored
            \/ \E u \in Transfers \cup {None} : <<i, u>> \in expiring

ConfirmedEventWritten ==
  \A i \in Invoices, t \in Transfers :
    <<"confirmed", i, t>> \in events' =>
      \/ <<"confirmed", i, t>> \in events
      \/ i \in matched /\ t = current.tx

Changes == /\ ChainGrows /\ StoredStays /\ TxHashWritten /\ ConfirmedWritten
           /\ MatchedWritten /\ BatchWritten /\ ExpiringWritten
           /\ ConfirmedEventWritten

LEMMA NextChanges == Typed /\ [Next]_vars => Changes
<1> SUFFICES ASSUME Typed, [Next]_vars PROVE Changes
  OBVIOUS
<1> USE DEF Typed, TypeOK, vars, storage, requests, chain, poll, bounds, Changes,
            ChainGrows, StoredStays, TxHashWritten, ConfirmedWritten, MatchedWritten,
            BatchWritten, ExpiringWritten, ConfirmedEventWritten
<1>1. ASSUME NEW i \in Invoices, CollectActiveNonces(i) PROVE Changes
  BY <1>1 DEF CollectActiveNonces, Stored
<1>2. ASSUME NEW i \in Invoices, StoreInvoice(i) PROVE Changes
  BY <1>2 DEF StoreInvoice, Stored
<1>3. ASSUME NEW i \in Invoices, RefuseInvoice(i) PROVE Changes
  BY <1>3 DEF RefuseInvoice, Stored
<1>4. ASSUME NEW i \in Invoices, GetReads(i) PROVE Changes
  <2>1. \A p \in expiring' : p \in expiring \/ p = <<i, txHash[i]>>
    BY <1>4 DEF GetReads
  <2>2. \/ status[i] \in Stored
        \/ \E u \in Transfers \cup {None} : <<i, u>> \in expiring
    BY <1>4 DEF GetReads, Stored
  <2>3. ExpiringWritten
    BY <2>1, <2>2
  <2> QED BY <1>4, <2>3 DEF GetReads
<1>5. ASSUME NEW i \in Invoices, GetExpires(i) PROVE Changes
  BY <1>5 DEF GetExpires, Stored
<1>6. ASSUME NEW i \in Invoices, Deadline(i) PROVE Changes
  BY <1>6 DEF Deadline
<1>7. ASSUME Block PROVE Changes
  BY <1>7 DEF Block, Mined
<1>8. ASSUME PendingForChain PROVE Changes
  BY <1>8 DEF PendingForChain
<1>9. ASSUME ExpireStale PROVE Changes
  BY <1>9 DEF ExpireStale, Stored
<1>10. ASSUME ScanDegraded PROVE Changes
  BY <1>10 DEF ScanDegraded
<1>11. ASSUME Scan PROVE Changes
  <2>1. PICK R \in SUBSET Rpcs : \E scan :
          DOMAIN scan = R /\ (\A r \in R : scan[r] \in Answers(r)) /\ ScanWith(scan)
    BY <1>11, ScanIsAnswered
  <2>2. PICK scan :
          DOMAIN scan = R /\ (\A r \in R : scan[r] \in Answers(r)) /\ ScanWith(scan)
    BY <2>1
  <2>3. BatchWritten
    BY <2>2, Decides DEF ScanWith
  <2> QED BY <2>2, <2>3 DEF ScanWith
<1>12. ASSUME NEW d \in batch, HandleOrphan(d) PROVE Changes
  BY <1>12 DEF HandleOrphan, Record, EventId
<1>13. ASSUME NEW d \in batch, HandleShallow(d) PROVE Changes
  BY <1>13 DEF HandleShallow
<1>14. ASSUME NEW d \in batch, HandleConfirmed(d) PROVE Changes
  BY <1>14 DEF HandleConfirmed, Matches, Decision, Stored
<1>15. ASSUME NEW i \in matched, RecordConfirmed(i) PROVE Changes
  BY <1>15 DEF RecordConfirmed, Record, EventId
<1>16. ASSUME EndPoll PROVE Changes
  BY <1>16 DEF EndPoll, LeavePoll
<1>17. ASSUME RecordRefused PROVE Changes
  BY <1>17 DEF RecordRefused, LeavePoll
<1>18. ASSUME StorageFails PROVE Changes
  BY <1>18 DEF StorageFails, LeavePoll
<1>19. ASSUME Crash PROVE Changes
  BY <1>19 DEF Crash, LeavePoll, Stored
<1>20. CASE UNCHANGED vars
  BY <1>20
<1> QED
  BY <1>1, <1>2, <1>3, <1>4, <1>5, <1>6, <1>7, <1>8, <1>9, <1>10, <1>11,
     <1>12, <1>13, <1>14, <1>15, <1>16, <1>17, <1>18, <1>19, <1>20
     DEF Next, Request, Poll, Handle

-----------------------------------------------------------------------------
(* A confirmed invoice was paid                                            *)

(* Nothing is known yet of an invoice that is not stored.                  *)
Fresh ==
  \A i \in Invoices : status[i] \notin Stored =>
    /\ txHash[i] = None /\ i \notin matched
    /\ \A t \in Transfers \cup {None} : <<i, t>> \notin expiring
    /\ \A t \in Transfers : <<"confirmed", i, t>> \notin events

(* The poll holds true decisions, a GET holds tx_hashes that settle.       *)
BatchIsTrue == \A d \in batch : True(d)
MatchedIsSettled == \A i \in matched : Settled(i, current.tx)
LateReadsSettle ==
  \A i \in Invoices, t \in Transfers : <<i, t>> \in expiring => Settled(i, t)

Inv == Typed /\ Fresh
PaidInv == /\ Inv /\ BatchIsTrue /\ MatchedIsSettled /\ LateReadsSettle
           /\ ConfirmedIsPaid

LEMMA InitInv == Init => Inv
  BY InitTyped DEF Init, Inv, Fresh, Stored

LEMMA InitPaidInv == Init => PaidInv
  BY InitInv DEF Init, PaidInv, BatchIsTrue, MatchedIsSettled, LateReadsSettle,
     ConfirmedIsPaid

(* What was true of the chain stays true as it grows.                      *)
LEMMA TrueStays ==
  ASSUME Typed, ChainGrows, NEW d \in Decision, True(d)
  PROVE  True(d)'
<1>1. d.tx \in Transfers /\ d.confirmations \in Nat
  BY DEF Decision
<1>2. block[d.tx] \in Nat /\ height \in Nat
  BY <1>1 DEF Typed, TypeOK
<1> QED BY <1>1, <1>2 DEF True, ChainGrows

LEMMA SettledStays ==
  ASSUME Typed, ChainGrows, NEW i \in Invoices, NEW t \in Transfers,
         Settled(i, t), amount'[i] = amount[i]
  PROVE  Settled(i, t)'
<1>1. block[t] \in Nat /\ height \in Nat
  BY DEF Typed, TypeOK
<1> QED BY <1>1, FixedAddressAssumption DEF Settled, ChainGrows

(* A deep, true decision of the amount of an invoice settles it.           *)
LEMMA DecisionSettles ==
  ASSUME Typed, NEW i \in Invoices, NEW d \in Decision, True(d),
         amount[i] = d.value, d.confirmations >= MinConfirmations
  PROVE  Settled(i, d.tx)
<1>1. d.tx \in Transfers /\ d.confirmations \in Nat
  BY DEF Decision
<1>2. block[d.tx] \in Nat /\ height \in Nat
  BY <1>1 DEF Typed, TypeOK
<1> QED BY <1>1, <1>2, FixedAddressAssumption DEF True, Settled

LEMMA NextInv == Inv /\ [Next]_vars => Inv'
<1> SUFFICES ASSUME Inv, [Next]_vars PROVE Inv'
  OBVIOUS
<1>1. Typed /\ Typed' /\ Changes
  BY NextTyped, NextChanges DEF Inv
<1>2. Fresh'
  <2> SUFFICES ASSUME NEW i \in Invoices, (status[i] \notin Stored)'
               PROVE  /\ txHash'[i] = None /\ i \notin matched'
                      /\ \A t \in Transfers \cup {None} : <<i, t>> \notin expiring'
                      /\ \A t \in Transfers : <<"confirmed", i, t>> \notin events'
    BY DEF Fresh
  <2>1. status[i] \notin Stored /\ status'[i] \notin Stored
    BY <1>1 DEF Changes, StoredStays, Stored
  <2>2. /\ txHash[i] = None /\ i \notin matched
        /\ \A t \in Transfers \cup {None} : <<i, t>> \notin expiring
        /\ \A t \in Transfers : <<"confirmed", i, t>> \notin events
    BY <2>1 DEF Inv, Fresh
  <2>3. txHash'[i] = None
    <3>1. txHash'[i] \in Transfers \cup {None}
      BY <1>1 DEF Typed, TypeOK
    <3> QED BY <1>1, <2>1, <2>2, <3>1 DEF Changes, TxHashWritten
  <2>4. i \notin matched'
    BY <1>1, <2>1, <2>2 DEF Changes, MatchedWritten
  <2>5. \A t \in Transfers \cup {None} : <<i, t>> \notin expiring'
    BY <1>1, <2>1, <2>2 DEF Changes, ExpiringWritten
  <2>6. \A t \in Transfers : <<"confirmed", i, t>> \notin events'
    BY <1>1, <2>2 DEF Changes, ConfirmedEventWritten
  <2> QED BY <2>3, <2>4, <2>5, <2>6
<1> QED BY <1>1, <1>2 DEF Inv

(* As long as the entries of faulty endpoints do not fill a quorum.        *)
LEMMA NextPaidInv ==
  ASSUME FaultyAreFew, PaidInv, [Next]_vars
  PROVE  PaidInv'
<1>1. Typed /\ Typed' /\ Changes
  BY NextTyped, NextChanges DEF PaidInv, Inv
<1>2. Inv'
  BY NextInv DEF PaidInv
<1> USE DEF PaidInv
<1>3. \A d \in batch : d \in Decision /\ True(d) /\ True(d)'
  BY <1>1, TrueStays DEF Inv, BatchIsTrue, Typed, TypeOK, Changes
<1>4. BatchIsTrue'
  <2> SUFFICES ASSUME NEW d \in batch' PROVE True(d)'
    BY DEF BatchIsTrue
  <2>1. CASE d \in batch
    BY <1>3, <2>1
  <2>2. CASE d \in Decision /\ True(d)
    BY <1>1, <2>2, TrueStays DEF Changes
  <2> QED BY <1>1, <2>1, <2>2 DEF Changes, BatchWritten
<1>5. ASSUME NEW i \in Invoices, NEW t \in Transfers, Settled(i, t),
             status[i] \in Stored
      PROVE  Settled(i, t)'
  BY <1>1, <1>5, SettledStays DEF Changes, StoredStays
<1>6. ASSUME NEW i \in Invoices, NEW d \in batch, amount[i] = d.value,
             d.confirmations >= MinConfirmations, amount'[i] = amount[i]
      PROVE  d.tx \in Transfers /\ Settled(i, d.tx)'
  <2>1. d.tx \in Transfers
    BY <1>3 DEF Decision
  <2>2. Settled(i, d.tx)
    BY <1>1, <1>3, <1>6, DecisionSettles
  <2> QED BY <1>1, <1>6, <2>1, <2>2, SettledStays DEF Changes
<1>7. MatchedIsSettled'
  <2> SUFFICES ASSUME NEW i \in matched' PROVE Settled(i, current.tx)'
    BY DEF MatchedIsSettled
  <2>0. i \in Invoices
    BY <1>1 DEF Typed, TypeOK
  <2>1. CASE i \in matched /\ current' = current
    <3>1. current.tx \in Transfers /\ Settled(i, current.tx)
      BY <2>1 DEF Inv, Typed, MatchedIsSettled, Decision
    <3>2. status[i] \in Stored
      BY <2>0, <2>1 DEF Inv, Fresh
    <3> QED BY <1>5, <2>0, <2>1, <3>1, <3>2 DEF Settled
  <2>2. CASE /\ amount'[i] = amount[i]
             /\ \E d \in batch : /\ current' = d /\ amount[i] = d.value
                                 /\ d.confirmations >= MinConfirmations
    BY <1>6, <2>0, <2>2 DEF Settled
  <2> QED BY <1>1, <2>1, <2>2 DEF Changes, MatchedWritten
<1>8. \A i \in Invoices, t \in Transfers :
        <<i, t>> \in expiring => status[i] \in Stored /\ Settled(i, t)
  BY DEF Inv, Fresh, LateReadsSettle
<1>9. \A i \in Invoices :
        txHash[i] # None => /\ status[i] \in Stored /\ txHash[i] \in Transfers
                            /\ Settled(i, txHash[i])
  BY <1>1 DEF Inv, Fresh, ConfirmedIsPaid, Typed, TypeOK
<1>10. LateReadsSettle'
  <2> SUFFICES ASSUME NEW i \in Invoices, NEW t \in Transfers, <<i, t>> \in expiring'
               PROVE  Settled(i, t)'
    BY DEF LateReadsSettle
  <2>1. CASE <<i, t>> \in expiring
    BY <1>5, <1>8, <2>1
  <2>2. CASE t = txHash[i]
    BY <1>5, <1>9, <2>2, FixedAddressAssumption
  <2> QED BY <1>1, <2>1, <2>2 DEF Changes, ExpiringWritten
<1>11. ConfirmedIsPaid'
  <2>1. ASSUME NEW i \in Invoices, (txHash[i] # None)'
        PROVE  Settled(i, txHash[i])'
    <3>1. txHash'[i] \in Transfers
      BY <1>1, <2>1 DEF Typed, TypeOK
    <3>2. CASE txHash'[i] = txHash[i]
      BY <1>5, <1>9, <2>1, <3>2 DEF Settled
    <3>3. CASE <<i, txHash'[i]>> \in expiring
      BY <1>5, <1>8, <3>1, <3>3 DEF Settled
    <3>4. CASE /\ amount'[i] = amount[i]
               /\ \E d \in batch : /\ txHash'[i] = d.tx /\ amount[i] = d.value
                                   /\ d.confirmations >= MinConfirmations
      BY <1>6, <3>4 DEF Settled
    <3> QED BY <1>1, <3>2, <3>3, <3>4 DEF Changes, TxHashWritten
  <2>2. ASSUME NEW i \in Invoices, (status[i] = "confirmed")'
        PROVE  (txHash[i] # None)'
    BY <1>1, <2>2, FixedAddressAssumption
       DEF Changes, ConfirmedWritten, Inv, ConfirmedIsPaid
  <2>3. ASSUME NEW i \in Invoices, NEW t \in Transfers,
               <<"confirmed", i, t>> \in events'
        PROVE  Settled(i, t)'
    <3>1. CASE <<"confirmed", i, t>> \in events
      <4>1. Settled(i, t) /\ status[i] \in Stored
        BY <3>1 DEF Inv, ConfirmedIsPaid, Fresh
      <4> QED BY <1>5, <4>1
    <3>2. CASE i \in matched /\ t = current.tx
      <4>1. Settled(i, t) /\ status[i] \in Stored
        BY <3>2 DEF Inv, MatchedIsSettled, Fresh
      <4> QED BY <1>5, <4>1
    <3> QED BY <1>1, <2>3, <3>1, <3>2 DEF Changes, ConfirmedEventWritten
  <2> QED BY <2>1, <2>2, <2>3 DEF ConfirmedIsPaid
<1> QED BY <1>2, <1>4, <1>7, <1>10, <1>11

-----------------------------------------------------------------------------
(* The nonces of requests that do not overlap                              *)

(* The poll lists, and a GET reads, invoices that are stored.              *)
HeldAreStored ==
  /\ \A i \in active : status[i] \in Stored
  /\ \A i \in Invoices, t \in Transfers \cup {None} :
       <<i, t>> \in expiring => status[i] \in Stored

(* What POST i found stored is stored, and is active only if it was then.  *)
Known ==
  \A i \in Invoices : \A j \in storedAt[i] :
    status[j] \in Stored /\ (j \in Active => j \in activeAt[i])

Apart ==
  \A i \in Invoices : \A j \in storedAt[i] \cap activeAt[i] :
    status[i] \in Stored => amount[i] # amount[j]

(* An invoice becomes stored, or active, only as its POST stores it.       *)
StoredWritten ==
  \A i \in Invoices : status[i] \notin Stored /\ status'[i] \in Stored =>
    /\ amount'[i] \in Free(i)
    /\ storedAt' = storedAt /\ activeAt' = activeAt

ActiveWritten ==
  /\ \A i \in Active' : i \in Active \/ status[i] \notin Stored
  /\ \A i \in active' : i \in active \/ i \in Active

FoundWritten ==
  \A i \in Invoices :
    \/ storedAt'[i] = storedAt[i] /\ activeAt'[i] = activeAt[i]
    \/ /\ storedAt'[i] = {j \in Invoices : status[j] \in Stored}
       /\ activeAt'[i] = Active /\ status'[i] \notin Stored

LEMMA NextWritten ==
  ASSUME Typed, HeldAreStored, [Next]_vars
  PROVE  StoredWritten /\ ActiveWritten /\ FoundWritten
<1> DEFINE Written == StoredWritten /\ ActiveWritten /\ FoundWritten
<1> SUFFICES Written
  OBVIOUS
<1> USE DEF Typed, TypeOK, HeldAreStored, vars, storage, requests, chain, poll, bounds,
            StoredWritten, ActiveWritten, FoundWritten
<1>1. ASSUME NEW i \in Invoices, CollectActiveNonces(i) PROVE Written
  BY <1>1 DEF CollectActiveNonces, Active, Stored
<1>2. ASSUME NEW i \in Invoices, StoreInvoice(i) PROVE Written
  <2>1. Free(i) \in SUBSET Nonces /\ Free(i) # {}
    BY <1>2 DEF StoreInvoice, Free
  <2>2. amount'[i] \in Free(i)
    BY <1>2, <2>1, AllocatedIsFree DEF StoreInvoice
  <2> QED BY <1>2, <2>2 DEF StoreInvoice, Active, Stored
<1>3. ASSUME NEW i \in Invoices, RefuseInvoice(i) PROVE Written
  BY <1>3 DEF RefuseInvoice, Active, Stored
<1>4. ASSUME NEW i \in Invoices, GetReads(i) PROVE Written
  BY <1>4 DEF GetReads, Active
<1>5. ASSUME NEW i \in Invoices, GetExpires(i) PROVE Written
  BY <1>5 DEF GetExpires, Active, Stored
<1>6. ASSUME NEW i \in Invoices, Deadline(i) PROVE Written
  BY <1>6 DEF Deadline, Active
<1>7. ASSUME Block PROVE Written
  BY <1>7 DEF Block, Active
<1>8. ASSUME PendingForChain PROVE Written
  BY <1>8 DEF PendingForChain, Active
<1>9. ASSUME ExpireStale PROVE Written
  BY <1>9 DEF ExpireStale, Active, Stored
<1>10. ASSUME ScanDegraded PROVE Written
  BY <1>10 DEF ScanDegraded, Active
<1>11. ASSUME Scan PROVE Written
  BY <1>11 DEF Scan, ScanAnswered, ScanWith, Active
<1>12. ASSUME NEW d \in batch, HandleOrphan(d) PROVE Written
  BY <1>12 DEF HandleOrphan, Active
<1>13. ASSUME NEW d \in batch, HandleShallow(d) PROVE Written
  BY <1>13 DEF HandleShallow, Active
<1>14. ASSUME NEW d \in batch, HandleConfirmed(d) PROVE Written
  BY <1>14 DEF HandleConfirmed, Matches, Active, Stored
<1>15. ASSUME NEW i \in matched, RecordConfirmed(i) PROVE Written
  BY <1>15 DEF RecordConfirmed, Active
<1>16. ASSUME EndPoll PROVE Written
  BY <1>16 DEF EndPoll, LeavePoll, Active
<1>17. ASSUME RecordRefused PROVE Written
  BY <1>17 DEF RecordRefused, LeavePoll, Active
<1>18. ASSUME StorageFails PROVE Written
  BY <1>18 DEF StorageFails, LeavePoll, Active
<1>19. ASSUME Crash PROVE Written
  BY <1>19 DEF Crash, LeavePoll, Active, Stored
<1>20. CASE UNCHANGED vars
  BY <1>20 DEF Active
<1> HIDE DEF Written
<1> QED
  BY <1>1, <1>2, <1>3, <1>4, <1>5, <1>6, <1>7, <1>8, <1>9, <1>10, <1>11,
     <1>12, <1>13, <1>14, <1>15, <1>16, <1>17, <1>18, <1>19, <1>20
     DEF Next, Request, Poll, Handle

NonceInv == Inv /\ HeldAreStored /\ Known /\ Apart

LEMMA InitNonceInv == Init => NonceInv
  BY InitInv DEF Init, NonceInv, HeldAreStored, Known, Apart

LEMMA NextNonceInv == NonceInv /\ [Next]_vars => NonceInv'
<1> SUFFICES ASSUME NonceInv, [Next]_vars PROVE NonceInv'
  OBVIOUS
<1>1. Inv' /\ Typed /\ Typed' /\ StoredStays
  BY NextInv, NextChanges DEF NonceInv, Inv, Changes
<1>2. StoredWritten /\ ActiveWritten /\ FoundWritten
  BY <1>1, NextWritten DEF NonceInv
<1>3. HeldAreStored'
  <2>1. \A i \in active' : status'[i] \in Stored
    BY <1>1, <1>2 DEF Typed, TypeOK, NonceInv, HeldAreStored, ActiveWritten,
       StoredStays, Active, Stored
  <2>2. \A i \in Invoices, t \in Transfers \cup {None} :
          <<i, t>> \in expiring' => status'[i] \in Stored
    BY <1>1 DEF Inv, Fresh, Stored
  <2> QED BY <2>1, <2>2 DEF HeldAreStored, Stored
<1>4. Known'
  <2> SUFFICES ASSUME NEW i \in Invoices, NEW j \in storedAt'[i]
               PROVE  status'[j] \in Stored /\ (j \in Active' => j \in activeAt'[i])
    BY DEF Known, Stored
  <2>1. j \in Invoices
    BY <1>1 DEF Typed, TypeOK
  <2>2. /\ status[j] \in Stored
        /\ j \in Active => j \in activeAt'[i]
    BY <1>2, <2>1 DEF FoundWritten, NonceInv, Known
  <2> QED BY <1>1, <1>2, <2>1, <2>2 DEF StoredStays, ActiveWritten
<1>5. Apart'
  <2> SUFFICES ASSUME NEW i \in Invoices, NEW j \in storedAt'[i] \cap activeAt'[i],
                      status'[i] \in Stored
               PROVE  amount'[i] # amount'[j]
    BY DEF Apart, Stored
  <2>1. storedAt'[i] = storedAt[i] /\ activeAt'[i] = activeAt[i]
    BY <1>2 DEF FoundWritten
  <2>2. j \in Invoices /\ status[j] \in Stored /\ amount'[j] = amount[j]
    BY <1>1, <2>1 DEF Typed, TypeOK, NonceInv, Known, StoredStays
  <2>3. CASE status[i] \in Stored
    BY <1>1, <2>1, <2>2, <2>3 DEF NonceInv, Apart, StoredStays
  <2>4. CASE status[i] \notin Stored
    BY <1>2, <2>1, <2>2, <2>4 DEF StoredWritten, Free
  <2> QED BY <2>3, <2>4
<1> QED BY <1>1, <1>3, <1>4, <1>5 DEF NonceInv

-----------------------------------------------------------------------------
(* Every variable keeps its type; decisions come from the list of answers  *)
(* of any number of endpoints, faulty ones included.                       *)
THEOREM FixedAddressTypeCorrect == Spec => []TypeOK
<1>1. Typed => TypeOK
  BY DEF Typed
<1> QED BY InitTyped, NextTyped, <1>1, PTL DEF Spec

(* An invoice is confirmed, in storage or to the merchant, only if a       *)
(* transfer of exactly its amount is on the chain, minConfirmations deep,  *)
(* as long as the log entries that faulty endpoints can give for one       *)
(* transfer are fewer than the quorum's threshold.                         *)
THEOREM FixedAddressConfirmedIsPaid ==
  ASSUME FaultyAreFew
  PROVE  Spec => []ConfirmedIsPaid
<1>1. PaidInv => ConfirmedIsPaid
  BY DEF PaidInv
<1>2. PaidInv /\ [Next]_vars => PaidInv'
  BY NextPaidInv
<1> QED BY InitPaidInv, <1>1, <1>2, PTL DEF Spec

(* A POST that starts after an invoice was stored takes another amount     *)
(* than that invoice has, as long as it is active: for rings of any size,  *)
(* over expiry, confirmation and restarts.                                 *)
THEOREM FixedAddressNoncesDiffer == Spec => []SequentialNoncesDiffer
<1>1. NonceInv => SequentialNoncesDiffer
  BY DEF NonceInv, Known, Apart, SequentialNoncesDiffer, Active, Stored
<1> QED BY InitNonceInv, NextNonceInv, <1>1, PTL DEF Spec

-----------------------------------------------------------------------------
(* One decision per transfer, in json, without crashes and errors          *)

(* Invoice i is settled by t, or will be again by a GET that read it.      *)
Owns(i, t) == txHash[i] = t \/ <<i, t>> \in expiring

PollInOrder ==
  /\ pc # "record" => matched = {}
  /\ matched # {} => current \in batch
  /\ \A i, j \in matched : i = j

(* What is to be handled is not `seen` yet, and is handled once.           *)
BatchIsNew ==
  /\ \A d \in batch : d.tx \notin seen
  /\ \A d, e \in batch : d.tx = e.tx => d = e

(* Whatever settled an invoice is `seen`, or about to be.                  *)
OwnedIsSeen ==
  \A i \in Invoices, t \in Transfers :
    Owns(i, t) => t \in seen \/ (i \in matched /\ t = current.tx)

OneOwner ==
  \A i, j \in Invoices, t \in Transfers : Owns(i, t) /\ Owns(j, t) => i = j

OrphanIsSeen == \A t \in Transfers : Orphan(t) \in events => t \in seen
OrphanIsUnowned ==
  \A i \in Invoices, t \in Transfers : Owns(i, t) => Orphan(t) \notin events

Once == /\ PollInOrder /\ BatchIsNew /\ OwnedIsSeen /\ OneOwner
        /\ OrphanIsSeen /\ OrphanIsUnowned

OnceInv == Typed /\ (NoFault => Once)

LEMMA InitOnce == Init => OnceInv
  BY InitTyped, FixedAddressAssumption DEF Init, OnceInv, Once, PollInOrder, BatchIsNew,
     OwnedIsSeen, OneOwner, OrphanIsSeen, OrphanIsUnowned, Owns

(* A step that hands no transfer to an invoice and leaves the poll alone.  *)
LEMMA QuietKeepsOnce ==
  ASSUME Once, UNCHANGED <<pc, batch, current, matched, seen>>,
         \A i \in Invoices, t \in Transfers : Owns(i, t)' => Owns(i, t),
         \A t \in Transfers : Orphan(t) \in events' => Orphan(t) \in events
  PROVE  Once'
<1>1. PollInOrder' /\ BatchIsNew'
  BY DEF Once, PollInOrder, BatchIsNew
<1>2. OwnedIsSeen'
  BY DEF Once, OwnedIsSeen
<1>3. OneOwner'
  BY DEF Once, OneOwner
<1>4. OrphanIsSeen' /\ OrphanIsUnowned'
  BY DEF Once, OrphanIsSeen, OrphanIsUnowned, Orphan
<1> QED BY <1>1, <1>2, <1>3, <1>4 DEF Once

LEMMA NextOnce ==
  ASSUME ~UniqueEventIds, OnceInv, [Next]_vars
  PROVE  OnceInv'
<1>1. Typed /\ Typed'
  BY NextTyped DEF OnceInv
<1> SUFFICES ASSUME NoFault' PROVE Once'
  BY <1>1 DEF OnceInv
<1> USE DEF vars, storage, requests, chain, poll, bounds
<1>2. NoFault
  <2>1. Scan => crashes' = crashes /\ errors' = errors
    BY ScanIsAnswered DEF ScanWith
  <2>2. crashes' >= crashes /\ errors' >= errors
    BY <1>1, <2>1 DEF Typed, TypeOK, Next, Request, Poll, Handle, CollectActiveNonces,
       StoreInvoice, RefuseInvoice, GetReads, GetExpires, Deadline, Block,
       PendingForChain, ExpireStale, ScanDegraded, HandleOrphan, HandleShallow,
       HandleConfirmed, RecordConfirmed, EndPoll, RecordRefused, StorageFails, Crash
  <2> QED BY <1>1, <2>2 DEF NoFault, Typed, TypeOK
<1>3. Once
  BY <1>2 DEF OnceInv
<1>4. ASSUME NEW i \in Invoices, CollectActiveNonces(i) PROVE Once'
  BY <1>3, <1>4, QuietKeepsOnce DEF CollectActiveNonces, Owns
<1>5. ASSUME NEW i \in Invoices, StoreInvoice(i) PROVE Once'
  BY <1>3, <1>5, QuietKeepsOnce DEF StoreInvoice, Owns
<1>6. ASSUME NEW i \in Invoices, RefuseInvoice(i) PROVE Once'
  BY <1>3, <1>6, QuietKeepsOnce DEF RefuseInvoice, Owns
<1>7. ASSUME NEW i \in Invoices, GetReads(i) PROVE Once'
  <2>1. \A j \in Invoices, t \in Transfers : Owns(j, t)' => Owns(j, t)
    BY <1>1, <1>7 DEF GetReads, Owns, Typed, TypeOK
  <2> QED BY <1>3, <1>7, <2>1, QuietKeepsOnce DEF GetReads
<1>8. ASSUME NEW i \in Invoices, GetExpires(i) PROVE Once'
  <2>1. \A j \in Invoices, t \in Transfers : Owns(j, t)' => Owns(j, t)
    BY <1>1, <1>8 DEF GetExpires, Owns, Typed, TypeOK
  <2> QED BY <1>3, <1>8, <2>1, QuietKeepsOnce DEF GetExpires
<1>9. ASSUME NEW i \in Invoices, Deadline(i) PROVE Once'
  BY <1>3, <1>9, QuietKeepsOnce DEF Deadline, Owns
<1>10. ASSUME Block PROVE Once'
  BY <1>3, <1>10, QuietKeepsOnce DEF Block, Owns
<1>11. ASSUME PendingForChain PROVE Once'
  BY <1>3, <1>11 DEF PendingForChain, Once, PollInOrder, BatchIsNew,
     OwnedIsSeen, OneOwner, OrphanIsSeen, OrphanIsUnowned, Owns
<1>12. ASSUME ExpireStale PROVE Once'
  BY <1>3, <1>12 DEF ExpireStale, Once, PollInOrder, BatchIsNew,
     OwnedIsSeen, OneOwner, OrphanIsSeen, OrphanIsUnowned, Owns
<1>13. ASSUME ScanDegraded PROVE Once'
  BY <1>3, <1>13 DEF ScanDegraded, Once, PollInOrder, BatchIsNew,
     OwnedIsSeen, OneOwner, OrphanIsSeen, OrphanIsUnowned, Owns
<1>14. ASSUME Scan PROVE Once'
  <2>1. PICK scan : batch' = Decided(scan)
    BY <1>14 DEF Scan, ScanAnswered, ScanWith
  <2>2. BatchIsNew'
    BY <1>14, <2>1 DEF Scan, ScanAnswered, ScanWith, Decided, DecisionOn, BatchIsNew
  <2>3. matched = {} /\ matched' = {}
    BY <1>3, <1>14 DEF Scan, ScanAnswered, ScanWith, Once, PollInOrder
  <2>4. PollInOrder'
    BY <2>3 DEF PollInOrder
  <2>5. OwnedIsSeen' /\ OneOwner' /\ OrphanIsSeen' /\ OrphanIsUnowned'
    BY <1>3, <1>14, <2>3 DEF Scan, ScanAnswered, ScanWith, Once, OwnedIsSeen, OneOwner,
       OrphanIsSeen, OrphanIsUnowned, Owns
  <2> QED BY <2>2, <2>4, <2>5 DEF Once
<1>15. ASSUME NEW d \in batch, HandleOrphan(d) PROVE Once'
  <2>0. d \in Decision /\ d.tx \in Transfers /\ d.tx \notin seen
    BY <1>1, <1>3 DEF Typed, TypeOK, Decision, Once, BatchIsNew
  <2>1. /\ matched = {} /\ matched' = {} /\ seen' = seen \cup {d.tx}
        /\ batch' = batch \ {d} /\ UNCHANGED <<txHash, expiring>>
    BY <1>3, <1>15 DEF HandleOrphan, Once, PollInOrder
  <2>2. events' \subseteq events \cup {Orphan(d.tx)}
    BY <1>15 DEF HandleOrphan, Record, EventId, Orphan
  <2>3. PollInOrder' /\ BatchIsNew'
    BY <1>3, <2>1 DEF Once, PollInOrder, BatchIsNew
  <2>4. OwnedIsSeen' /\ OneOwner'
    BY <1>3, <2>1 DEF Once, OwnedIsSeen, OneOwner, Owns
  <2>5. \A t \in Transfers : Orphan(t) \in events' => Orphan(t) \in events \/ t = d.tx
    BY <2>2 DEF Orphan
  <2>6. OrphanIsSeen' /\ OrphanIsUnowned'
    BY <1>3, <2>0, <2>1, <2>5
       DEF Once, OwnedIsSeen, OrphanIsSeen, OrphanIsUnowned, Owns, Orphan
  <2> QED BY <2>3, <2>4, <2>6 DEF Once
<1>16. ASSUME NEW d \in batch, HandleShallow(d) PROVE Once'
  BY <1>3, <1>16 DEF HandleShallow, Once, PollInOrder, BatchIsNew,
     OwnedIsSeen, OneOwner, OrphanIsSeen, OrphanIsUnowned, Owns
<1>17. ASSUME NEW d \in batch, HandleConfirmed(d) PROVE Once'
  <2>0. d \in Decision /\ d.tx \in Transfers /\ d.tx \notin seen
    BY <1>1, <1>3 DEF Typed, TypeOK, Decision, Once, BatchIsNew
  <2>1. matched = {}
    BY <1>3, <1>17 DEF HandleConfirmed, Once, PollInOrder
  <2>2. PICK i \in Matches(d) : txHash' = [txHash EXCEPT ![i] = d.tx] /\ matched' = {i}
    BY <1>17 DEF HandleConfirmed
  <2>3. i \in Invoices
    BY <1>1 DEF Matches, Typed, TypeOK
  <2>4. UNCHANGED <<expiring, events, batch, seen>> /\ current' = d /\ pc' = "record"
    BY <1>17 DEF HandleConfirmed
  <2>5. \A j \in Invoices, t \in Transfers :
          Owns(j, t)' => Owns(j, t) \/ (j = i /\ t = d.tx)
    BY <1>1, <2>2, <2>3, <2>4 DEF Owns, Typed, TypeOK
  <2>6. \A j \in Invoices, t \in Transfers : Owns(j, t) => t \in seen
    BY <1>3, <2>1 DEF Once, OwnedIsSeen
  <2>7. PollInOrder' /\ BatchIsNew'
    BY <1>3, <2>2, <2>4 DEF Once, PollInOrder, BatchIsNew
  <2>8. OwnedIsSeen' /\ OneOwner'
    BY <1>3, <2>0, <2>2, <2>4, <2>5, <2>6 DEF Once, OwnedIsSeen, OneOwner
  <2>9. OrphanIsSeen' /\ OrphanIsUnowned'
    BY <1>3, <2>0, <2>4, <2>5 DEF Once, OrphanIsSeen, OrphanIsUnowned, Orphan
  <2> QED BY <2>7, <2>8, <2>9 DEF Once
<1>18. ASSUME NEW i \in matched, RecordConfirmed(i) PROVE Once'
  <2>1. /\ matched' = {} /\ seen' = seen \cup {current.tx}
        /\ batch' = batch \ {current} /\ UNCHANGED <<txHash, expiring>>
    BY <1>18 DEF RecordConfirmed
  <2>2. \A t \in Transfers : Orphan(t) \in events' => Orphan(t) \in events
    BY <1>18 DEF RecordConfirmed, Record, EventId, Orphan
  <2>3. PollInOrder' /\ BatchIsNew'
    BY <1>3, <2>1 DEF Once, PollInOrder, BatchIsNew
  <2>4. OwnedIsSeen' /\ OneOwner'
    BY <1>3, <2>1 DEF Once, OwnedIsSeen, OneOwner, Owns
  <2>5. OrphanIsSeen' /\ OrphanIsUnowned'
    BY <1>3, <2>1, <2>2 DEF Once, OrphanIsSeen, OrphanIsUnowned, Owns, Orphan
  <2> QED BY <2>3, <2>4, <2>5 DEF Once
<1>19. ASSUME EndPoll PROVE Once'
  BY <1>3, <1>19 DEF EndPoll, LeavePoll, Once, PollInOrder, BatchIsNew,
     OwnedIsSeen, OneOwner, OrphanIsSeen, OrphanIsUnowned, Owns
<1>20. ASSUME RecordRefused PROVE Once'
  BY <1>20 DEF RecordRefused, CanRecord
<1>21. ASSUME StorageFails PROVE Once'
  BY <1>1, <1>2, <1>21 DEF StorageFails, NoFault, Typed, TypeOK
<1>22. ASSUME Crash PROVE Once'
  BY <1>1, <1>2, <1>22 DEF Crash, NoFault, Typed, TypeOK
<1>23. CASE UNCHANGED vars
  BY <1>3, <1>23, QuietKeepsOnce DEF Owns
<1> QED
  BY <1>4, <1>5, <1>6, <1>7, <1>8, <1>9, <1>10, <1>11, <1>12, <1>13, <1>14,
     <1>15, <1>16, <1>17, <1>18, <1>19, <1>20, <1>21, <1>22, <1>23
     DEF Next, Request, Poll, Handle

(* In the JSON store, and within a run of the process in which no storage  *)
(* call fails, one transfer settles one invoice, however many invoices are *)
(* given its amount one after the other.                                   *)
THEOREM FixedAddressOneInvoice ==
  ASSUME ~UniqueEventIds
  PROVE  Spec => []OneInvoicePerTransfer
<1>1. OnceInv => OneInvoicePerTransfer
  BY DEF OnceInv, Typed, TypeOK, OneInvoicePerTransfer, Once, OneOwner, Owns
<1>2. OnceInv /\ [Next]_vars => OnceInv'
  BY NextOnce
<1> QED BY InitOnce, <1>1, <1>2, PTL DEF Spec

(* ... and a transfer that was reported as an orphan settles none.         *)
THEOREM FixedAddressOneDecision ==
  ASSUME ~UniqueEventIds
  PROVE  Spec => []OneDecisionPerTransfer
<1>1. OnceInv => OneDecisionPerTransfer
  <2> SUFFICES ASSUME OnceInv, NoFault, NEW i \in Invoices
               PROVE  Orphan(txHash[i]) \notin events
    BY DEF OneDecisionPerTransfer
  <2>1. CASE txHash[i] \in Transfers
    BY <2>1 DEF OnceInv, Once, OrphanIsUnowned, Owns
  <2>2. CASE txHash[i] \notin Transfers
    BY <2>2 DEF OnceInv, Typed, TypeOK, Orphan
  <2> QED BY <2>1, <2>2
<1>2. OnceInv /\ [Next]_vars => OnceInv'
  BY NextOnce
<1> QED BY InitOnce, <1>1, <1>2, PTL DEF Spec
=============================================================================
