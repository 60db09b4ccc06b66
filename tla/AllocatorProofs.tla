--------------------------- MODULE AllocatorProofs ---------------------------
(***************************************************************************)
(* The two allocators of child indices implement the promise of            *)
(* nextChildIndex, and so inherit what is proved of it.                    *)
(*                                                                         *)
(* The compare-and-set loop of the cloud, for any number of callers and    *)
(* any MAX_CAS_ATTEMPTS: it never gives up before that many indices were   *)
(* taken, its own that it took for misses among them.                      *)
(*                                                                         *)
(* The JSON file, for any number of calls and processes: the queue and the *)
(* lock file make every read-modify-write of merchant.json exclusive.      *)
(***************************************************************************)
EXTENDS CasChildIndex, JsonChildIndex, SequenceTheorems, TLAPS

CasAbstractProofs == INSTANCE ChildIndexProofs WITH
  Requests <- Callers, FirstIndex <- StartIndex,
  nextIndex <- rowIndex, status <- CasStatus, index <- CasIndex

-----------------------------------------------------------------------------
(* The loop counter never overtakes the counter: every attempt a call lost *)
(* is an index somebody else took.  Where a call still holds a value, the  *)
(* races it lost lie below that value.                                     *)
Losses(r) ==
  /\ attempt[r] <= rowIndex - StartIndex
  /\ at[r] \in {"read", "cas"} => attempt[r] < MaxAttempts
  /\ at[r] = "cas" => attempt[r] <= current[r] - StartIndex /\ current[r] <= rowIndex
  /\ at[r] = "gaveup" => attempt[r] = MaxAttempts

CasInv == CasTypeOK /\ StartIndex <= rowIndex /\ \A r \in Callers : Losses(r)

LEMMA CasInitInv == CasInit => CasInv
  BY CasAssumption DEF CasInit, CasInv, CasTypeOK, Losses, CasPoints

(* One step: the call that steps, and the others, which only see the       *)
(* counter grow.                                                           *)
LEMMA CasStepInv ==
  ASSUME CasInv, NEW q \in Callers,
         \/ ReadRow(q) \/ CasWon(q) \/ CasMissed(q) \/ CasMisread(q)
         \/ CallFails(q) \/ AnswerLost(q)
  PROVE  CasInv'
<1> USE CasAssumption DEF CasInv, CasTypeOK, CasPoints
<1>1. CASE ReadRow(q)
  BY <1>1 DEF ReadRow, Losses
<1>2. CASE CasWon(q) \/ AnswerLost(q)
  <2>1. /\ rowIndex' = rowIndex + 1 /\ UNCHANGED <<current, attempt, wasted>>
        /\ at[q] = "cas"
        /\ \/ at' = [at EXCEPT ![q] = "served"]
           \/ at' = [at EXCEPT ![q] = "lost"]
    BY <1>2 DEF CasWon, AnswerLost, Matches
  <2>2. CasTypeOK' /\ StartIndex <= rowIndex'
    BY <2>1
  <2>3. \A r \in Callers : Losses(r)'
    BY <2>1 DEF Losses
  <2> QED BY <2>2, <2>3
<1>3. CASE CasMissed(q) \/ CasMisread(q)
  <2>0. /\ rowIndex' \in Nat /\ rowIndex <= rowIndex' /\ wasted' \subseteq Nat
        /\ attempt[q] + 1 <= rowIndex' - StartIndex
        /\ NextRound(q) /\ at[q] = "cas"
    <3>1. CASE CasMissed(q)
      BY <3>1 DEF CasMissed, Matches, Losses
    <3>2. CASE CasMisread(q)
      <4>1. /\ at[q] = "cas" /\ NextRound(q) /\ current[q] = rowIndex
            /\ rowIndex' = rowIndex + 1 /\ wasted' = wasted \cup {rowIndex}
        BY <3>2 DEF CasMisread, Matches
      <4>2. attempt[q] <= rowIndex - StartIndex
        BY DEF Losses
      <4> QED BY <4>1, <4>2
    <3> QED BY <1>3, <3>1, <3>2
  <2>1. /\ current' = current
        /\ attempt' = [attempt EXCEPT ![q] = attempt[q] + 1]
        /\ attempt[q] < MaxAttempts
        /\ at' = [at EXCEPT ![q] = IF attempt[q] + 1 < MaxAttempts
                                   THEN "read" ELSE "gaveup"]
    BY <2>0 DEF NextRound, Losses
  <2>2. CasTypeOK' /\ StartIndex <= rowIndex'
    BY <2>0, <2>1
  <2>3. Losses(q)'
    BY <2>0, <2>1 DEF Losses
  <2>4. \A r \in Callers \ {q} : Losses(r)'
    BY <2>0, <2>1 DEF Losses
  <2> QED BY <2>2, <2>3, <2>4
<1>4. CASE CallFails(q)
  BY <1>4 DEF CallFails, Losses
<1> QED BY <1>1, <1>2, <1>3, <1>4

LEMMA CasNextInv == CasInv /\ [CasNext]_casVars => CasInv'
<1> SUFFICES ASSUME CasInv, [CasNext]_casVars PROVE CasInv'
  OBVIOUS
<1>1. CASE CasNext
  BY <1>1, CasStepInv DEF CasNext
<1>2. CASE UNCHANGED casVars
  BY <1>2 DEF casVars, CasInv, CasTypeOK, Losses
<1> QED BY <1>1, <1>2

LEMMA CasInvariance == CasSpec => []CasInv
  BY CasInitInv, CasNextInv, PTL DEF CasSpec

(* The variables keep their types.                                         *)
THEOREM CasTypeCorrect == CasSpec => []CasTypeOK
<1>1. CasInv => CasTypeOK
  BY DEF CasInv
<1> QED BY CasInvariance, <1>1, PTL

(* A call gives up only after MAX_CAS_ATTEMPTS indices were taken.         *)
THEOREM CasIsLockFree == CasSpec => []GivesUpOnlyAfterLosing
<1>1. CasInv => GivesUpOnlyAfterLosing
  BY CasAssumption DEF CasInv, GivesUpOnlyAfterLosing, Losses, CasTypeOK
<1> QED BY CasInvariance, <1>1, PTL

-----------------------------------------------------------------------------
(* The refinement                                                          *)

LEMMA CasInitRefines == CasInit => CasAbstract!Init
  BY DEF CasInit, CasAbstract!Init, CasStatus, CasIndex

(* The update that wins takes the index the abstract counter shows.        *)
LEMMA WinRefines ==
  ASSUME CasTypeOK, NEW r \in Callers, CasWon(r) \/ AnswerLost(r)
  PROVE  CasAbstract!Take(r)
<1> USE DEF CasTypeOK, CasPoints
<1> DEFINE s == IF CasWon(r) THEN "served" ELSE "lost"
<1>1. /\ at[r] = "cas" /\ current[r] = rowIndex
      /\ rowIndex' = rowIndex + 1 /\ UNCHANGED <<current, wasted>>
  BY DEF CasWon, AnswerLost, Matches
<1>2. \E t \in {"served", "lost"} : at' = [at EXCEPT ![r] = t]
  BY DEF CasWon, AnswerLost
<1>3. PICK t \in {"served", "lost"} : at' = [at EXCEPT ![r] = t]
  BY <1>2
<1>4. CasStatus[r] = "waiting"
  BY <1>1 DEF CasStatus
<1>5. CasIndex' = [CasIndex EXCEPT ![r] = rowIndex]
  BY <1>1, <1>3 DEF CasIndex
<1>6. CasStatus' = [CasStatus EXCEPT ![r] = t]
  BY <1>1, <1>3 DEF CasStatus
<1> QED BY <1>1, <1>4, <1>5, <1>6 DEF CasAbstract!Take

(* An update that is read as a miss wastes the index it took.              *)
LEMMA MisreadRefines ==
  ASSUME CasTypeOK, NEW r \in Callers, CasMisread(r)
  PROVE  CasAbstract!Waste(r)
<1> USE DEF CasTypeOK, CasPoints
<1>1. /\ at[r] = "cas" /\ rowIndex' = rowIndex + 1 /\ current' = current
      /\ wasted' = wasted \cup {rowIndex}
  BY DEF CasMisread, NextRound, Matches
<1>2. at' \in {[at EXCEPT ![r] = t] : t \in {"read", "gaveup"}}
  BY DEF CasMisread, NextRound
<1>3. CasStatus[r] = "waiting"
  BY <1>1 DEF CasStatus
<1>4. CasIndex' = CasIndex
  BY <1>1, <1>2 DEF CasIndex
<1>5. CasStatus' \in {CasStatus, [CasStatus EXCEPT ![r] = "failed"]}
  <2>1. CASE at' = [at EXCEPT ![r] = "read"]
    BY <1>1, <2>1 DEF CasStatus
  <2>2. CASE at' = [at EXCEPT ![r] = "gaveup"]
    BY <1>1, <2>2 DEF CasStatus
  <2> QED BY <1>2, <2>1, <2>2
<1> QED BY <1>1, <1>3, <1>4, <1>5 DEF CasAbstract!Waste

(* A call that ends without an index is abandoned, alone.                  *)
LEMMA FailureRefines ==
  ASSUME CasTypeOK, NEW r \in Callers, at[r] \in {"read", "cas"},
         NEW t \in {"gaveup", "error"}, at' = [at EXCEPT ![r] = t],
         UNCHANGED <<rowIndex, current, wasted>>
  PROVE  CasAbstract!Abandon({r})
<1> USE DEF CasTypeOK, CasPoints
<1>1. CasIndex' = CasIndex
  BY DEF CasIndex
<1>2. CasStatus' = [q \in Callers |->
                   CASE q \in {r} /\ CasStatus[q] = "waiting" -> "failed"
                     [] q \in {r} /\ CasStatus[q] = "served"  -> "lost"
                     [] OTHER                              -> CasStatus[q]]
  BY DEF CasStatus
<1> QED BY <1>1, <1>2 DEF CasAbstract!Abandon

LEMMA CasNextRefines == CasTypeOK /\ [CasNext]_casVars => [CasAbstract!Next]_(CasAbstract!vars)
<1> SUFFICES ASSUME CasTypeOK, [CasNext]_casVars
             PROVE  \/ CasAbstract!Next
                    \/ UNCHANGED <<rowIndex, CasStatus, CasIndex, wasted>>
  BY DEF CasAbstract!vars
<1> USE DEF CasTypeOK, CasPoints
<1>1. ASSUME NEW r \in Callers, ReadRow(r)
      PROVE  UNCHANGED <<rowIndex, CasStatus, CasIndex, wasted>>
  BY <1>1 DEF ReadRow, CasStatus, CasIndex
<1>2. ASSUME NEW r \in Callers, CasWon(r) \/ AnswerLost(r)
      PROVE  CasAbstract!Next
  BY <1>2, WinRefines DEF CasAbstract!Next
<1>3. ASSUME NEW r \in Callers, CasMissed(r)
      PROVE  CasAbstract!Next \/ UNCHANGED <<rowIndex, CasStatus, CasIndex, wasted>>
  <2>1. CASE attempt[r] + 1 < MaxAttempts
    BY <1>3, <2>1 DEF CasMissed, NextRound, CasStatus, CasIndex
  <2>2. CASE ~(attempt[r] + 1 < MaxAttempts)
    <3>1. CasAbstract!Abandon({r})
      BY <1>3, <2>2, FailureRefines DEF CasMissed, NextRound
    <3> QED BY <3>1 DEF CasAbstract!Next
  <2> QED BY <2>1, <2>2
<1>4. ASSUME NEW r \in Callers, CallFails(r)
      PROVE  CasAbstract!Next
  <2>1. CasAbstract!Abandon({r})
    BY <1>4, FailureRefines DEF CallFails
  <2> QED BY <2>1 DEF CasAbstract!Next
<1>5. ASSUME NEW r \in Callers, CasMisread(r)
      PROVE  CasAbstract!Next
  BY <1>5, MisreadRefines DEF CasAbstract!Next
<1>6. CASE UNCHANGED casVars
  BY <1>6 DEF casVars, CasStatus, CasIndex
<1> QED BY <1>1, <1>2, <1>3, <1>4, <1>5, <1>6 DEF CasNext

(* The loop hands out indices the way the adapter interface promises.      *)
THEOREM CasImplements == CasSpec => CasImplementsChildIndex
<1> QED BY CasInitRefines, CasNextRefines, CasTypeCorrect, PTL
        DEF CasSpec, CasImplementsChildIndex, CasAbstract!Spec

(* So no two calls return the same child index, in whatever processes.     *)
THEOREM CasUnique == CasSpec => []UniqueIndices
<1> USE DEF CasAbstract!Consumed, CasAbstractProofs!Consumed
<1>1. CasAbstract!Init => CasAbstractProofs!Init
  BY DEF CasAbstract!Init, CasAbstractProofs!Init
<1>2. [CasAbstract!Next]_(CasAbstract!vars) => [CasAbstractProofs!Next]_(CasAbstractProofs!vars)
  BY DEF CasAbstract!Next, CasAbstractProofs!Next, CasAbstract!Take, CasAbstractProofs!Take,
         CasAbstract!Waste, CasAbstractProofs!Waste,
         CasAbstract!Abandon, CasAbstractProofs!Abandon, CasAbstract!vars, CasAbstractProofs!vars
<1>3. CasAbstractProofs!UniqueIndices => UniqueIndices
  BY DEF UniqueIndices, CasAbstract!UniqueIndices, CasAbstractProofs!UniqueIndices
<1>4. CasAbstractProofs!Spec => [](CasAbstractProofs!UniqueIndices /\ CasAbstractProofs!NoUnaccountedGap)
  BY CasAssumption, CasAbstractProofs!ChildIndexSafe DEF CasAssumption
<1> QED BY <1>1, <1>2, <1>3, <1>4, CasImplements, PTL
        DEF CasImplementsChildIndex, CasAbstract!Spec, CasAbstractProofs!Spec

-----------------------------------------------------------------------------
AbstractProofs == INSTANCE ChildIndexProofs WITH
  nextIndex <- stored, status <- Status, index <- Index, wasted <- {}

(* A call that has begun is the head of the queue of its process, so that  *)
(* settling it dequeues it and nothing else.                               *)
Begun(r) == pc[r] \in {"locking", "reading", "writing", "releasing"}
AtHead == \A r \in Requests : Begun(r) => FirstOfQueue(r)

(* The lock file names the one call of a live process that may write, and  *)
(* the value it read is still what the file holds.                         *)
HoldsLock == \A r \in Requests : InCritical(r) => lock = r /\ Live(r)
FreshRead == \A r \in Requests : pc[r] = "writing" => seen[r] = stored

Inv == TypeOK /\ AtHead /\ HoldsLock /\ FreshRead

LEMMA InitInv == Init => Inv
  BY JsonAssumption DEF Init, Inv, TypeOK, AtHead, Begun, HoldsLock, FreshRead,
     InCritical, Points

-----------------------------------------------------------------------------
(* Types, and the discipline of the queue                                  *)

(* Queuing a call does not change which one is the first.                  *)
LEMMA AppendKeepsHead ==
  ASSUME NEW S, NEW q \in Seq(S), q # <<>>, NEW e \in S
  PROVE  Append(q, e) # <<>> /\ Head(Append(q, e)) = Head(q)
<1>1. Len(q) >= 1
  OBVIOUS
<1> QED BY <1>1

LEMMA CallInv ==
  ASSUME Inv, NEW r \in Requests, Call(r)
  PROVE  Inv'
<1> USE JsonAssumption DEF Inv, TypeOK, Points, Call
<1> DEFINE queue == indexQueue[ProcessOf[r]]
<1>0. queue \in Seq(Requests) /\ ProcessOf[r] \in Processes
  OBVIOUS
<1>1. TypeOK'
  <2>1. Append(queue, r) \in Seq(Requests)
    BY <1>0, AppendProperties
  <2>2. indexQueue' = [indexQueue EXCEPT ![ProcessOf[r]] = Append(queue, r)]
    OBVIOUS
  <2>3. indexQueue' \in [Processes -> Seq(Requests)]
    BY <1>0, <2>1, <2>2
  <2> QED BY <2>3
<1>2. AtHead'
  <2> SUFFICES ASSUME NEW q \in Requests, Begun(q)' PROVE FirstOfQueue(q)'
    BY DEF AtHead
  <2>1. q # r /\ FirstOfQueue(q)
    BY DEF AtHead, Begun
  <2>2. CASE ProcessOf[q] = ProcessOf[r]
    <3>1. queue # <<>> /\ Head(queue) = q
      BY <2>1, <2>2 DEF FirstOfQueue
    <3>2. Append(queue, r) # <<>> /\ Head(Append(queue, r)) = q
      BY <1>0, <3>1, AppendKeepsHead
    <3>3. indexQueue'[ProcessOf[q]] = Append(queue, r)
      BY <1>0, <2>2
    <3> QED BY <3>2, <3>3 DEF FirstOfQueue
  <2>3. CASE ProcessOf[q] # ProcessOf[r]
    BY <2>1, <2>3 DEF FirstOfQueue
  <2> QED BY <2>2, <2>3
<1>3. HoldsLock' /\ FreshRead'
  BY DEF HoldsLock, FreshRead, InCritical, Live
<1> QED BY <1>1, <1>2, <1>3

(* A call that settles leaves the queue to the calls behind it.            *)
LEMMA SettleInv ==
  ASSUME Inv, NEW r \in Requests, Begun(r), NEW outcome \in Settled,
         Settle(r, outcome), UNCHANGED <<stored, seen, alive>>,
         \/ lock' = NoOne /\ lock = r
         \/ lock' = lock /\ pc[r] = "locking"
  PROVE  Inv'
<1> USE JsonAssumption DEF Inv, TypeOK, Points, Settled, Settle
<1>1. FirstOfQueue(r)
  BY DEF AtHead
<1>2. TypeOK'
  <2>1. indexQueue[ProcessOf[r]] \in Seq(Requests) /\ indexQueue[ProcessOf[r]] # <<>>
    BY <1>1 DEF FirstOfQueue
  <2>2. Tail(indexQueue[ProcessOf[r]]) \in Seq(Requests)
    BY <2>1, HeadTailProperties
  <2>3. indexQueue' \in [Processes -> Seq(Requests)]
    BY <2>2
  <2> QED BY <2>3
<1>3. AtHead'
  <2> SUFFICES ASSUME NEW q \in Requests, Begun(q)' PROVE FirstOfQueue(q)'
    BY DEF AtHead
  <2>1. q # r /\ FirstOfQueue(q)
    BY DEF AtHead, Begun
  <2>2. ProcessOf[q] # ProcessOf[r]
    BY <1>1, <2>1 DEF FirstOfQueue
  <2> QED BY <2>1, <2>2 DEF FirstOfQueue
<1>4. HoldsLock' /\ FreshRead'
  BY DEF HoldsLock, FreshRead, InCritical, Live, Begun
<1> QED BY <1>2, <1>3, <1>4

LEMMA StepInv ==
  ASSUME Inv, NEW r \in Requests, Step(r)
  PROVE  Inv'
<1> USE JsonAssumption DEF Inv, TypeOK, Points
<1>0. Live(r)
  BY DEF Step
<1>1. CASE Start(r)
  BY <1>1 DEF Start, AtHead, Begun, FirstOfQueue, HoldsLock, FreshRead, InCritical, Live
<1>2. CASE Acquire(r)
  <2>1. \A q \in Requests : ~InCritical(q)
    BY <1>2 DEF Acquire, LockFree, HoldsLock
  <2> QED
    BY <1>0, <1>2, <2>1
    DEF Acquire, AtHead, Begun, FirstOfQueue, HoldsLock, FreshRead, InCritical, Live
<1>3. CASE LockRefused(r)
  BY <1>3, SettleInv DEF LockRefused, Begun, Settled
<1>4. CASE ReadMerchant(r)
  BY <1>4
  DEF ReadMerchant, AtHead, Begun, FirstOfQueue, HoldsLock, FreshRead, InCritical, Live
<1>5. CASE WriteMerchant(r)
  <2>1. \A q \in Requests \ {r} : ~InCritical(q)
    BY <1>5 DEF WriteMerchant, HoldsLock, InCritical
  <2> QED
    BY <1>5, <2>1
    DEF WriteMerchant, AtHead, Begun, FirstOfQueue, HoldsLock, FreshRead, InCritical, Live
<1>6. CASE FileError(r)
  <2>1. lock = r /\ Begun(r)
    BY <1>6 DEF FileError, HoldsLock, InCritical, Begun
  <2> QED BY <1>6, <2>1, SettleInv DEF FileError, Settled
<1>7. CASE Release(r)
  <2>1. lock = r /\ Begun(r)
    BY <1>7 DEF Release, HoldsLock, InCritical, Begun
  <2>2. PICK outcome \in {"served", "lost"} : Settle(r, outcome)
    BY <1>7 DEF Release
  <2> QED BY <1>7, <2>1, <2>2, SettleInv DEF Release, Settled
<1> QED BY <1>1, <1>2, <1>3, <1>4, <1>5, <1>6, <1>7 DEF Step

(* A process that dies takes its calls out of the critical section, and    *)
(* the lock file it may leave behind names a call that is dead.            *)
LEMMA CrashInv ==
  ASSUME Inv, NEW p \in Processes, Crash(p)
  PROVE  Inv'
<1> USE JsonAssumption DEF Inv, TypeOK, Points, Crash, Settled
<1>1. TypeOK'
  OBVIOUS
<1>2. \A q \in Requests : Begun(q)' \/ InCritical(q)' =>
        ProcessOf[q] # p /\ pc'[q] = pc[q]
  BY DEF Begun, InCritical
<1>3. AtHead'
  BY <1>2 DEF AtHead, Begun, FirstOfQueue
<1>4. HoldsLock'
  BY <1>2 DEF HoldsLock, InCritical, Live
<1>5. FreshRead'
  BY DEF FreshRead
<1> QED BY <1>1, <1>3, <1>4, <1>5

LEMMA NextInv == Inv /\ [Next]_vars => Inv'
<1> SUFFICES ASSUME Inv, [Next]_vars PROVE Inv'
  OBVIOUS
<1>1. CASE Next
  BY <1>1, CallInv, StepInv, CrashInv DEF Next
<1>2. CASE UNCHANGED vars
  BY <1>2 DEF vars, Inv, TypeOK, AtHead, Begun, FirstOfQueue, HoldsLock, FreshRead,
              InCritical, Live
<1> QED BY <1>1, <1>2

LEMMA Invariance == Spec => []Inv
  BY InitInv, NextInv, PTL DEF Spec

(* The variables keep their types.                                         *)
THEOREM JsonTypeCorrect == Spec => []TypeOK
<1>1. Inv => TypeOK
  BY DEF Inv
<1> QED BY Invariance, <1>1, PTL

(* At most one call, of all processes, is between reading merchant.json    *)
(* and releasing the lock, whatever processes die holding it.              *)
THEOREM JsonOneWriter == Spec => []OneWriter
<1>1. Inv => OneWriter
  BY DEF Inv, OneWriter, HoldsLock
<1> QED BY Invariance, <1>1, PTL

-----------------------------------------------------------------------------
(* The refinement                                                          *)

LEMMA InitRefines == Init => Abstract!Init
  BY DEF Init, Abstract!Init, Status, Index

(* Replacing merchant.json takes the index: what was read is still there.  *)
LEMMA WriteRefines ==
  ASSUME Inv, NEW r \in Requests, WriteMerchant(r)
  PROVE  Abstract!Take(r)
<1> USE DEF Inv, TypeOK, Points
<1>1. /\ pc[r] = "writing" /\ seen[r] = stored /\ stored' = stored + 1 /\ seen' = seen
      /\ pc' = [pc EXCEPT ![r] = "releasing"]
  BY DEF WriteMerchant, FreshRead
<1>2. Status[r] = "waiting"
  BY <1>1 DEF Status
<1>3. Status' = [Status EXCEPT ![r] = "served"]
  BY <1>1 DEF Status
<1>4. Index' = [Index EXCEPT ![r] = stored]
  BY <1>1 DEF Index
<1> QED BY <1>1, <1>2, <1>3, <1>4 DEF Abstract!Take

(* Calls that settle without having taken an index, or without answering   *)
(* with the one they took, are abandoned.                                  *)
LEMMA AbandonRefines ==
  ASSUME TypeOK, NEW S \in SUBSET Requests,
         \A r \in S : Begun(r) \/ pc[r] = "queued",
         pc' = [r \in Requests |->
                  IF r \notin S THEN pc[r]
                  ELSE IF pc[r] = "releasing" THEN "lost" ELSE "failed"],
         UNCHANGED <<stored, seen>>
  PROVE  Abstract!Next
<1> USE DEF TypeOK, Points, Begun
<1>1. Index' = Index
  BY DEF Index
<1>2. Status' = [r \in Requests |->
                   CASE r \in S /\ Status[r] = "waiting" -> "failed"
                     [] r \in S /\ Status[r] = "served"  -> "lost"
                     [] OTHER                            -> Status[r]]
  BY DEF Status
<1>3. Abstract!Abandon(S)
  BY <1>1, <1>2 DEF Abstract!Abandon
<1> QED BY <1>3 DEF Abstract!Next

LEMMA StepRefines ==
  ASSUME Inv, NEW r \in Requests, Call(r) \/ Step(r)
  PROVE  Abstract!Next \/ UNCHANGED <<stored, Status, Index>>
<1> USE DEF Inv, TypeOK, Points
<1>1. CASE Call(r) \/ Start(r) \/ Acquire(r) \/ ReadMerchant(r)
  BY <1>1 DEF Call, Start, Acquire, ReadMerchant, Status, Index
<1>2. CASE WriteMerchant(r)
  BY <1>2, WriteRefines DEF Abstract!Next
<1>3. CASE LockRefused(r) \/ FileError(r)
  <2>1. Begun(r) /\ pc[r] # "releasing" /\ pc' = [pc EXCEPT ![r] = "failed"]
    BY <1>3 DEF LockRefused, FileError, Settle, Begun
  <2>2. UNCHANGED <<stored, seen>>
    BY <1>3 DEF LockRefused, FileError
  <2> QED BY <2>1, <2>2, AbandonRefines, {r} \in SUBSET Requests
<1>4. CASE Release(r)
  <2>1. pc[r] = "releasing" /\ UNCHANGED <<stored, seen>>
    BY <1>4 DEF Release
  <2>2. CASE pc' = [pc EXCEPT ![r] = "served"]
    BY <2>1, <2>2 DEF Status, Index
  <2>3. CASE pc' = [pc EXCEPT ![r] = "lost"]
    BY <2>1, <2>3, AbandonRefines, {r} \in SUBSET Requests DEF Begun
  <2> QED BY <1>4, <2>2, <2>3 DEF Release, Settle
<1> QED BY <1>1, <1>2, <1>3, <1>4 DEF Step

LEMMA CrashRefines ==
  ASSUME Inv, NEW p \in Processes, Crash(p)
  PROVE  Abstract!Next
<1> DEFINE S == {r \in Requests : ProcessOf[r] = p /\ pc[r] \notin Settled \cup {"idle"}}
<1>1. \A r \in S : Begun(r) \/ pc[r] = "queued"
  BY DEF Inv, TypeOK, Points, Settled, Begun
<1>2. pc' = [r \in Requests |->
               IF r \notin S THEN pc[r]
               ELSE IF pc[r] = "releasing" THEN "lost" ELSE "failed"]
  BY DEF Crash
<1>3. S \in SUBSET Requests
  OBVIOUS
<1> QED BY <1>1, <1>2, <1>3, AbandonRefines DEF Crash, Inv

LEMMA NextRefines == Inv /\ [Next]_vars => [Abstract!Next]_(Abstract!vars)
<1> SUFFICES ASSUME Inv, [Next]_vars
             PROVE  Abstract!Next \/ UNCHANGED <<stored, Status, Index>>
  BY DEF Abstract!vars
<1>1. CASE Next
  BY <1>1, StepRefines, CrashRefines DEF Next
<1>2. CASE UNCHANGED vars
  BY <1>2 DEF vars, Status, Index
<1> QED BY <1>1, <1>2

(* The queue and the lock file give what the adapter interface promises.   *)
THEOREM JsonImplements == Spec => ImplementsChildIndex
<1> QED BY InitRefines, NextRefines, Invariance, PTL
        DEF Spec, ImplementsChildIndex, Abstract!Spec

(* So a child index is skipped only by a call that died holding it.        *)
THEOREM JsonNoGap == Spec => []NoUnaccountedGap
<1> USE DEF Abstract!Consumed, AbstractProofs!Consumed
<1>1. Abstract!Init => AbstractProofs!Init
  BY DEF Abstract!Init, AbstractProofs!Init
<1>2. [Abstract!Next]_(Abstract!vars) => [AbstractProofs!Next]_(AbstractProofs!vars)
  BY DEF Abstract!Next, AbstractProofs!Next, Abstract!Take, AbstractProofs!Take,
         Abstract!Waste, AbstractProofs!Waste,
         Abstract!Abandon, AbstractProofs!Abandon, Abstract!vars, AbstractProofs!vars
<1>3. AbstractProofs!NoUnaccountedGap => NoUnaccountedGap
  BY DEF NoUnaccountedGap, Abstract!NoUnaccountedGap, AbstractProofs!NoUnaccountedGap
<1>4. AbstractProofs!Spec => [](AbstractProofs!UniqueIndices /\ AbstractProofs!NoUnaccountedGap)
  BY JsonAssumption, AbstractProofs!ChildIndexSafe DEF JsonAssumption
<1> QED BY <1>1, <1>2, <1>3, <1>4, JsonImplements, PTL
        DEF ImplementsChildIndex, Abstract!Spec, AbstractProofs!Spec
=============================================================================
