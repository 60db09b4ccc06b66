-------------------------- MODULE ChildIndexProofs --------------------------
(***************************************************************************)
(* The abstract promise of nextChildIndex keeps its own invariants: the    *)
(* indices taken are distinct and have no hole, for any number of calls.   *)
(***************************************************************************)
EXTENDS ChildIndex, TLAPS

(* Distinctness alone is not inductive: that the next index is a fresh one *)
(* follows only from where the ones taken lie.                             *)
Inv ==
  /\ TypeOK
  /\ FirstIndex <= nextIndex
  /\ UniqueIndices
  /\ NoUnaccountedGap

LEMMA InitInv ==
  ASSUME FirstIndex \in Nat
  PROVE  Init => Inv
  BY DEF Init, Inv, TypeOK, UniqueIndices, NoUnaccountedGap, Consumed, Statuses

(* What was consumed or wasted lies below the next index.                  *)
LEMMA Below ==
  ASSUME Inv
  PROVE  /\ \A q \in Consumed : index[q] \in FirstIndex .. nextIndex - 1
         /\ wasted \subseteq FirstIndex .. nextIndex - 1
<1>1. {index[p] : p \in Consumed} \cup wasted = FirstIndex .. nextIndex - 1
  BY DEF Inv, NoUnaccountedGap
<1> QED BY <1>1

(* A call that takes an index extends the interval by its end.             *)
LEMMA TakeInv ==
  ASSUME FirstIndex \in Nat, Inv, NEW r \in Requests, Take(r)
  PROVE  Inv'
<1> USE DEF Inv, TypeOK, Statuses
<1>1. status[r] = "waiting" /\ nextIndex' = nextIndex + 1
      /\ index' = [index EXCEPT ![r] = nextIndex] /\ wasted' = wasted
  BY DEF Take
<1>2. PICK s \in {"served", "lost"} : status' = [status EXCEPT ![r] = s]
  BY DEF Take
<1>3. Consumed' = Consumed \cup {r} /\ r \notin Consumed
  BY <1>1, <1>2 DEF Consumed
<1>4. TypeOK' /\ FirstIndex <= nextIndex'
  BY <1>1, <1>2
<1>5. \A q \in Consumed : index'[q] = index[q] /\ index[q] \in FirstIndex .. nextIndex - 1
  <2>1. \A q \in Consumed : q \in Requests /\ q # r
    BY <1>3 DEF Consumed
  <2> QED BY <1>1, <2>1, Below
<1>6. index'[r] = nextIndex
  BY <1>1
<1>7. \A p, q \in Consumed' : index'[p] = index'[q] => p = q
  <2> SUFFICES ASSUME NEW p \in Consumed', NEW q \in Consumed', index'[p] = index'[q]
               PROVE  p = q
    OBVIOUS
  <2>1. CASE p \in Consumed /\ q \in Consumed
    BY <2>1, <1>5 DEF UniqueIndices
  <2>2. CASE p = r /\ q \in Consumed
    BY <2>2, <1>5, <1>6
  <2>3. CASE p \in Consumed /\ q = r
    BY <2>3, <1>5, <1>6
  <2> QED BY <1>3, <2>1, <2>2, <2>3
<1>8. \A p \in Consumed' : index'[p] \notin wasted'
  BY <1>1, <1>3, <1>5, <1>6, Below DEF UniqueIndices
<1>9. NoUnaccountedGap'
  <2>1. {index'[q] : q \in Consumed'} = {index[q] : q \in Consumed} \cup {nextIndex}
    BY <1>3, <1>5, <1>6
  <2>2. FirstIndex .. nextIndex' - 1 = (FirstIndex .. nextIndex - 1) \cup {nextIndex}
    BY <1>1
  <2> QED BY <1>1, <2>1, <2>2 DEF NoUnaccountedGap
<1> QED BY <1>4, <1>7, <1>8, <1>9 DEF UniqueIndices

(* An index that is wasted is the end of the interval too, and nobody's.   *)
LEMMA WasteInv ==
  ASSUME FirstIndex \in Nat, Inv, NEW r \in Requests, Waste(r)
  PROVE  Inv'
<1> USE DEF Inv, TypeOK, Statuses
<1>1. /\ status[r] = "waiting" /\ nextIndex' = nextIndex + 1
      /\ index' = index /\ wasted' = wasted \cup {nextIndex}
  BY DEF Waste
<1>2. status' \in {status, [status EXCEPT ![r] = "failed"]}
  BY DEF Waste
<1>3. Consumed' = Consumed
  BY <1>1, <1>2 DEF Consumed
<1>4. TypeOK' /\ FirstIndex <= nextIndex'
  BY <1>1, <1>2
<1>5. UniqueIndices'
  BY <1>1, <1>3, Below DEF UniqueIndices
<1>6. NoUnaccountedGap'
  <2>1. FirstIndex .. nextIndex' - 1 = (FirstIndex .. nextIndex - 1) \cup {nextIndex}
    BY <1>1
  <2> QED BY <1>1, <1>3, <2>1 DEF NoUnaccountedGap
<1> QED BY <1>4, <1>5, <1>6

(* Callers that are gone change no index, and none that was taken returns. *)
LEMMA AbandonInv ==
  ASSUME Inv, NEW S \in SUBSET Requests, Abandon(S)
  PROVE  Inv'
<1> USE DEF Inv
<1>1. UNCHANGED <<nextIndex, index, wasted>>
  BY DEF Abandon
<1>2. TypeOK'
  BY DEF Abandon, TypeOK, Statuses
<1>3. Consumed' = Consumed
  BY DEF Abandon, Consumed, TypeOK, Statuses
<1> QED BY <1>1, <1>2, <1>3 DEF UniqueIndices, NoUnaccountedGap

LEMMA NextInv ==
  ASSUME FirstIndex \in Nat
  PROVE  Inv /\ [Next]_vars => Inv'
<1> SUFFICES ASSUME Inv, [Next]_vars PROVE Inv'
  OBVIOUS
<1>1. ASSUME NEW r \in Requests, Take(r) PROVE Inv'
  BY <1>1, TakeInv
<1>2. ASSUME NEW r \in Requests, Waste(r) PROVE Inv'
  BY <1>2, WasteInv
<1>3. ASSUME NEW S \in SUBSET Requests, Abandon(S) PROVE Inv'
  BY <1>3, AbandonInv
<1>4. CASE UNCHANGED vars
  BY <1>4 DEF vars, Inv, TypeOK, UniqueIndices, NoUnaccountedGap, Consumed
<1> QED BY <1>1, <1>2, <1>3, <1>4 DEF Next

(* No two calls of nextChildIndex ever return the same index, and every    *)
(* index that is skipped is accounted for by a call that was lost or that  *)
(* did not learn that the counter had advanced for it.                     *)
THEOREM ChildIndexSafe ==
  ASSUME FirstIndex \in Nat
  PROVE  Spec => [](UniqueIndices /\ NoUnaccountedGap)
<1>1. Init => Inv
  BY InitInv
<1>2. Inv /\ [Next]_vars => Inv'
  BY NextInv
<1>3. Inv => UniqueIndices /\ NoUnaccountedGap
  BY DEF Inv
<1> QED BY <1>1, <1>2, <1>3, PTL DEF Spec
=============================================================================
