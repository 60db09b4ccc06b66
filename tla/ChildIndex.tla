----------------------------- MODULE ChildIndex -----------------------------
(***************************************************************************)
(* What every storage adapter promises of nextChildIndex                   *)
(* (listener/src/storage/index.ts): each call takes the next index of the  *)
(* merchant, and no two calls take the same one, because the index is the  *)
(* last component of the receive address an invoice is paid to.            *)
(*                                                                         *)
(* A call is one Request.  It ends "served" (it returned its index), "lost"*)
(* (the counter advanced for it but the caller saw an error or died before *)
(* it could use the index) or "failed" (it ended without an index).  A     *)
(* call that does not learn of its index may also take another.            *)
(***************************************************************************)
EXTENDS Integers

CONSTANTS Requests,     \* the calls of nextChildIndex for one merchant
          FirstIndex    \* merchants.next_child_index when they start, a natural

VARIABLES nextIndex,    \* merchants.next_child_index
          status,       \* status[r]: how the call r stands
          index,        \* index[r]: the index r consumed, if it did
          wasted        \* indices taken for a call that did not learn of it

vars == <<nextIndex, status, index, wasted>>

Statuses == {"waiting", "served", "lost", "failed"}
Consumed == {r \in Requests : status[r] \in {"served", "lost"}}

Init ==
  /\ nextIndex = FirstIndex
  /\ status = [r \in Requests |-> "waiting"]
  /\ index = [r \in Requests |-> 0]
  /\ wasted = {}

(* The counter advances by one and the old value is r's.                   *)
Take(r) ==
  /\ status[r] = "waiting"
  /\ index' = [index EXCEPT ![r] = nextIndex]
  /\ nextIndex' = nextIndex + 1
  /\ status' \in {[status EXCEPT ![r] = s] : s \in {"served", "lost"}}
  /\ UNCHANGED wasted

(* The counter advances for r, which takes it for a failure: it goes on,   *)
(* or gives up.                                                            *)
Waste(r) ==
  /\ status[r] = "waiting"
  /\ nextIndex' = nextIndex + 1
  /\ wasted' = wasted \cup {nextIndex}
  /\ status' \in {status, [status EXCEPT ![r] = "failed"]}
  /\ UNCHANGED index

(* Callers in S are gone, together if their process died: those that were *)
(* waiting consume nothing, an index already taken is lost.                *)
Abandon(S) ==
  /\ status' = [r \in Requests |->
                  CASE r \in S /\ status[r] = "waiting" -> "failed"
                    [] r \in S /\ status[r] = "served"  -> "lost"
                    [] OTHER                            -> status[r]]
  /\ UNCHANGED <<nextIndex, index, wasted>>

Next == \/ \E r \in Requests : Take(r) \/ Waste(r)
        \/ \E S \in SUBSET Requests : Abandon(S)

Spec == Init /\ [][Next]_vars

-----------------------------------------------------------------------------
TypeOK ==
  /\ nextIndex \in Nat
  /\ status \in [Requests -> Statuses]
  /\ index \in [Requests -> Nat]
  /\ wasted \subseteq Nat

(* No two calls of nextChildIndex ever return the same index, nor one that *)
(* was wasted, so no two invoices of a merchant share a receive address    *)
(* (storage/index.ts, "MUST be race-safe").                                *)
UniqueIndices ==
  /\ \A r, s \in Consumed : index[r] = index[s] => r = s
  /\ \A r \in Consumed : index[r] \notin wasted

(* The indices consumed are exactly FirstIndex .. nextIndex - 1: an index  *)
(* is skipped only by a call that died with it or did not learn of it, so  *)
(* a wallet that restores from the xpub meets no gap that no call accounts *)
(* for.                                                                    *)
NoUnaccountedGap ==
  {index[r] : r \in Consumed} \cup wasted = FirstIndex .. nextIndex - 1
=============================================================================
