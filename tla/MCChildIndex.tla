---------------------------- MODULE MCChildIndex ----------------------------
(* The two allocators of child indices, that of the cloud and that of the   *)
(* JSON store, explored one at a time: `store` tells which.                 *)
(*                                                                          *)
(* Cloud: four racing calls, three attempts: enough for a call to lose      *)
(* every race and for a stale read to survive two advances of the counter.  *)
(* JSON: the listener makes two calls while a CLI command makes one: the    *)
(* queue and the lock are both contended, and a dead process can leave the  *)
(* lock to a call of another process and to a queued call.                  *)
(* At most one body is lost, which is enough for a call to take an index    *)
(* beside the one it wasted.                                                *)
EXTENDS CasChildIndex, JsonChildIndex

CONSTANTS c1, c2, c3, c4, r1, r2, r3, listener, cli

VARIABLE store

ThreeAttempts == 3
FourCallers == {c1, c2, c3, c4}
ThreeRequests == {r1, r2, r3}
TwoProcesses == {listener, cli}
CallsOf == [r \in ThreeRequests |-> IF r = r3 THEN cli ELSE listener]

BothInit == CasInit /\ Init /\ store \in {"cloud", "json"}

OnlyCloud == store = "cloud" /\ UNCHANGED <<vars, store>>
OnlyJson  == store = "json" /\ UNCHANGED <<casVars, store>>

BothNext ==
  \/ \E r \in Callers : ReadRow(r) /\ OnlyCloud
  \/ \E r \in Callers : CasWon(r) /\ OnlyCloud
  \/ \E r \in Callers : CasMissed(r) /\ OnlyCloud
  \/ \E r \in Callers : CasMisread(r) /\ OnlyCloud /\ wasted = {}
  \/ \E r \in Callers : CallFails(r) /\ OnlyCloud
  \/ \E r \in Callers : AnswerLost(r) /\ OnlyCloud
  \/ \E r \in Requests : Call(r) /\ OnlyJson
  \/ \E r \in Requests : Start(r) /\ Live(r) /\ OnlyJson
  \/ \E r \in Requests : Acquire(r) /\ Live(r) /\ OnlyJson
  \/ \E r \in Requests : LockRefused(r) /\ Live(r) /\ OnlyJson
  \/ \E r \in Requests : ReadMerchant(r) /\ Live(r) /\ OnlyJson
  \/ \E r \in Requests : WriteMerchant(r) /\ Live(r) /\ OnlyJson
  \/ \E r \in Requests : FileError(r) /\ Live(r) /\ OnlyJson
  \/ \E r \in Requests : Release(r) /\ Live(r) /\ OnlyJson
  \/ \E p \in Processes : Crash(p) /\ OnlyJson

BothFairSpec ==
  /\ BothInit /\ [][BothNext]_<<casVars, vars, store>>
  /\ store = "json" => Fairness
=============================================================================
