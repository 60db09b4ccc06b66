------------------------------ MODULE RpcQuorum ------------------------------
(***************************************************************************)
(* The RPC quorum of the fixed-address watcher                             *)
(* (listener/src/rpc-quorum.ts): several public endpoints are asked for    *)
(* the same Transfer log, and the value they report is believed only when  *)
(* enough of them agree.                                                   *)
(*                                                                         *)
(* Observations of ONE transfer are a function from where they come from   *)
(* to [value, confirmations]: <<r, k>> is the k-th time that the answer of *)
(* endpoint r (its position in the configured list) has the log.  Every    *)
(* log entry counts, so an endpoint whose answer has a log twice counts    *)
(* twice.                                                                  *)
(***************************************************************************)
EXTENDS Integers, FiniteSets

(* Math.max(1, Math.min(configuredCount, quorum))                          *)
quorumThreshold(configuredCount, quorum) ==
  LET least == IF configuredCount < quorum THEN configuredCount ELSE quorum
  IN  IF least < 1 THEN 1 ELSE least

Values(obs) == {obs[r].value : r \in DOMAIN obs}
Reporters(obs, v) == {r \in DOMAIN obs : obs[r].value = v}
Count(obs, v) == Cardinality(Reporters(obs, v))

(* The order in which the code collects observations.                      *)
CollectedBefore(p, q) == p[1] < q[1] \/ (p[1] = q[1] /\ p[2] <= q[2])

(* v's group was opened before w's: its first reporter comes earlier.      *)
OpenedBefore(obs, v, w) ==
  \E r \in Reporters(obs, v) : \A s \in Reporters(obs, w) : CollectedBefore(r, s)

(* g.count > top.count while scanning the groups in the order they opened: *)
(* the first of the largest groups.                                        *)
IsTop(obs, v) ==
  \A w \in Values(obs) :
    \/ Count(obs, w) < Count(obs, v)
    \/ Count(obs, w) = Count(obs, v) /\ OpenedBefore(obs, v, w)

Top(obs) == CHOOSE v \in Values(obs) : IsTop(obs, v)

(* Mutant: the deepest report counts.                                      *)
DeepestDepth(obs, v) ==
  CHOOSE d \in {obs[r].confirmations : r \in Reporters(obs, v)} :
    \A r \in Reporters(obs, v) : d >= obs[r].confirmations

(* g.minConf: the shallowest depth reported in the group of v.             *)
MinDepth(obs, v) ==
  CHOOSE d \in {obs[r].confirmations : r \in Reporters(obs, v)} :
    \A r \in Reporters(obs, v) : d <= obs[r].confirmations

Agreed(obs, threshold) ==
  DOMAIN obs # {} /\ Count(obs, Top(obs)) >= threshold

decideTransferQuorum(obs, threshold) ==
  IF Agreed(obs, threshold)
  THEN [status |-> "agreed", value |-> Top(obs),
        confirmations |-> MinDepth(obs, Top(obs))]
  ELSE [status |-> IF Cardinality(Values(obs)) > 1 THEN "conflict"
                   ELSE "insufficient"]
=============================================================================
