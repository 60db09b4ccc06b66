------------------------ MODULE SubscriptionCharger ------------------------
(***************************************************************************)
(* The worker that charges subscriptions (services/subscription_charger.ts  *)
(* and subscription_cron.ts over db/subscriptions.ts) and the customer's    *)
(* and merchant's routes beside it.                                         *)
(*                                                                         *)
(* A tick lists the subscriptions that are due and charges them one after   *)
(* the other, each from the copy the listing made: the transfer of one is   *)
(* awaited while the rest of the list grows old.  A process runs one tick   *)
(* at a time; several processes may share the database.  Time is counted in *)
(* periods, and a charge is for the period its copy says is due.            *)
(*                                                                         *)
(* External: the cluster, which lands a transfer and whose answer may be    *)
(* lost.                                                                    *)
(***************************************************************************)
EXTENDS Naturals, Sequences, FiniteSets

CONSTANTS Subs, Workers,
          PauseAfter,      \* failures in a row after which a subscription pauses
          MaxPeriod,       \* bound: periods
          MaxFailures,     \* bound: failures of a subscription
          MaxChargeFaults  \* bound: lost answers, failing audits and crashes

ASSUME ChargerAssumption == PauseAfter \in Nat \ {0} /\ IsFiniteSet(Subs)

VARIABLES period,   \* the time
          subStatus, due, fails, signed, \* the rows
          todo,     \* todo[w]: the copies the tick of w has yet to charge
          stage,    \* stage[w]: how far the first of them has come
          charged,  \* history: charged[<<s, d>>]: transfers landed for period d
          lost,     \* history: lost[s]: transfers the worker never recorded
          overlap,  \* history: overlap[s]: charges begun from an old copy, or beside another
          chargeFaults

subVars == <<subStatus, due, fails, signed>>
chargerVars == <<period, subVars, todo, stage, charged, lost, overlap, chargeFaults>>

Periods == 0 .. MaxPeriod

ChargerInit ==
  /\ period = 0
  /\ subStatus = [s \in Subs |-> "active"]
  /\ due = [s \in Subs |-> 0]
  /\ fails = [s \in Subs |-> 0]
  /\ signed = {}
  /\ todo = [w \in Workers |-> <<>>]
  /\ stage = [w \in Workers |-> "idle"]
  /\ charged = [x \in Subs \X Periods |-> 0]
  /\ lost = [s \in Subs |-> 0]
  /\ overlap = [s \in Subs |-> 0]
  /\ chargeFaults = 0

BecomePayable ==
  /\ period < MaxPeriod
  /\ period' = period + 1
  /\ UNCHANGED <<subVars, todo, stage, charged, lost, overlap, chargeFaults>>

(* The routes ---------------------------------------------------------------*)

Authorize(s) ==
  /\ subStatus[s] = "active"
  /\ signed' = signed \cup {s}
  /\ UNCHANGED <<period, subStatus, due, fails, todo, stage, charged, lost, overlap,
                 chargeFaults>>

SetStatus(s, from, to) ==
  /\ subStatus[s] \in from
  /\ subStatus' = [subStatus EXCEPT ![s] = to]
  /\ UNCHANGED <<period, due, fails, signed, todo, stage, charged, lost, overlap, chargeFaults>>

Cancel(s) == SetStatus(s, {"active", "paused"}, "canceled")
Pause(s) == SetStatus(s, {"active"}, "paused")

(* The failures are not forgotten.                                          *)
Resume(s) == SetStatus(s, {"paused"}, "active")

(* The worker ---------------------------------------------------------------*)

Due == {s \in Subs : subStatus[s] = "active" /\ due[s] <= period}

(* listDueSubscriptions: the longest due first.                             *)
Listings ==
  {l \in [1 .. Cardinality(Due) -> [sub : Due, due : Periods, signed : BOOLEAN]] :
     /\ \A i \in DOMAIN l : l[i].due = due[l[i].sub] /\ l[i].signed = (l[i].sub \in signed)
     /\ \A i, j \in DOMAIN l : i < j => l[i].sub # l[j].sub /\ l[i].due <= l[j].due}

StartTick(w) ==
  /\ todo[w] = <<>>
  /\ Due # {}
  /\ \E l \in Listings : todo' = [todo EXCEPT ![w] = l]
  /\ UNCHANGED <<period, subVars, stage, charged, lost, overlap, chargeFaults>>

Copy(w) == Head(todo[w])

InHand(s) == {w \in Workers : stage[w] # "idle" /\ Copy(w).sub = s}

BeginTransfer(w) ==
  /\ todo[w] # <<>> /\ stage[w] = "idle"
  /\ Copy(w).signed
  /\ stage' = [stage EXCEPT ![w] = "sent"]
  /\ LET s == Copy(w).sub
     IN  overlap' = IF InHand(s) # {} \/ due[s] # Copy(w).due
                    THEN [overlap EXCEPT ![s] = @ + 1] ELSE overlap
  /\ UNCHANGED <<period, subVars, todo, charged, lost, chargeFaults>>

LandCharge(w) ==
  /\ stage[w] = "sent"
  /\ stage' = [stage EXCEPT ![w] = "landed"]
  /\ charged' = [charged EXCEPT ![<<Copy(w).sub, Copy(w).due>>] = @ + 1]
  /\ UNCHANGED <<period, subVars, todo, lost, overlap, chargeFaults>>

GoOn(w) ==
  /\ todo' = [todo EXCEPT ![w] = Tail(@)]
  /\ stage' = [stage EXCEPT ![w] = "idle"]

(* recordSubscriptionCharge: one period after the one of the copy.          *)
RecordCharge(w) ==
  LET s == Copy(w).sub
  IN  /\ due' = [due EXCEPT ![s] = Copy(w).due + 1]
      /\ fails' = [fails EXCEPT ![s] = 0]

Charge(w) ==
  /\ stage[w] = "landed"
  /\ RecordCharge(w)
  /\ GoOn(w)
  /\ UNCHANGED <<period, subStatus, signed, charged, lost, overlap, chargeFaults>>

(* recordSubscriptionFailure, after n failures.                             *)
RecordFailure(s, n) ==
  /\ n < MaxFailures
  /\ fails' = [fails EXCEPT ![s] = n + 1]
  /\ subStatus' = IF n + 1 >= PauseAfter /\ subStatus[s] = "active"
                  THEN [subStatus EXCEPT ![s] = "paused"] ELSE subStatus

(* No authorisation, or a transfer that fails.                              *)
ChargeFails(w) ==
  /\ todo[w] # <<>>
  /\ IF Copy(w).signed THEN stage[w] = "sent" ELSE stage[w] = "idle"
  /\ RecordFailure(Copy(w).sub, fails[Copy(w).sub])
  /\ GoOn(w)
  /\ UNCHANGED <<period, due, signed, charged, lost, overlap, chargeFaults>>

ChargeFault ==
  /\ chargeFaults < MaxChargeFaults
  /\ chargeFaults' = chargeFaults + 1

Lose(w) ==
  lost' = IF stage[w] = "landed" THEN [lost EXCEPT ![Copy(w).sub] = @ + 1] ELSE lost

(* The transfer landed, and its call throws all the same.                   *)
LoseAnswer(w) ==
  /\ ChargeFault
  /\ stage[w] = "landed"
  /\ Lose(w)
  /\ RecordFailure(Copy(w).sub, fails[Copy(w).sub])
  /\ GoOn(w)
  /\ UNCHANGED <<period, due, signed, charged, overlap>>

(* Mutant: the audit is written before the charge is recorded.              *)
ChargeAuditFailsFirst(w) ==
  /\ ChargeFault
  /\ stage[w] = "landed"
  /\ RecordFailure(Copy(w).sub, fails[Copy(w).sub])
  /\ GoOn(w)
  /\ UNCHANGED <<period, due, signed, charged, lost, overlap>>

(* appendAudit throws after the charge was recorded: counted as a failure.  *)
ChargeAuditFails(w) ==
  /\ ChargeFault
  /\ stage[w] = "landed"
  /\ due' = [due EXCEPT ![Copy(w).sub] = Copy(w).due + 1]
  /\ RecordFailure(Copy(w).sub, 0)
  /\ GoOn(w)
  /\ UNCHANGED <<period, signed, charged, lost, overlap>>

(* The tick stops: a crash of the process, or an error of the database.     *)
StopTick(w) ==
  /\ ChargeFault
  /\ todo[w] # <<>>
  /\ todo' = [todo EXCEPT ![w] = <<>>]
  /\ stage' = [stage EXCEPT ![w] = "idle"]
  /\ Lose(w)
  /\ UNCHANGED <<period, subVars, charged, overlap>>

ChargerNext ==
  \/ BecomePayable
  \/ \E s \in Subs : Authorize(s) \/ Cancel(s) \/ Pause(s) \/ Resume(s)
  \/ \E w \in Workers : \/ StartTick(w) \/ BeginTransfer(w) \/ LandCharge(w) \/ Charge(w)
                        \/ ChargeFails(w) \/ LoseAnswer(w) \/ ChargeAuditFails(w) \/ StopTick(w)

ChargerSpec == ChargerInit /\ [][ChargerNext]_chargerVars

(* A period is paid for once, unless the worker lost a transfer of the      *)
(* subscription or began one from an old copy or beside another worker; and *)
(* the date moves past no period that is not paid for.                      *)
ChargesAreExplained ==
  \A s \in Subs : \A d \in Periods :
    /\ charged[<<s, d>>] <= 1 + lost[s] + overlap[s]
    /\ d < due[s] => charged[<<s, d>>] > 0

(* By hand: a period is paid for once, as the comment above                 *)
(* chargeDueSubscriptions has it of two workers.  Violated by two of them.  *)
OneChargePerPeriod ==
  chargeFaults = 0 => \A x \in Subs \X Periods : charged[x] <= 1

(* By hand: no charge begins once the subscription is canceled.  Violated   *)
(* while the copies of a listing wait.                                      *)
CanceledIsNotCharged ==
  [][\A w \in Workers : stage[w] = "idle" /\ stage'[w] = "sent" =>
       subStatus[Copy(w).sub] # "canceled"]_chargerVars

ChargerTypeOK ==
  /\ period \in Periods
  /\ subStatus \in [Subs -> {"active", "paused", "canceled"}]
  /\ due \in [Subs -> 0 .. MaxPeriod + 1]
  /\ fails \in [Subs -> 0 .. MaxFailures]
  /\ signed \subseteq Subs
  /\ \A w \in Workers : todo[w] = <<>> => stage[w] = "idle"
  /\ stage \in [Workers -> {"idle", "sent", "landed"}]
  /\ charged \in [Subs \X Periods -> Nat]
  /\ lost \in [Subs -> Nat] /\ overlap \in [Subs -> Nat]
  /\ chargeFaults \in 0 .. MaxChargeFaults
=============================================================================
