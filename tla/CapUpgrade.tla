----------------------------- MODULE CapUpgrade -----------------------------
(***************************************************************************)
(* The automation that raises the per-invoice cap of zettapay-core once it *)
(* has been live for some days (packages/api/src/beta/cap_upgrade.ts, its  *)
(* cron in services/cap_upgrade_cron.ts and its broadcaster in             *)
(* beta/solana_cap_broadcaster.ts).  A tick looks for the row of the       *)
(* upgrade in the audit journal and at the alerts, awaits the broadcast    *)
(* and appends the row; the row keeps later ticks from raising again.      *)
(*                                                                         *)
(* A tick is synchronous up to the broadcast.  The transaction may land    *)
(* although the broadcast throws, and after the process is gone.           *)
(***************************************************************************)
EXTENDS ZettapayCore, FiniteSets

CONSTANTS TimerTicks,    \* ticks of the interval that may overlap
          ManualTicks,   \* calls of the handle's tick()
          Authority,     \* the wallet whose secret the cron holds
          RaisedCap,     \* maxInvoiceBaseUnits of the schedule
          MaxFailures,   \* bound: ticks that fail although their transaction could land
          MaxRestarts    \* bound: restarts of the cron worker

VARIABLES due,           \* the days since the launch have passed
          alerts,        \* the program monitor has an alert
          wired,         \* the process was started with the authority's secret
          running,       \* the guard of the interval
          tick,          \* tick[k]: "idle", or "sending" while the broadcast is awaited
          sent,          \* sent[k]: the transaction of k: "no", "sent", "landed" or "skipped"
          stray,         \* transactions that no tick waits for any more
          rows,          \* rows of the upgrade in the audit journal
          raised,        \* transactions of the cron that landed
          failures, restarts

cronVars == <<due, alerts, wired, running, tick, sent, stray, rows, raised,
              failures, restarts>>
capVars == <<coreVars, cronVars>>

Ticks == TimerTicks \cup ManualTicks

ASSUME CronAssumption == IsFiniteSet(Ticks)

MayLand == config.authority = Authority

CronInit ==
  /\ due = FALSE
  /\ alerts \in BOOLEAN
  /\ wired \in BOOLEAN
  /\ running = FALSE
  /\ tick = [k \in Ticks |-> "idle"]
  /\ sent = [k \in Ticks |-> "no"]
  /\ stray = 0 /\ rows = 0 /\ raised = 0
  /\ failures = 0 /\ restarts = 0

(* The world: the date comes, alerts come and go.                          *)
BecomeDue ==
  /\ ~due
  /\ due' = TRUE
  /\ UNCHANGED <<coreVars, alerts, wired, running, tick, sent, stray, rows, raised,
                 failures, restarts>>

ChangeAlerts ==
  /\ alerts' = ~alerts
  /\ UNCHANGED <<coreVars, due, wired, running, tick, sent, stray, rows, raised,
                 failures, restarts>>

(* not_due, already_applied and blocked_health end the tick at once.       *)
Proceeds == due /\ rows = 0 /\ ~alerts

(* Mutant: the guard of the interval is dropped.                           *)
StartTickUnguarded(k) ==
  /\ tick[k] = "idle"
  /\ Proceeds
  /\ k \in TimerTicks \/ sent[k] = "no"
  /\ tick' = [tick EXCEPT ![k] = "sending"]
  /\ sent' = [sent EXCEPT ![k] = IF wired THEN "sent" ELSE "skipped"]
  /\ UNCHANGED <<coreVars, due, alerts, wired, running, stray, rows, raised,
                 failures, restarts>>

(* A tick that goes on to broadcast, or to skip it without a secret.  The  *)
(* interval's ticks wait for each other; tick() has no such guard (bound:  *)
(* each of its calls is made once).                                        *)
StartTick(k) ==
  /\ tick[k] = "idle"
  /\ Proceeds
  /\ IF k \in TimerTicks THEN ~running /\ running' = TRUE
                         ELSE sent[k] = "no" /\ UNCHANGED running
  /\ tick' = [tick EXCEPT ![k] = "sending"]
  /\ sent' = [sent EXCEPT ![k] = IF wired THEN "sent" ELSE "skipped"]
  /\ UNCHANGED <<coreVars, due, alerts, wired, stray, rows, raised, failures, restarts>>

(* The program executes the transaction of a tick.                         *)
Land(k) ==
  /\ sent[k] = "sent" /\ tick[k] = "sending"
  /\ SetMaxInvoiceAmount(Authority, RaisedCap)
  /\ sent' = [sent EXCEPT ![k] = "landed"]
  /\ raised' = raised + 1
  /\ UNCHANGED <<due, alerts, wired, running, tick, stray, rows, failures, restarts>>

(* The tick k is over, with its guard.                                     *)
Release(k) == running' = (running /\ k \notin TimerTicks)

(* The broadcast is confirmed, or was skipped, which is recorded as well:  *)
(* the row is appended in the same turn.                                   *)
TickApplied(k) ==
  /\ tick[k] = "sending" /\ sent[k] \in {"landed", "skipped"}
  /\ rows' = rows + 1
  /\ tick' = [tick EXCEPT ![k] = "idle"]
  /\ Release(k)
  /\ UNCHANGED <<coreVars, due, alerts, wired, sent, stray, raised, failures, restarts>>

(* The program refuses the transaction: it was sent for nothing.           *)
Refused(k) == sent[k] = "sent" /\ ~MayLand

(* Mutant: a tick that failed keeps the guard.                             *)
TickFailsRunning(k) ==
  /\ tick[k] = "sending"
  /\ Refused(k) \/ failures < MaxFailures
  /\ failures' = IF Refused(k) THEN failures ELSE failures + 1
  /\ tick' = [tick EXCEPT ![k] = "idle"]
  /\ stray' = IF sent[k] = "sent" /\ ~Refused(k) THEN stray + 1 ELSE stray
  /\ UNCHANGED <<coreVars, due, alerts, wired, running, sent, rows, raised, restarts>>

(* The broadcast throws, or the row cannot be appended: no row, and a next *)
(* tick tries again, whether or not the transaction lands.                 *)
TickFails(k) ==
  /\ tick[k] = "sending"
  /\ Refused(k) \/ failures < MaxFailures
  /\ failures' = IF Refused(k) THEN failures ELSE failures + 1
  /\ tick' = [tick EXCEPT ![k] = "idle"]
  /\ stray' = IF sent[k] = "sent" /\ ~Refused(k) THEN stray + 1 ELSE stray
  /\ Release(k)
  /\ UNCHANGED <<coreVars, due, alerts, wired, sent, rows, raised, restarts>>

(* A transaction nobody waits for lands, or its blockhash expires.         *)
StrayLands ==
  /\ stray > 0
  /\ SetMaxInvoiceAmount(Authority, RaisedCap)
  /\ stray' = stray - 1
  /\ raised' = raised + 1
  /\ UNCHANGED <<due, alerts, wired, running, tick, sent, rows, failures, restarts>>

StrayExpires ==
  /\ stray > 0
  /\ stray' = stray - 1
  /\ UNCHANGED <<coreVars, due, alerts, wired, running, tick, sent, rows, raised,
                 failures, restarts>>

(* The worker is replaced, perhaps with another environment; a transaction *)
(* that was sent stays on its way.                                         *)
Restart ==
  /\ restarts < MaxRestarts
  /\ restarts' = restarts + 1
  /\ wired' \in BOOLEAN
  /\ running' = FALSE
  /\ tick' = [k \in Ticks |-> "idle"]
  /\ stray' = stray + Cardinality({k \in Ticks : tick[k] = "sending" /\ sent[k] = "sent"})
  /\ UNCHANGED <<coreVars, due, alerts, sent, rows, raised, failures>>

CronNext ==
  \/ BecomeDue \/ ChangeAlerts \/ StrayLands \/ StrayExpires \/ Restart
  \/ \E k \in Ticks : \/ StartTick(k) \/ Land(k)
                      \/ TickApplied(k) \/ TickFails(k)

(* The interval keeps firing, a call to the RPC ends, and a transaction    *)
(* that may land does.                                                     *)
CronFairness ==
  /\ WF_capVars(BecomeDue)
  /\ WF_capVars(\E k \in TimerTicks : StartTick(k))
  /\ \A k \in Ticks : /\ WF_capVars(Land(k))
                      /\ WF_capVars(TickApplied(k) \/ TickFails(k))

(* Beside the cron, anyone may use the program.                            *)
CapSpec == CoreInit /\ CronInit /\ [][CronNext \/ (CoreNext /\ UNCHANGED cronVars)]_capVars

-----------------------------------------------------------------------------
CronTypeOK ==
  /\ {due, alerts, wired, running} \subseteq BOOLEAN
  /\ tick \in [Ticks -> {"idle", "sending"}]
  /\ sent \in [Ticks -> {"no", "sent", "landed", "skipped"}]
  /\ {stray, rows, raised, failures, restarts} \subseteq Nat

(* The cap is raised once and recorded once, whenever the ticks of the     *)
(* interval fall, as long as no tick fails, nobody calls tick() and the    *)
(* worker is not replaced: the row is looked up before the broadcast and   *)
(* written after it (cap_upgrade.ts:147-151, "we cannot apply the upgrade  *)
(* twice").                                                                *)
Undisturbed == failures = 0 /\ restarts = 0 /\ \A k \in ManualTicks : sent[k] = "no"

AppliedOnce == Undisturbed => raised <= 1 /\ rows <= 1

(* Once the day has come, and the monitor is quiet and the program takes   *)
(* the cron's authority for good, the upgrade is recorded, over ticks that *)
(* fail and a restart ("the next tick retries").                           *)
UpgradeIsRecorded == <>[](~alerts /\ MayLand) => <>(rows > 0)

(* What cap_upgrade.ts:147-151 says without these conditions.              *)
NeverRaisedTwice == raised <= 1
=============================================================================
