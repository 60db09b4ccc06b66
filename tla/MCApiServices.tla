--------------------------- MODULE MCApiServices ---------------------------
(* Services of the API: payouts and refunds, bridge intents, subscriptions, *)
(* payments between agents, webhook jobs, incidents and the program         *)
(* monitor.  They share no state, and so are explored one part at a time:   *)
(* `part` tells which.                                                      *)
(*                                                                          *)
(* One payment leaves by any of three ways.  Two syncs, two burns, one of   *)
(* them in two spellings, and two intents meet.  Two workers charge one     *)
(* subscription over two periods.                                           *)
(* Three requests to pay share a key and a fourth does not; the second and  *)
(* third share a proof, and the cap holds two or three of them.  A job runs *)
(* beside its double and two retries.  Two boards tell of one incident of   *)
(* sev1.  A tick by hand runs beside the timer's, over restarts.            *)
EXTENDS PayoutRails, BridgeIntents, SubscriptionCharger, AgentPay, WebhookJobs,
        IncidentBoard, ProgramMonitor

VARIABLE part

MCBurnOf == [h \in {"b", "B", "c"} |-> IF h = "c" THEN "second" ELSE "first"]

MCPayments == 1 .. 4
MCKeyOf == <<"k", "k", "k", "l">>
MCProofOf == <<"a", "b", "b", "c">>
MCBodyOf == <<"x", "x", "y", "x">>
MCAmountOf == <<1, 1, 2, 2>>

Parts == {"payouts", "bridge", "charger", "pay", "jobs", "board", "monitor"}

allVars == <<payoutVars, bridgeVars, chargerVars, payVars, jobVars, boardVars, monitorVars, part>>

Init == /\ PayoutInit /\ BridgeInit /\ ChargerInit /\ PayInit
        /\ JobsInit /\ BoardInit /\ MonitorInit
        /\ part \in Parts

OnlyPayouts ==
  part = "payouts" /\ UNCHANGED <<bridgeVars, chargerVars, payVars, jobVars,
                                  boardVars, monitorVars, part>>
OnlyBridge ==
  part = "bridge" /\ UNCHANGED <<payoutVars, chargerVars, payVars, jobVars,
                                  boardVars, monitorVars, part>>
OnlyCharger ==
  part = "charger" /\ UNCHANGED <<payoutVars, bridgeVars, payVars, jobVars,
                                  boardVars, monitorVars, part>>
OnlyPay ==
  part = "pay" /\ UNCHANGED <<payoutVars, bridgeVars, chargerVars, jobVars,
                                  boardVars, monitorVars, part>>
OnlyJobs ==
  part = "jobs" /\ UNCHANGED <<payoutVars, bridgeVars, chargerVars, payVars,
                                  boardVars, monitorVars, part>>
OnlyBoard ==
  part = "board" /\ UNCHANGED <<payoutVars, bridgeVars, chargerVars, payVars,
                                  jobVars, monitorVars, part>>
OnlyMonitor ==
  part = "monitor" /\ UNCHANGED <<payoutVars, bridgeVars, chargerVars, payVars,
                                  jobVars, boardVars, part>>

Next ==
  \/ \E p \in Paids : CompletePayment(p) /\ OnlyPayouts
  \/ \E w \in Rails : EnableRail(w) /\ OnlyPayouts
  \/ \E w \in Rails : DisableRail(w) /\ OnlyPayouts
  \/ \E x \in Outs : SettleToRail(x) /\ OnlyPayouts
  \/ \E x \in Outs : Refund(x) /\ OnlyPayouts
  \/ \E x \in Outs : MoveMoney(x) /\ OnlyPayouts
  \/ \E x \in Outs : Confirm(x) /\ OnlyPayouts
  \/ \E x \in Outs : Reject(x) /\ OnlyPayouts
  \/ \E x \in Outs : LoseReply(x) /\ OnlyPayouts
  \/ \E x \in Outs : AuditFails(x) /\ OnlyPayouts
  \/ ApiRestarts /\ OnlyPayouts
  \/ \E i \in Intents : QuoteBridgeIntent(i) /\ OnlyBridge
  \/ \E i \in Intents, h \in Hashes : RecordSourceTransaction(i, h) /\ OnlyBridge
  \/ \E i \in Intents : AttestBurn(i) /\ OnlyBridge
  \/ \E s \in Syncs, i \in Intents : SyncReads(s, i) /\ OnlyBridge
  \/ \E s \in Syncs, i \in Intents : SyncAttested(s, i) /\ OnlyBridge
  \/ \E s \in Syncs, i \in Intents : SyncUnconfirmed(s, i) /\ OnlyBridge
  \/ \E s \in Syncs, i \in Intents : SyncFails(s, i) /\ OnlyBridge
  \/ \E i \in Intents : CompleteBridgeIntent(i) /\ OnlyBridge
  \/ BecomePayable /\ OnlyCharger
  \/ \E s \in Subs : Authorize(s) /\ OnlyCharger
  \/ \E s \in Subs : Cancel(s) /\ OnlyCharger
  \/ \E s \in Subs : Pause(s) /\ OnlyCharger
  \/ \E s \in Subs : Resume(s) /\ OnlyCharger
  \/ \E w \in Workers : StartTick(w) /\ OnlyCharger
  \/ \E w \in Workers : BeginTransfer(w) /\ OnlyCharger
  \/ \E w \in Workers : LandCharge(w) /\ OnlyCharger
  \/ \E w \in Workers : Charge(w) /\ OnlyCharger
  \/ \E w \in Workers : ChargeFails(w) /\ OnlyCharger
  \/ \E w \in Workers : LoseAnswer(w) /\ OnlyCharger
  \/ \E w \in Workers : ChargeAuditFails(w) /\ OnlyCharger
  \/ \E w \in Workers : StopTick(w) /\ OnlyCharger
  \/ \E r \in Payments : AnswerFromCache(r) /\ OnlyPay
  \/ \E r \in Payments : RejectProof(r) /\ OnlyPay
  \/ \E r \in Payments : RejectOverCap(r) /\ OnlyPay
  \/ \E r \in Payments : BeginPayment(r) /\ OnlyPay
  \/ \E r \in Payments : LandPayment(r) /\ OnlyPay
  \/ \E r \in Payments : AnswerPayment(r) /\ OnlyPay
  \/ \E r \in Payments : TransferFails(r) /\ OnlyPay
  \/ \E r \in Payments : TransferTimesOut(r) /\ OnlyPay
  \/ \E r \in Payments : CacheFails(r) /\ OnlyPay
  \/ PayRestarts /\ OnlyPay
  \/ Enqueue /\ OnlyJobs
  \/ \E x \in Runs : StartJob(x) /\ OnlyJobs
  \/ \E x \in Runs : RetryByHand(x) /\ OnlyJobs
  \/ \E x \in Runs : Accept(x) /\ OnlyJobs
  \/ \E x \in Runs : AcceptUnheard(x) /\ OnlyJobs
  \/ \E x \in Runs : Refuse(x, "refused") /\ OnlyJobs
  \/ \E x \in Runs : Refuse(x, "final") /\ OnlyJobs
  \/ \E x \in Runs : Deliver(x) /\ OnlyJobs
  \/ \E x \in Runs : DeadLetter(x) /\ OnlyJobs
  \/ \E x \in Runs : TryAgain(x) /\ OnlyJobs
  \/ \E x \in Runs : HandOutAgain(x) /\ OnlyJobs
  \/ \E x \in Runs : DieRunning(x) /\ OnlyJobs
  \/ \E x \in Runs : FinalizeFails(x) /\ OnlyJobs
  \/ \E b \in Boards, i \in Incidents, kill \in BOOLEAN : Open(b, i, kill) /\ OnlyBoard
  \/ \E b \in Boards, i \in Incidents, status \in {"investigating", "identified", "monitoring"},
        kill \in {"on", "off", "same"} : PostUpdate(b, i, status, kill) /\ OnlyBoard
  \/ \E b \in Boards, i \in Incidents : Resolve(b, i) /\ OnlyBoard
  \/ \E b \in Boards : Read(b) /\ OnlyBoard
  \/ \E b \in Boards : RestartBoard(b) /\ OnlyBoard
  \/ \E k \in Alerts : Worsen(k) /\ OnlyMonitor
  \/ \E k \in Alerts : Recover(k) /\ OnlyMonitor
  \/ \E t \in Ticks : StartMonitorTick(t) /\ OnlyMonitor
  \/ \E t \in Ticks : AnswerPage(t) /\ OnlyMonitor
  \/ Close /\ OnlyMonitor
  \/ RestartMonitor /\ OnlyMonitor

Spec == Init /\ [][Next]_allVars

(* One type invariant for the parts.                                        *)
TypeOK ==
  /\ PayoutTypeOK /\ BridgeTypeOK /\ ChargerTypeOK /\ AgentPayTypeOK
  /\ JobsTypeOK /\ BoardTypeOK /\ MonitorTypeOK
=============================================================================
